SPECIFICATION Spec
CONSTANTS
    Configs <- ProxyConfig
    Steps <- MCScript
    Files <- MCOrder
    OnImage <- MCBaked
    Brings <- MCBrings
    Racing = {}
    NoMarker <- MCUnmarked
    BootUnits <- MCInstallable
    ActiveAtBoot <- MCActive
    Verdicts <- MCVerdicts
    Early <- MCEarly
    Polls = 2
    MaxRuns = 1
CHECK_DEADLOCK FALSE
INVARIANTS CommandsFindTheirFiles
