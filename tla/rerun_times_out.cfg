SPECIFICATION Spec
CONSTANTS
    Configs <- OneVhdConfig
    Steps <- MCScript
    Files <- MCOrder
    OnImage <- MCBaked
    Brings <- MCBrings
    Racing <- MCUnawaited
    NoMarker <- MCUnmarked
    BootUnits <- MCInstallable
    ActiveAtBoot <- MCActive
    Verdicts <- MCVerdicts
    Early <- MCEarly
    Polls = 2
    MaxRuns = 2
CHECK_DEADLOCK FALSE
PROPERTIES TimeoutMeansMissing
