SPECIFICATION Spec
CONSTANTS
    Configs <- RerunConfigs
    Steps <- MCScript
    Files <- MCOrder
    OnImage <- MCBaked
    Brings <- MCBrings
    Racing <- MCUnawaited
    NoMarker <- MCUnmarked
    BootUnits <- MCInstallable
    ActiveAtBoot <- NoneActive
    Verdicts <- MCVerdicts
    Early <- MCEarly
    Polls = 2
    MaxRuns = 3
CHECK_DEADLOCK FALSE
INVARIANTS KubeletAfterCni CompleteNodeServes ZeroMeansComplete
PROPERTIES CompleteIsFinal ImplementsContract
