SPECIFICATION FairSpec
CONSTANTS
    Configs <- VhdConfigs
    Steps <- MCScript
    Files <- MCOrder
    OnImage <- MCBaked
    Brings <- MCBrings
    Racing <- MCUnawaited
    NoMarker <- MCUnmarked
    BootUnits <- MCInstallable
    ActiveAtBoot <- NoneActive
    Verdicts <- MCVerdicts
    Early <- MCEarly
    Polls = 2
    MaxRuns = 2
CHECK_DEADLOCK FALSE
PROPERTIES RunsEnd
