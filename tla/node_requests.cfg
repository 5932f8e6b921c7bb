SPECIFICATION RequestsSpec
CONSTANTS
    Pools = {linux1, win1, win2}
    WindowsPools = {win1, win2}
    MaxCalls = 2
    GateLists <- MCGateLists
    FlagSets <- MCFlagSets
    CustomSets <- MCCustomSets
    Uses = 2
    PoolLists <- MCPoolLists
    Clouds <- MCClouds
    Regions <- MCRegions
    Galleries <- MCGalleries
    Versions <- MCVersions
    NotOnWindows <- MCNotOnWindows
    WindowsOnly <- MCWindowsOnly
    DefaultRelease <- MCDefaultRelease
    Releases = 2
    linux1 = linux1
    win1 = win1
    win2 = win2
INVARIANTS
    RequestsTypeOK SeesItsOwnCloud NameIsTheJsonsOnly FlagsInForce TemplatesAgree TablesAgree
    VersionsFit
PROPERTY SameAnswerAgain
CHECK_DEADLOCK FALSE
