SPECIFICATION PartsSpec
CONSTANTS
    Calls <- NodeCalls
    UpdateTries = 10
    Others = 2
    Placed = {"bootstrap-kubeconfig", "kubeconfig"}
    Written = {"pki", "cpu_manager_state"}
    Starts = 5
    Boots = 3
    Moves = 2
    HostKills = 2
    RuleKills = 2
    RuleFailures = 2
    RuleReboots = 1
    DownloadTries = 3
    MarkTries = 2
    BootDelay = 10
    Attempts = 5
    Pause = 2
    StartMinutes = 3
    Hangs = 2
    Restarts = 1
    Horizon = 12
    Keys = {"role", "pool", "zone"}
    Wanted <- WantedLabels
    Other = "other"
    LabelFailures = 2
    LabelWrites = 2
    Own = "own"
    OtherVersions = {"newer"}
    ProxyVersion = "newer"
    ImageTries = 2
INVARIANTS
    PartsTypeOK SuccessMeansDone TriesAreTrue MoveKeepsFiles OneAddress RulesAreWhole
    WholeAtTheEnd AgentOutlivesRun DoneMeansLabelled SuccessHasKubelet
PROPERTIES
    TimedOutMeansMissing OnlyRuncmdHoldsAgain KillsWhenDue LeavesTheRest
    EveryPartEnds EveryPartSettles
CHECK_DEADLOCK FALSE
