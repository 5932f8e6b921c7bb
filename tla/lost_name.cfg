SPECIFICATION Spec
CONSTANTS
    Pools = {win1, win2}
    WindowsPools = {win1, win2}
    MaxCalls = 2
    win1 = win1
    win2 = win2
INVARIANT NameIsRestored
CHECK_DEADLOCK FALSE
