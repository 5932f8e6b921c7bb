CONSTANTS
    Nodes <- MCNodes
    None = None
    MaxTries = 2
    MaxLogged = 1
    MaxRestarts = 1
SPECIFICATION FairSpec
INVARIANTS TypeOK FindsWhatItNeeds LooksFirst
PROPERTIES SuccessJoins RunEnds
CHECK_DEADLOCK FALSE
