SPECIFICATION FairSpec
CONSTANTS
    NUsers = 1
    Dedicated <- NoUser
    NProcs = 1
    Ops <- StopOps
    EarlyCalls = FALSE
    MaxCalls = 2
    MaxTasks = 5
    MaxChildren = 3
    MaxCrashes = 2
    MaxTimeouts = 0
INVARIANTS
    NoDeadEntry
PROPERTIES
    EveryUserRuns
    EveryCallReturns
    StopEnds
CHECK_DEADLOCK FALSE
