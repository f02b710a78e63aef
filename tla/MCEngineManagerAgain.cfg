SPECIFICATION Spec
CONSTANTS
    NUsers = 1
    Dedicated <- NoUser
    NProcs = 1
    Ops <- StopOps
    EarlyCalls = FALSE
    MaxCalls = 0
    MaxTasks = 3
    MaxChildren = 3
    MaxCrashes = 2
    MaxTimeouts = 0
INVARIANTS
    EveryDeathNoticed
CHECK_DEADLOCK FALSE
