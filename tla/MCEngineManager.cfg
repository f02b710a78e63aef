SPECIFICATION Spec
CONSTANTS
    NUsers = 2
    Dedicated <- NoUser
    NProcs = 1
    Ops <- AdminOps
    EarlyCalls = FALSE
    MaxCalls = 2
    MaxTasks = 5
    MaxChildren = 2
    MaxCrashes = 1
    MaxTimeouts = 0
INVARIANTS
    TypeOK
    SingleEngine
    LiveEngineKnown
    RemovedWhileStopped
PROPERTIES
    ImplementsMutex
CHECK_DEADLOCK FALSE
