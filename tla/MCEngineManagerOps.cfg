SPECIFICATION Spec
CONSTANTS
    NUsers = 2
    Dedicated <- FirstUser
    NProcs = 1
    Ops <- UserOps
    EarlyCalls = FALSE
    MaxCalls = 2
    MaxTasks = 6
    MaxChildren = 6
    MaxCrashes = 0
    MaxTimeouts = 2
INVARIANTS
    SingleEngine
    DeletedStaysDown
CHECK_DEADLOCK FALSE
