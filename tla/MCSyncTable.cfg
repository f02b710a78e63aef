SPECIFICATION Spec
CONSTANTS
    Keys = {k1, k2}
    NoKey = NoKey
    States = {s1}
    Empty = Empty
    MaxTime = 2
    Ops <- FollowOps
    MaxPush = 1
    Slots = {1, 2}
INVARIANTS
    ReplicaFollows
PROPERTIES
    RecentWins
SYMMETRY KeySymmetry
