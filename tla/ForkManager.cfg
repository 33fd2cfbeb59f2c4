CONSTANTS
    k1 = k1
    k2 = k2
    k3 = k3
    k4 = k4
    Keys <- FourKeys
    MaxForks = 2
    CanFail <- AllBad
SPECIFICATION FairSpec
INVARIANTS
    BoundedChildren
    CompleteResults
PROPERTIES
    EndsOrStarves
    PoolSpec
CHECK_DEADLOCK FALSE
