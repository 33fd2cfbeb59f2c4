CONSTANTS
    d1 = d1
    d2 = d2
    d3 = d3
    o1 = o1
    o2 = o2
    Daemons <- ThreeDaemons
    Observers <- TwoObservers
    NoPid = NoPid
    NoOne = NoOne
SPECIFICATION LockSpec
SYMMETRY Perms
INVARIANTS
    OneAtWork
    PidIsOwners
PROPERTIES
    ReportsARegistrant
CHECK_DEADLOCK FALSE
