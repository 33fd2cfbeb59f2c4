CONSTANTS
    Groups = {g1, g2}
    mode = "slave"
    max_active = 1
    max_failures = 1
    max_lifetime = 1
    withdrawal_fails = TRUE
SPECIFICATION FairSpec
INVARIANTS
    OneGeneration
    WorksAlone
    WindowCounted
    AdsAccounted
PROPERTIES
    AbortsOnlyAfterFailures
    SlaveFollowsMaster
    IterationsEnd
