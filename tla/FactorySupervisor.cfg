CONSTANTS
    restart_attempts = 2
    restart_interval = 2
    MaxGroups = 4
    MaxTime = 2
SPECIFICATION FairSpec
INVARIANTS
    OneServes
    NoGroupLeft
PROPERTIES
    RestartsLimited
    CrashedGroupReturns
    StopsEnd
CHECK_DEADLOCK FALSE
