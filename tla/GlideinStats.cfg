CONSTANTS
    g1 = g1
    g2 = g2
    Glideins <- TwoGlideins
    Logged <- SomeEvents
    MaxTime = 3
    Lead = 1
    Fresh = 0
    GiveUp = 2
SPECIFICATION Spec
INVARIANTS
    ReportedOnce
PROPERTIES
    SettledReportsAll
    StaleOnlyWithinASecond
CHECK_DEADLOCK FALSE
