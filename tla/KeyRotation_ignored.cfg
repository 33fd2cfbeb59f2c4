CONSTANTS
    MaxStarts = 2
    Frontends = {c1, c2}
    Grace = 1
    MaxTime = 2
    MaxKeys = 3
SPECIFICATION Spec
PROPERTIES
    OldWorkServed
CHECK_DEADLOCK FALSE
