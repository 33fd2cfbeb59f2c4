CONSTANTS
    MaxStarts = 2
    Frontends = {c1}
    Grace = 1
    MaxTime = 2
    MaxKeys = 3
SPECIFICATION Spec
PROPERTIES
    KeyKept
    OldKeyRetired
    ServedAgain
CHECK_DEADLOCK FALSE
