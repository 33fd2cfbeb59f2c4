SPECIFICATION StartupSpec
CONSTANTS
    Confs <- MCConfs
    MaxRuns = 2
    MaxFailures = 1
PROPERTY UnchangedReuses
CHECK_DEADLOCK FALSE
