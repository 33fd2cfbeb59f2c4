SPECIFICATION StartupSpec
CONSTANTS
    Confs <- MCConfs
    MaxRuns = 2
    MaxFailures = 1
INVARIANTS
    CurrentIsConfigured
    PromiseKept
    RunsAsPromised
    OnlyFaultsFail
CHECK_DEADLOCK FALSE
