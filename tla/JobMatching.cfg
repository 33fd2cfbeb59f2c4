SPECIFICATION QueueSpec
CONSTANTS
    NrEntries = 3
    NrSchedds = 2
    Kinds = {"all", "two", "one", "none"}
    Accepted <- MCAccepted
    RequestCpus <- MCRequestCpus
    EntryCpus <- MCEntryCpus
    Unit = 6
    Clusters = {1, 2}
    Procs = {0, 1}
    MaxJobs = 4
INVARIANTS
    CountsAreTrue
    EveryJobCovered
