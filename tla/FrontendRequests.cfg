SPECIFICATION Spec
CONSTANTS
    NrEntries = 1
    NrSchedds = 2
    Kinds = {"all"}
    Accepted <- MCAccepted
    RequestCpus <- MCRequestCpus
    EntryCpus <- MCEntryCpus
    Unit = 1
    Jobs <- MCJobs
    KindAt <- MCKindAt
    max_running = 3
    max_vms_idle = 2
    curb_vms_idle = 1
    total_max_glideins <- MCTotal
    total_curb_glideins <- MCCurb
    total_max_vms_idle <- MCTotal
    total_curb_vms_idle <- MCCurb
    max_idle = 2
    reserve_idle = 0
    min_running = 0
    ramp_up_attenuation = 3
    fraction_percent = 100
    QuietIterations = 0
    EmptyIterations = 1
    removal_type = "NO"
    removal_wait = 0
    removal_requests_tracking = FALSE
    removal_margin = 0
    max_submits = 2
    MaxFailures = 2
INVARIANTS
    TypeOK
    GlideinsBounded
PROPERTIES
    EveryJobServed
    Drains
CHECK_DEADLOCK FALSE
