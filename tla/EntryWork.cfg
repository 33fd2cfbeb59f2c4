CONSTANTS
    j1 = j1
    j2 = j2
    j3 = j3
    j4 = j4
    group1 = group1
    group2 = group2
    stranger = stranger
    cms = cms
    other = other
    Jobs <- FourJobs
    Requests <- AllClients
    SecClass <- ClassOf
    Demands <- SomeDemands
    Blacklisted <- Strangers
    EntryMaxGlideins = 2
    EntryMaxIdle = 2
    EntryMaxHeld = 2
    FeMaxGlideins = 1
    FeMaxIdle = 1
    FeMaxHeld = 1
    max_submits = 2
    max_removes = 2
    max_releases = 0
SPECIFICATION Spec
SYMMETRY Perms
INVARIANTS
    QueueBounded
    PictureCovers
PROPERTIES
    SubmitWithinRequest
    SubmitWithinLimits
    CleanupKeepsMargin
