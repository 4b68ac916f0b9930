SPECIFICATION WaSpec
CONSTANTS
    Issues = {"a", "z"}
    Repos = {"web"}
    RepoOf <- MCRepoOf
    Iid <- MCIid
    LaneOf <- MCLaneOf
    Band <- MCBand
    Area <- MCArea
    Created <- MCCreated
    Undated = {}
    Existing = {}
    Hindered = {"a"}
    BlockedBy <- MCNoBlockers
    MaxBundle = 2
    MaxAreas = 1
    Window = FALSE
    DedupFull = TRUE
    Pollers = {"poller"}
    Policies = {"off", "grouped"}
    Faults = {"fail", "restart", "store"}
    MaxUpsets = 1
    MaxPuts = 0
    RateLimit = 1
    MaxTasks = 3
    MoPollers = {"p1", "p2"}
    MoHeads = 2
    MoCredits = {1}
    MoThreshold = 2
    MoGrace = 1
    MoMax = 2
    MoFails = 2
    HkIds = {"u"}
    HkRetries = 1
    MoEvents = 3
PROPERTIES
    Ingested
    MoBackstop
    MoPersistentIsTold
CHECK_DEADLOCK FALSE
