SPECIFICATION SvSpec
CONSTANTS
    Issues = {"a", "b", "z"}
    Repos = {"web"}
    RepoOf <- MCRepoOf
    Iid <- MCIid
    LaneOf <- MCLaneOf
    Band <- MCBand
    Area <- MCArea
    Created <- MCCreated
    Undated = {"b", "z"}
    Existing = {"a"}
    Hindered = {"b"}
    BlockedBy <- MCNoBlockers
    MaxBundle = 2
    MaxAreas = 1
    Window = TRUE
    DedupFull = TRUE
    Pollers = {"poller"}
    Policies = {"each", "grouped"}
    Faults = {"store", "restart", "park", "cancel", "fail", "gitlab"}
    MaxUpsets = 1
    MaxPuts = 1
    RateLimit = 1
    MaxTasks = 2
    GtReviews = {"r1", "r2", "f"}
    GtForeign = {"f"}
    GtLands = {"l", "k"}
    GtLane <- MCGtLane
    GtTarget = "web!1"
    GtDeps <- MCGtDeps
    GtNames <- MCGtNames
    GtHeads = {1, 2}
    GtRetryLimit = 1
    GtMaxCalls = 6
INVARIANTS BacklogHeldOnce
PROPERTIES GtLandsOnPass
CHECK_DEADLOCK FALSE
