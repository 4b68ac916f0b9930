SPECIFICATION Spec
CONSTANTS
    Tasks <- TwoTasks
    Nodes <- TwoNodes
    Lanes <- OneLane
    NoNode = "nobody"
    NoLane = "none"
    Lane <- SharedLane
    Priority <- SameBand
    Created <- InOrder
    Requires <- NoRequires
    Caps <- NoCaps
    MaxConcurrent <- OneSlot
    LeaseIds = {1, 2}
    RetryLimit = 1
    Threads = {"loop", "auto"}
    Calls = {"submit", "advance", "report_lane"}
    DepChoices <- NoDeps
    Flaky = {"n2"}
    MaxRestarts = 1
    NoTask = 0
    NoLease = 0
INVARIANTS
    LaneExclusive
    SingleLiveLease
PROPERTIES
    LaneNotRehomed
CHECK_DEADLOCK FALSE
