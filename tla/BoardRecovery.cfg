SPECIFICATION Spec
CONSTANTS
    Tasks <- TwoTasks
    Nodes <- OneNode
    Lanes <- OneLane
    NoNode = "nobody"
    NoLane = "none"
    Lane <- NoLanes
    Priority <- SameBand
    Created <- InOrder
    Requires <- NoRequires
    Caps <- NoCaps
    MaxConcurrent <- OneSlot
    LeaseIds = {1, 2}
    RetryLimit = 1
    Threads = {"loop", "auto"}
    Calls = {"submit", "trigger", "fail_requeue", "veto", "release", "recover", "detect_expired"}
    DepChoices <- NoDeps
    Flaky = {}
    MaxRestarts = 0
    NoTask = 0
    NoLease = 0
INVARIANTS
    TypeOK
    NoStranded
CHECK_DEADLOCK FALSE
