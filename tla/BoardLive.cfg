SPECIFICATION FairSpec
CONSTANTS
    Tasks <- TwoTasks
    Nodes <- OneNode
    Lanes <- OneLane
    NoNode = "nobody"
    NoLane = "none"
    Lane <- NoLanes
    Priority <- SameBand
    Created <- InOrder
    Requires <- NoRequires
    Caps <- NoCaps
    MaxConcurrent <- OneSlot
    LeaseIds = {1, 2}
    RetryLimit = 1
    Threads = {"loop", "auto"}
    Calls = {"submit", "trigger", "complete", "cancel", "set_dependencies"}
    DepChoices <- OnFirst
    Flaky = {}
    MaxRestarts = 0
    NoTask = 0
    NoLease = 0
PROPERTIES
    CompletedNotReopened
    Reclaimed
    RequestsEnd
CHECK_DEADLOCK FALSE
