SPECIFICATION Spec
CONSTANTS
    Tasks <- TwoTasks
    Nodes <- TwoNodes
    Lanes <- OneLane
    NoNode = "nobody"
    NoLane = "none"
    Lane <- SharedLane
    Priority <- SameBand
    Created <- InOrder
    Requires <- NoRequires
    Caps <- NoCaps
    MaxConcurrent <- OneSlot
    LeaseIds = {1, 2}
    RetryLimit = 1
    Threads = {"loop", "scanner"}
    Calls = {"submit", "complete", "fail", "advance", "claim", "block", "answer", "unblock", "extend"}
    DepChoices <- OnFirst
    Flaky = {}
    MaxRestarts = 0
    NoTask = 0
    NoLease = 0
INVARIANTS
    OneOwnerNode
    BlockedAnswerable
PROPERTIES
    StartsAfterDeps
    TerminalFinal
CHECK_DEADLOCK FALSE
