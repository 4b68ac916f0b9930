SPECIFICATION Spec
CONSTANTS
    Tasks <- TwoTasks
    Lanes <- OneLane
    Lane <- Mixed
    NoLane = "none"
    Modes = {TRUE, FALSE}
    MaxConcurrent = 1
    QueueLimit = 1
    MaxRetries = 1
    MaxAttempts = 2
    Ends = {"good", "asks", "refused"}
    Faults = {"cancel", "timeout", "elsewhere", "idle", "disk"}
    MaxLosses = 1
    MaxCrashes = 1
    NoTask = 0
INVARIANTS
    RecordsTracked
    OnePlace
