SPECIFICATION FairSpec
CONSTANTS
    Tasks <- TwoTasks
    Lanes <- OneLane
    Lane <- Shared
    NoLane = "none"
    Modes = {TRUE}
    MaxConcurrent = 1
    QueueLimit = 1
    MaxRetries = 1
    MaxAttempts = 3
    Ends = {"good", "refused"}
    Faults = {"cancel", "popen"}
    MaxLosses = 1
    MaxCrashes = 0
    NoTask = 0
PROPERTIES
    FinishedReported
    CancelStops
    Served
