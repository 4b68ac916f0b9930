SPECIFICATION Spec
CONSTANTS
    Tasks <- TwoTasks
    Lanes <- OneLane
    Lane <- Shared
    NoLane = "none"
    Modes = {TRUE}
    MaxConcurrent = 2
    QueueLimit = 2
    MaxRetries = 1
    MaxAttempts = 3
    Ends = {"good", "asks", "junk", "refused", "partial", "crashed", "nothing"}
    Faults = {"cancel", "timeout", "recover", "again", "popen", "disk"}
    MaxLosses = 1
    MaxCrashes = 0
    NoTask = 0
INVARIANTS
    LaneSerial
    NoDuplicateWorker
    CompletedIsSound
