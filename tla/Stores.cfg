SPECIFICATION StSpec
CONSTANTS
    Tasks <- MCTasks
    Nodes <- MCNodes
    Lanes <- MCLanes
    NoNode = "nobody"
    NoLane = "none"
    Lane <- MCLane
    Priority <- MCPriority
    Created <- MCCreated
    Requires <- MCRequires
    Caps <- MCCaps
    MaxConcurrent <- MCMaxConcurrent
    NodeRank <- MCNodeRank
    Flaky = {"n2"}
    Drainable = {"n1"}
    PgTasks = {"p", "q"}
    PgNodes = {"m"}
    PgCap <- MCPgCap
    PgLane <- MCPgLane
    PgDeps <- MCPgDeps
    PgCallers = {x, y}
    PgRetryLimit = 1
    PgLeases = 2
    PgMaxCalls = 7
    MemTasks = {"p", "q", "r"}
    MemNodes = {m, n}
    MemCap <- MCMemCap
    MemLane <- MCMemLane
    MemDeps <- MCMemDeps
    MemThreads = {x, y}
    MemRetryLimit = 1
    MemLeases = 2
    MemMaxCalls = 6
    SyNodes = {"a", "b"}
    SyTasks = {"t"}
    SyTries = 2
    SyEvents = 3
SYMMETRY MCAlike
INVARIANTS
    FairPass
    PassMeetsPlan
    PgOneLiveLease
    MemLanesSerial
    SyAppliedOnce
PROPERTIES
    PgImplementsStore
    
    SyNeverBack
CHECK_DEADLOCK FALSE
