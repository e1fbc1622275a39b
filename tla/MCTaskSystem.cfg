CONSTANTS
    Tasks <- MCTasks
    First <- MCFirst
    Priority <- MCPriority
    MaxRun = 2
    Sleeps <- MCSleeps
    MsUnits = 2
    MsSec = 2
    Start = 2
    Horizon = 5

SPECIFICATION FairSpec

INVARIANTS
    MutualExclusion
    HandedOver
    JoinTold
    TimersExact

PROPERTIES
    StarvationFree
    SleepEnds
