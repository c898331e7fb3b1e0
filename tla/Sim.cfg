\* Three partitions on two threads, two agents, any handler may throw.
CONSTANTS
    NumPartitions = 3
    NumGroups = 2
    NumAgents = 2
    ActionsPerIteration = 1
    Parallelism = 2
    Iterations = 1
    MayFail = TRUE
SPECIFICATION FairSpec
INVARIANTS
    DrawsAreNotShared
    HandlersHaveSessions
    DrawsStayInBlock
PROPERTIES
    ReportsComplete
    SimulationEnds
CHECK_DEADLOCK FALSE
