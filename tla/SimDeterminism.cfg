\* Two runs on two threads, no failure: the claim of Agent.kt's comment.
CONSTANTS
    NumPartitions = 2
    NumGroups = 2
    NumAgents = 1
    ActionsPerIteration = 1
    Parallelism = 2
    Iterations = 1
    MayFail = FALSE
SPECIFICATION Spec
INVARIANTS
    DeterministicSources
CHECK_DEADLOCK FALSE
