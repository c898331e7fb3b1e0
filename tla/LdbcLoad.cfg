SPECIFICATION FairSpec
CONSTANTS
    Programs  = {"typedb2", "typedb3", "typedb3dry"}
    BatchSize = 2
    Workers   = 2
    MaxRuns   = 2
    Extracts  <- SomeExtracts
INVARIANTS
    LoadedButLateReplies
    NothingLeftBehind
    StoredOnce
    ThreadsFinish
PROPERTIES
    LoadEnds
CHECK_DEADLOCK FALSE
