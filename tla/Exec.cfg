\* Two clients, two types.
CONSTANTS
    NumClients = 2
    Types = {NEW_ORDER, DELIVERY}
    None = None
    MaxTransactions = 3
SPECIFICATION FairExecSpec
INVARIANTS
    BatchesAddUp
    ReportNeedsEveryClient
    ReportedWhereCompleted
PROPERTIES
    ExecutionEnds
CHECK_DEADLOCK FALSE
