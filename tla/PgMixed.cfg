\* Two clients, every transaction.
CONSTANTS
    NumClients = 2
    Types = {"NEW_ORDER", "PAYMENT", "DELIVERY"}
    NumDistricts = 2
    NumCustomers = 1
    NumNewOrders = 1
    NumItems = 2
    MaxTransactions = 2
SPECIFICATION FairSpec
INVARIANTS
    Consistent
    OnlyStockDeadlocks
PROPERTIES
    NumbersOrders
    WaitingEnds
CHECK_DEADLOCK FALSE
