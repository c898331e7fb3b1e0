\* Two clients, every transaction, connections that may fail.
CONSTANTS
    NumClients = 2
    Types = {"NEW_ORDER", "PAYMENT", "DELIVERY"}
    NumDistricts = 2
    NumCustomers = 1
    NumNewOrders = 1
    NumItems = 2
    MaxLines = 2
    MaxQuantity = 1
    MaxTransactions = 1
    MaxFailures = 1
SPECIFICATION FairSpec
INVARIANTS
    Consistent
    StockCountsLines
PROPERTIES
    NumbersOrders
    CallsReturn
CHECK_DEADLOCK FALSE
