\* Two clients of each driver, every transaction.
CONSTANTS
    Drivers = {"sqlite", "neo4j", "typedb2"}
    NumClients = 2
    Types = {"NEW_ORDER", "PAYMENT", "DELIVERY", "READ"}
    NumDistricts = 2
    NumCustomers = 1
    NumNewOrders = 1
    NumItems = 2
    MaxTransactions = 2
SPECIFICATION Spec
INVARIANTS
    Consistent
    NumbersFollowOrders
    StockCountsLines
PROPERTY
    Typedb2NumbersOrders
CHECK_DEADLOCK FALSE
