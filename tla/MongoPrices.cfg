\* One client, one order of two items.
CONSTANTS
    NumClients = 1
    Types = {"NEW_ORDER"}
    NumDistricts = 1
    NumCustomers = 1
    NumNewOrders = 0
    NumItems = 2
    MaxLines = 2
    MaxQuantity = 2
    MaxTransactions = 1
    MaxFailures = 0
SPECIFICATION Spec
INVARIANTS
    LinesArePriced
CHECK_DEADLOCK FALSE
