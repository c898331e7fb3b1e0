\* Three clients, client 1 with two of the four warehouses; any driver, and any
\* client may fail at any call, the loader of ITEM included.
CONSTANTS
    NumClients = 3
    NumWarehouses = 4
    NumDistricts = 1
    NumItemBatches = 2
SPECIFICATION FairSpec
INVARIANTS
    ItemsFirst
    NoRowsLost
    LostRowsNeedItems
    StuckOnlyWithoutItems
    MissingRowsHaveAFailedOwner
    ShareIsAtomic
PROPERTIES
    LoadEnds
CHECK_DEADLOCK FALSE
