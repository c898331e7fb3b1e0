\* Scale factor 1: as many customers as CPD.
CONSTANTS
    NumWarehouses = 1
    DPW = 2
    CustomersPerDistrict = 2
    NewOrdersPerDistrict = 1
    MaxLines = 1
    CPD = 2
    MaxTransactions = 3
    DriverMayFail = FALSE
    VerifierMayFail = FALSE
SPECIFICATION Spec
INVARIANTS
    VerificationPasses
CHECK_DEADLOCK FALSE
