\* One warehouse of two districts, fewer customers than CPD; anything may fail.
CONSTANTS
    NumWarehouses = 1
    DPW = 2
    CustomersPerDistrict = 2
    NewOrdersPerDistrict = 1
    MaxLines = 1
    CPD = 3
    MaxTransactions = 4
    DriverMayFail = TRUE
    VerifierMayFail = TRUE
SPECIFICATION Spec
INVARIANTS
    VerificationPasses
    ReportedIffDelivered
    BalancesArePaid
CHECK_DEADLOCK FALSE
