SPECIFICATION FairSpec
CONSTANTS
    a1 = a1
    a2 = a2
    Worker = {a1, a2}
    Amount = 2
    InitialBalance = 2
    MaxDebt = 0
    MaxRequests = 2
    MaxFaults = 1
    AmbiguousErrors = FALSE
    AuditFaults = TRUE
INVARIANTS
    GatewayMatchesOrder
    RefundInvariant
PROPERTIES
    PendingConverges
CHECK_DEADLOCK FALSE
