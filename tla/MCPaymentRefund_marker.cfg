SPECIFICATION Spec
CONSTANTS
    a1 = a1
    a2 = a2
    Worker = {a1}
    Amount = 2
    InitialBalance = 3
    MaxDebt = 0
    MaxRequests = 2
    MaxFaults = 1
    AmbiguousErrors = FALSE
    AuditFaults = TRUE
INVARIANTS
    DeductedAtMostOnce
CHECK_DEADLOCK FALSE
