SPECIFICATION Spec
CONSTANTS
    a1 = a1
    a2 = a2
    Worker = {a1, a2}
    Amount = 2
    InitialBalance = 3
    MaxDebt = 1
    MaxRequests = 2
    MaxFaults = 2
    AmbiguousErrors = TRUE
    AuditFaults = FALSE
SYMMETRY AdminSymmetry
INVARIANTS
    TypeOK
    DeductedAtMostOnce
    DeductionAccounted
    RefundInvariant
PROPERTIES
    RefundNeverOverdraws
CHECK_DEADLOCK FALSE
