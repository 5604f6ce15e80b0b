SPECIFICATION Spec
CONSTANTS
    o1 = o1
    w1 = w1
    w2 = w2
    NoOrder = NoOrder
    Order = {o1}
    Worker = {w1, w2}
    OrderTypes = {"balance", "subscription", "other"}
    MaxPending = 1
    MaxFaults = 2
    SwallowFaults = TRUE
SYMMETRY WorkerSymmetry
INVARIANTS
    TypeOK
    DeliveryInvariant
    DeliveredAtMostOnce
    DeliveredOnlyIfPaid
    CompletedIsDelivered
PROPERTIES
    PaidNeverWithdrawn
    ImplementsLedger
CHECK_DEADLOCK FALSE
