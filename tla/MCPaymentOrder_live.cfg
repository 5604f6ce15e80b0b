SPECIFICATION FairSpec
CONSTANTS
    o1 = o1
    w1 = w1
    w2 = w2
    NoOrder = NoOrder
    Order = {o1}
    Worker = {w1, w2}
    OrderTypes = {"balance", "other"}
    MaxPending = 1
    MaxFaults = 1
    SwallowFaults = FALSE
PROPERTIES
    UnsupportedIsRejected
    PaidIsCompleted
    PendingIsResolved
CHECK_DEADLOCK FALSE
