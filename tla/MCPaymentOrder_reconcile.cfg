SPECIFICATION FairSpec
CONSTANTS
    o1 = o1
    w1 = w1
    w2 = w2
    NoOrder = NoOrder
    Order = {o1}
    Worker = {w1, w2}
    OrderTypes = {"balance"}
    MaxPending = 1
    MaxFaults = 0
    SwallowFaults = FALSE
PROPERTIES
    PaidIsDelivered
CHECK_DEADLOCK FALSE
