SPECIFICATION Spec
CONSTANTS
    o1 = o1
    w1 = w1
    w2 = w2
    NoOrder = NoOrder
    Order = {o1}
    Worker = {w1, w2}
    OrderTypes = {"balance"}
    MaxPending = 1
    MaxFaults = 1
    SwallowFaults = FALSE
INVARIANTS
    FailedCanBeRetried
CHECK_DEADLOCK FALSE
