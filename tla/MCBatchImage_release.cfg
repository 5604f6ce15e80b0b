SPECIFICATION Spec
CONSTANTS
    w1 = w1
    w2 = w2
    c1 = c1
    c2 = c2
    None = None
    Worker = {w1}
    Caller = {c1, c2}
    Hold = 2
    OtherFrozen = 0
    MaxRetries = 2
    MaxReady = 2
    MaxFaults = 0
    MaxPauses = 0
    AmbiguousCommits = FALSE
INVARIANTS
    FailedIsReleased
CHECK_DEADLOCK FALSE
