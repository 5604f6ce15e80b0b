SPECIFICATION FairSpec
CONSTANTS
    w1 = w1
    w2 = w2
    c1 = c1
    c2 = c2
    None = None
    Worker = {w1, w2}
    Caller = {c1, c2}
    Hold = 2
    OtherFrozen = 2
    MaxRetries = 2
    MaxReady = 2
    MaxFaults = 1
    MaxPauses = 1
    AmbiguousCommits = TRUE
INVARIANTS
    TypeOK
    InflightIsQueued
    QueuedUntilDone
    ChargedIffSettled
    BatchInvariant
PROPERTIES
    EnqueuedIsResolved
    ImplementsHold
CHECK_DEADLOCK FALSE
