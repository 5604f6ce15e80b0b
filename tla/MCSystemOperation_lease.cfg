SPECIFICATION FairSpec
CONSTANTS
    r1 = r1
    r2 = r2
    k1 = k1
    k2 = k2
    update = update
    restart = restart
    Requests = {r1, r2}
    Operations = {update, restart}
    NoOperation = NoOperation
    Keys = {k1, k2}
    KeyOf <- MCKeyOf
    Lock = Lock
    MaxFaults = 1
CHECK_DEADLOCK FALSE
INVARIANTS
    TypeOK
    AppliedOncePerKey
    RecordTellsTruth
    OneWhileLeased
    OperationInvariant
PROPERTIES
    ProcessingEnds
