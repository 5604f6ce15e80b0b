SPECIFICATION FairSpec
CONSTANTS
    p1 = p1
    p2 = p2
    b1 = b1
    b2 = b2
    q1 = q1
    m1 = m1
    Processes = {p1, p2}
    Background = {b1, b2}
    Requested = {q1}
    Manual = {m1}
    Backfills = {q1}
    ProcessOf <- MCProcessOf
    MaxTrouble = 2
    MaxExpiries = 1
    MaxGrants = 2
CHECK_DEADLOCK FALSE
INVARIANTS
    TypeOK
    LocalExclusion
    PresentsFreshTokens
    RefreshInvariant
PROPERTIES
    CredentialsMoveForward
    DisabledOnlyIfSpent
    ExpiringIsReplaced
