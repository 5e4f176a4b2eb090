CONSTANTS
    Events = {e1}
    Publishers = {p1, p2}
    Tokens = {t1, t2, t3}
    NoToken = NoToken
    NoEvent = NoEvent
    MaxAttempts = 2
    BatchSize = 1
    LeaseDuration = 1
    RetryDelay = 1
    Horizon = 3
    MaxAborts = 1
SPECIFICATION FairSpec
INVARIANTS
    CopiesAccountedFor
    ClaimExclusive
PROPERTIES
    StaleClaimHarmless
    LedgerSpec
    EventuallySettled
