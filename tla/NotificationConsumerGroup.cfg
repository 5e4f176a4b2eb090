CONSTANTS
    p1 = p1
    p2 = p2
    c1 = c1
    u1 = u1
    u2 = u2
    requested = requested
    replay = replay
    Partitions = {p1, p2}
    Log <- MCLog
    Events = {requested, replay}
    Invalid = Invalid
    TypeOf <- MCTypeOf
    Users = {u1, u2}
    MaxRecipients = 1
    Consumers = {c1, c2}
    NoRecord = NoRecord
    MaxDisruptions = 2
    MaxChanges = 1
SPECIFICATION MCFairSpec
INVARIANTS
    CommittedAccountedFor
    HandledOncePerDisruption
PROPERTIES
    LedgerSpec
    EventuallyAccountedFor
\* A group that has read its log waits for new records.
CHECK_DEADLOCK FALSE
