CONSTANTS
    p1 = p1
    p2 = p2
    c1 = c1
    u1 = u1
    u2 = u2
    requested = requested
    replay = replay
    Partitions = {p1, p2}
    Log <- MCLog
    Events = {requested, replay}
    Invalid = Invalid
    TypeOf <- MCTypeOf
    Users = {u1, u2}
    MaxRecipients = 2
    Consumers = {c1}
    NoRecord = NoRecord
    MaxDisruptions = 0
    MaxChanges = 1
SPECIFICATION Spec
PROPERTIES
    ReplayKeepsRecipients
\* A group that has read its log waits for new records.
CHECK_DEADLOCK FALSE
