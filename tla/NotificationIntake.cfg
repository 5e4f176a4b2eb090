CONSTANTS
    key = key
    resend = resend
    keyOther = keyOther
    plain1 = plain1
    plain2 = plain2
    Requests = {key, resend, keyOther, plain1, plain2}
    ServiceOf <- MCServiceOf
    KeyOf <- MCKeyOf
    PayloadOf <- MCPayloadOf
    NoKey = NoKey
    NoRow = NoRow
    DedupWindow = 2
    QuotaWindow = 2
    QuotaLimit = 3
    Horizon = 2
SYMMETRY MCSymmetry
SPECIFICATION Spec
INVARIANTS
    OneNotificationPerIdentity
    AnswerJustified
    SameKeySameAnswer
    PlainOncePerWindow
    QuotaExact
PROPERTIES
    LedgerSpec
\* All requests are answered in the end.
CHECK_DEADLOCK FALSE
