CONSTANTS
    web = web
    mail = mail
    mail2 = mail2
    w1 = w1
    w2 = w2
    w3 = w3
    Deliveries = {mail}
    Workers = {w1, w2}
    ChannelOf <- MCChannelOf
    RecipientOf <- MCRecipientOf
    WorkerChannel <- MCWorkerChannel
    Callers = {svc, usr}
    Tokens = {t1, t2, t3}
    NoToken = NoToken
    NoDelivery = NoDelivery
    MaxAttempts = 2
    BatchSize = 1
    LeaseDuration = 1
    RetryDelay = 1
    Horizon = 3
    MaxAborts = 1
SPECIFICATION Spec
INVARIANTS
    ClaimExclusive
    AttemptLedger
    SendsAccountedFor
    SendersExclusive
    ReplayOncePerFailure
PROPERTIES
    ClaimEndsByHolderOrLease
    LedgerSpec
