CONSTANTS
    web = web
    mail = mail
    mail2 = mail2
    w1 = w1
    w2 = w2
    w3 = w3
    Deliveries = {web, mail}
    Workers = {w1, w3}
    ChannelOf <- MCChannelOf
    RecipientOf <- MCRecipientOf
    WorkerChannel <- MCWorkerChannel
    Callers = {usr}
    Tokens = {t1, t2}
    NoToken = NoToken
    NoDelivery = NoDelivery
    MaxAttempts = 2
    BatchSize = 1
    LeaseDuration = 1
    RetryDelay = 1
    Horizon = 2
    MaxAborts = 1
SPECIFICATION FairSpec
PROPERTIES
    EventuallySettled
