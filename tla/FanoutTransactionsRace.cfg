CONSTANTS
    Users = {1, 2, 3, 4}
    Channels = {web, email}
    Fanouts = {f1, f2}
    BlockSize = 1300
    MaxRecipients = 5000
    MaxDeliveries = 20000
    BindLimit = 65535
    MaxAborts = 1
    MaxChanges = 1
SPECIFICATION Spec
INVARIANTS
    FanoutsIndependent
    CountsBounded
    NoCircularWait
PROPERTIES
    LedgerSpec
