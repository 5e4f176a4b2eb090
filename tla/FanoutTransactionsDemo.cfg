CONSTANTS
    Users = {1, 2}
    Channels = {web, email}
    Fanouts = {f1}
    BlockSize = 2500
    MaxRecipients = 10000
    MaxDeliveries = 20000
    BindLimit = 65535
    MaxAborts = 1
    MaxChanges = 1
SPECIFICATION Spec
PROPERTIES
    AdmittedFits
