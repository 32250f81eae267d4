CONSTANTS
    i1 = i1
    i2 = i2
    k1 = k1
    Identities = {i1, i2}
    Keys = {}
    IdentityLimitSize = 4
    MaxTxs = 2
    MaxGap = 1
    MaxFailures = 0
SPECIFICATION LiveSpec
PROPERTIES
    UpdatesArrive
CHECK_DEADLOCK FALSE
