CONSTANTS
    i1 = i1
    i2 = i2
    k1 = k1
    Identities = {i1, i2}
    Keys = {k1}
    IdentityLimitSize = 2
    MaxTxs = 3
    MaxGap = 1
    MaxFailures = 1
SPECIFICATION LiveSpec
INVARIANTS
    TypeOK
    NoCreationSkipped
    KeysFollowIdentity
PROPERTIES
    EveryIdentityArrives
CHECK_DEADLOCK FALSE
