CONSTANTS
    n1 = n1
    n2 = n2
    Nfts = {n1, n2}
    IncreaseHeight = 2
    MaxOperateTxCount = 1
    MaxMessages = 4
    MaxHeight = 4
    MaxFaults = 1
SPECIFICATION MCSpec
INVARIANTS
    TypeOK
    DocIsTrue
    NothingSkipped
PROPERTIES
    CatchesUp
CHECK_DEADLOCK FALSE
