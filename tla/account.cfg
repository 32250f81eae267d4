CONSTANTS
    a1 = a1
    a2 = a2
    r1 = r1
    r2 = r2
    Addresses = {a1, a2}
    Runs = {r1, r2}
    IncreaseHeight = 2
    MaxHeight = 3
    MaxTxs = 2
    MaxGap = 2
    MaxAborts = 1
SPECIFICATION LiveSpec
INVARIANTS
    NothingMissed
PROPERTIES
    EveryAddressArrives
CHECK_DEADLOCK FALSE
