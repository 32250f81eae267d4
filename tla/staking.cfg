CONSTANTS
    v1 = v1
    v2 = v2
    Validators = {v1, v2}
    ListSize = 1
    address <- MCAddress
    Suspects = {v2}
    MaxMoves = 1
    MaxFaults = 1
SPECIFICATION LiveSpec
INVARIANTS
    SteadyAreKept
    MarkIsKept
PROPERTIES
    EveryoneIsUpToDate
