CONSTANTS
    s1 = s1
    s2 = s2
    c1 = c1
    c2 = c2
    NoContext = NoContext
    Names = {s1, s2}
    Contexts = {c1, c2}
    Old <- MCOld
    Arriving = {"define_service", "bind_service", "call_service", "respond_service", "pause_request_context"}
    MaxTxs = 5
    MaxLate = 1
    Size = 2
    MaxFaults = 1
SPECIFICATION LiveSpec
INVARIANTS
    NamesAreRight
    MarksAreRight
PROPERTIES
    EveryTxIsNamed
CHECK_DEADLOCK FALSE
