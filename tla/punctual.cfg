CONSTANTS
    p1 = p1
    p2 = p2
    h1 = h1
    h2 = h2
    nft = nft
    None = None
    Procs = {p1, p2}
    Tasks = {nft}
    Handlers = {h1, h2}
    host <- HostShared
    job <- JobNft
    Steady = {}
    Punctual = TRUE
    Faults = {"error", "late", "crash"}
SPECIFICATION Spec
INVARIANTS
    FreshWhenPunctual
PROPERTIES
    MisjudgedOnOldReading
