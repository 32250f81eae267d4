CONSTANTS
    p1 = p1
    p2 = p2
    h1 = h1
    h2 = h2
    nft = nft
    None = None
    Procs = {p1, p2}
    Tasks = {nft}
    Handlers = {h1, h2}
    host <- HostApart
    job <- JobNft
    Steady = {p2}
    Punctual = FALSE
    Faults = {"error", "late", "hang", "crash"}
SPECIFICATION LiveSpec
PROPERTIES
    TaskRunsAgain
    ImplementsLock
