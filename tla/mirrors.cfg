CONSTANTS
    r1 = r1
    r2 = r2
    d1 = d1
    d2 = d2
    d3 = d3
    d4 = d4
    i1 = i1
    i2 = i2
    i3 = i3
    t1 = t1
    t2 = t2
    m1 = m1
    m2 = m2
    m3 = m3
    on = on
    off = off
    a1 = a1
    a2 = a2
    w1 = w1
    w2 = w2
    w3 = w3
    v1 = v1
    v2 = v2
    x1 = x1
    x2 = x2
    x3 = x3
    Runs = {r1, r2}
    MaxFaults = 1
    IssueTxs = {i1, i2, i3}
    Ids = {d1, d2, d3, d4}
    NoId = NoId
    firstId <- MCFirstId
    issues <- MCIssues
    DenomBatch = 2
    MaxDenomHeight = 3
    Symbols = {t1, t2}
    MintTxs = {m1, m2, m3}
    amounts <- MCAmounts
    about <- MCAbout
    TokenLimit = 2
    MaxTokenHeight = 2
    MaxSent = 0
    Names = {1, 2}
    Infos = {on, off}
    Gone = Gone
    PageSize = 1
    MaxMoves = 1
    Accounts = {a1, a2}
    Operators = {a1}
    Worth = 3
    MaxTransfers = 3
    Delegators = {w1, w2, w3}
    Vals = {v1, v2}
    operator <- MCOperator
    VoteTxs = {x1, x2, x3}
    votersOf <- MCVoters
    optionOf <- MCOption
    Options = {"yes", "no"}
    okVotes = {x1, x2, x3}
    Stake <- MCStake
    MaxRestakes = 1
SPECIFICATION Spec
INVARIANTS
    MirrorsTypeOK
    NoDenomSkipped
    SupplyMatchesHeight
    NobodyIsDropped
    TotalIsTrue
PROPERTIES
    TallyIsExact
    MirrorsSettle
CHECK_DEADLOCK FALSE
