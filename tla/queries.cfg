CONSTANTS
    x1 = x1
    x2 = x2
    x3 = x3
    v = v
    w = w
    e1 = e1
    e2 = e2
    e3 = e3
    e4 = e4
    y1 = y1
    y2 = y2
    y3 = y3
    b1 = b1
    b2 = b2
    b3 = b3
    b4 = b4
    b5 = b5
    p1 = p1
    p2 = p2
    s1 = s1
    s2 = s2
    q1 = q1
    n1 = n1
    n2 = n2
    n3 = n3
    n4 = n4
    n5 = n5
    n6 = n6
    m1 = m1
    m2 = m2
    m3 = m3
    m4 = m4
    Txs = {x1, x2, x3}
    TypeLists = {{}, {"send", "respond_service"}}
    Values = {v, w}
    None = None
    TopHeight = 2
    TxsPerPage = 1
    Docs = {y1, y2, y3}
    NoValue = NoValue
    TopRank = 3
    DocsPerPage = 1
    MaxEdits = 2
    FedTxs = {e1, e2, e3, e4}
    WithStatus = {e1, e2, e3, e4}
    Wanted = {e1, e2, e3}
    EdgePage = 2
    EdgeRest = 3
    TopEdgeHeight = 3
    Calls = {e1, e2, e3}
    MaxTypeEdits = 3
    Ballots = {b1, b2, b3, b4, b5}
    People = {p1, p2, Nobody}
    Nobody = Nobody
    voterOf <- MCVoterOf
    votersIn <- MCVotersIn
    choicesIn <- MCChoicesIn
    okBallots = {b1, b2, b3, b5}
    Options = {"yes", "no"}
    TopBallot = 2
    Members <- MCOrder
    PowerOf <- MCPower
    Signers = {m1, m3}
    Undefined = Undefined
    ChainPage = 2
    CodesOf <- MCCodes
    OtherCodes = {"999"}
    Window = 3
    TopBlock = 5
    MaxNamed = 3
    ServiceTxs = {n1, n2, n3, n4, n5, n6}
    Services = {s1, s2}
    Providers = {q1}
    doesOf <- MCDoes
    serviceOf <- MCService
    providerOf <- MCProvider
    okServiceTxs = {n1, n2, n3, n4}
    Holders = {e1, e2, e3}
    Classes <- MCClasses
    TopTotal = 2
    MaxUpdates = 1
SPECIFICATION Spec
INVARIANTS
    QueriesTypeOK
    PagesMissNothing
    CountsMatch
    EdgeMissesNothing
    EditsAreSeen
    VotersAddUp
    PowerIsWhole
    StatisticsMatch
    RespondTimesFit
    ClassesAddUp
CHECK_DEADLOCK FALSE
