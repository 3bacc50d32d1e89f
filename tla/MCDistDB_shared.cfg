SPECIFICATION Spec
CONSTANTS
    Threads = {t1, t2}
    TransIds = {x1, x2}
    DataSources = {d1, d2}
    BadSources = {}
    MaxConns = 1
    PoolSize = 2
    MaxDepth = 2
    Subtransactions = FALSE
    Collisions = TRUE
    CloseFaults = TRUE
    SharedIds = TRUE
    TakeTurns = FALSE
    d1 = d1
    d2 = d2
    d3 = d3
    NoId = NoId
    NoDs = NoDs
    NoConn = NoConn
    NoMap = NoMap
    DsLists <- OneSource
SYMMETRY Symmetric
INVARIANTS
    TypeOK
    ConnectionPlaced
