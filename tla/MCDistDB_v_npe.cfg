SPECIFICATION Spec
CONSTANTS
    Threads = {t1}
    TransIds = {x1}
    DataSources = {d1, d2}
    BadSources = {}
    MaxConns = 1
    PoolSize = 2
    MaxDepth = 2
    Subtransactions = FALSE
    Collisions = FALSE
    CloseFaults = FALSE
    SharedIds = FALSE
    TakeTurns = FALSE
    d1 = d1
    d2 = d2
    d3 = d3
    NoId = NoId
    NoDs = NoDs
    NoConn = NoConn
    NoMap = NoMap
    DsLists <- BothSources
SYMMETRY AllSymmetric
PROPERTIES
    EndedReturnsNormally
