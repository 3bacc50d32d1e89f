SPECIFICATION Spec
CONSTANTS
    Threads = {t1, t2}
    TransIds = {x1, x2}
    DataSources = {d1, d3}
    BadSources = {d3}
    MaxConns = 2
    PoolSize = 2
    MaxDepth = 2
    Subtransactions = TRUE
    Collisions = FALSE
    CloseFaults = FALSE
    SharedIds = TRUE
    TakeTurns = TRUE
    d1 = d1
    d2 = d2
    d3 = d3
    NoId = NoId
    NoDs = NoDs
    NoConn = NoConn
    NoMap = NoMap
    DsLists <- ListsWithBad
SYMMETRY Symmetric
INVARIANTS
    KeptOpen
    BulkInv
    NoOrphan
    OneOpenPerPool
PROPERTIES
    BulkReleases
    NoStaleConnection
