CONSTANTS
    t1 = t1
    t2 = t2
    m1 = m1
    m2 = m2
    Bean = Bean
    NoMap = NoMap
    NoList = NoList
    Threads <- MCThreads
    Maps <- MCMaps
    Types <- MCTypes
    TypeOf <- MCTypeOf
SPECIFICATION FairSpec
INVARIANTS TypeOK CacheComplete NeverUndone OwnIsComplete
PROPERTIES HalfFilledIsFinished
