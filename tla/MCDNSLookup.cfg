SPECIFICATION FairSpec
CONSTANTS
    h1 = h1
    h2 = h2
    Hosts <- MCHosts
    Wanted <- MCWanted
    PoolSize = 3
    Sizes = {2, 5}
    LastQid = 3
    MaxRetries = 1
    CacheSize = 1
    MaxLookups = 4
    MaxNesting = 1
CHECK_DEADLOCK FALSE
INVARIANTS
    PoolBalanced
    CacheExact
    AnsweredOnce
    
PROPERTIES
    LookupEnds
