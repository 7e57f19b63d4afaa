\* Two connections and a tunnel in a pool of 18 words: every way to fill,
\* fragment and coalesce it, requests that are refused included.
SPECIFICATION Spec
CONSTANTS
    SL_INDEX_COUNT_LOG2 = 2
    FL_INDEX_MAX = 5
    PoolSize = 18
    NSockets = 2
    SLAB_SIZE = 4
    PARSE_BUFFER_SIZE = 3
    Messages = {1, 4}
    FrameSizes = {5, 7}
    MaxQueued = 4
INVARIANTS
    PoolConsistent
    NothingLeaks
    DataIntact
    RefusedWhenFull
