\* Two lanes and more tiles than fit their lookaheads.
SPECIFICATION FairSpec
CONSTANTS
    TileCount = 5
    Workers = 2
    PrefetchSettings = {TRUE, FALSE}
INVARIANTS
    TypeOK
    FilesBounded
PROPERTIES
    BatchSpec
    PredictEnds
CHECK_DEADLOCK FALSE
