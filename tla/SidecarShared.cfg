\* Three callers share two clients whose workers fail and die.
SPECIFICATION FairSpec
CONSTANTS
    Callers = {c1, c2, c3}
    Clients = {k1, k2}
    First = k1
    MaxRequests = 1
    Preloads = TRUE
INVARIANTS
    TypeOK
    ClientsConserved
    PipesHoldOneRequest
PROPERTIES
    PredictEnds
CHECK_DEADLOCK FALSE
