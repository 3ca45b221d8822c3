\* Crashes between any two steps, restarts with resume, with and without fail_fast.
SPECIFICATION Spec
CONSTANTS
    Ids = {1, 2}
    Dataset <- MCDataset
    Malformed = {}
    Route <- MCRoute
    ConfiguredTight = FALSE
    ResumeFlags = {TRUE}
    StopFlags = {TRUE, FALSE}
    TornWrites = FALSE
    MaxStarts = 3
INVARIANTS
    TypeOK
    FinishedRunAccountsForAll
PROPERTIES
    LedgerSpec
CHECK_DEADLOCK FALSE
