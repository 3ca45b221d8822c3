SPECIFICATION FairSpec
CONSTANTS
    N = 3
    MaxRetries = 2
    Limit = 1
    Window = 2
    MaxStarts = 2
    MaxInterrupts = 1
    MaxKills = 1
    Settings <- MCSettings
INVARIANTS TypeOK LossBounded UnsavedBounded RateLimited
PROPERTIES KeepsLedger RunsEnd
CHECK_DEADLOCK FALSE
