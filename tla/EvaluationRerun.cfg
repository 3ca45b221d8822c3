\* Re-runs, with and without resume and with cut rows, from every registry; a
\* sample that cannot be built stands between two that can.
SPECIFICATION FairSpec
CONSTANTS
    Ids = {1, 2, 3}
    Dataset <- MCDatasetOfThree
    Malformed = {3}
    Route <- MCRoute
    ConfiguredTight = FALSE
    ResumeFlags = {TRUE, FALSE}
    StopFlags = {FALSE}
    TornWrites = TRUE
    MaxStarts = 2
INVARIANTS
    KnownQuestionConsistent
PROPERTIES
    EvaluationEnds
CHECK_DEADLOCK FALSE
