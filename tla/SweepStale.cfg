SPECIFICATION Spec
CONSTANTS
    NA = 1
    NB = 1
    Scores <- MCScores
    FallbackLr = 1
    MaxStarts = 2
    MaxKills = 1
    MaxFailures = 0
    MaxOoms = 0
INVARIANT ScoreIsOfCheckpoint
CHECK_DEADLOCK FALSE
