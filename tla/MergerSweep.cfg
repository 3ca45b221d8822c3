SPECIFICATION FairSpec
CONSTANTS
    NA = 2
    NB = 1
    Scores <- MCScores
    FallbackLr = 2
    MaxStarts = 3
    MaxKills = 1
    MaxFailures = 1
    MaxOoms = 1
INVARIANTS TypeOK StatusBacked PhaseBUniform
PROPERTIES AnalyzedIsFinal SweepEnds
CHECK_DEADLOCK FALSE
