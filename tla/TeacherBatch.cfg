SPECIFICATION FairSpec
CONSTANTS
    N = 4
    BatchSize = 3
    MaxSamples = 3
    Cost <- MCCost
    MaxTokens = 3
    Transport = 1
    MaxReply = 3
    MaxStarts = 2
    MaxKills = 1
INVARIANTS TypeOK SliceAccounted CallsBounded LossBounded
PROPERTIES KeepsLedger CommandEnds
CHECK_DEADLOCK FALSE
