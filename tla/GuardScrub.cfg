\* Two files in three replicas, damaged up to three times.
SPECIFICATION FairSpec
CONSTANTS
    FileCount = 2
    Interval = 2
    MaxFaults = 3
INVARIANTS
    TypeOK
    ExposureBounded
    BlockedForAReason
PROPERTIES
    NeverMadeWorse
    ScrubEnds
