SPECIFICATION FairSpec
CONSTANTS
    MaxBatch = 2
    MaxBuffer = 3
    MaxLines = 4
INVARIANTS
    EveryLineOnce
    CloseLeavesOnlyTheWire
PROPERTIES
    FullBatchGoes
    LinesLeave
CHECK_DEADLOCK FALSE
