SPECIFICATION CkptSpec
CONSTANTS
    NumBlocks = 7
    BlockPages = 2
    StreamPages = 3
    Reserve = 2
    MaxSeq = 4
    LowSpace = TRUE
INVARIANT RestoredIsCurrent
CHECK_DEADLOCK FALSE
