SPECIFICATION Spec
CONSTANTS
    Blocks = {1, 2, 3, 4, 5, 6}
    ChunksPerBlock = 2
    NReserved = 2
    PassiveChunks = 1
    Files = {f1}
    FileChunks = 2
    Values = {v1}
    Hole = Hole
    None = None
    Torn = Torn
    TornFrom = 1
    StrayCuts = FALSE
    Prefill = 0
    Sparse = TRUE
    MaxOps = 6
    MaxCuts = 2
    MaxBad = 0
INVARIANT LiveIsScannable
CHECK_DEADLOCK FALSE
