SPECIFICATION Spec
CONSTANTS
    Blocks = {1, 2, 3, 4, 5, 6}
    ChunksPerBlock = 2
    NReserved = 2
    PassiveChunks = 1
    Files = {f1}
    FileChunks = 11
    Values = {v1}
    Hole = Hole
    None = None
    Torn = Torn
    TornFrom = 2
    StrayCuts = FALSE
    Prefill = 8
    Sparse = FALSE
    MaxOps = 4
    MaxCuts = 0
    MaxBad = 1
INVARIANT ReserveSuffices
CHECK_DEADLOCK FALSE
