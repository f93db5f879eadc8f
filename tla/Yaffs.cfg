SPECIFICATION Spec
CONSTANTS
    Blocks = {1, 2, 3, 4, 5, 6}
    ChunksPerBlock = 2
    NReserved = 2
    PassiveChunks = 1
    Files = {f1}
    FileChunks = 2
    Values = {v1}
    Hole = Hole
    None = None
    Torn = Torn
    TornFrom = 2
    StrayCuts = FALSE
    Prefill = 0
    Sparse = TRUE
    MaxOps = 6
    MaxCuts = 1
    MaxBad = 0
INVARIANTS Accounting  
 
CHECK_DEADLOCK FALSE
