\* counting gates, chunks, a queue of one: one run of three workers
SPECIFICATION Spec
CONSTANTS
    Limit = 3
    Inputs = 5
    ChunkSize = 2
    Capacity = 1
    MultiPush = TRUE
    MultiPop = TRUE
    Debug = TRUE
    Pushes = {0, 1}
    Pops = {1}
    CanThrow = FALSE
    CanHalt = FALSE
    Runs = 1
INVARIANTS TypeOK ValuesConserved DoneMeansDrained InputsAccounted
PROPERTIES WaitEnds
