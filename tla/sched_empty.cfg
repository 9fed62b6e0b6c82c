\* no inputs at all
SPECIFICATION Spec
CONSTANTS
    Limit = 3
    Inputs = 0
    ChunkSize = 2
    Capacity = 1
    MultiPush = TRUE
    MultiPop = TRUE
    Debug = TRUE
    Pushes = {0, 1}
    Pops = {1}
    CanThrow = FALSE
    CanHalt = FALSE
    Runs = 1
PROPERTIES WaitEnds
CHECK_DEADLOCK FALSE
