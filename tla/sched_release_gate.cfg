\* a release build counts one value for a whole chunk
SPECIFICATION Spec
CONSTANTS
    Limit = 3
    Inputs = 3
    ChunkSize = 2
    Capacity = 1
    MultiPush = FALSE
    MultiPop = TRUE
    Debug = FALSE
    Pushes = {1}
    Pops = {1}
    CanThrow = FALSE
    CanHalt = FALSE
    Runs = 1
INVARIANTS WaitLeavesQueueEmpty
