\* gates that do not count, in a debug build: a second access throws, user
\* functions may throw, and the pool may be halted
SPECIFICATION Spec
CONSTANTS
    Limit = 3
    Inputs = 2
    ChunkSize = 2
    Capacity = 1
    MultiPush = FALSE
    MultiPop = FALSE
    Debug = TRUE
    Pushes = {1}
    Pops = {1, 2}
    CanThrow = TRUE
    CanHalt = TRUE
    Runs = 1
PROPERTIES WaitEnds AbortEnds
