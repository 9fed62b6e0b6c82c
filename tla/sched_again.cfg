\* a second execution with the same inputs after a reset, with gates that do
\* not count and one input to a chunk
SPECIFICATION Spec
CONSTANTS
    Limit = 3
    Inputs = 2
    ChunkSize = 1
    Capacity = 1
    MultiPush = FALSE
    MultiPop = FALSE
    Debug = TRUE
    Pushes = {0, 1}
    Pops = {1}
    CanThrow = FALSE
    CanHalt = FALSE
    Runs = 2
PROPERTIES ImplementsJob WaitEnds
