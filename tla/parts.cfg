\* the parts that share nothing, each on a small instance of its own
SPECIFICATION Spec
CONSTANTS
    MaxText = 5
    TextTokens = {"[", "]", "|", "bold", "t"}
    FieldWords = {"red", "blue", "rgb", "badrgb", "bold", "strike", "reset", "t"}
    Inputs <- MCInputs
    Modes = {"check", "noop", "color"}
    NPos = 1000
    Elements = {1, 2, 3}
    Keys <- MCKeys
    Given <- MCGiven
    Limits = {2, 3}
    MaxThreads = 3
    Jobs = 3
    MaxRuns = 2
    Items = {"e1", "e2", "e3", "e4"}
    Threads = {"t1", "t2"}
    MaxViews = 3
    MaxSize = 2
    Variants = {"a", "b"}
    Types = {1, 2, 3}
    Values = {0, 1}
    Packs <- MCPacks
INVARIANTS OutputExact OneFormPerPlace PromiseKept AccessesAgree OutcomeHonest
           ExceptionsAccounted ReturnsClean LastTickFinal
PROPERTIES ScanEnds MovesExactly PoolCallsReturn TicksForward TrackedWaitReturns
CHECK_DEADLOCK FALSE
