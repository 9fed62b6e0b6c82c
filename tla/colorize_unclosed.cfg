\* strings whose fields need not be closed
SPECIFICATION ColSpec
CONSTANTS
    MaxText = 5
    TextTokens = {"[", "]", "|", "bold", "t"}
    FieldWords = {"red", "bold"}
    Inputs <- MCInputs
    Modes = {"check", "noop", "color"}
    NPos = 1000
PROPERTIES UnclosedReported
CHECK_DEADLOCK FALSE
