SPECIFICATION Spec
CONSTANTS
    Processes = {p1}
    NoProcess = NoProcess
    Operations <- AllOperations
    MaxCalls = 5
    Sessions <- Blanks
    Blank = {1}
INVARIANT FailsOnlyEmpty
CHECK_DEADLOCK FALSE
