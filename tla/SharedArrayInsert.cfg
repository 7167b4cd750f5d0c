SPECIFICATION Spec
CONSTANTS
    Processes = {p1, p2}
    NoProcess = NoProcess
    Operations <- AllOperations
    MaxCalls = 5
    Sessions <- Inserts
    Blank = {}
INVARIANT NothingLost
CHECK_DEADLOCK FALSE
