SPECIFICATION Spec
CONSTANTS
    Processes = {p1, p2}
    NoProcess = NoProcess
    Operations <- AllOperations
    MaxCalls = 5
    Sessions <- Pops
    Blank = {}
INVARIANT PopReleases
CHECK_DEADLOCK FALSE
