SPECIFICATION Spec
CONSTANTS
    Processes = {p1, p2}
    NoProcess = NoProcess
    Operations <- AllOperations
    MaxCalls = 5
    Sessions <- Queues
    Blank = {}
INVARIANT TakenOnce
CHECK_DEADLOCK FALSE
