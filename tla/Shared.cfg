SPECIFICATION FairSpec
CONSTANTS
    Processes = {p1, p2}
    NoProcess = NoProcess
    Operations <- AllOperations
    MaxCalls = 5
    Sessions <- Sound
    Blank = {}
INVARIANTS TypeOK LockedAccess NothingLost
PROPERTIES ExclusiveWhileLocked CallsReturn
CHECK_DEADLOCK FALSE
