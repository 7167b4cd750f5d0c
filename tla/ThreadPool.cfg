SPECIFICATION FairSpec
CONSTANTS
    Workers = {w1, w2, w3}
    Owner = owner
    MaxTasks = 4
CHECK_DEADLOCK FALSE
INVARIANTS TypeOK NoLostWakeup Accounted
PROPERTIES TasksStart WorkersReturn
