SPECIFICATION FairSpec
CONSTANTS
    Workers = {w1}
    Files = {f1}
    MaxMessages = 3
    Sessions <- Exits
PROPERTY ExitEnds
CHECK_DEADLOCK FALSE
