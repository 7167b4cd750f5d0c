SPECIFICATION Spec
CONSTANTS
    Workers = {w1}
    Files = {f1}
    MaxMessages = 3
    Sessions <- Closes
INVARIANTS FlagMeansPending NewestStored NoUnsavedAfterClose
CHECK_DEADLOCK FALSE
