SPECIFICATION Spec
CONSTANTS
    Workers = {w1}
    Files = {f1}
    MaxMessages = 4
    Sessions <- Edits
INVARIANT CompletionSeesLatest
CHECK_DEADLOCK FALSE
