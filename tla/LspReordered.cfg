SPECIFICATION Spec
CONSTANTS
    Workers = {w1, w2}
    Files = {f1}
    MaxMessages = 4
    Sessions <- Edits
INVARIANT SupersededIsOlder
CHECK_DEADLOCK FALSE
