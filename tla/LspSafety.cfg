SPECIFICATION Spec
CONSTANTS
    Workers = {w1, w2}
    Files = {f1, f2}
    MaxMessages = 5
    Sessions <- Safety
SYMMETRY Symmetry
INVARIANTS TypeOK CleanExit EditsNotLost ParsedIsCurrent
CHECK_DEADLOCK FALSE
