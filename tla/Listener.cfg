SPECIFICATION Spec
CONSTANTS
    Files = {f}
    Bounds <- BroadAndDeep
INVARIANTS TypeOK StackMatchesNodes ContextMatches LocalExactly ErrorsAfterLastIncludeStop
CHECK_DEADLOCK FALSE
