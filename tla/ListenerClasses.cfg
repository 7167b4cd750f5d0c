SPECIFICATION Spec
CONSTANTS
    Files = {f}
    Bounds <- Deep
INVARIANTS NoCodeInClasses LocalWhenPossible ObjectsTakenDirectly
CHECK_DEADLOCK FALSE
