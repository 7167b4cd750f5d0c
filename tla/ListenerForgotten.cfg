SPECIFICATION Spec
CONSTANTS
    Files = {f}
    Bounds <- Deep
INVARIANTS ErrorsAreFatal
CHECK_DEADLOCK FALSE
