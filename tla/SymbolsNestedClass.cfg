SPECIFICATION Spec
CONSTANTS
    Names = {a, b, c}
    MaxHere = 11
    MaxScopes = 4
    NestedClasses = TRUE
    AskedScopes <- MarkedScopes
    AskedTokens <- NamedTokens
SYMMETRY Identifiers
INVARIANTS LeftOrUp
CHECK_DEADLOCK FALSE
