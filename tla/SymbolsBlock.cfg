SPECIFICATION Spec
CONSTANTS
    Names = {a, b, c}
    MaxHere = 11
    MaxScopes = 4
    NestedClasses = FALSE
    AskedScopes <- AllScopes
    AskedTokens <- NamedTokens
SYMMETRY Identifiers
INVARIANTS DefinedBefore
CHECK_DEADLOCK FALSE
