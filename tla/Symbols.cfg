SPECIFICATION Spec
CONSTANTS
    Names = {a, b, c}
    MaxHere = 12
    MaxScopes = 4
    NestedClasses = FALSE
    AskedScopes <- MarkedScopes
    AskedTokens <- NamedTokens
SYMMETRY Identifiers
INVARIANTS TypeOK LeftOrUp RenamesWhatMeansTheSame
CHECK_DEADLOCK FALSE
