SPECIFICATION Spec
CONSTANTS
    Names = {a, b, c}
    MaxHere = 11
    MaxScopes = 4
    NestedClasses = FALSE
    AskedScopes <- MarkedScopes
    AskedTokens <- AllTokens
SYMMETRY Identifiers
INVARIANTS RenamesWhatMeansTheSame
CHECK_DEADLOCK FALSE
