SPECIFICATION Spec
CONSTANTS
    Layout <- MCLayout
    Globals <- MCGlobals
    Pointers <- MCPointers
    Locals <- MCLocals
    NewNames <- MCNewNames
    Values <- MCValues
    Paths <- OnlyPointer
    Calls <- NoCalls
    MaxDepth = 3
    CopyFromThis = FALSE
    Shadowing = FALSE
INVARIANTS DeletedPointerIsNull
