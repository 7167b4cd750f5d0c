SPECIFICATION Spec
CONSTANTS
    Layout <- MCLayout
    Globals <- MCGlobals
    Pointers <- MCPointers
    Locals <- MCLocals
    NewNames <- MCNewNames
    Values <- MCValues
    Paths <- MCPaths
    Calls <- MCCalls
    MaxDepth = 3
    CopyFromThis = FALSE
    Shadowing = TRUE
INVARIANTS MemoryIsHeap
