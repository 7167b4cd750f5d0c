SPECIFICATION Spec
CONSTANTS
    ClassNames  = {A, B, C}
    NoClass     = NoClass
    MemberNames <- SomeMembers
    Bounds      <- DeepAndWide
CHECK_DEADLOCK FALSE
INVARIANTS TypeOK VirtualDispatch StaticDispatch EveryLevelRuns FunctionsWritten AccessRespected
