SPECIFICATION Spec
CONSTANTS
    ClassNames  = {A, B}
    NoClass     = NoClass
    MemberNames <- SomeMembers
    Bounds      <- TwoClasses
CHECK_DEADLOCK FALSE
INVARIANT OwnPrivate
