-------------------------------- MODULE Handlers --------------------------------
(***************************************************************************)
(* What the listener does at each kind of node of the syntax tree          *)
(* (src/src/listener/handlers), as data, and which children the grammar    *)
(* (src/src/flexbison/parser.y) gives it.                                  *)
(*                                                                         *)
(* Entities are known by their type alone: a "code" entity is a block, a   *)
(* "string" any plain bpp_string, an "object" a bpp_object.  An            *)
(* "assignment" becomes a "copy" when its lvalue turns out to be an object *)
(* that is not a primitive.  Rvalue and BashCommand nodes have no handler, *)
(* and their children are taken as their parent's.                         *)
(***************************************************************************)
EXTENDS Naturals, Sequences

\* The functions of S in one; no two of them have an argument in common.
Joined(S) == [n \in UNION {DOMAIN f : f \in S} |-> (CHOOSE f \in S : n \in DOMAIN f)[n]]

Strings ==      \* bpp_string and the types derived from it
    {"string", "sequence", "if", "case", "condition", "cast", "target", "delete",
     "assignment", "copy", "reference", "value"}

Objects == {"object", "datamember"}

CodeEntities ==
    Strings \cup {"program", "code", "method", "function", "for", "loop", "branch", "pattern"}

NonCode == {"class"} \cup Objects

Entities == CodeEntities \cup NonCode

\* What a handler wants on top of the entity stack, whether it reports or asserts that,
\* what it pushes, and when else it may report an error.
Handle(top, otherwise, push, reports) ==
    [top |-> top, otherwise |-> otherwise, push |-> push, reports |-> reports]

Code(push)      == Handle(CodeEntities, "error", push, {})
Part(of, push)  == Handle(of, "assert", push, {})

--------------------------------------------------------------------------------
(* The shell's own constructs. *)

ArrayAssignment   == [ArrayAssignment |-> Code("string")]
ArrayIndex        == [ArrayIndex |-> Part(CodeEntities, "string")]
NativeSupershell  == [Bash53NativeSupershell |-> Code("string")]
Arithmetic        == [BashArithmeticSubstitution |-> Code("string")]
BashVariable      == [BashVariable |-> Code("string")]
Pipeline          == [BashPipeline |-> Code("string")]
QuotedString      == [DoublequotedString |-> Code("string")]
HereString        == [HereString |-> Code("string")]
HeredocBody       == [HeredocBody |-> Code("string")]
TestCondition     == [BashTestConditionCommand |-> Code("string")]
PrimitiveAssignment == [PrimitiveAssignment |-> Code("string")]
ProcessSubstitution == [ProcessSubstitution |-> Code("string")]
Subshells         == [n \in {"SubshellSubstitution", "RawSubshell"} |-> Code("string")]
Redirection       == [BashRedirection |-> Code("none")]
RawText           == [RawText |-> Code("none")]
Expansion         == [ParameterExpansion |-> Part(CodeEntities, "none")]
Sequence          == [BashCommandSequence |-> Code("sequence")]
Connective        == [Connective |-> Part({"sequence"}, "none")]
BashFunction      == [BashFunction |-> Code("function")]
Block             == [Block |-> Code("code")]

ArithmeticFor ==
    [BashArithmeticForStatement |-> Code("for"),
     BashArithmeticForCondition |-> Part({"for"}, "string")]

ForOrSelect ==
    [BashForStatement |-> Code("for"),
     BashSelectStatement |-> Code("for"),
     BashInCondition |-> Part({"for"}, "string")]

WhileOrUntil ==
    [BashWhileStatement |-> Code("loop"),
     BashUntilStatement |-> Code("loop"),
     BashWhileOrUntilCondition |-> Part({"loop"}, "condition")]

IfStatement == [BashIfStatement |-> Code("if")]
IfBranch    == [n \in {"BashIfRootBranch", "BashIfElseBranch"} |-> Part({"if"}, "branch")]
IfCondition == [BashIfCondition |-> Part({"branch"}, "string")]

Case ==
    [BashCaseStatement |-> Code("case"),
     BashCasePattern |-> Part({"case"}, "pattern"),
     BashCasePatternHeader |-> Part({"pattern"}, "string")]

--------------------------------------------------------------------------------
(* Classes and objects. *)

Supershell       == [Supershell |-> Code("string")]
ClassDefinition  == [ClassDefinition |-> Handle(Entities, "error", "class", {"enter"})]
MethodDefinition == [MethodDefinition |-> Handle({"class"}, "error", "method", {"enter"})]
Constructor      == [ConstructorDefinition |-> Handle({"class"}, "error", "method", {"exit"})]
Destructor       == [DestructorDefinition |-> Handle({"class"}, "error", "method", {"exit"})]

DatamemberDeclaration ==
    [DatamemberDeclaration |-> Handle({"class"}, "error", "datamember", {"enter", "exit"})]

ObjectInstantiation ==
    [ObjectInstantiation |-> Handle(Entities \ {"class"}, "error", "object", {"enter"})]

PointerDeclaration ==
    [PointerDeclaration |-> Handle(Entities \ {"class"}, "error", "object", {"enter", "exit"})]

\* @delete and assignments look no further than the nearest code entity below the top.
DeleteStatement  == [DeleteStatement |-> Handle(Entities, "error", "delete", {"exit"})]
ObjectAssignment == [ObjectAssignment |-> Handle(Entities, "error", "assignment", {"exit"})]
ValueAssignment  == [ValueAssignment |-> Handle(Entities, "error", "value", {"exit"})]

ObjectReference  == [ObjectReference |-> Handle(CodeEntities, "error", "reference", {"exit"})]
NewStatement     == [NewStatement |-> Handle(CodeEntities, "error", "none", {"enter"})]
DynamicCast      == [DynamicCast |-> Handle(CodeEntities, "error", "cast", {"exit"})]
CastTarget       == [DynamicCastTarget |-> Part({"cast"}, "target")]
TypeofExpression == [TypeofExpression |-> Code("string")]

Handler ==
    Joined({
        ArrayAssignment, ArrayIndex, NativeSupershell, Arithmetic, BashVariable, Pipeline,
        QuotedString, HereString, HeredocBody, TestCondition, PrimitiveAssignment,
        ProcessSubstitution, Subshells, Redirection, RawText, Expansion, Sequence,
        Connective, BashFunction, Block, ArithmeticFor, ForOrSelect, WhileOrUntil,
        IfStatement, IfBranch, IfCondition, Case, Supershell, ClassDefinition,
        MethodDefinition, Constructor, Destructor, DatamemberDeclaration,
        ObjectInstantiation, PointerDeclaration, DeleteStatement, ObjectAssignment,
        ValueAssignment, ObjectReference, NewStatement, DynamicCast, CastTarget,
        TypeofExpression})

--------------------------------------------------------------------------------
(* The grammar: the children of a node, in order. *)

One(of)   == <<[of |-> of, least |-> 1, many |-> FALSE]>>
Maybe(of) == <<[of |-> of, least |-> 0, many |-> FALSE]>>
Many(of)  == <<[of |-> of, least |-> 0, many |-> TRUE]>>

Statements == Many(
    {"RawText", "BashCommandSequence", "IncludeStatement", "ClassDefinition",
     "DatamemberDeclaration", "MethodDefinition", "ConstructorDefinition",
     "DestructorDefinition", "ObjectInstantiation", "ObjectReference", "PointerDeclaration",
     "DeleteStatement", "BashFunction"})

Interpolations ==
    {"RawText", "ObjectReference", "Supershell", "SubshellSubstitution",
     "BashArithmeticSubstitution", "Bash53NativeSupershell", "BashVariable"}

Words == Interpolations \cup {"DoublequotedString", "ProcessSubstitution"}

Rvalue ==
    Words \cup {"ArrayAssignment", "RawSubshell", "NewStatement", "DynamicCast", "TypeofExpression"}

CompoundCommands ==
    {"BashCaseStatement", "BashSelectStatement", "BashForStatement", "BashArithmeticForStatement",
     "BashIfStatement", "BashWhileStatement", "BashUntilStatement"}

Commands ==
    Rvalue \cup CompoundCommands \cup
    {"PrimitiveAssignment", "ObjectAssignment", "BashRedirection", "HereString", "HeredocBody",
     "Block", "BashTestConditionCommand"}

\* valid_rvalue may be empty, and words may follow the first.
Value == Maybe(Rvalue) \o Many(Words)

ProgramShape  == [Program |-> Statements]
BlockShape    == [Block |-> Statements]
SequenceShape ==
    [BashCommandSequence |-> One({"BashPipeline"}) \o Many({"Connective", "BashPipeline"})]
PipelineShape == [BashPipeline |-> Many(Commands)]

RedirectionShape == [BashRedirection |-> Value]
HereStringShape  == [HereString |-> Value]
HeredocShape     == [HeredocBody |-> Many(Interpolations)]
QuotedShape      == [DoublequotedString |-> Many(Interpolations)]
ArrayShape       == [ArrayAssignment |-> Statements]
IndexShape       == [ArrayIndex |-> Value]
VariableShape    == [BashVariable |-> Maybe({"ArrayIndex"}) \o Maybe({"ParameterExpansion"})]
ExpansionShape   == [ParameterExpansion |-> Value]
AssignmentShape  == [PrimitiveAssignment |-> Maybe({"ValueAssignment"})]
TypeofShape      == [TypeofExpression |-> Value]
TestShape        == [BashTestConditionCommand |-> One({"BashCommandSequence"})]

NestedProgramShape ==
    [n \in {"Supershell", "RawSubshell", "SubshellSubstitution", "ProcessSubstitution"} |->
        Statements]

NativeShape == [Bash53NativeSupershell |-> Statements]

--------------------------------------------------------------------------------
(* Classes and objects. *)

ClassShape   == [ClassDefinition |-> One({"Block"})]
MethodShape  == [MethodDefinition |-> One({"Block"})]
SpecialShape == [n \in {"ConstructorDefinition", "DestructorDefinition"} |-> One({"Block"})]

MemberShape ==
    [DatamemberDeclaration |->
        Maybe({"ValueAssignment", "ObjectInstantiation", "PointerDeclaration"})]

ObjectShape    == [ObjectInstantiation |-> Maybe({"ValueAssignment"})]
PointerShape   == [PointerDeclaration |-> Maybe({"ValueAssignment"})]
DeleteShape    == [DeleteStatement |-> One({"ObjectReference"})]
ValueShape     == [ValueAssignment |-> Value]
CopyShape      == [ObjectAssignment |-> One({"ObjectReference"}) \o One({"ValueAssignment"})]
ReferenceShape == [ObjectReference |-> Maybe({"ArrayIndex"})]

CastShape ==
    [DynamicCast |-> One({"DynamicCastTarget"}) \o Value,
     DynamicCastTarget |-> Maybe({"BashVariable", "ObjectReference", "RawText"})]

--------------------------------------------------------------------------------
(* Compound commands. *)

CaseShape ==
    [BashCaseStatement |-> Value \o Many({"BashCasePattern"}),
     BashCasePattern |-> One({"BashCasePatternHeader"}) \o Statements,
     BashCasePatternHeader |-> Many(Interpolations)]

\* The body is a block or a list of statements.
Body == Maybe({"Block"}) \o Statements

ForShape ==
    [BashForStatement |-> Maybe({"BashInCondition"}) \o Body,
     BashSelectStatement |-> Maybe({"BashInCondition"}) \o Body,
     BashInCondition |-> Many(Rvalue)]

ArithmeticForShape ==
    [BashArithmeticForStatement |-> One({"BashArithmeticForCondition"}) \o Body]

ArithStatement == Maybe(Rvalue \cup {"ObjectAssignment", "PrimitiveAssignment"}) \o Many(Words)

ArithmeticForConditionShape ==
    [BashArithmeticForCondition |-> ArithStatement \o ArithStatement \o ArithStatement]

ArithmeticShape == [BashArithmeticSubstitution |-> Statements]

IfShape ==
    [BashIfStatement |-> One({"BashIfRootBranch"}) \o Many({"BashIfElseBranch"}),
     BashIfRootBranch |-> One({"BashIfCondition"}) \o Statements,
     BashIfElseBranch |-> Maybe({"BashIfCondition"}) \o Statements,
     BashIfCondition |-> One({"BashCommandSequence"})]

LoopShape ==
    [BashWhileStatement |-> One({"BashWhileOrUntilCondition"}) \o Statements,
     BashUntilStatement |-> One({"BashWhileOrUntilCondition"}) \o Statements,
     BashWhileOrUntilCondition |-> One({"BashCommandSequence"})]

FunctionShape == [BashFunction |-> One({"Block"})]

Leaves == [n \in {"RawText", "Connective", "NewStatement"} |-> <<>>]

Shape ==
    Joined({
        ProgramShape, BlockShape, SequenceShape, PipelineShape, RedirectionShape,
        HereStringShape, HeredocShape, QuotedShape, ArrayShape, IndexShape, VariableShape,
        ExpansionShape, AssignmentShape, TypeofShape, TestShape, NestedProgramShape,
        NativeShape, ClassShape, MethodShape, SpecialShape, MemberShape, ObjectShape,
        PointerShape, DeleteShape, ValueShape, CopyShape, ReferenceShape, CastShape,
        CaseShape, ForShape, ArithmeticForShape, ArithmeticForConditionShape,
        ArithmeticShape, IfShape, LoopShape, FunctionShape, Leaves})
================================================================================
