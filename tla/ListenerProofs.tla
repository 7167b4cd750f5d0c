---------------------------- MODULE ListenerProofs ----------------------------
(***************************************************************************)
(* The walk keeps its books, whatever tree the grammar allows and wherever *)
(* errors occur in it: the entity stack, what is expected of objects and   *)
(* the marks of every listener are what its open nodes say.  And no error  *)
(* since the last include began is lost.                                   *)
(*                                                                         *)
(* The entity on top of the stack when a node is met or left is found from *)
(* the open nodes alone (Placed).  That it suits the handler comes from    *)
(* the tables: a part of a construct occurs right in the construct, whose  *)
(* entity is the one that the part's handler asserts (ChildFits).          *)
(***************************************************************************)
EXTENDS Listener, SequenceTheorems, FiniteSetTheorems, WellFoundedInduction, TLAPS

--------------------------------------------------------------------------------
(* The tables of Handlers. *)

LEMMA JoinedAt ==
    ASSUME NEW S, NEW n \in DOMAIN Joined(S)
    PROVE  \E f \in S : n \in DOMAIN f /\ Joined(S)[n] = f[n]
BY DEF Joined

LEMMA JoinedDomain == ASSUME NEW S, NEW f \in S PROVE DOMAIN f \subseteq DOMAIN Joined(S)
BY DEF Joined

\* The nodes that are part of another construct, and what their handlers assert they are in.
PartOf ==
    [ArrayIndex |-> CodeEntities, ParameterExpansion |-> CodeEntities, Connective |-> {"sequence"},
     BashArithmeticForCondition |-> {"for"}, BashInCondition |-> {"for"},
     BashWhileOrUntilCondition |-> {"loop"}, BashIfRootBranch |-> {"if"},
     BashIfElseBranch |-> {"if"}, BashIfCondition |-> {"branch"}, BashCasePattern |-> {"case"},
     BashCasePatternHeader |-> {"pattern"}, DynamicCastTarget |-> {"cast"}]

\* The others, but for blocks, and
Others ==
    {"ArrayAssignment", "Bash53NativeSupershell", "BashArithmeticSubstitution", "BashVariable",
     "BashPipeline", "DoublequotedString", "HereString", "HeredocBody",
     "BashTestConditionCommand", "PrimitiveAssignment", "ProcessSubstitution",
     "SubshellSubstitution", "RawSubshell", "BashRedirection", "RawText", "BashCommandSequence",
     "BashFunction", "BashArithmeticForStatement", "BashForStatement", "BashSelectStatement",
     "BashWhileStatement", "BashUntilStatement", "BashIfStatement", "BashCaseStatement",
     "Supershell", "ClassDefinition", "MethodDefinition", "ConstructorDefinition",
     "DestructorDefinition", "DatamemberDeclaration", "ObjectInstantiation",
     "PointerDeclaration", "DeleteStatement", "ObjectAssignment", "ValueAssignment",
     "ObjectReference", "NewStatement", "DynamicCast", "TypeofExpression"}

\* what parts, and blocks, a node can have.
PartsIn ==
    [BashVariable |-> {"ArrayIndex", "ParameterExpansion"}, ObjectReference |-> {"ArrayIndex"},
     BashCommandSequence |-> {"Connective"}, BashPipeline |-> {"Block"},
     BashArithmeticForStatement |-> {"BashArithmeticForCondition", "Block"},
     BashForStatement |-> {"BashInCondition", "Block"},
     BashSelectStatement |-> {"BashInCondition", "Block"},
     BashWhileStatement |-> {"BashWhileOrUntilCondition"},
     BashUntilStatement |-> {"BashWhileOrUntilCondition"},
     BashIfStatement |-> {"BashIfRootBranch", "BashIfElseBranch"},
     BashIfRootBranch |-> {"BashIfCondition"}, BashIfElseBranch |-> {"BashIfCondition"},
     BashCaseStatement |-> {"BashCasePattern"}, BashCasePattern |-> {"BashCasePatternHeader"},
     DynamicCast |-> {"DynamicCastTarget"}, ClassDefinition |-> {"Block"},
     MethodDefinition |-> {"Block"}, ConstructorDefinition |-> {"Block"},
     DestructorDefinition |-> {"Block"}, BashFunction |-> {"Block"}]

\* What these push, and the nodes that expect something.
Pushed ==
    [BashVariable |-> "string", ObjectReference |-> "reference",
     BashCommandSequence |-> "sequence", BashPipeline |-> "string",
     BashArithmeticForStatement |-> "for", BashForStatement |-> "for",
     BashSelectStatement |-> "for", BashWhileStatement |-> "loop", BashUntilStatement |-> "loop",
     BashIfStatement |-> "if", BashIfRootBranch |-> "branch", BashIfElseBranch |-> "branch",
     BashCaseStatement |-> "case", BashCasePattern |-> "pattern", DynamicCast |-> "cast",
     ClassDefinition |-> "class", MethodDefinition |-> "method",
     ConstructorDefinition |-> "method", DestructorDefinition |-> "method",
     BashFunction |-> "function", DeleteStatement |-> "delete",
     ObjectAssignment |-> "assignment", ValueAssignment |-> "value", Block |-> "code"]

Members == {"MethodDefinition", "ConstructorDefinition", "DestructorDefinition"}

Handles(f) ==
    \A n \in DOMAIN f :
        /\ n \in Others \cup DOMAIN PartOf \cup {"Block"}
        /\ f[n].top \subseteq Entities /\ ("assignment" \in f[n].top => "copy" \in f[n].top)
        /\ f[n].push \in Entities \cup {"none"}
        /\ f[n].push = "class" => n = "ClassDefinition"
        /\ f[n].push = "assignment" => n = "ObjectAssignment"
        /\ f[n].otherwise = "assert" => n \in DOMAIN PartOf /\ f[n].top = PartOf[n]
        /\ n \in DOMAIN Pushed => f[n].push = Pushed[n]
        /\ n \in Members => f[n].top = {"class"}

LEMMA AllHandled == Handles(Handler)
<1> DEFINE pieces == {
        ArrayAssignment, ArrayIndex, NativeSupershell, Arithmetic, BashVariable,
        Pipeline, QuotedString, HereString, HeredocBody, TestCondition,
        PrimitiveAssignment, ProcessSubstitution, Subshells, Redirection, RawText,
        Expansion, Sequence, Connective, BashFunction, Block, ArithmeticFor,
        ForOrSelect, WhileOrUntil, IfStatement, IfBranch, IfCondition, Case, Supershell,
        ClassDefinition, MethodDefinition, Constructor, Destructor,
        DatamemberDeclaration, ObjectInstantiation, PointerDeclaration, DeleteStatement,
        ObjectAssignment, ValueAssignment, ObjectReference, NewStatement, DynamicCast,
        CastTarget, TypeofExpression}
<1> USE DEF Handle, Code, Part, Entities, NonCode, CodeEntities, Strings, Objects
<1>1. Handles(ArrayAssignment)
  BY SMTT(60) DEF Handles, Others, PartOf, Pushed, Members, ArrayAssignment
<1>2. Handles(ArrayIndex) BY SMTT(60) DEF Handles, Others, PartOf, Pushed, Members, ArrayIndex
<1>3. Handles(NativeSupershell)
  BY SMTT(60) DEF Handles, Others, PartOf, Pushed, Members, NativeSupershell
<1>4. Handles(Arithmetic) BY SMTT(60) DEF Handles, Others, PartOf, Pushed, Members, Arithmetic
<1>5. Handles(BashVariable)
  BY SMTT(60) DEF Handles, Others, PartOf, Pushed, Members, BashVariable
<1>6. Handles(Pipeline) BY SMTT(60) DEF Handles, Others, PartOf, Pushed, Members, Pipeline
<1>7. Handles(QuotedString)
  BY SMTT(60) DEF Handles, Others, PartOf, Pushed, Members, QuotedString
<1>8. Handles(HereString) BY SMTT(60) DEF Handles, Others, PartOf, Pushed, Members, HereString
<1>9. Handles(HeredocBody) BY SMTT(60) DEF Handles, Others, PartOf, Pushed, Members, HeredocBody
<1>10. Handles(TestCondition)
  BY SMTT(60) DEF Handles, Others, PartOf, Pushed, Members, TestCondition
<1>11. Handles(PrimitiveAssignment)
  BY SMTT(60) DEF Handles, Others, PartOf, Pushed, Members, PrimitiveAssignment
<1>12. Handles(ProcessSubstitution)
  BY SMTT(60) DEF Handles, Others, PartOf, Pushed, Members, ProcessSubstitution
<1>13. Handles(Subshells) BY SMTT(60) DEF Handles, Others, PartOf, Pushed, Members, Subshells
<1>14. Handles(Redirection)
  BY SMTT(60) DEF Handles, Others, PartOf, Pushed, Members, Redirection
<1>15. Handles(RawText) BY SMTT(60) DEF Handles, Others, PartOf, Pushed, Members, RawText
<1>16. Handles(Expansion) BY SMTT(60) DEF Handles, Others, PartOf, Pushed, Members, Expansion
<1>17. Handles(Sequence) BY SMTT(60) DEF Handles, Others, PartOf, Pushed, Members, Sequence
<1>18. Handles(Connective) BY SMTT(60) DEF Handles, Others, PartOf, Pushed, Members, Connective
<1>19. Handles(BashFunction)
  BY SMTT(60) DEF Handles, Others, PartOf, Pushed, Members, BashFunction
<1>20. Handles(Block) BY SMTT(60) DEF Handles, Others, PartOf, Pushed, Members, Block
<1>21. Handles(ArithmeticFor)
  BY SMTT(60) DEF Handles, Others, PartOf, Pushed, Members, ArithmeticFor
<1>22. Handles(ForOrSelect)
  BY SMTT(60) DEF Handles, Others, PartOf, Pushed, Members, ForOrSelect
<1>23. Handles(WhileOrUntil)
  BY SMTT(60) DEF Handles, Others, PartOf, Pushed, Members, WhileOrUntil
<1>24. Handles(IfStatement)
  BY SMTT(60) DEF Handles, Others, PartOf, Pushed, Members, IfStatement
<1>25. Handles(IfBranch) BY SMTT(60) DEF Handles, Others, PartOf, Pushed, Members, IfBranch
<1>26. Handles(IfCondition)
  BY SMTT(60) DEF Handles, Others, PartOf, Pushed, Members, IfCondition
<1>27. Handles(Case) BY SMTT(60) DEF Handles, Others, PartOf, Pushed, Members, Case
<1>28. Handles(Supershell) BY SMTT(60) DEF Handles, Others, PartOf, Pushed, Members, Supershell
<1>29. Handles(ClassDefinition)
  BY SMTT(60) DEF Handles, Others, PartOf, Pushed, Members, ClassDefinition
<1>30. Handles(MethodDefinition)
  BY SMTT(60) DEF Handles, Others, PartOf, Pushed, Members, MethodDefinition
<1>31. Handles(Constructor)
  BY SMTT(60) DEF Handles, Others, PartOf, Pushed, Members, Constructor
<1>32. Handles(Destructor) BY SMTT(60) DEF Handles, Others, PartOf, Pushed, Members, Destructor
<1>33. Handles(DatamemberDeclaration)
  BY SMTT(60) DEF Handles, Others, PartOf, Pushed, Members, DatamemberDeclaration
<1>34. Handles(ObjectInstantiation)
  BY SMTT(60) DEF Handles, Others, PartOf, Pushed, Members, ObjectInstantiation
<1>35. Handles(PointerDeclaration)
  BY SMTT(60) DEF Handles, Others, PartOf, Pushed, Members, PointerDeclaration
<1>36. Handles(DeleteStatement)
  BY SMTT(60) DEF Handles, Others, PartOf, Pushed, Members, DeleteStatement
<1>37. Handles(ObjectAssignment)
  BY SMTT(60) DEF Handles, Others, PartOf, Pushed, Members, ObjectAssignment
<1>38. Handles(ValueAssignment)
  BY SMTT(60) DEF Handles, Others, PartOf, Pushed, Members, ValueAssignment
<1>39. Handles(ObjectReference)
  BY SMTT(60) DEF Handles, Others, PartOf, Pushed, Members, ObjectReference
<1>40. Handles(NewStatement)
  BY SMTT(60) DEF Handles, Others, PartOf, Pushed, Members, NewStatement
<1>41. Handles(DynamicCast)
  BY SMTT(60) DEF Handles, Others, PartOf, Pushed, Members, DynamicCast
<1>42. Handles(CastTarget) BY SMTT(60) DEF Handles, Others, PartOf, Pushed, Members, CastTarget
<1>43. Handles(TypeofExpression)
  BY SMTT(60) DEF Handles, Others, PartOf, Pushed, Members, TypeofExpression
<1>44. \A f \in pieces : Handles(f)
  BY <1>1, <1>2, <1>3, <1>4, <1>5, <1>6, <1>7, <1>8, <1>9, <1>10, <1>11, <1>12, <1>13, <1>14,
     <1>15, <1>16, <1>17, <1>18, <1>19, <1>20, <1>21, <1>22, <1>23, <1>24, <1>25, <1>26, <1>27,
     <1>28, <1>29, <1>30, <1>31, <1>32, <1>33, <1>34, <1>35, <1>36, <1>37, <1>38, <1>39, <1>40,
     <1>41, <1>42, <1>43
<1> HIDE DEF pieces
<1>45. Handler = Joined(pieces) BY DEF Handler, pieces
<1> QED BY <1>44, <1>45, JoinedAt DEF Handles

SlotsOf(S) == Seq([of : SUBSET S, least : {0, 1}, many : BOOLEAN])

LEMMA SlotsOfOne ==
    ASSUME NEW S, NEW A \in SUBSET S
    PROVE  One(A) \in SlotsOf(S) /\ Maybe(A) \in SlotsOf(S) /\ Many(A) \in SlotsOf(S)
BY DEF One, Maybe, Many, SlotsOf

LEMMA SlotsOfTwo ==
    ASSUME NEW S, NEW s \in SlotsOf(S), NEW t \in SlotsOf(S)
    PROVE  s \o t \in SlotsOf(S)
BY DEF SlotsOf

LEMMA CommandsAre == Commands \subseteq Others \cup {"Block"}
<1>1. Words \subseteq Others BY DEF Words, Interpolations, Others
<1>2. Rvalue \subseteq Others BY <1>1 DEF Rvalue, Others
<1> QED BY <1>2 DEF Commands, CompoundCommands, Others

\* A list of statements or of words has no parts of other constructs.
LEMMA SlotsOfLists ==
    ASSUME NEW S, Others \cup {"IncludeStatement"} \subseteq S
    PROVE  /\ Statements \in SlotsOf(S) /\ Value \in SlotsOf(S) /\ ArithStatement \in SlotsOf(S)
           /\ Many(Interpolations) \in SlotsOf(S) /\ Many(Rvalue) \in SlotsOf(S)
<1>1. Interpolations \subseteq Others BY DEF Interpolations, Others
<1>2. Words \subseteq Others BY <1>1 DEF Words, Others
<1>3. Rvalue \subseteq Others BY <1>2 DEF Rvalue, Others
<1>5. Statements \in SlotsOf(S) BY SlotsOfOne DEF Statements, Others
<1>6. Value \in SlotsOf(S) BY <1>2, <1>3, SlotsOfOne, SlotsOfTwo DEF Value
<1>7. ArithStatement \in SlotsOf(S)
  <2>1. Rvalue \cup {"ObjectAssignment", "PrimitiveAssignment"} \subseteq Others
    BY <1>3 DEF Others
  <2> QED BY <1>2, <2>1, SlotsOfOne, SlotsOfTwo DEF ArithStatement
<1> QED BY <1>1, <1>3, <1>5, <1>6, <1>7, SlotsOfOne

Within(m) ==
    Others \cup {"IncludeStatement"} \cup (IF m \in DOMAIN PartsIn THEN PartsIn[m] ELSE {})

Holds(f) == \A m \in DOMAIN f : f[m] \in SlotsOf(Within(m))

LEMMA AllHeld == Holds(Shape)
<1> DEFINE pieces == {
        ProgramShape, BlockShape, SequenceShape, PipelineShape, RedirectionShape,
        HereStringShape, HeredocShape, QuotedShape, ArrayShape, IndexShape,
        VariableShape, ExpansionShape, AssignmentShape, TypeofShape, TestShape,
        NestedProgramShape, NativeShape, ClassShape, MethodShape, SpecialShape,
        MemberShape, ObjectShape, PointerShape, DeleteShape, ValueShape, CopyShape,
        ReferenceShape, CastShape, CaseShape, ForShape, ArithmeticForShape,
        ArithmeticForConditionShape, ArithmeticShape, IfShape, LoopShape, FunctionShape,
        Leaves}
<1>a. \A m : /\ Statements \in SlotsOf(Within(m)) /\ Value \in SlotsOf(Within(m))
            /\ ArithStatement \in SlotsOf(Within(m))
            /\ Many(Interpolations) \in SlotsOf(Within(m)) /\ Many(Rvalue) \in SlotsOf(Within(m))
  BY SlotsOfLists DEF Within
<1>b. \A m : <<>> \in SlotsOf(Within(m)) BY DEF SlotsOf
<1>1. Holds(ProgramShape) BY <1>a DEF Holds, ProgramShape
<1>2. Holds(BlockShape) BY <1>a DEF Holds, BlockShape
<1>3. Holds(RedirectionShape) BY <1>a DEF Holds, RedirectionShape
<1>4. Holds(HereStringShape) BY <1>a DEF Holds, HereStringShape
<1>5. Holds(HeredocShape) BY <1>a DEF Holds, HeredocShape
<1>6. Holds(QuotedShape) BY <1>a DEF Holds, QuotedShape
<1>7. Holds(ArrayShape) BY <1>a DEF Holds, ArrayShape
<1>8. Holds(IndexShape) BY <1>a DEF Holds, IndexShape
<1>9. Holds(ExpansionShape) BY <1>a DEF Holds, ExpansionShape
<1>10. Holds(TypeofShape) BY <1>a DEF Holds, TypeofShape
<1>11. Holds(NestedProgramShape) BY <1>a DEF Holds, NestedProgramShape
<1>12. Holds(NativeShape) BY <1>a DEF Holds, NativeShape
<1>13. Holds(ValueShape) BY <1>a DEF Holds, ValueShape
<1>14. Holds(ArithmeticShape) BY <1>a DEF Holds, ArithmeticShape
<1>15. Holds(Leaves) BY <1>b DEF Holds, Leaves
<1>16. Holds(ArithmeticForConditionShape)
  <2> DEFINE s1 == ArithStatement \o ArithStatement \o ArithStatement
  <2>1. s1 \in SlotsOf(Within("BashArithmeticForCondition")) BY <1>a, SlotsOfTwo
  <2>2. ArithmeticForConditionShape = [BashArithmeticForCondition |-> s1]
    BY DEF ArithmeticForConditionShape
  <2> HIDE DEF s1
  <2> QED BY <2>1, <2>2 DEF Holds
<1>17. Holds(AssignmentShape) BY SlotsOfOne DEF Holds, Within, Others, PartsIn, AssignmentShape
<1>18. Holds(TestShape) BY SlotsOfOne DEF Holds, Within, Others, PartsIn, TestShape
<1>19. Holds(ClassShape) BY SlotsOfOne DEF Holds, Within, Others, PartsIn, ClassShape
<1>20. Holds(MethodShape) BY SlotsOfOne DEF Holds, Within, Others, PartsIn, MethodShape
<1>21. Holds(MemberShape) BY SlotsOfOne DEF Holds, Within, Others, PartsIn, MemberShape
<1>22. Holds(ObjectShape) BY SlotsOfOne DEF Holds, Within, Others, PartsIn, ObjectShape
<1>23. Holds(PointerShape) BY SlotsOfOne DEF Holds, Within, Others, PartsIn, PointerShape
<1>24. Holds(DeleteShape) BY SlotsOfOne DEF Holds, Within, Others, PartsIn, DeleteShape
<1>25. Holds(ReferenceShape) BY SlotsOfOne DEF Holds, Within, Others, PartsIn, ReferenceShape
<1>26. Holds(FunctionShape) BY SlotsOfOne DEF Holds, Within, Others, PartsIn, FunctionShape
<1>27. Holds(PipelineShape)
  <2>1. Commands \subseteq Within("BashPipeline")
    BY CommandsAre DEF Within, Others, PartsIn
  <2> QED BY <2>1, SlotsOfOne DEF Holds, PipelineShape
<1>28. Holds(SpecialShape)
  <2>1. One({"Block"}) \in SlotsOf(Within("ConstructorDefinition"))
    BY SlotsOfOne DEF Within, PartsIn
  <2>2. One({"Block"}) \in SlotsOf(Within("DestructorDefinition"))
    BY SlotsOfOne DEF Within, PartsIn
  <2> QED BY <2>1, <2>2 DEF Holds, SpecialShape
<1>29. Holds(SequenceShape)
  <2> DEFINE s1 == One({"BashPipeline"}) \o Many({"Connective", "BashPipeline"})
  <2>1. One({"BashPipeline"}) \in SlotsOf(Within("BashCommandSequence"))
    BY SlotsOfOne DEF Within, Others, PartsIn
  <2>2. Many({"Connective", "BashPipeline"}) \in SlotsOf(Within("BashCommandSequence"))
    BY SlotsOfOne DEF Within, Others, PartsIn
  <2>3. s1 \in SlotsOf(Within("BashCommandSequence"))
    BY <1>a, <2>1, <2>2, SlotsOfTwo
  <2>4. SequenceShape = [BashCommandSequence |-> s1] BY DEF SequenceShape
  <2> HIDE DEF s1
  <2> QED BY <2>1, <2>2, <2>3, <2>4 DEF Holds
<1>30. Holds(VariableShape)
  <2> DEFINE s1 == Maybe({"ArrayIndex"}) \o Maybe({"ParameterExpansion"})
  <2>1. Maybe({"ArrayIndex"}) \in SlotsOf(Within("BashVariable"))
    BY SlotsOfOne DEF Within, Others, PartsIn
  <2>2. Maybe({"ParameterExpansion"}) \in SlotsOf(Within("BashVariable"))
    BY SlotsOfOne DEF Within, Others, PartsIn
  <2>3. s1 \in SlotsOf(Within("BashVariable"))
    BY <1>a, <2>1, <2>2, SlotsOfTwo
  <2>4. VariableShape = [BashVariable |-> s1] BY DEF VariableShape
  <2> HIDE DEF s1
  <2> QED BY <2>1, <2>2, <2>3, <2>4 DEF Holds
<1>31. Holds(CopyShape)
  <2> DEFINE s1 == One({"ObjectReference"}) \o One({"ValueAssignment"})
  <2>1. One({"ObjectReference"}) \in SlotsOf(Within("ObjectAssignment"))
    BY SlotsOfOne DEF Within, Others, PartsIn
  <2>2. One({"ValueAssignment"}) \in SlotsOf(Within("ObjectAssignment"))
    BY SlotsOfOne DEF Within, Others, PartsIn
  <2>3. s1 \in SlotsOf(Within("ObjectAssignment"))
    BY <1>a, <2>1, <2>2, SlotsOfTwo
  <2>4. CopyShape = [ObjectAssignment |-> s1] BY DEF CopyShape
  <2> HIDE DEF s1
  <2> QED BY <2>1, <2>2, <2>3, <2>4 DEF Holds
<1>32. Holds(CastShape)
  <2> DEFINE s1 == One({"DynamicCastTarget"}) \o Value
             s2 == Maybe({"BashVariable", "ObjectReference", "RawText"})
  <2>1. One({"DynamicCastTarget"}) \in SlotsOf(Within("DynamicCast"))
    BY SlotsOfOne DEF Within, Others, PartsIn
  <2>2. s1 \in SlotsOf(Within("DynamicCast"))
    BY <1>a, <2>1, SlotsOfTwo
  <2>3. s2 \in SlotsOf(Within("DynamicCastTarget"))
    BY SlotsOfOne DEF Within, Others, PartsIn
  <2>4. CastShape = [DynamicCast |-> s1, DynamicCastTarget |-> s2] BY DEF CastShape
  <2> HIDE DEF s1, s2
  <2> QED BY <2>1, <2>2, <2>3, <2>4 DEF Holds
<1>33. Holds(CaseShape)
  <2> DEFINE s1 == Value \o Many({"BashCasePattern"})
             s2 == One({"BashCasePatternHeader"}) \o Statements
             s3 == Many(Interpolations)
  <2>1. Many({"BashCasePattern"}) \in SlotsOf(Within("BashCaseStatement"))
    BY SlotsOfOne DEF Within, Others, PartsIn
  <2>2. One({"BashCasePatternHeader"}) \in SlotsOf(Within("BashCasePattern"))
    BY SlotsOfOne DEF Within, Others, PartsIn
  <2>3. /\ s1 \in SlotsOf(Within("BashCaseStatement")) /\ s2 \in SlotsOf(Within("BashCasePattern"))
        /\ s3 \in SlotsOf(Within("BashCasePatternHeader"))
    BY <1>a, <2>1, <2>2, SlotsOfTwo
  <2>4. CaseShape = [BashCaseStatement |-> s1, BashCasePattern |-> s2,
                     BashCasePatternHeader |-> s3]
    BY DEF CaseShape
  <2> HIDE DEF s1, s2, s3
  <2> QED BY <2>3, <2>4 DEF Holds
<1>34. Holds(ForShape)
  <2> DEFINE s1 == Maybe({"BashInCondition"}) \o Body
             s2 == Many(Rvalue)
  <2>1. \A m \in {"BashForStatement", "BashSelectStatement"} :
            /\ Maybe({"BashInCondition"}) \in SlotsOf(Within(m))
            /\ Maybe({"Block"}) \in SlotsOf(Within(m))
    BY SlotsOfOne DEF Within, PartsIn
  <2>2. \A m \in {"BashForStatement", "BashSelectStatement"} : s1 \in SlotsOf(Within(m))
    BY <1>a, <2>1, SlotsOfTwo DEF Body
  <2>3. s2 \in SlotsOf(Within("BashInCondition")) BY <1>a
  <2>4. ForShape = [BashForStatement |-> s1, BashSelectStatement |-> s1, BashInCondition |-> s2]
    BY DEF ForShape
  <2> HIDE DEF s1, s2
  <2> QED BY <2>2, <2>3, <2>4 DEF Holds
<1>35. Holds(ArithmeticForShape)
  <2> DEFINE s1 == One({"BashArithmeticForCondition"}) \o Body
  <2>1. One({"BashArithmeticForCondition"}) \in SlotsOf(Within("BashArithmeticForStatement"))
    BY SlotsOfOne DEF Within, Others, PartsIn
  <2>2. Body \in SlotsOf(Within("BashArithmeticForStatement"))
    <3>1. Maybe({"Block"}) \in SlotsOf(Within("BashArithmeticForStatement"))
      BY SlotsOfOne DEF Within, PartsIn
    <3> QED BY <1>a, <3>1, SlotsOfTwo DEF Body
  <2>3. s1 \in SlotsOf(Within("BashArithmeticForStatement"))
    BY <1>a, <2>1, <2>2, SlotsOfTwo
  <2>4. ArithmeticForShape = [BashArithmeticForStatement |-> s1] BY DEF ArithmeticForShape
  <2> HIDE DEF s1
  <2> QED BY <2>1, <2>2, <2>3, <2>4 DEF Holds
<1>36. Holds(IfShape)
  <2> DEFINE s1 == One({"BashIfRootBranch"}) \o Many({"BashIfElseBranch"})
             s2 == One({"BashIfCondition"}) \o Statements
             s3 == Maybe({"BashIfCondition"}) \o Statements
             s4 == One({"BashCommandSequence"})
  <2>1. One({"BashIfRootBranch"}) \in SlotsOf(Within("BashIfStatement"))
    BY SlotsOfOne DEF Within, Others, PartsIn
  <2>2. Many({"BashIfElseBranch"}) \in SlotsOf(Within("BashIfStatement"))
    BY SlotsOfOne DEF Within, Others, PartsIn
  <2>3. s1 \in SlotsOf(Within("BashIfStatement"))
    BY <1>a, <2>1, <2>2, SlotsOfTwo
  <2>4. One({"BashIfCondition"}) \in SlotsOf(Within("BashIfRootBranch"))
    BY SlotsOfOne DEF Within, Others, PartsIn
  <2>5. s2 \in SlotsOf(Within("BashIfRootBranch"))
    BY <1>a, <2>4, SlotsOfTwo
  <2>6. Maybe({"BashIfCondition"}) \in SlotsOf(Within("BashIfElseBranch"))
    BY SlotsOfOne DEF Within, Others, PartsIn
  <2>7. s3 \in SlotsOf(Within("BashIfElseBranch"))
    BY <1>a, <2>6, SlotsOfTwo
  <2>8. s4 \in SlotsOf(Within("BashIfCondition"))
    BY SlotsOfOne DEF Within, Others, PartsIn
  <2>9. IfShape = [BashIfStatement |-> s1, BashIfRootBranch |-> s2, BashIfElseBranch |-> s3,
                   BashIfCondition |-> s4]
    BY DEF IfShape
  <2> HIDE DEF s1, s2, s3, s4
  <2> QED BY <2>1, <2>2, <2>3, <2>4, <2>5, <2>6, <2>7, <2>8, <2>9 DEF Holds
<1>37. Holds(LoopShape)
  <2> DEFINE s1 == One({"BashWhileOrUntilCondition"}) \o Statements
             s2 == One({"BashCommandSequence"})
  <2>1. \A m \in {"BashWhileStatement", "BashUntilStatement"} :
            One({"BashWhileOrUntilCondition"}) \in SlotsOf(Within(m))
    BY SlotsOfOne DEF Within, PartsIn
  <2>2. \A m \in {"BashWhileStatement", "BashUntilStatement"} : s1 \in SlotsOf(Within(m))
    BY <1>a, <2>1, SlotsOfTwo
  <2>3. s2 \in SlotsOf(Within("BashWhileOrUntilCondition"))
    BY SlotsOfOne DEF Within, Others
  <2>4. LoopShape = [BashWhileStatement |-> s1, BashUntilStatement |-> s1,
                     BashWhileOrUntilCondition |-> s2]
    BY DEF LoopShape
  <2> HIDE DEF s1, s2
  <2> QED BY <2>2, <2>3, <2>4 DEF Holds
<1>38. \A f \in pieces : Holds(f)
  BY <1>1, <1>2, <1>3, <1>4, <1>5, <1>6, <1>7, <1>8, <1>9, <1>10, <1>11, <1>12, <1>13, <1>14,
     <1>15, <1>16, <1>17, <1>18, <1>19, <1>20, <1>21, <1>22, <1>23, <1>24, <1>25, <1>26, <1>27,
     <1>28, <1>29, <1>30, <1>31, <1>32, <1>33, <1>34, <1>35, <1>36, <1>37
<1> HIDE DEF pieces
<1>39. Shape = Joined(pieces) BY DEF Shape, pieces
<1> QED BY <1>38, <1>39, JoinedAt DEF Holds

LEMMA ShapeOfAll == DOMAIN Handler \cup {"Program"} \subseteq DOMAIN Shape
<1> DEFINE pieces == {
        ProgramShape, BlockShape, SequenceShape, PipelineShape, RedirectionShape,
        HereStringShape, HeredocShape, QuotedShape, ArrayShape, IndexShape,
        VariableShape, ExpansionShape, AssignmentShape, TypeofShape, TestShape,
        NestedProgramShape, NativeShape, ClassShape, MethodShape, SpecialShape,
        MemberShape, ObjectShape, PointerShape, DeleteShape, ValueShape, CopyShape,
        ReferenceShape, CastShape, CaseShape, ForShape, ArithmeticForShape,
        ArithmeticForConditionShape, ArithmeticShape, IfShape, LoopShape, FunctionShape,
        Leaves}
<1>1. \A f \in pieces : DOMAIN f \subseteq DOMAIN Shape BY JoinedDomain DEF Shape
<1>2. {"Program", "Block", "BashCommandSequence", "BashPipeline", "BashRedirection",
       "HereString"} \subseteq DOMAIN Shape
  BY <1>1 DEF ProgramShape, BlockShape, SequenceShape, PipelineShape, RedirectionShape,
             HereStringShape
<1>3. {"HeredocBody", "DoublequotedString", "ArrayAssignment", "ArrayIndex", "BashVariable",
       "ParameterExpansion"} \subseteq DOMAIN Shape
  BY <1>1 DEF HeredocShape, QuotedShape, ArrayShape, IndexShape, VariableShape, ExpansionShape
<1>4. {"PrimitiveAssignment", "TypeofExpression", "BashTestConditionCommand", "Supershell",
       "RawSubshell", "SubshellSubstitution", "ProcessSubstitution",
       "Bash53NativeSupershell", "ClassDefinition"} \subseteq DOMAIN Shape
  BY <1>1 DEF AssignmentShape, TypeofShape, TestShape, NestedProgramShape, NativeShape,
             ClassShape
<1>5. {"MethodDefinition", "ConstructorDefinition", "DestructorDefinition",
       "DatamemberDeclaration", "ObjectInstantiation", "PointerDeclaration",
       "DeleteStatement"} \subseteq DOMAIN Shape
  BY <1>1 DEF MethodShape, SpecialShape, MemberShape, ObjectShape, PointerShape, DeleteShape
<1>6. {"ValueAssignment", "ObjectAssignment", "ObjectReference", "DynamicCast",
       "DynamicCastTarget", "BashCaseStatement", "BashCasePattern",
       "BashCasePatternHeader", "BashForStatement", "BashSelectStatement",
       "BashInCondition"} \subseteq DOMAIN Shape
  BY <1>1 DEF ValueShape, CopyShape, ReferenceShape, CastShape, CaseShape, ForShape
<1>7. {"BashArithmeticForStatement", "BashArithmeticForCondition", "BashArithmeticSubstitution",
       "BashIfStatement", "BashIfRootBranch", "BashIfElseBranch", "BashIfCondition",
       "BashWhileStatement", "BashUntilStatement", "BashWhileOrUntilCondition",
       "BashFunction"} \subseteq DOMAIN Shape
  BY <1>1 DEF ArithmeticForShape, ArithmeticForConditionShape, ArithmeticShape, IfShape,
             LoopShape, FunctionShape
<1>8. {"RawText", "Connective", "NewStatement"} \subseteq DOMAIN Shape
  BY <1>1 DEF Leaves
<1> HIDE DEF pieces
<1> QED BY AllHandled, <1>2, <1>3, <1>4, <1>5, <1>6, <1>7, <1>8 DEF Handles, Others, PartOf

\* A part is only met inside of the construct that it is a part of, and a block only in a
\* pipeline or inside of what gives it its entity.
LEMMA ChildFits ==
    ASSUME NEW m \in DOMAIN Shape, NEW j \in DOMAIN Shape[m], NEW n \in Shape[m][j].of,
           n \in DOMAIN Handler
    PROVE  /\ Handler[n].otherwise = "assert" =>
                /\ m \in DOMAIN Pushed \ {"Block", "ObjectAssignment"}
                /\ Pushed[m] \in Handler[n].top
           /\ n = "Block" =>
                \/ m = "BashPipeline"
                \/ m \in DOMAIN Pushed \ {"Block", "ObjectAssignment"} /\ Pushed[m] \in Surrounding
<1>1. n \in Within(m)
  <2>1. Shape[m] \in Seq([of : SUBSET Within(m), least : {0, 1}, many : BOOLEAN])
    BY AllHeld DEF Holds, SlotsOf
  <2>2. j \in 1..Len(Shape[m]) BY <2>1
  <2>3. Shape[m][j] \in [of : SUBSET Within(m), least : {0, 1}, many : BOOLEAN]
    BY <2>1, <2>2, ElementOfSeq
  <2> QED BY <2>3
<1>2. ASSUME Handler[n].otherwise = "assert"
      PROVE  /\ m \in DOMAIN Pushed \ {"Block", "ObjectAssignment"}
             /\ Pushed[m] \in Handler[n].top
  <2>1. n \in DOMAIN PartOf /\ Handler[n].top = PartOf[n] BY <1>2, AllHandled DEF Handles
  <2>2. m \in DOMAIN PartsIn /\ n \in PartsIn[m] BY <1>1, <2>1 DEF Within, Others, PartOf
  <2>3. Pushed[m] \in PartOf[n]
    BY <2>1, <2>2 DEF PartsIn, PartOf, Pushed, CodeEntities, Strings
  <2> QED BY <2>1, <2>2, <2>3 DEF PartsIn, Pushed
<1>3. ASSUME n = "Block"
      PROVE  \/ m = "BashPipeline"
             \/ m \in DOMAIN Pushed \ {"Block", "ObjectAssignment"} /\ Pushed[m] \in Surrounding
  <2>1. m \in DOMAIN PartsIn /\ n \in PartsIn[m] BY <1>1, <1>3 DEF Within, Others
  <2> QED BY <1>3, <2>1 DEF PartsIn, Pushed, Surrounding
<1> QED BY <1>2, <1>3
--------------------------------------------------------------------------------
(* Heights. *)

LEMMA CountNext ==
    ASSUME NEW S, NEW k \in Nat
    PROVE  /\ Cardinality(S \cap 1..k) \in Nat
           /\ Cardinality(S \cap 1..0) = 0
           /\ Cardinality(S \cap 1..(k + 1)) =
                Cardinality(S \cap 1..k) + (IF k + 1 \in S THEN 1 ELSE 0)
<1>1. IsFiniteSet(S \cap 1..k)
  <2>1. IsFiniteSet(1..k) BY FS_Interval
  <2> QED BY <2>1, FS_Subset
<1>2. Cardinality(S \cap 1..k) \in Nat BY <1>1, FS_CardinalityType
<1>3. S \cap 1..0 = {} OBVIOUS
<1>4. ASSUME k + 1 \in S
      PROVE  Cardinality(S \cap 1..(k + 1)) = Cardinality(S \cap 1..k) + 1
  <2>1. S \cap 1..(k + 1) = (S \cap 1..k) \cup {k + 1} BY <1>4
  <2>2. k + 1 \notin S \cap 1..k OBVIOUS
  <2> QED BY <1>1, <2>1, <2>2, FS_AddElement
<1>5. ASSUME k + 1 \notin S PROVE S \cap 1..(k + 1) = S \cap 1..k
  BY <1>5
<1> QED BY <1>2, <1>3, <1>4, <1>5, FS_EmptySet

LEMMA CountGrows ==
    ASSUME NEW S, NEW j \in Nat, NEW k \in Nat, j <= k
    PROVE  /\ Cardinality(S \cap 1..j) <= Cardinality(S \cap 1..k)
           /\ j < k /\ k \in S => Cardinality(S \cap 1..j) < Cardinality(S \cap 1..k)
<1>1. IsFiniteSet(S \cap 1..k)
  <2>1. IsFiniteSet(1..k) BY FS_Interval
  <2> QED BY <2>1, FS_Subset
<1>2. S \cap 1..j \subseteq S \cap 1..k OBVIOUS
<1>3. j < k /\ k \in S => S \cap 1..j # S \cap 1..k OBVIOUS
<1>4. Cardinality(S \cap 1..j) \in Nat /\ Cardinality(S \cap 1..k) \in Nat
  BY <1>1, <1>2, FS_CardinalityType, FS_Subset
<1>5. Cardinality(S \cap 1..j) <= Cardinality(S \cap 1..k) BY <1>1, <1>2, FS_Subset
<1>6. Cardinality(S \cap 1..j) = Cardinality(S \cap 1..k) => S \cap 1..j = S \cap 1..k
  BY <1>1, <1>2, FS_Subset
<1> QED BY <1>3, <1>4, <1>5, <1>6
Rooted(l) ==
    /\ l.open # <<>> /\ l.open[1].node = "Program"
    /\ \A k \in 2..Len(l.open) : l.open[k].node \in DOMAIN Handler

\* A node was met where its handler lets it be,
Founded(l) == \A k \in Owners(l) \ {1} : TopIn(l, k - 1) \in Handler[l.open[k].node].top

\* a block without an entity stands on what it is the body of, and
BlocksPlaced(l) ==
    \A k \in DOMAIN l.open \ Owners(l) :
        l.open[k].node = "Block" => TopIn(l, k) \in Surrounding

\* the entity of a class is on top only in a class.
ClassesOpen(l) ==
    \A k \in DOMAIN l.open :
        TopIn(l, k) = "class" => \E i \in 1..k : l.open[i].node = "ClassDefinition"

Placed(l) ==
    Rooted(l) /\ Matches(l) /\ Founded(l) /\ BlocksPlaced(l) /\ ClassesOpen(l) /\ Expects(l)

LEMMA Heights ==
    ASSUME NEW l, NEW k \in Nat
    PROVE  /\ Height(l, k) \in Nat /\ Expected(l, k) \in Nat
           /\ Height(l, 0) = 0 /\ Expected(l, 0) = 0
           /\ Height(l, k + 1) = Height(l, k) + (IF k + 1 \in Owners(l) THEN 1 ELSE 0)
           /\ Expected(l, k + 1) = Expected(l, k) + (IF k + 1 \in Expectant(l) THEN 1 ELSE 0)
BY CountNext DEF Height, Expected

LEMMA HeightsGrow ==
    ASSUME NEW l, NEW j \in Nat, NEW k \in Nat, j <= k
    PROVE  /\ Height(l, j) <= Height(l, k) /\ Expected(l, j) <= Expected(l, k)
           /\ j < k /\ k \in Owners(l) => Height(l, j) < Height(l, k)
BY CountGrows DEF Height, Expected

LEMMA Opens ==
    ASSUME NEW l \in Listeners
    PROVE  /\ Len(l.open) \in Nat /\ DOMAIN l.open = 1..Len(l.open)
           /\ Len(l.entities) \in Nat /\ DOMAIN l.entities = 1..Len(l.entities)
           /\ Len(l.objects) \in Nat /\ DOMAIN l.objects = 1..Len(l.objects)
           /\ \A k \in 1..Len(l.entities) : l.entities[k] \in Entities
BY DEF Listeners

\* What the first N open nodes say depends on these alone.
LEMMA Prefix ==
    ASSUME NEW l \in Listeners, NEW m \in Listeners, Rooted(l), Rooted(m),
           NEW N \in Nat, N <= Len(l.open), N <= Len(m.open),
           \A k \in 1..N : m.open[k].node = l.open[k].node
    PROVE  /\ \A k \in 1..N : /\ Own(m, k) = Own(l, k)
                              /\ k \in Owners(m) <=> k \in Owners(l)
                              /\ k \in Expectant(m) <=> k \in Expectant(l)
           /\ \A k \in 0..N : Height(m, k) = Height(l, k) /\ Expected(m, k) = Expected(l, k)
<1>1. DOMAIN l.open = 1..Len(l.open) /\ DOMAIN m.open = 1..Len(m.open) /\ Len(l.open) \in Nat
      /\ Len(m.open) \in Nat
  BY Opens
<1>2. ASSUME NEW k \in 1..N
      PROVE  /\ Own(m, k) = Own(l, k)
             /\ k \in Owners(m) <=> k \in Owners(l)
             /\ k \in Expectant(m) <=> k \in Expectant(l)
  <2>1. m.open[k].node = l.open[k].node BY <1>2
  <2>2. CASE k = 1
    <3>1. l.open[k].node = "Program" /\ m.open[k].node = "Program" BY <2>2 DEF Rooted
    <3>2. Own(m, k) = Own(l, k) BY <3>1 DEF Own
    <3> QED BY <1>1, <2>1, <3>2 DEF Owners, Expectant
  <2>3. CASE k # 1
    <3>1. k - 1 \in 1..N BY <2>3
    <3>2. m.open[k - 1].node = l.open[k - 1].node BY <3>1
    <3>3. Own(m, k) = Own(l, k) BY <2>1, <3>2 DEF Own
    <3> QED BY <1>1, <2>1, <3>3 DEF Owners, Expectant
  <2> QED BY <2>2, <2>3
<1>3. ASSUME NEW k \in 0..N PROVE Height(m, k) = Height(l, k) /\ Expected(m, k) = Expected(l, k)
  <2>1. 1..k \subseteq 1..N OBVIOUS
  <2>2. Owners(m) \cap 1..k = Owners(l) \cap 1..k BY <1>2, <2>1
  <2>3. Expectant(m) \cap 1..k = Expectant(l) \cap 1..k BY <1>2, <2>1
  <2> QED BY <2>2, <2>3 DEF Height, Expected
<1> QED BY <1>2, <1>3

\* Where the entities of the first N nodes are, if the stack has those on it.
LEMMA TopsAre ==
    ASSUME NEW l \in Listeners, Placed(l)
    PROVE  /\ Len(l.open) > 0 /\ Own(l, 1) = "program" /\ 1 \in Owners(l) /\ Height(l, 1) = 1
           /\ \A k \in 1..Len(l.open) : Height(l, k) \in 1..Len(l.entities)
           /\ TopIn(l, Len(l.open)) = Last(l.entities) /\ Len(l.entities) > 0
<1>1. Len(l.open) \in Nat \ {0} /\ DOMAIN l.open = 1..Len(l.open)
  BY Opens DEF Placed, Rooted, Listeners
<1>2. Own(l, 1) = "program" BY DEF Own, Placed, Rooted
<1>3. 1 \in Owners(l) BY <1>1, <1>2 DEF Owners
<1>4. Height(l, 1) = 1 BY <1>3, Heights, 0 \in Nat
<1>5. Len(l.entities) = Height(l, Len(l.open)) BY DEF Placed, Matches
<1>6. \A k \in 1..Len(l.open) : Height(l, k) \in 1..Len(l.entities)
  <2> TAKE k \in 1..Len(l.open)
  <2>1. 1 <= Height(l, k) BY <1>1, <1>4, HeightsGrow
  <2>2. Height(l, k) <= Len(l.entities) BY <1>1, <1>5, HeightsGrow
  <2> QED BY <1>1, <2>1, <2>2, Heights, Opens
<1>7. TopIn(l, Len(l.open)) = Last(l.entities) BY <1>5 DEF TopIn, Last
<1> QED BY <1>1, <1>2, <1>3, <1>4, <1>5, <1>6, <1>7, Opens

\* The last open node pushed what it would push now.
LEMMA PushedOwn ==
    ASSUME NEW l \in Listeners, Placed(l), Len(l.open) > 1
    PROVE  LET n == Last(l.open).node
           IN  n \in DOMAIN Handler /\ Pushes(n, Last(l.entities)) = Own(l, Len(l.open))
<1> DEFINE k == Len(l.open)
          n == l.open[k].node
          top == Last(l.entities)
<1>1. k \in Nat /\ k > 1 /\ DOMAIN l.open = 1..k BY Opens
<1>2. n \in DOMAIN Handler BY <1>1 DEF Placed, Rooted
<1>3. n # "Program"
  BY <1>2, AllHandled DEF Handles, Others, PartOf
<1>4. TopIn(l, k) = top BY TopsAre
<1>5. CASE k \notin Owners(l)
  <2>1. Own(l, k) = "none" BY <1>1, <1>5 DEF Owners
  <2>2. CASE n = "Block"
    <3>1. top \in Surrounding BY <1>1, <1>4, <1>5, <2>2 DEF Placed, BlocksPlaced
    <3> QED BY <1>2, <2>1, <2>2, <3>1 DEF Pushes, Last
  <2>3. CASE n # "Block" BY <1>2, <1>3, <2>1, <2>3 DEF Own, Pushes, Last
  <2> QED BY <2>2, <2>3
<1>6. CASE k \in Owners(l)
  <2>1. Own(l, k) # "none" BY <1>6 DEF Owners
  <2>2. CASE n = "Block"
    <3>1. Own(l, k) = "code" /\ Handler["Block"].push = "code"
      BY <1>2, <2>1, <2>2, AllHandled DEF Own, Handles, Pushed
    <3>2. top = "code" BY <1>4, <1>6, <3>1 DEF Placed, Matches, Becomes
    <3> QED BY <1>2, <2>2, <3>1, <3>2 DEF Pushes, Surrounding, Last
  <2>3. CASE n # "Block" BY <1>2, <1>3, <2>3 DEF Own, Pushes, Last
  <2> QED BY <2>2, <2>3
<1> QED BY <1>2, <1>5, <1>6 DEF Last
LEMMA NotProgram == "Program" \notin DOMAIN Handler
BY AllHandled DEF Handles, Others, PartOf

\* Neither where the walk is in a node nor its errors matter.
LEMMA AlikePlaced ==
    ASSUME NEW l \in Listeners, NEW m \in Listeners, Placed(l), Len(m.open) = Len(l.open),
           \A k \in 1..Len(l.open) : m.open[k].node = l.open[k].node,
           m.entities = l.entities, m.objects = l.objects
    PROVE  Placed(m)
<1> DEFINE N == Len(l.open)
<1>1. N \in Nat \ {0} /\ DOMAIN l.open = 1..N /\ DOMAIN m.open = 1..N BY Opens, TopsAre
<1>2. Rooted(l) BY DEF Placed
<1>3. Rooted(m) BY <1>1, <1>2 DEF Rooted
<1>4. /\ \A k \in 1..N : /\ Own(m, k) = Own(l, k)
                         /\ k \in Owners(m) <=> k \in Owners(l)
                         /\ k \in Expectant(m) <=> k \in Expectant(l)
      /\ \A k \in 0..N : Height(m, k) = Height(l, k) /\ Expected(m, k) = Expected(l, k)
  BY <1>1, <1>2, <1>3, Prefix
<1>5. Owners(m) = Owners(l) /\ Expectant(m) = Expectant(l)
  BY <1>1, <1>4 DEF Owners, Expectant
<1>6. Owners(l) \subseteq 1..N /\ Expectant(l) \subseteq 1..N BY <1>1 DEF Owners, Expectant
<1>7. \A k \in 0..N : TopIn(m, k) = TopIn(l, k) BY <1>4 DEF TopIn
<1>8. Matches(m) BY <1>1, <1>4, <1>5, <1>6, <1>7 DEF Placed, Matches
<1>9. Founded(m)
  <2> SUFFICES ASSUME NEW k \in Owners(m) \ {1}
               PROVE  TopIn(m, k - 1) \in Handler[m.open[k].node].top
    BY DEF Founded
  <2>1. k \in 1..N /\ k - 1 \in 0..N /\ k \in Owners(l) \ {1} BY <1>1, <1>5, <1>6
  <2> QED BY <1>7, <2>1 DEF Placed, Founded
<1>10. BlocksPlaced(m) BY <1>1, <1>5, <1>7 DEF Placed, BlocksPlaced
<1>11. ClassesOpen(m)
  <2> SUFFICES ASSUME NEW k \in 1..N, TopIn(m, k) = "class"
               PROVE  \E i \in 1..k : m.open[i].node = "ClassDefinition"
    BY <1>1 DEF ClassesOpen
  <2>1. PICK i \in 1..k : l.open[i].node = "ClassDefinition"
    BY <1>1, <1>7 DEF Placed, ClassesOpen
  <2> QED BY <1>1, <2>1
<1>12. Expects(m)
  <2> SUFFICES ASSUME NEW k \in Expectant(m)
               PROVE  <<m.objects[Expected(m, k)]>> = Expectation(m.open[k].node, TopIn(m, k - 1))
    BY <1>1, <1>4 DEF Placed, Expects
  <2>1. k \in 1..N /\ k - 1 \in 0..N /\ k \in Expectant(l) BY <1>1, <1>5, <1>6
  <2> QED BY <1>4, <1>7, <2>1 DEF Placed, Expects
<1> QED BY <1>3, <1>8, <1>9, <1>10, <1>11, <1>12 DEF Placed

\* A node that suits where it is met is opened.
LEMMA OpenedPlaced ==
    ASSUME NEW l \in Listeners, NEW m \in Listeners, NEW n \in DOMAIN Handler, Placed(l),
           NEW top, top = Last(l.entities),
           n = "Block" => (Last(l.open).node # "BashPipeline" <=> top \in Surrounding),
           top \in Handler[n].top \/ Pushes(n, top) # Handler[n].push,
           m.open = Append(l.open, [node |-> n, slot |-> 1]),
           m.entities = Push(l.entities, Pushes(n, top)),
           m.objects = l.objects \o Expectation(n, top)
    PROVE  Placed(m)
<1> DEFINE N == Len(l.open)
<1>1. /\ N \in Nat \ {0} /\ DOMAIN l.open = 1..N
      /\ Len(m.open) = N + 1 /\ DOMAIN m.open = 1..(N + 1)
      /\ m.open[N + 1] = [node |-> n, slot |-> 1]
      /\ \A k \in 1..N : m.open[k] = l.open[k]
  <2>1. l.open \in Seq([node : AllNodes \cup {"Program"}, slot : Nat \ {0}]) BY DEF Listeners
  <2> QED BY <2>1, Opens, TopsAre
<1>2. Rooted(l) BY DEF Placed
<1>3. Rooted(m) BY <1>1, <1>2 DEF Rooted
<1>4. /\ \A k \in 1..N : /\ Own(m, k) = Own(l, k)
                         /\ k \in Owners(m) <=> k \in Owners(l)
                         /\ k \in Expectant(m) <=> k \in Expectant(l)
      /\ \A k \in 0..N : Height(m, k) = Height(l, k) /\ Expected(m, k) = Expected(l, k)
  <2>1. \A k \in 1..N : m.open[k].node = l.open[k].node BY <1>1
  <2>2. N \in Nat /\ N <= Len(l.open) /\ N <= Len(m.open) BY <1>1
  <2> HIDE DEF N
  <2> QED BY <1>2, <1>3, <2>1, <2>2, Prefix
<1>5. Own(m, N + 1) = Pushes(n, top)
  <2>1. n # "Program" BY NotProgram
  <2>2. Last(l.open).node = m.open[N].node BY <1>1 DEF Last
  <2>3. m.open[N + 1].node = n BY <1>1
  <2> QED BY <1>1, <2>1, <2>2, <2>3 DEF Own, Pushes
<1>6. /\ Owners(m) = Owners(l) \cup (IF Pushes(n, top) = "none" THEN {} ELSE {N + 1})
      /\ Owners(l) \subseteq 1..N /\ Expectant(l) \subseteq 1..N
  BY <1>1, <1>4, <1>5 DEF Owners, Expectant
<1>7. Expectant(m) = Expectant(l) \cup (IF Expectation(n, top) = <<>> THEN {} ELSE {N + 1})
  <2>1. m.open[N + 1].node = n BY <1>1
  <2>2. N + 1 \in Expectant(m) <=> Expectation(n, top) # <<>>
    BY <1>1, <2>1 DEF Expectant, Expectation
  <2> QED BY <1>1, <1>4, <1>6, <2>2 DEF Expectant
<1>8. Len(l.entities) = Height(l, N) /\ Len(l.objects) = Expected(l, N)
      /\ Len(l.entities) \in Nat /\ Len(l.objects) \in Nat
  BY Opens DEF Placed, Matches, Expects
<1>9. /\ Height(m, N + 1) = Height(l, N) + (IF Pushes(n, top) = "none" THEN 0 ELSE 1)
      /\ Expected(m, N + 1) = Expected(l, N) + (IF Expectation(n, top) = <<>> THEN 0 ELSE 1)
  <2>1. N + 1 \in Owners(m) <=> Pushes(n, top) # "none" BY <1>1, <1>6
  <2>2. N + 1 \in Expectant(m) <=> Expectation(n, top) # <<>> BY <1>1, <1>6, <1>7
  <2>3. Height(m, N) = Height(l, N) /\ Expected(m, N) = Expected(l, N) BY <1>1, <1>4
  <2> QED BY <1>1, <2>1, <2>2, <2>3, Heights
<1>10. /\ Len(m.entities) = Height(m, N + 1)
       /\ \A i \in 1..Len(l.entities) : m.entities[i] = l.entities[i]
       /\ Pushes(n, top) # "none" => m.entities[Height(m, N + 1)] = Pushes(n, top)
  <2>1. l.entities \in Seq(Entities) BY DEF Listeners
  <2>2. CASE Pushes(n, top) = "none" BY <1>8, <1>9, <2>2 DEF Push
  <2>3. CASE Pushes(n, top) # "none"
    <3>1. m.entities = Append(l.entities, Pushes(n, top)) BY <2>3 DEF Push
    <3> QED BY <1>8, <1>9, <2>1, <2>3, <3>1
  <2> QED BY <2>2, <2>3
<1>11. /\ Len(m.objects) = Expected(m, N + 1)
       /\ \A i \in 1..Len(l.objects) : m.objects[i] = l.objects[i]
       /\ Expectation(n, top) # <<>> => <<m.objects[Expected(m, N + 1)]>> = Expectation(n, top)
  <2>1. l.objects \in Seq(BOOLEAN) BY DEF Listeners
  <2>2. Expectation(n, top) = <<>> \/ \E b : Expectation(n, top) = <<b>> BY DEF Expectation
  <2>3. CASE Expectation(n, top) = <<>>
    <3>1. m.objects = l.objects BY <2>1, <2>3
    <3> QED BY <1>8, <1>9, <2>3, <3>1
  <2>4. ASSUME NEW b, Expectation(n, top) = <<b>>
        PROVE  /\ Len(m.objects) = Len(l.objects) + 1 /\ m.objects[Len(l.objects) + 1] = b
               /\ \A i \in 1..Len(l.objects) : m.objects[i] = l.objects[i]
    <3>1. l.objects \in Seq(BOOLEAN \cup {b}) /\ <<b>> \in Seq(BOOLEAN \cup {b})
      BY <2>1, SeqMonotonic
    <3> QED BY <2>4, <3>1
  <2>5. \A b : <<b>> # <<>> OBVIOUS
  <2> QED BY <1>8, <1>9, <2>2, <2>3, <2>4, <2>5
<1>12. \A k \in 1..N : TopIn(m, k) = TopIn(l, k) BY <1>4, <1>10, TopsAre DEF TopIn
<1>13. TopIn(m, N) = top BY <1>1, <1>12, TopsAre
<1>14. TopIn(m, N + 1) = IF Pushes(n, top) = "none" THEN top ELSE Pushes(n, top)
  <2>1. ASSUME Pushes(n, top) = "none" PROVE TopIn(m, N + 1) = TopIn(m, N)
    <3>1. Height(m, N + 1) = Height(m, N) BY <1>1, <1>4, <1>8, <1>9, <2>1
    <3> QED BY <3>1 DEF TopIn
  <2> QED BY <1>10, <1>13, <2>1 DEF TopIn
<1>15. Matches(m)
  <2>1. \A k \in Owners(l) : TopIn(m, k) \in Becomes(Own(m, k))
    BY <1>4, <1>6, <1>12 DEF Placed, Matches
  <2>2. N + 1 \in Owners(m) => TopIn(m, N + 1) \in Becomes(Own(m, N + 1))
    BY <1>1, <1>5, <1>6, <1>14 DEF Becomes
  <2> QED BY <1>1, <1>6, <1>10, <2>1, <2>2 DEF Matches
<1>16. Founded(m)
  <2>1. ASSUME NEW k \in Owners(l) \ {1}
        PROVE  TopIn(m, k - 1) \in Handler[m.open[k].node].top
    <3>1. k \in 1..N /\ k - 1 \in 1..N BY <1>1, <1>6
    <3> QED BY <1>1, <1>12, <3>1 DEF Placed, Founded
  <2>2. ASSUME Pushes(n, top) # "none"
        PROVE  TopIn(m, N) \in Handler[m.open[N + 1].node].top
    <3>1. m.open[N + 1].node = n BY <1>1
    <3>2. top \in Handler[n].top BY <2>2 DEF Pushes
    <3> QED BY <1>13, <3>1, <3>2
  <2> QED BY <1>1, <1>6, <2>1, <2>2 DEF Founded
<1>17. BlocksPlaced(m)
  <2>1. ASSUME NEW k \in (1..N) \ Owners(m), m.open[k].node = "Block"
        PROVE  TopIn(m, k) \in Surrounding
    BY <1>1, <1>4, <1>12, <2>1 DEF Placed, BlocksPlaced
  <2>2. ASSUME N + 1 \notin Owners(m), m.open[N + 1].node = "Block"
        PROVE  TopIn(m, N + 1) \in Surrounding
    <3>1. n = "Block" /\ Pushes(n, top) = "none" BY <1>1, <1>6, <2>2
    <3>2. Handler["Block"].push = "code" BY <3>1, AllHandled DEF Handles, Pushed
    <3>3. top \in Surrounding BY <3>1, <3>2 DEF Pushes
    <3> QED BY <1>14, <3>1, <3>3
  <2> QED BY <1>1, <2>1, <2>2 DEF BlocksPlaced
<1>18. ClassesOpen(m)
  <2>1. ASSUME NEW k \in 1..N, TopIn(m, k) = "class"
        PROVE  \E i \in 1..k : m.open[i].node = "ClassDefinition"
    <3>1. PICK i \in 1..k : l.open[i].node = "ClassDefinition"
      BY <1>1, <1>12, <2>1 DEF Placed, ClassesOpen
    <3> QED BY <1>1, <3>1, SMTT(30)
  <2>2. ASSUME TopIn(m, N + 1) = "class"
        PROVE  \E i \in 1..(N + 1) : m.open[i].node = "ClassDefinition"
    <3>1. CASE Pushes(n, top) = "none" BY <1>1, <1>13, <1>14, <2>1, <2>2, <3>1
    <3>2. CASE Pushes(n, top) # "none"
      <4>1. Handler[n].push = "class" BY <1>14, <2>2, <3>2 DEF Pushes
      <4>2. n = "ClassDefinition" BY <4>1, AllHandled DEF Handles
      <4> QED BY <1>1, <4>2
    <3> QED BY <3>1, <3>2
  <2> QED BY <1>1, <2>1, <2>2 DEF ClassesOpen
<1>19. Expects(m)
  <2>1. ASSUME NEW k \in Expectant(l)
        PROVE  <<m.objects[Expected(m, k)]>> = Expectation(m.open[k].node, TopIn(m, k - 1))
    <3>1. k \in 2..N
      <4>1. l.open[k].node # "Program" BY DEF Expectant
      <4> QED BY <1>1, <1>2, <1>6, <4>1 DEF Rooted
    <3>2. Expected(l, k) \in 1..Len(l.objects)
      <4>1. PICK j \in Nat : k = j + 1 BY <3>1, k - 1 \in Nat
      <4>2. Expected(l, j) \in Nat /\ Expected(l, j + 1) = Expected(l, j) + 1
        BY <2>1, <4>1, Heights
      <4>3. Expected(l, k) <= Expected(l, N) BY <1>1, <3>1, HeightsGrow
      <4> QED BY <1>8, <4>1, <4>2, <4>3
    <3>3. TopIn(m, k - 1) = TopIn(l, k - 1) /\ m.open[k] = l.open[k] BY <1>1, <1>12, <3>1
    <3>4. Expected(m, k) = Expected(l, k) BY <1>1, <1>4, <3>1
    <3> QED BY <1>11, <3>2, <3>3, <3>4 DEF Placed, Expects
  <2>2. ASSUME Expectation(n, top) # <<>>
        PROVE  <<m.objects[Expected(m, N + 1)]>> = Expectation(m.open[N + 1].node, TopIn(m, N))
    <3>1. m.open[N + 1].node = n BY <1>1
    <3> QED BY <1>11, <1>13, <2>2, <3>1
  <2>3. (N + 1) - 1 = N BY <1>1
  <2> QED BY <1>1, <1>7, <1>11, <2>1, <2>2, <2>3 DEF Expects
<1> QED BY <1>3, <1>15, <1>16, <1>17, <1>18, <1>19 DEF Placed
LEMMA FrontIs ==
    ASSUME NEW S, NEW s \in Seq(S), s # <<>>
    PROVE  /\ Front(s) \in Seq(S) /\ Len(Front(s)) = Len(s) - 1
           /\ \A i \in 1..(Len(s) - 1) : Front(s)[i] = s[i]
<1>1. PICK n \in Nat : Len(s) = n + 1
  <2>1. Len(s) - 1 \in Nat BY EmptySeq
  <2> QED BY <2>1
<1>2. Front(s) = SubSeq(s, 1, n) BY <1>1 DEF Front
<1>3. \A i \in 1..n : s[i] \in S BY <1>1
<1>4. Front(s) \in Seq(S) /\ Len(Front(s)) = n /\ \A i \in 1..n : Front(s)[i] = s[i]
  BY <1>2, <1>3, SubSeqProperties
<1> QED BY <1>1, <1>4

\* Closing a node leaves the ones around it as they were.
LEMMA ClosedPlaced ==
    ASSUME NEW l \in Listeners, NEW m \in Listeners, Placed(l), Len(l.open) > 1,
           m.open = Front(l.open),
           m.entities = IF Own(l, Len(l.open)) = "none" THEN l.entities ELSE Front(l.entities),
           m.objects = IF Len(l.open) \in Expectant(l) THEN Front(l.objects) ELSE l.objects
    PROVE  /\ Placed(m)
           /\ \A k \in 1..(Len(l.open) - 1) :
                 Height(m, k) = Height(l, k) /\ TopIn(m, k) = TopIn(l, k)
<1>1. PICK N \in Nat \ {0} : Len(l.open) = N + 1
  <2>1. \A n \in Nat : n > 1 => n - 1 \in Nat \ {0} /\ n = (n - 1) + 1 OBVIOUS
  <2>2. Len(l.open) \in Nat BY Opens
  <2> QED BY <2>1, <2>2, Zenon
<1>2. /\ DOMAIN l.open = 1..(N + 1) /\ Len(m.open) = N /\ DOMAIN m.open = 1..N
      /\ \A k \in 1..N : m.open[k] = l.open[k]
  <2>1. l.open \in Seq([node : AllNodes \cup {"Program"}, slot : Nat \ {0}]) BY DEF Listeners
  <2>2. l.open # <<>> BY <1>1, <2>1
  <2>3. Len(l.open) - 1 = N /\ DOMAIN l.open = 1..(N + 1) /\ DOMAIN m.open = 1..Len(m.open)
    BY <1>1, Opens
  <2> QED BY <2>1, <2>2, <2>3, FrontIs
<1>3. Rooted(l) BY DEF Placed
<1>4. Rooted(m)
  <2>1. m.open # <<>> BY <1>2
  <2> QED BY <1>1, <1>2, <1>3, <2>1 DEF Rooted
<1>5. /\ \A k \in 1..N : /\ Own(m, k) = Own(l, k)
                         /\ k \in Owners(m) <=> k \in Owners(l)
                         /\ k \in Expectant(m) <=> k \in Expectant(l)
      /\ \A k \in 0..N : Height(m, k) = Height(l, k) /\ Expected(m, k) = Expected(l, k)
  <2>1. \A k \in 1..N : m.open[k].node = l.open[k].node BY <1>2
  <2>2. N <= Len(l.open) /\ N <= Len(m.open) BY <1>1, <1>2
  <2> QED BY <1>3, <1>4, <2>1, <2>2, Prefix
<1>6. Owners(m) \subseteq 1..N /\ Expectant(m) \subseteq 1..N BY <1>2 DEF Owners, Expectant
<1>7. Len(l.entities) = Height(l, N + 1) /\ Len(l.objects) = Expected(l, N + 1)
      /\ Len(l.entities) \in Nat \ {0} /\ Len(l.objects) \in Nat
  BY <1>1, Opens, TopsAre DEF Placed, Matches, Expects
<1>8. /\ Height(l, N) \in Nat /\ Expected(l, N) \in Nat
      /\ Height(l, N + 1) = Height(l, N) + (IF Own(l, N + 1) = "none" THEN 0 ELSE 1)
      /\ Expected(l, N + 1) = Expected(l, N) + (IF N + 1 \in Expectant(l) THEN 1 ELSE 0)
  <2>1. N + 1 \in Owners(l) <=> Own(l, N + 1) # "none" BY <1>2 DEF Owners
  <2> QED BY <2>1, Heights
<1>9. /\ Len(m.entities) = Height(l, N)
      /\ \A i \in 1..Height(l, N) : m.entities[i] = l.entities[i]
  <2>1. l.entities \in Seq(Entities) /\ l.entities # <<>> BY <1>7 DEF Listeners
  <2>2. CASE Own(l, N + 1) = "none" BY <1>1, <1>7, <1>8, <2>2
  <2>3. CASE Own(l, N + 1) # "none"
    <3>1. m.entities = Front(l.entities) BY <1>1, <2>3
    <3>2. Len(l.entities) - 1 = Height(l, N) BY <1>7, <1>8, <2>3
    <3> QED BY <2>1, <3>1, <3>2, FrontIs
  <2> QED BY <2>2, <2>3
<1>10. /\ Len(m.objects) = Expected(l, N)
       /\ \A i \in 1..Expected(l, N) : m.objects[i] = l.objects[i]
  <2>1. CASE N + 1 \notin Expectant(l) BY <1>1, <1>7, <1>8, <2>1
  <2>2. CASE N + 1 \in Expectant(l)
    <3>1. m.objects = Front(l.objects) BY <1>1, <2>2
    <3>2. Len(l.objects) - 1 = Expected(l, N) BY <1>7, <1>8, <2>2
    <3>3. l.objects \in Seq(BOOLEAN) /\ l.objects # <<>> BY <1>7, <1>8, <2>2 DEF Listeners
    <3> QED BY <3>1, <3>2, <3>3, FrontIs
  <2> QED BY <2>1, <2>2
<1>11. \A k \in 1..N : TopIn(m, k) = TopIn(l, k) /\ Height(m, k) = Height(l, k)
  <2> TAKE k \in 1..N
  <2>1. Height(l, k) <= Height(l, N) BY HeightsGrow
  <2>2. Height(l, k) \in 1..Len(l.entities) BY <1>1, TopsAre
  <2>3. Height(l, k) \in 1..Height(l, N) BY <1>7, <1>8, <2>1, <2>2
  <2> QED BY <1>5, <1>9, <2>3 DEF TopIn
<1>12. Matches(m)
  <2>1. Len(m.entities) = Height(m, N) BY <1>5, <1>9
  <2> QED BY <1>2, <1>5, <1>6, <1>11, <2>1 DEF Placed, Matches
<1>13. Founded(m)
  <2> SUFFICES ASSUME NEW k \in Owners(m) \ {1}
               PROVE  TopIn(m, k - 1) \in Handler[m.open[k].node].top
    BY DEF Founded
  <2>1. k \in 1..N /\ k - 1 \in 1..N /\ k \in Owners(l) \ {1} BY <1>5, <1>6
  <2> QED BY <1>2, <1>11, <2>1 DEF Placed, Founded
<1>14. BlocksPlaced(m) BY <1>2, <1>5, <1>11 DEF Placed, BlocksPlaced
<1>15. ClassesOpen(m)
  <2> SUFFICES ASSUME NEW k \in 1..N, TopIn(m, k) = "class"
               PROVE  \E i \in 1..k : m.open[i].node = "ClassDefinition"
    BY <1>2 DEF ClassesOpen
  <2>1. PICK i \in 1..k : l.open[i].node = "ClassDefinition"
    BY <1>2, <1>11 DEF Placed, ClassesOpen
  <2>2. i \in 1..N OBVIOUS
  <2> QED BY <1>2, <2>1, <2>2
<1>16. Expects(m)
  <2>1. ASSUME NEW k \in Expectant(m)
        PROVE  <<m.objects[Expected(m, k)]>> = Expectation(m.open[k].node, TopIn(m, k - 1))
    <3>1. k \in 2..N
      <4>1. m.open[k].node # "Program" BY DEF Expectant
      <4> QED BY <1>4, <1>6, <4>1 DEF Rooted
    <3>2. k \in Expectant(l) /\ k - 1 \in 1..N BY <1>5, <3>1
    <3>3. Expected(l, k) \in 1..Expected(l, N)
      <4>1. PICK j \in Nat : k = j + 1 BY <3>1, k - 1 \in Nat
      <4>2. Expected(l, j) \in Nat /\ Expected(l, j + 1) = Expected(l, j) + 1
        BY <3>2, <4>1, Heights
      <4>3. Expected(l, k) <= Expected(l, N) BY <3>1, HeightsGrow
      <4> QED BY <1>8, <4>1, <4>2, <4>3
    <3>4. TopIn(m, k - 1) = TopIn(l, k - 1) /\ m.open[k] = l.open[k] BY <1>2, <1>11, <3>1, <3>2
    <3>5. Expected(m, k) = Expected(l, k) BY <1>5, <3>1
    <3> QED BY <1>10, <3>2, <3>3, <3>4, <3>5 DEF Placed, Expects
  <2>2. Len(m.objects) = Expected(m, N) BY <1>5, <1>10
  <2> QED BY <1>2, <2>1, <2>2 DEF Expects
<1>17. \A k \in 1..(Len(l.open) - 1) : k \in 1..N BY <1>1
<1> QED BY <1>4, <1>11, <1>12, <1>13, <1>14, <1>15, <1>16, <1>17 DEF Placed

\* An assignment on top turns out to be the copy of an object.
LEMMA CopiedPlaced ==
    ASSUME NEW l \in Listeners, Placed(l), Last(l.entities) = "assignment"
    PROVE  AsCopy(l) \in Listeners /\ Placed(AsCopy(l))
<1> DEFINE m == AsCopy(l)
          N == Len(l.open)
          T == Len(l.entities)
<1>1. /\ N \in Nat \ {0} /\ DOMAIN l.open = 1..N /\ T \in Nat \ {0}
      /\ l.entities \in Seq(Entities) /\ l.entities # <<>>
  <2>1. N \in Nat \ {0} /\ DOMAIN l.open = 1..N /\ T \in Nat \ {0} BY Opens, TopsAre
  <2>2. l.entities \in Seq(Entities) BY DEF Listeners
  <2> QED BY <2>1, <2>2, EmptySeq
<1>2. /\ m.entities \in Seq(Entities) /\ Len(m.entities) = T /\ m.entities[T] = "copy"
      /\ \A i \in 1..(T - 1) : m.entities[i] = l.entities[i]
      /\ m.open = l.open /\ m.objects = l.objects /\ m \in Listeners
  <2>1. Front(l.entities) \in Seq(Entities) /\ Len(Front(l.entities)) = T - 1
        /\ \A i \in 1..(T - 1) : Front(l.entities)[i] = l.entities[i]
    BY <1>1, FrontIs
  <2> DEFINE new == Append(Front(l.entities), "copy")
  <2>2. new \in Seq(Entities) /\ Len(new) = T /\ new[T] = "copy"
        /\ \A i \in 1..(T - 1) : new[i] = l.entities[i]
    <3>1. "copy" \in Entities BY DEF Entities, CodeEntities, Strings
    <3> QED BY <1>1, <2>1, <3>1
  <2> HIDE DEF new
  <2>3. m = [l EXCEPT !.entities = new] BY DEF AsCopy, new
  <2> QED BY <2>2, <2>3 DEF Listeners
<1>3. \A k : /\ Own(m, k) = Own(l, k) /\ Height(m, k) = Height(l, k)
             /\ Expected(m, k) = Expected(l, k)
  BY <1>2 DEF Own, Height, Owners, Expected, Expectant
<1>4. Owners(m) = Owners(l) /\ Expectant(m) = Expectant(l)
  BY <1>2 DEF Own, Owners, Expectant
<1>5. \A k \in 1..N : Height(l, k) \in 1..T BY TopsAre
<1>6. l.entities[T] = "assignment" BY DEF Last
<1>7. \A k \in 1..N : \/ TopIn(m, k) = TopIn(l, k) /\ Height(l, k) < T
                      \/ TopIn(l, k) = "assignment" /\ TopIn(m, k) = "copy"
  <2> TAKE k \in 1..N
  <2>1. CASE Height(l, k) = T BY <1>2, <1>3, <1>6, <2>1 DEF TopIn
  <2>2. CASE Height(l, k) # T
    <3>1. Height(l, k) \in 1..(T - 1) /\ Height(l, k) < T BY <1>1, <1>5, <2>2
    <3> QED BY <1>2, <1>3, <3>1 DEF TopIn
  <2> QED BY <2>1, <2>2
<1> HIDE DEF m
<1>8. Rooted(m) BY <1>2 DEF Placed, Rooted
<1>9. Matches(m)
  <2>1. Len(m.entities) = Height(m, Len(m.open)) BY <1>2, <1>3 DEF Placed, Matches
  <2>2. ASSUME NEW k \in Owners(m) PROVE TopIn(m, k) \in Becomes(Own(m, k))
    <3>1. k \in 1..N /\ k \in Owners(l) BY <1>1, <1>4 DEF Owners
    <3>2. TopIn(l, k) \in Becomes(Own(l, k)) BY <3>1 DEF Placed, Matches
    <3>3. CASE TopIn(m, k) = TopIn(l, k) BY <1>3, <3>2, <3>3
    <3>4. CASE TopIn(l, k) = "assignment" /\ TopIn(m, k) = "copy" BY <1>3, <3>2, <3>4 DEF Becomes
    <3> QED BY <1>7, <3>1, <3>3, <3>4
  <2> QED BY <2>1, <2>2 DEF Matches
<1>10. Founded(m)
  <2> SUFFICES ASSUME NEW k \in Owners(m) \ {1}
               PROVE  TopIn(m, k - 1) \in Handler[m.open[k].node].top
    BY DEF Founded
  <2>1. k \in 2..N /\ k - 1 \in 1..N /\ k \in Owners(l) \ {1} BY <1>1, <1>4 DEF Owners
  <2>2. TopIn(l, k - 1) \in Handler[l.open[k].node].top BY <2>1 DEF Placed, Founded
  <2>3. l.open[k].node \in DOMAIN Handler BY <2>1 DEF Placed, Rooted
  <2> QED BY <1>2, <1>7, <2>1, <2>2, <2>3, AllHandled DEF Handles
<1>11. BlocksPlaced(m)
  <2>1. "assignment" \notin Surrounding BY DEF Surrounding
  <2> QED BY <1>1, <1>2, <1>4, <1>7, <2>1 DEF Placed, BlocksPlaced
<1>12. ClassesOpen(m) BY <1>1, <1>2, <1>7 DEF Placed, ClassesOpen
<1>13. Expects(m)
  <2>1. ASSUME NEW k \in Expectant(m)
        PROVE  <<m.objects[Expected(m, k)]>> = Expectation(m.open[k].node, TopIn(m, k - 1))
    <3>1. k \in Expectant(l) /\ k \in 1..N BY <1>1, <1>4 DEF Expectant
    <3>2. <<l.objects[Expected(l, k)]>> = Expectation(l.open[k].node, TopIn(l, k - 1))
      BY <3>1 DEF Placed, Expects
    <3>3. CASE l.open[k].node # "ValueAssignment" BY <1>2, <1>3, <3>2, <3>3 DEF Expectation
    <3>4. CASE l.open[k].node = "ValueAssignment"
      <4>1. k # 1 BY <3>4 DEF Placed, Rooted
      <4>2. k - 1 \in 1..N /\ l.open[k].node \in DOMAIN Handler
        BY <1>1, <3>1, <4>1 DEF Placed, Rooted
      <4>3. Own(l, k) = "value" BY <3>4, <4>2, AllHandled DEF Own, Handles, Pushed
      <4>4. k \in Owners(l) BY <1>1, <3>1, <4>3 DEF Owners
      <4>5. Height(l, k - 1) < Height(l, k) BY <3>1, <4>2, <4>4, HeightsGrow
      <4>6. Height(l, k - 1) < T BY <1>1, <1>5, <3>1, <4>2, <4>5
      <4>7. TopIn(m, k - 1) = TopIn(l, k - 1)
        <5>1. Height(l, k - 1) \in 1..(T - 1) BY <1>1, <1>5, <4>2, <4>6
        <5> QED BY <1>2, <1>3, <5>1 DEF TopIn
      <4> QED BY <1>2, <1>3, <3>2, <4>7
    <3> QED BY <3>3, <3>4
  <2> QED BY <1>2, <1>3, <2>1 DEF Placed, Expects
<1> QED BY <1>2, <1>8, <1>9, <1>10, <1>11, <1>12, <1>13 DEF Placed, m
--------------------------------------------------------------------------------
(* Marks. *)

\* There are no fewer marks than open nodes that left one, whatever errors there were;
Counted(l) == \A m \in Marks \ Flags : Cardinality(Marking(l, m)) <= l.marks[m]

\* without errors there are as many, and a flag stands for an open node;
Exact(l) ==
    /\ \A m \in Marks \ Flags : l.marks[m] = Cardinality(Marking(l, m))
    /\ \A m \in Flags : l.marks[m] > 0 => Marking(l, m) # {}

\* and as long as no class was met inside of a definition, in_class stays set.
Outermost(l) ==
    \A k \in DOMAIN l.open :
        l.open[k].node = "ClassDefinition" =>
            \A i \in 1..(k - 1) : l.open[i].node \notin Definitions

ClassMarked(l) == Marking(l, "class") # {} => l.marks["class"] > 0

LEMMA MarksAre ==
    /\ Marks = {"class", "method", "function", "supershell", "cast", "typeof"}
    /\ \A n \in DOMAIN MarkedNodes : MarkedNodes[n] \in Marks
    /\ \A n \in DOMAIN MarkedNodes : MarkedNodes[n] = "class" => n = "ClassDefinition"
    /\ "ClassDefinition" \in DOMAIN MarkedNodes /\ MarkedNodes["ClassDefinition"] = "class"
    /\ "BashFunction" \in DOMAIN MarkedNodes /\ MarkedNodes["BashFunction"] = "function"
    /\ \A n \in DOMAIN MarkedNodes : MarkedNodes[n] = "method" => n = "MethodDefinition"
    /\ \A n \in DOMAIN MarkedNodes : MarkedNodes[n] = "function" => n = "BashFunction"
BY DEF Marks, MarkedNodes

LeavesMark(n, mark) == n \in DOMAIN MarkedNodes /\ MarkedNodes[n] = mark

\* A node of type n is open besides the N nodes that l has open.
OneMore(l, m, N, n) ==
    /\ DOMAIN l.open = 1..N /\ DOMAIN m.open = 1..(N + 1)
    /\ \A k \in 1..N : m.open[k].node = l.open[k].node
    /\ m.open[N + 1].node = n

\* The marks of the open nodes, when there is one more of them.
LEMMA MarkingNext ==
    ASSUME NEW l, NEW m, NEW N \in Nat, NEW n, OneMore(l, m, N, n)
    PROVE  \A k :
              /\ Cardinality(Marking(l, k)) \in Nat
              /\ Marking(l, k) \subseteq 1..N
              /\ LeavesMark(n, k) =>
                   /\ Marking(m, k) = Marking(l, k) \cup {N + 1}
                   /\ Cardinality(Marking(m, k)) = Cardinality(Marking(l, k)) + 1
              /\ ~LeavesMark(n, k) => Marking(m, k) = Marking(l, k)
<1> TAKE k
<1>1. Marking(l, k) \subseteq 1..N BY DEF Marking, OneMore
<1>2. IsFiniteSet(Marking(l, k))
  <2>1. IsFiniteSet(1..N) BY FS_Interval
  <2> QED BY <1>1, <2>1, FS_Subset
<1>3. Cardinality(Marking(l, k)) \in Nat BY <1>2, FS_CardinalityType
<1>4. ASSUME LeavesMark(n, k)
      PROVE  /\ Marking(m, k) = Marking(l, k) \cup {N + 1}
             /\ Cardinality(Marking(m, k)) = Cardinality(Marking(l, k)) + 1
  <2>1. Marking(m, k) = Marking(l, k) \cup {N + 1} BY <1>4 DEF Marking, LeavesMark, OneMore
  <2>2. N + 1 \notin Marking(l, k) BY <1>1
  <2> QED BY <1>2, <2>1, <2>2, FS_AddElement
<1>5. ~LeavesMark(n, k) => Marking(m, k) = Marking(l, k) BY DEF Marking, LeavesMark, OneMore
<1> QED BY <1>1, <1>3, <1>4, <1>5

LEMMA MarkedOn ==
    ASSUME NEW l, NEW m, NEW N \in Nat, NEW n, OneMore(l, m, N, n),
           l.marks \in [Marks -> Nat], m.marks = Marked(l.marks, n)
    PROVE  /\ Counted(l) => Counted(m)
           /\ Exact(l) => Exact(m)
           /\ ClassMarked(l) => ClassMarked(m)
           /\ Outermost(l) /\ (n = "ClassDefinition" => ~Open(l, Definitions)) => Outermost(m)
<1>a. \A k : Cardinality(Marking(l, k)) \in Nat BY MarkingNext
<1>1. \A k :
              /\ Marking(l, k) \subseteq 1..N
              /\ LeavesMark(n, k) =>
                   /\ Marking(m, k) = Marking(l, k) \cup {N + 1}
                   /\ Cardinality(Marking(m, k)) = Cardinality(Marking(l, k)) + 1
              /\ ~LeavesMark(n, k) => Marking(m, k) = Marking(l, k)
  BY <1>a, MarkingNext
<1> USE DEF OneMore
<1>2. \A k \in Marks : /\ l.marks[k] \in Nat
                       /\ m.marks[k] = IF ~LeavesMark(n, k) THEN l.marks[k]
                                       ELSE IF k \in Flags THEN 1 ELSE l.marks[k] + 1
  BY MarksAre DEF Marked, LeavesMark
<1>3. Flags \subseteq Marks BY MarksAre DEF Flags
<1>4. ASSUME Counted(l) PROVE Counted(m) BY <1>a, <1>1, <1>2, <1>4 DEF Counted
<1>5. ASSUME Exact(l) PROVE Exact(m)
  <2>1. \A k \in Marks \ Flags : m.marks[k] = Cardinality(Marking(m, k))
    BY <1>a, <1>1, <1>2, <1>5 DEF Exact
  <2>2. \A k \in Flags : m.marks[k] > 0 => Marking(m, k) # {}
    BY <1>a, <1>1, <1>2, <1>3, <1>5 DEF Exact
  <2> QED BY <2>1, <2>2 DEF Exact
<1>6. ASSUME ClassMarked(l) PROVE ClassMarked(m)
  <2>1. "class" \in Marks /\ "class" \in Flags BY MarksAre DEF Flags
  <2> QED BY <1>a, <1>1, <1>2, <1>6, <2>1 DEF ClassMarked
<1>7. ASSUME Outermost(l), n = "ClassDefinition" => ~Open(l, Definitions) PROVE Outermost(m)
  <2> SUFFICES ASSUME NEW k \in 1..(N + 1), m.open[k].node = "ClassDefinition",
                      NEW i \in 1..(k - 1)
               PROVE  m.open[i].node \notin Definitions
    BY DEF Outermost
  <2>1. i \in 1..N /\ m.open[i].node = l.open[i].node OBVIOUS
  <2>2. CASE k = N + 1 BY <1>7, <2>1, <2>2 DEF Open
  <2>3. CASE k # N + 1
    <3>1. k \in 1..N /\ l.open[k].node = "ClassDefinition" BY <2>3
    <3> QED BY <1>7, <2>1, <3>1 DEF Outermost
  <2> QED BY <2>2, <2>3
<1> QED BY <1>4, <1>5, <1>6, <1>7

LEMMA MarkedOff ==
    ASSUME NEW l, NEW m, NEW N \in Nat, NEW n, OneMore(l, m, N, n),
           m.marks \in [Marks -> Nat], l.marks = Unmarked(m.marks, n)
    PROVE  /\ Counted(m) => Counted(l) /\ l.marks \in [Marks -> Nat]
           /\ Exact(m) => Exact(l)
           /\ Outermost(m) => Outermost(l)
           /\ Outermost(m) /\ ClassMarked(m) => ClassMarked(l)
<1>a. \A k : Cardinality(Marking(l, k)) \in Nat BY MarkingNext
<1>1. \A k :
              /\ Marking(l, k) \subseteq 1..N
              /\ LeavesMark(n, k) =>
                   /\ Marking(m, k) = Marking(l, k) \cup {N + 1}
                   /\ Cardinality(Marking(m, k)) = Cardinality(Marking(l, k)) + 1
              /\ ~LeavesMark(n, k) => Marking(m, k) = Marking(l, k)
  BY <1>a, MarkingNext
<1> USE DEF OneMore
<1>2. \A k \in Marks : /\ m.marks[k] \in Nat
                       /\ l.marks[k] = IF ~LeavesMark(n, k) THEN m.marks[k]
                                       ELSE IF k \in Flags THEN 0 ELSE m.marks[k] - 1
  BY MarksAre DEF Unmarked, LeavesMark
<1>3. Flags \subseteq Marks BY MarksAre DEF Flags
<1>4. ASSUME Counted(m) PROVE Counted(l) /\ l.marks \in [Marks -> Nat]
  <2>1. Counted(l) BY <1>a, <1>1, <1>2, <1>4 DEF Counted
  <2>2. \A k \in Marks : l.marks[k] \in Nat BY <1>a, <1>1, <1>2, <1>4 DEF Counted
  <2>3. DOMAIN l.marks = Marks /\ l.marks = [k \in Marks |-> l.marks[k]] BY DEF Unmarked
  <2> QED BY <2>1, <2>2, <2>3
<1>5. ASSUME Exact(m) PROVE Exact(l)
  <2>1. \A k \in Marks \ Flags : l.marks[k] = Cardinality(Marking(l, k))
    BY <1>a, <1>1, <1>2, <1>5 DEF Exact
  <2>2. \A k \in Flags : l.marks[k] > 0 => Marking(l, k) # {}
    BY <1>a, <1>1, <1>2, <1>3, <1>5 DEF Exact
  <2> QED BY <2>1, <2>2 DEF Exact
<1>6. ASSUME Outermost(m) PROVE Outermost(l)
  <2> SUFFICES ASSUME NEW k \in 1..N, l.open[k].node = "ClassDefinition", NEW i \in 1..(k - 1)
               PROVE  l.open[i].node \notin Definitions
    BY DEF Outermost
  <2>1. i \in 1..N /\ m.open[i].node = l.open[i].node /\ m.open[k].node = l.open[k].node OBVIOUS
  <2> QED BY <1>6, <2>1 DEF Outermost
<1>7. ASSUME Outermost(m), ClassMarked(m) PROVE ClassMarked(l)
  <2>1. "class" \in Marks /\ "class" \in Flags BY MarksAre DEF Flags
  <2>2. CASE LeavesMark(n, "class")
    <3>1. m.open[N + 1].node = "ClassDefinition" BY <2>2, MarksAre DEF LeavesMark
    <3>2. \A i \in 1..N : m.open[i].node \notin Definitions
      <4>1. N + 1 \in DOMAIN m.open /\ (N + 1) - 1 = N OBVIOUS
      <4> QED BY <1>7, <3>1, <4>1 DEF Outermost
    <3>3. \A i \in 1..N : l.open[i].node # "ClassDefinition" BY <3>2 DEF Definitions
    <3>4. Marking(l, "class") = {} BY <3>3, MarksAre DEF Marking
    <3> QED BY <3>4 DEF ClassMarked
  <2>3. CASE ~LeavesMark(n, "class") BY <1>a, <1>1, <1>2, <1>7, <2>1, <2>3 DEF ClassMarked
  <2> QED BY <2>2, <2>3
<1> QED BY <1>4, <1>5, <1>6, <1>7

--------------------------------------------------------------------------------
(* Taking up children, entering and leaving. *)

LEMMA Least ==
    ASSUME NEW S \in SUBSET Nat, S # {}
    PROVE  \E i \in S : \A j \in S : i <= j
<1> DEFINE below == {ss \in Nat \X Nat : ss[1] < ss[2]}
<1>1. IsWellFoundedOn(below, Nat) BY NatLessThanWellFounded DEF OpToRel
<1>2. \A i \in Nat, j \in Nat : <<j, i>> \notin below => i <= j OBVIOUS
<1> HIDE DEF below
<1>3. PICK i \in S : \A j \in S : <<j, i>> \notin below BY <1>1, WFMin
<1> QED BY <1>2, <1>3

LEMMA MinIs ==
    ASSUME NEW S \in SUBSET Nat, S # {}
    PROVE  Min(S) \in S
BY Least DEF Min

\* A listener in order, when r errors were reported, and d says that a class was met in a
\* definition.
Kept(l, r, d) ==
    /\ Placed(l) /\ Counted(l)
    /\ r = 0 => Exact(l)
    /\ d = FALSE => Outermost(l)
    /\ r = 0 /\ d = FALSE => ClassMarked(l)

\* The same nodes are open, and stand on the same.
Alike(l, m) ==
    /\ Len(m.open) = Len(l.open)
    /\ \A k \in 1..Len(l.open) : m.open[k].node = l.open[k].node
    /\ m.entities = l.entities /\ m.objects = l.objects

LEMMA AlikeSame ==
    ASSUME NEW l \in Listeners, NEW m \in Listeners, Alike(l, m)
    PROVE  /\ \A k : Marking(m, k) = Marking(l, k)
           /\ Open(m, Definitions) <=> Open(l, Definitions)
           /\ Outermost(m) <=> Outermost(l)
<1>1. DOMAIN m.open = 1..Len(l.open) /\ DOMAIN l.open = 1..Len(l.open) /\ Len(l.open) \in Nat
  BY Opens DEF Alike
<1>2. \A k : Marking(m, k) = Marking(l, k) BY <1>1 DEF Alike, Marking
<1>3. Open(m, Definitions) <=> Open(l, Definitions) BY <1>1 DEF Alike, Open
<1>4. \A k \in 1..Len(l.open) : \A i \in 1..(k - 1) : i \in 1..Len(l.open) BY <1>1
<1>5. Outermost(m) <=> Outermost(l) BY <1>1, <1>4 DEF Alike, Outermost
<1> QED BY <1>2, <1>3, <1>5

LEMMA AlikeKept ==
    ASSUME NEW l \in Listeners, NEW m \in Listeners, NEW r, NEW d, Kept(l, r, d),
           Alike(l, m), m.marks = l.marks
    PROVE  Kept(m, r, d)
<1>1. Placed(m) BY AlikePlaced DEF Kept, Alike
<1>2. \A k : Marking(m, k) = Marking(l, k) BY AlikeSame
<1>3. Counted(m) BY <1>2 DEF Kept, Counted
<1>4. r = 0 => Exact(m) BY <1>2 DEF Kept, Exact
<1>5. d = FALSE => Outermost(m) BY AlikeSame DEF Kept
<1>6. r = 0 /\ d = FALSE => ClassMarked(m) BY <1>2 DEF Kept, ClassMarked
<1> QED BY <1>1, <1>3, <1>4, <1>5, <1>6 DEF Kept

\* After an error there may be more marks than nodes, never fewer.
LEMMA MarkedTooMuch ==
    ASSUME NEW l \in Listeners, NEW m \in Listeners, NEW r, NEW d, Kept(l, r, d),
           Alike(l, m), NEW q \in Nat, q # 0, NEW n,
           m.marks = l.marks \/ m.marks = Marked(l.marks, n)
    PROVE  Kept(m, q, d)
<1>1. Placed(m) BY AlikePlaced DEF Kept, Alike
<1>2. \A k : Marking(m, k) = Marking(l, k) BY AlikeSame
<1>3. \A k \in Marks \ Flags : l.marks[k] \in Nat /\ m.marks[k] >= l.marks[k]
  <2>1. l.marks \in [Marks -> Nat] BY DEF Listeners
  <2> QED BY <2>1, MarksAre DEF Marked
<1>4. Counted(m)
  <2> SUFFICES ASSUME NEW k \in Marks \ Flags
               PROVE  Cardinality(Marking(m, k)) <= m.marks[k]
    BY DEF Counted
  <2>1. m.marks[k] \in Nat BY DEF Listeners
  <2>2. IsFiniteSet(Marking(l, k))
    <3>1. IsFiniteSet(1..Len(l.open)) BY Opens, FS_Interval
    <3>2. Marking(l, k) \subseteq 1..Len(l.open) BY Opens DEF Marking
    <3> QED BY <3>1, <3>2, FS_Subset
  <2>3. Cardinality(Marking(l, k)) \in Nat BY <2>2, FS_CardinalityType
  <2>4. Cardinality(Marking(l, k)) <= l.marks[k] BY DEF Kept, Counted
  <2> QED BY <1>2, <1>3, <2>1, <2>3, <2>4
<1>5. d = FALSE => Outermost(m) BY AlikeSame DEF Kept
<1> QED BY <1>1, <1>4, <1>5 DEF Kept

LEMMA LaterKept ==
    ASSUME NEW l, NEW r \in Nat, NEW d, NEW q \in Nat, NEW e, Kept(l, r, d),
           q = 0 => r = 0, e = FALSE => d = FALSE
    PROVE  Kept(l, q, e)
BY DEF Kept

LEMMA NewKept ==
    ASSUME NEW b \in BOOLEAN, NEW r, NEW d
    PROVE  NewListener(b) \in Listeners /\ Kept(NewListener(b), r, d)
<1> DEFINE l == NewListener(b)
<1>1. /\ l.open = <<[node |-> "Program", slot |-> 1]>> /\ l.entities = <<"program">>
      /\ l.objects = <<>> /\ l.marks = [k \in Marks |-> 0]
  BY DEF NewListener
<1>2. l \in Listeners
  BY DEF NewListener, Listeners, Entities, CodeEntities
<1> HIDE DEF l
<1>3. /\ Len(l.open) = 1 /\ DOMAIN l.open = {1} /\ l.open[1].node = "Program"
      /\ Len(l.entities) = 1 /\ l.entities[1] = "program" /\ Len(l.objects) = 0
  BY <1>1
<1>4. Own(l, 1) = "program" BY <1>3 DEF Own
<1>5. Owners(l) = {1} /\ Expectant(l) = {} BY <1>3, <1>4 DEF Owners, Expectant
<1>6. Height(l, 1) = 1 /\ Expected(l, 1) = 0
  <2>1. Height(l, 0) = 0 /\ Expected(l, 0) = 0 BY Heights
  <2>2. 0 + 1 = 1 /\ 0 \in Nat OBVIOUS
  <2> QED BY <1>5, <2>1, <2>2, Heights
<1>7. TopIn(l, 1) = "program" BY <1>3, <1>6 DEF TopIn
<1>8. Rooted(l) /\ Founded(l) /\ BlocksPlaced(l) /\ ClassesOpen(l)
  BY <1>1, <1>3, <1>5, <1>7 DEF Rooted, Founded, BlocksPlaced, ClassesOpen
<1>9. Matches(l) BY <1>3, <1>4, <1>5, <1>6, <1>7 DEF Matches, Becomes
<1>10. Expects(l) BY <1>3, <1>5, <1>6 DEF Expects
<1>11. \A k : Marking(l, k) = {}
  <2>1. "Program" \notin DOMAIN MarkedNodes BY DEF MarkedNodes
  <2> QED BY <1>3, <2>1 DEF Marking
<1>12. Cardinality({}) = 0 BY FS_EmptySet
<1>13. Counted(l)
  <2>1. \A k \in Marks \ Flags : l.marks[k] = 0 BY <1>1
  <2> QED BY <1>11, <1>12, <2>1 DEF Counted
<1>14. Exact(l) /\ ClassMarked(l)
  <2>1. Flags \subseteq Marks BY MarksAre DEF Flags
  <2> QED BY <1>1, <1>11, <1>12, <2>1 DEF Exact, ClassMarked
<1>15. Outermost(l) BY <1>3 DEF Outermost
<1> QED BY <1>2, <1>8, <1>9, <1>10, <1>13, <1>14, <1>15 DEF Kept, Placed, l

LEMMA NodeIs ==
    ASSUME L \in Listeners, Placed(L)
    PROVE  /\ Len(L.open) \in Nat \ {0} /\ Node = L.open[Len(L.open)].node
           /\ Last(L.open).slot \in Nat \ {0}
           /\ Node \in DOMAIN Handler \cup {"Program"}
           /\ Node = "Program" <=> Len(L.open) = 1
           /\ Slots \in SlotsOf(Within(Node)) /\ Len(Slots) \in Nat /\ Node \in DOMAIN Shape
<1>1. Len(L.open) \in Nat \ {0} BY Opens, TopsAre
<1>2. Node = L.open[Len(L.open)].node BY DEF Node, Last
<1>3. Len(L.open) \in 1..Len(L.open) /\ (Len(L.open) = 1 \/ Len(L.open) \in 2..Len(L.open))
  <2>1. \A k \in Nat \ {0} : k \in 1..k /\ (k = 1 \/ k \in 2..k) OBVIOUS
  <2> QED BY <1>1, <2>1
<1>4. Node \in DOMAIN Handler \cup {"Program"} /\ (Node = "Program" <=> Len(L.open) = 1)
  BY <1>1, <1>2, <1>3, NotProgram DEF Placed, Rooted
<1>5. Last(L.open).slot \in Nat \ {0}
  <2>1. L.open \in Seq([node : AllNodes \cup {"Program"}, slot : Nat \ {0}]) BY DEF Listeners
  <2>2. L.open[Len(L.open)] \in [node : AllNodes \cup {"Program"}, slot : Nat \ {0}]
    BY <1>1, <1>3, <2>1, ElementOfSeq
  <2> QED BY <2>2 DEF Last
<1>6. Node \in DOMAIN Shape BY <1>4, ShapeOfAll
<1>7. Slots \in SlotsOf(Within(Node)) BY <1>6, AllHeld DEF Holds, Slots
<1>8. Len(Slots) \in Nat BY <1>7 DEF SlotsOf
<1> QED BY <1>1, <1>2, <1>4, <1>5, <1>6, <1>7, <1>8

\* A child takes a slot that there is.
LEMMA SlotsAre ==
    ASSUME L \in Listeners, Placed(L), NEW n, SlotFor(n) # {}
    PROVE  /\ Min(SlotFor(n)) \in Nat \ {0}
           /\ \E j \in DOMAIN Shape[Node] : n \in Shape[Node][j].of
<1>1. SlotFor(n) \in SUBSET Nat /\ 0 \notin SlotFor(n) BY NodeIs DEF SlotFor
<1>2. Min(SlotFor(n)) \in Nat \ {0} BY <1>1, MinIs
<1>3. PICK j \in SlotFor(n) : TRUE OBVIOUS
<1>4. j \in 1..Len(Slots) /\ n \in Slots[j].of BY <1>3, NodeIs DEF SlotFor
<1>5. DOMAIN Slots = 1..Len(Slots) BY NodeIs DEF SlotsOf
<1> QED BY <1>2, <1>4, <1>5 DEF Slots

LEMMA VisitingAlike ==
    ASSUME L \in Listeners, Placed(L), NEW n, SlotFor(n) # {}
    PROVE  /\ Visiting(n) \in Listeners /\ Alike(L, Visiting(n))
           /\ Visiting(n).marks = L.marks /\ Visiting(n).errors = L.errors
<1> DEFINE j == Min(SlotFor(n))
           N == Len(L.open)
           R == [node : AllNodes \cup {"Program"}, slot : Nat \ {0}]
<1>1. j \in Nat \ {0} BY SlotsAre
<1> HIDE DEF j
<1>2. PICK i \in Nat \ {0} : Advanced(L.open, j) = [L.open EXCEPT ![N].slot = i]
  <2>1. CASE Slots[j].many BY <1>1, <2>1 DEF Advanced
  <2>2. CASE ~Slots[j].many
    <3>1. j + 1 \in Nat \ {0} BY <1>1
    <3> QED BY <2>2, <3>1 DEF Advanced
  <2> QED BY <2>1, <2>2
<1> DEFINE open == [L.open EXCEPT ![N].slot = i]
           last == [L.open[N] EXCEPT !.slot = i]
<1>3. L.open \in Seq(R) /\ N \in 1..N /\ N \in Nat BY NodeIs DEF Listeners
<1>4. L.open[N] \in R BY <1>3, ElementOfSeq
<1>5. last \in R /\ last.node = L.open[N].node BY <1>4
<1>6. open = [L.open EXCEPT ![N] = last] OBVIOUS
<1> HIDE DEF last, open
<1>7. open \in Seq(R) /\ Len(open) = N
      /\ \A k \in 1..N : open[k] = IF k = N THEN last ELSE L.open[k]
  BY <1>3, <1>5, <1>6, ExceptSeq
<1>8. Visiting(n) = [L EXCEPT !.open = open] BY <1>2 DEF Visiting, open, j
<1>9. Visiting(n) \in Listeners BY <1>7, <1>8 DEF Listeners
<1>10. Alike(L, Visiting(n)) BY <1>5, <1>7, <1>8 DEF Alike, Listeners
<1> QED BY <1>8, <1>9, <1>10 DEF Listeners

\* What the grammar has as a part of a construct is met right on the entity of that.
LEMMA FitsIn ==
    ASSUME L \in Listeners, Placed(L), NEW n \in DOMAIN Handler, SlotFor(n) # {}
    PROVE  /\ Handler[n].otherwise = "assert" => Top \in Handler[n].top
           /\ n = "Block" => (Node # "BashPipeline" <=> Top \in Surrounding)
<1> DEFINE N == Len(L.open)
<1>1. PICK j \in DOMAIN Shape[Node] : n \in Shape[Node][j].of BY SlotsAre
<1>2. Node \in DOMAIN Shape BY NodeIs
<1>3. /\ Handler[n].otherwise = "assert" =>
            /\ Node \in DOMAIN Pushed \ {"Block", "ObjectAssignment"}
            /\ Pushed[Node] \in Handler[n].top
      /\ n = "Block" =>
            \/ Node = "BashPipeline"
            \/ /\ Node \in DOMAIN Pushed \ {"Block", "ObjectAssignment"}
               /\ Pushed[Node] \in Surrounding
  BY <1>1, <1>2, ChildFits
<1>4. ASSUME Node \in DOMAIN Pushed \ {"Block", "ObjectAssignment"} PROVE Top = Pushed[Node]
  <2>1. Node # "Program" /\ Pushed[Node] \notin {"none", "assignment"} BY <1>4 DEF Pushed
  <2>2. Node \in DOMAIN Handler BY <2>1, NodeIs
  <2>3. Handler[Node].push = Pushed[Node] BY <1>4, <2>2, AllHandled DEF Handles
  <2>4. Own(L, N) = Pushed[Node] BY <1>4, <2>1, <2>3, NodeIs DEF Own
  <2>5. N \in Owners(L) BY <2>1, <2>4, NodeIs, Opens DEF Owners
  <2>6. TopIn(L, N) \in Becomes(Own(L, N)) BY <2>5 DEF Placed, Matches
  <2>7. TopIn(L, N) = Pushed[Node] BY <2>1, <2>4, <2>6 DEF Becomes
  <2> QED BY <2>7, TopsAre DEF Top
<1>5. "BashPipeline" \in DOMAIN Pushed \ {"Block", "ObjectAssignment"}
      /\ Pushed["BashPipeline"] \notin Surrounding
  BY DEF Pushed, Surrounding
<1> QED BY <1>3, <1>4, <1>5

\* The listener after Enter(n).
Entered(n) ==
    [Visiting(n) EXCEPT
        !.open     = Append(@, [node |-> n, slot |-> 1]),
        !.entities = Push(@, Pushes(n, Top)),
        !.objects  = @ \o Expectation(n, Top),
        !.marks    = Marked(@, n)]

LEMMA EnteredKept ==
    ASSUME L \in Listeners, Kept(L, reported, nested), NEW n \in DOMAIN Handler,
           Visits(n), Suits(n),
           NEW e, e = FALSE => nested = FALSE /\ (n = "ClassDefinition" => ~Open(L, Definitions))
    PROVE  Entered(n) \in Listeners /\ Kept(Entered(n), reported, e)
<1> DEFINE v == Visiting(n)
           m == Entered(n)
           N == Len(L.open)
<1>1. /\ v \in Listeners /\ Alike(L, v) /\ v.marks = L.marks /\ v.errors = L.errors
      /\ SlotFor(n) # {}
  BY VisitingAlike DEF Kept, Visits
<1>2. Kept(v, reported, nested) BY <1>1, AlikeKept
<1>3. /\ Last(v.entities) = Top /\ Last(v.open).node = Node /\ Len(v.open) = N /\ N \in Nat \ {0}
      /\ Open(v, Definitions) <=> Open(L, Definitions)
  BY <1>1, NodeIs, AlikeSame DEF Alike, Top, Last, Kept
<1>4. /\ m.open = Append(v.open, [node |-> n, slot |-> 1])
      /\ m.entities = Push(v.entities, Pushes(n, Top))
      /\ m.objects = v.objects \o Expectation(n, Top)
      /\ m.marks = Marked(v.marks, n)
      /\ m = [open |-> m.open, entities |-> m.entities, objects |-> m.objects,
              marks |-> m.marks, errors |-> v.errors]
  <2> DEFINE open     == Append(v.open, [node |-> n, slot |-> 1])
             entities == Push(v.entities, Pushes(n, Top))
             objects  == v.objects \o Expectation(n, Top)
             marks    == Marked(v.marks, n)
  <2>1. m = [v EXCEPT !.open = open, !.entities = entities, !.objects = objects, !.marks = marks]
    BY DEF Entered
  <2> HIDE DEF v, m, open, entities, objects, marks
  <2>2. m = [open |-> open, entities |-> entities, objects |-> objects, marks |-> marks,
             errors |-> v.errors]
    BY <1>1, <2>1 DEF Listeners
  <2> QED BY <2>2 DEF open, entities, objects, marks
<1> HIDE DEF v, m
<1>5. m \in Listeners
  <2>1. m.open \in Seq([node : AllNodes \cup {"Program"}, slot : Nat \ {0}])
    <3>1. [node |-> n, slot |-> 1] \in [node : AllNodes \cup {"Program"}, slot : Nat \ {0}]
      BY DEF AllNodes
    <3>2. v.open \in Seq([node : AllNodes \cup {"Program"}, slot : Nat \ {0}])
      BY <1>1 DEF Listeners
    <3> QED BY <1>4, <3>1, <3>2
  <2>2. m.entities \in Seq(Entities)
    <3>1. Pushes(n, Top) \in Entities \cup {"none"} BY AllHandled DEF Handles, Pushes
    <3>2. v.entities \in Seq(Entities) BY <1>1 DEF Listeners
    <3> QED BY <1>4, <3>1, <3>2 DEF Push
  <2>3. m.objects \in Seq(BOOLEAN)
    <3>1. Expectation(n, Top) \in Seq(BOOLEAN)
      <4> DEFINE taken == Top \in {"copy"} \cup Objects
      <4>1. Expectation(n, Top) \in {<<>>, <<TRUE>>, <<taken>>} BY DEF Expectation
      <4>2. taken = TRUE \/ taken = FALSE OBVIOUS
      <4>3. <<>> \in Seq(BOOLEAN) /\ \A b \in BOOLEAN : <<b>> \in Seq(BOOLEAN) OBVIOUS
      <4>4. TRUE \in BOOLEAN /\ FALSE \in BOOLEAN OBVIOUS
      <4> HIDE DEF taken
      <4> QED BY <4>1, <4>2, <4>3, <4>4
    <3>2. v.objects \in Seq(BOOLEAN) BY <1>1 DEF Listeners
    <3> QED BY <1>4, <3>1, <3>2
  <2>4. m.marks \in [Marks -> Nat]
    <3>1. v.marks \in [Marks -> Nat] BY <1>1 DEF Listeners
    <3> QED BY <1>4, <3>1, MarksAre DEF Marked
  <2>5. v.errors \in BOOLEAN BY <1>1 DEF Listeners
  <2>6. [open |-> m.open, entities |-> m.entities, objects |-> m.objects, marks |-> m.marks,
         errors |-> v.errors] \in Listeners
    BY <2>1, <2>2, <2>3, <2>4, <2>5 DEF Listeners
  <2> QED BY <1>4, <2>6
<1>6. Placed(m)
  <2>1. n = "Block" => (Last(v.open).node # "BashPipeline" <=> Top \in Surrounding)
    BY <1>1, <1>3, FitsIn DEF Kept
  <2>2. Top \in Handler[n].top \/ Pushes(n, Top) # Handler[n].push BY DEF Suits
  <2> QED BY <1>1, <1>2, <1>3, <1>4, <1>5, <2>1, <2>2, OpenedPlaced DEF Kept
<1>7. OneMore(v, m, N, n)
  <2>1. DOMAIN v.open = 1..N /\ v.open \in Seq([node : AllNodes \cup {"Program"}, slot : Nat \ {0}])
    BY <1>1, <1>3, Opens DEF Listeners
  <2> QED BY <1>3, <1>4, <2>1 DEF OneMore
<1>8. /\ Counted(v) => Counted(m)
      /\ Exact(v) => Exact(m)
      /\ ClassMarked(v) => ClassMarked(m)
      /\ Outermost(v) /\ (n = "ClassDefinition" => ~Open(v, Definitions)) => Outermost(m)
  <2>1. v.marks \in [Marks -> Nat] /\ N \in Nat BY <1>1, <1>3 DEF Listeners
  <2> HIDE DEF N
  <2> QED BY <1>4, <1>7, <2>1, MarkedOn
<1>9. Kept(m, reported, e) BY <1>2, <1>3, <1>6, <1>8 DEF Kept
<1> QED BY <1>5, <1>9 DEF m

LEMMA ClosingIs ==
    ASSUME L \in Listeners, Placed(L), Node # "Program"
    PROVE  /\ Len(L.open) \in Nat \ {0, 1} /\ Node \in DOMAIN Handler
           /\ Pushes(Node, Top) = Own(L, Len(L.open))
           /\ Expectation(Node, Top) # <<>> <=> Len(L.open) \in Expectant(L)
<1>1. Len(L.open) \in Nat \ {0, 1} /\ Node \in DOMAIN Handler BY NodeIs
<1>2. Pushes(Node, Top) = Own(L, Len(L.open))
  <2>1. \A k \in Nat \ {0, 1} : k > 1 OBVIOUS
  <2>2. Len(L.open) > 1 BY <1>1, <2>1
  <2> QED BY <2>2, PushedOwn DEF Node, Top
<1>3. Expectation(Node, Top) # <<>> <=> Len(L.open) \in Expectant(L)
  <2>1. L.open[Len(L.open)].node = Node BY NodeIs
  <2>2. Len(L.open) \in DOMAIN L.open BY <1>1, Opens
  <2> QED BY <2>1, <2>2 DEF Expectation, Expectant
<1> QED BY <1>1, <1>2, <1>3

LEMMA ClosedKept ==
    ASSUME L \in Listeners, Kept(L, reported, nested), Node # "Program"
    PROVE  Closed(Node) \in Listeners /\ Kept(Closed(Node), reported, nested)
<1> DEFINE m == Closed(Node)
<1>1. PICK N \in Nat \ {0} : Len(L.open) = N + 1
  <2>1. \A k \in Nat \ {0, 1} : k - 1 \in Nat \ {0} /\ k = (k - 1) + 1 OBVIOUS
  <2> QED BY <2>1, ClosingIs DEF Kept
<1>2. /\ Pushes(Node, Top) = Own(L, N + 1)
      /\ Expectation(Node, Top) # <<>> <=> N + 1 \in Expectant(L)
      /\ L.open[N + 1].node = Node
  BY <1>1, ClosingIs, NodeIs DEF Kept
<1>3. /\ m.open = Front(L.open)
      /\ m.entities = IF Own(L, N + 1) = "none" THEN L.entities ELSE Front(L.entities)
      /\ m.objects = IF N + 1 \in Expectant(L) THEN Front(L.objects) ELSE L.objects
      /\ m.marks = Unmarked(L.marks, Node)
      /\ m = [open |-> m.open, entities |-> m.entities, objects |-> m.objects,
              marks |-> m.marks, errors |-> L.errors]
  <2> DEFINE open     == Front(L.open)
             entities == IF Own(L, N + 1) = "none" THEN L.entities ELSE Front(L.entities)
             objects  == IF N + 1 \in Expectant(L) THEN Front(L.objects) ELSE L.objects
             marks    == Unmarked(L.marks, Node)
  <2>1. m = [L EXCEPT !.open = open, !.entities = entities, !.objects = objects, !.marks = marks]
    BY <1>2 DEF Closed
  <2> HIDE DEF m, open, entities, objects, marks
  <2>2. m = [open |-> open, entities |-> entities, objects |-> objects, marks |-> marks,
             errors |-> L.errors]
    BY <2>1 DEF Listeners
  <2> QED BY <2>2 DEF open, entities, objects, marks
<1> HIDE DEF m
<1>4. /\ m.open \in Seq([node : AllNodes \cup {"Program"}, slot : Nat \ {0}])
      /\ Len(m.open) = N /\ \A k \in 1..N : m.open[k] = L.open[k]
  <2>1. L.open \in Seq([node : AllNodes \cup {"Program"}, slot : Nat \ {0}]) /\ L.open # <<>>
    BY <1>1 DEF Listeners
  <2>2. (N + 1) - 1 = N BY <1>1
  <2> QED BY <1>1, <1>3, <2>1, <2>2, FrontIs
<1>5. N + 1 \in 1..(N + 1) /\ 1 \in 1..(N + 1) /\ N + 1 > 1 /\ (N + 1) - 1 = N
  BY <1>1
<1>6. m.entities \in Seq(Entities)
  <2>1. L.entities \in Seq(Entities) /\ L.entities # <<>>
    <3>1. Len(L.entities) > 0 BY TopsAre DEF Kept
    <3> QED BY <3>1 DEF Listeners
  <2> QED BY <1>3, <2>1, FrontIs
<1>7. m.objects \in Seq(BOOLEAN)
  <2>1. L.objects \in Seq(BOOLEAN) BY DEF Listeners
  <2>2. ASSUME N + 1 \in Expectant(L) PROVE L.objects # <<>>
    <3>1. Expected(L, N + 1) = Expected(L, N) + 1 /\ Expected(L, N) \in Nat
      BY <1>1, <2>2, Heights
    <3>2. Len(L.objects) = Expected(L, N + 1) BY <1>1 DEF Kept, Placed, Expects
    <3> QED BY <3>1, <3>2
  <2> QED BY <1>3, <2>1, <2>2, FrontIs
<1>8. OneMore(m, L, N, Node)
  <2>1. DOMAIN m.open = 1..N /\ DOMAIN L.open = 1..(N + 1) BY <1>1, <1>4, Opens
  <2> QED BY <1>2, <1>4, <2>1 DEF OneMore
<1>9. /\ Counted(m) /\ m.marks \in [Marks -> Nat]
      /\ Exact(L) => Exact(m)
      /\ Outermost(L) => Outermost(m)
      /\ Outermost(L) /\ ClassMarked(L) => ClassMarked(m)
  <2>1. L.marks \in [Marks -> Nat] /\ Counted(L) BY DEF Listeners, Kept
  <2> QED BY <1>1, <1>3, <1>8, <2>1, MarkedOff
<1>10. m \in Listeners
  <2>1. [open |-> m.open, entities |-> m.entities, objects |-> m.objects, marks |-> m.marks,
         errors |-> L.errors] \in Listeners
    BY <1>4, <1>6, <1>7, <1>9 DEF Listeners
  <2> QED BY <1>3, <2>1
<1>11. Placed(m) BY <1>1, <1>3, <1>5, <1>10, ClosedPlaced DEF Kept
<1> QED BY <1>9, <1>10, <1>11 DEF Kept, m

\* No assertion of a handler fails on exit.
LEMMA ClosingIsSound ==
    ASSUME L \in Listeners, Placed(L), Node # "Program"
    PROVE  Sound(Node)
<1>1. PICK N \in Nat \ {0} : Len(L.open) = N + 1
  <2>1. \A k \in Nat \ {0, 1} : k - 1 \in Nat \ {0} /\ k = (k - 1) + 1 OBVIOUS
  <2> QED BY <2>1, ClosingIs
<1> SUFFICES ASSUME Pushes(Node, Top) # "none"
             PROVE  /\ Is(Top, Handler[Node].push)
                    /\ Len(L.entities) > 1 /\ Closed(Node).entities # <<>>
                    /\ Last(Closed(Node).entities) \in Handler[Node].top
  BY DEF Sound
<1>2. Own(L, N + 1) = Handler[Node].push BY <1>1, ClosingIs DEF Pushes
<1>3. N + 1 \in Owners(L) \ {1} /\ L.open[N + 1].node = Node /\ (N + 1) - 1 = N
  <2>1. N + 1 \in DOMAIN L.open /\ N + 1 # 1 BY <1>1, Opens
  <2> QED BY <1>1, <2>1, ClosingIs, NodeIs DEF Owners
<1>4. Top \in Becomes(Handler[Node].push)
  BY <1>1, <1>2, <1>3, TopsAre DEF Top, Placed, Matches
<1>5. Is(Top, Handler[Node].push)
  BY <1>4 DEF Becomes, Is, Strings, CodeEntities, Objects
<1>6. Len(L.entities) = Height(L, N) + 1 /\ Height(L, N) \in Nat \ {0}
  <2>1. Height(L, N + 1) = Height(L, N) + 1 BY <1>1, <1>3, Heights
  <2>2. N \in 1..Len(L.open) BY <1>1
  <2>3. Height(L, N) \in 1..Len(L.entities) BY <2>2, TopsAre
  <2> QED BY <1>1, <2>1, <2>3 DEF Placed, Matches
<1>7. Closed(Node).entities = Front(L.entities)
  BY DEF Closed, Listeners
<1>8. /\ Len(Front(L.entities)) = Height(L, N)
      /\ Front(L.entities)[Height(L, N)] = TopIn(L, N)
  <2>1. L.entities \in Seq(Entities) /\ L.entities # <<>>
    <3>1. Len(L.entities) > 0 BY TopsAre
    <3> QED BY <3>1 DEF Listeners
  <2>2. Len(L.entities) - 1 = Height(L, N) /\ Height(L, N) \in 1..(Len(L.entities) - 1) BY <1>6
  <2> QED BY <2>1, <2>2, FrontIs DEF TopIn
<1>9. TopIn(L, N) \in Handler[Node].top BY <1>3 DEF Placed, Founded
<1> QED BY <1>5, <1>6, <1>7, <1>8, <1>9 DEF Last

--------------------------------------------------------------------------------
(* The invariant of the walk. *)

\* Every listener is in order.
WalkInv ==
    /\ TypeOK
    /\ \A i \in DOMAIN chain : Kept(chain[i], reported, nested)

LEMMA LastIs ==
    ASSUME WalkInv
    PROVE  /\ Len(chain) \in Nat \ {0} /\ DOMAIN chain = 1..Len(chain)
           /\ L = chain[Len(chain)] /\ L \in Listeners /\ Kept(L, reported, nested)
<1>1. chain \in Seq(Listeners) /\ chain # <<>> BY DEF WalkInv, TypeOK
<1>2. Len(chain) \in Nat \ {0} /\ DOMAIN chain = 1..Len(chain) BY <1>1
<1>3. L = chain[Len(chain)] BY DEF L, Last
<1>4. Len(chain) \in 1..Len(chain) BY <1>2
<1> QED BY <1>1, <1>2, <1>3, <1>4, ElementOfSeq DEF WalkInv

\* A step that changes the active listener alone, and what is reported.
LEMMA ActiveKept ==
    ASSUME WalkInv, NEW l \in Listeners, Active(l), Kept(l, reported', nested'),
           UNCHANGED <<bound, outcome>>, UNCHANGED included \/ included' \subseteq Files,
           UNCHANGED <<reported, recent>> \/ Report,
           nested' \in BOOLEAN, nested' = FALSE => nested = FALSE
    PROVE  WalkInv'
<1>1. chain \in Seq(Listeners) /\ Len(chain) \in 1..Len(chain) /\ chain # <<>>
      /\ Len(chain) \in Nat
  <2>1. chain \in Seq(Listeners) /\ chain # <<>> BY DEF WalkInv, TypeOK
  <2> QED BY <2>1, LastIs
<1>2. chain' \in Seq(Listeners) /\ Len(chain') = Len(chain)
      /\ \A i \in 1..Len(chain) : chain'[i] = IF i = Len(chain) THEN l ELSE chain[i]
  BY <1>1, ExceptSeq DEF Active
<1>3. reported' \in Nat /\ (reported' = 0 => reported = 0) /\ recent' \in BOOLEAN
      /\ reported \in Nat
  <2>1. reported \in Nat /\ recent \in BOOLEAN BY DEF WalkInv, TypeOK
  <2>2. CASE UNCHANGED <<reported, recent>> BY <2>1, <2>2
  <2>3. CASE Report
    <3>1. reported' = reported + 1 /\ recent' = TRUE BY <2>3 DEF Report
    <3> QED BY <2>1, <3>1
  <2> QED BY <2>2, <2>3
<1>4. TypeOK'
  <2>1. chain' # <<>> BY <1>1, <1>2
  <2> QED BY <1>1, <1>2, <1>3, <2>1 DEF WalkInv, TypeOK
<1>5. ASSUME NEW i \in 1..Len(chain) PROVE Kept(chain'[i], reported', nested')
  <2>1. CASE i = Len(chain) BY <1>2, <2>1
  <2>2. CASE i # Len(chain)
    <3>1. Kept(chain[i], reported, nested) BY LastIs DEF WalkInv
    <3> QED BY <1>2, <1>3, <2>2, <3>1, LaterKept
  <2> QED BY <2>1, <2>2
<1>6. DOMAIN chain' = 1..Len(chain) BY <1>2
<1> QED BY <1>4, <1>5, <1>6 DEF WalkInv

LEMMA WalkInit == Init => WalkInv
<1> SUFFICES ASSUME Init PROVE WalkInv OBVIOUS
<1>1. PICK b \in BOOLEAN :
        chain = <<NewListener(b)>> /\ recent = b /\ reported = IF b THEN 1 ELSE 0
  BY DEF Init
<1> DEFINE new == NewListener(b)
<1>2. new \in Listeners /\ Kept(new, reported, nested) BY NewKept
<1> HIDE DEF new
<1>3. chain = <<new>> BY <1>1 DEF new
<1>4. chain \in Seq(Listeners) /\ Len(chain) = 1 /\ DOMAIN chain = {1} /\ chain[1] = new
      /\ chain # <<>>
  BY <1>2, <1>3
<1>5. bound \in Bounds /\ bound.files \in Nat \ {0} BY ListenerAssumption DEF Init
<1>6. Len(chain) <= bound.files BY <1>4, <1>5
<1>7. reported \in Nat /\ recent \in BOOLEAN BY <1>1
<1>8. TypeOK BY <1>4, <1>5, <1>6, <1>7 DEF Init, TypeOK
<1> QED BY <1>2, <1>4, <1>8 DEF WalkInv

LEMMA KeptOnEnter ==
    ASSUME WalkInv, NEW n \in bound.nodes \ {"IncludeStatement"}, Enter(n)
    PROVE  WalkInv'
<1>1. n \in DOMAIN Handler BY ListenerAssumption DEF WalkInv, TypeOK, AllNodes
<1>2. L \in Listeners /\ Kept(L, reported, nested) BY LastIs
<1>3. /\ Visits(n) /\ Suits(n) /\ Active(Entered(n)) /\ NestedNow(n)
      /\ UNCHANGED <<bound, included, outcome, reported, recent>>
  BY DEF Enter, Entered
<1>4. nested' \in BOOLEAN /\ (nested' = FALSE =>
          nested = FALSE /\ (n = "ClassDefinition" => ~Open(L, Definitions)))
  <2>1. nested \in BOOLEAN BY DEF WalkInv, TypeOK
  <2> QED BY <1>3, <2>1 DEF NestedNow
<1>5. Entered(n) \in Listeners /\ Kept(Entered(n), reported, nested')
  BY <1>1, <1>2, <1>3, <1>4, EnteredKept
<1> QED BY <1>3, <1>4, <1>5, ActiveKept

\* What an error leaves of a listener that took up a child.
LEMMA KeptOnError ==
    ASSUME WalkInv, NEW l \in Listeners, Alike(L, l), Active(l), Report,
           NEW n, l.marks = L.marks \/ l.marks = Marked(L.marks, n),
           UNCHANGED <<bound, outcome>>, UNCHANGED included \/ included' \subseteq Files,
           nested' \in BOOLEAN, nested' = FALSE => nested = FALSE
    PROVE  WalkInv'
<1>1. L \in Listeners /\ Kept(L, reported, nested) BY LastIs
<1>2. reported' \in Nat /\ reported' # 0
  <2>1. reported \in Nat BY DEF WalkInv, TypeOK
  <2> QED BY <2>1 DEF Report
<1>3. Kept(l, reported', nested) BY <1>1, <1>2, MarkedTooMuch
<1>4. Kept(l, reported', nested') BY <1>2, <1>3, LaterKept
<1> QED BY <1>4, ActiveKept

LEMMA KeptOnFailToEnter == ASSUME WalkInv, NEW n, FailToEnter(n) PROVE WalkInv'
<1> DEFINE v == Visiting(n)
           l == AfterFailedEntry(n)
<1>1. L \in Listeners /\ Placed(L) BY LastIs DEF Kept
<1>2. v \in Listeners /\ Alike(L, v) /\ v.marks = L.marks
  BY <1>1, VisitingAlike DEF FailToEnter, Visits
<1>3. /\ l.marks = L.marks \/ l.marks = Marked(L.marks, n)
      /\ l = [v EXCEPT !.errors = TRUE, !.marks = l.marks]
  <2>1. l = [v EXCEPT !.errors = TRUE,
                      !.marks = IF n \in MarkedFirst THEN Marked(v.marks, n) ELSE v.marks]
    BY DEF AfterFailedEntry
  <2> HIDE DEF v, l
  <2> QED BY <1>2, <2>1 DEF Listeners
<1> HIDE DEF v, l
<1>4. l.marks \in [Marks -> Nat]
  <2>1. L.marks \in [Marks -> Nat] BY <1>1 DEF Listeners
  <2> QED BY <1>3, <2>1, MarksAre DEF Marked
<1>5. l \in Listeners BY <1>2, <1>3, <1>4 DEF Listeners
<1>6. Alike(L, l) BY <1>2, <1>3 DEF Alike, Listeners
<1>7. /\ Report /\ Active(l) /\ NestedNow(n) /\ UNCHANGED <<bound, included, outcome>>
  BY DEF FailToEnter, l
<1>8. nested' \in BOOLEAN /\ (nested' = FALSE => nested = FALSE)
  <2>1. nested \in BOOLEAN BY DEF WalkInv, TypeOK
  <2> QED BY <1>7, <2>1 DEF NestedNow
<1> QED BY <1>3, <1>5, <1>6, <1>7, <1>8, KeptOnError

LEMMA KeptOnExit == ASSUME WalkInv, Exit PROVE WalkInv'
<1> DEFINE c == Closed(Node)
<1>1. L \in Listeners /\ Kept(L, reported, nested) /\ Node # "Program" BY LastIs DEF Exit
<1>2. c \in Listeners /\ Kept(c, reported, nested) BY <1>1, ClosedKept
<1>3. UNCHANGED <<bound, nested, included, outcome, reported, recent>> BY DEF Exit
<1>4. nested' \in BOOLEAN /\ nested' = nested BY <1>3 DEF WalkInv, TypeOK
<1> HIDE DEF c
<1>5. CASE Active(c) BY <1>2, <1>3, <1>4, <1>5, ActiveKept
<1>6. CASE Active(AsCopy(c)) /\ Last(c.entities) = "assignment"
  <2>1. AsCopy(c) \in Listeners /\ Placed(AsCopy(c)) BY <1>2, <1>6, CopiedPlaced DEF Kept
  <2>2. AsCopy(c).marks = c.marks /\ AsCopy(c).open = c.open BY <1>2 DEF AsCopy, Listeners
  <2> DEFINE m == AsCopy(c)
  <2> HIDE DEF m
  <2>3. m \in Listeners /\ Placed(m) /\ m.marks = c.marks /\ m.open = c.open BY <2>1, <2>2 DEF m
  <2>4. Kept(m, reported, nested)
    BY <1>2, <2>3 DEF Kept, Counted, Exact, ClassMarked, Outermost, Marking
  <2> QED BY <1>3, <1>4, <1>6, <2>3, <2>4, ActiveKept DEF m
<1> QED BY <1>5, <1>6 DEF Exit, c

LEMMA KeptOnFailToExit == ASSUME WalkInv, FailToExit PROVE WalkInv'
<1> DEFINE c == Closed(Node)
           l == AfterFailedExit(Node)
<1>1. L \in Listeners /\ Kept(L, reported, nested) /\ Node # "Program" BY LastIs DEF FailToExit
<1>2. c \in Listeners /\ Kept(c, reported, nested) BY <1>1, ClosedKept
<1>3. /\ Report /\ Active(l) /\ UNCHANGED <<bound, nested, included, outcome>>
      /\ l = [c EXCEPT !.errors = TRUE]
  BY DEF FailToExit, AfterFailedExit
<1>4. nested' \in BOOLEAN /\ nested' = nested BY <1>3 DEF WalkInv, TypeOK
<1> HIDE DEF c, l
<1>5. l \in Listeners /\ Alike(c, l) /\ l.marks = c.marks BY <1>2, <1>3 DEF Listeners, Alike
<1>6. reported \in Nat /\ reported' \in Nat /\ reported' # 0
  <2>1. reported \in Nat BY DEF WalkInv, TypeOK
  <2> QED BY <1>3, <2>1 DEF Report
<1>7. Kept(l, reported, nested) BY <1>2, <1>5, AlikeKept
<1>8. Kept(l, reported', nested') BY <1>4, <1>6, <1>7, LaterKept
<1> QED BY <1>3, <1>4, <1>5, <1>8, ActiveKept

LEMMA KeptOnFailedInclude ==
    ASSUME WalkInv, FailToInclude \/ \E file \in Files : FailToParse(file)
    PROVE  WalkInv'
<1> DEFINE v == Visiting("IncludeStatement")
           l == [v EXCEPT !.errors = TRUE]
<1>1. L \in Listeners /\ Placed(L) BY LastIs DEF Kept
<1>2. v \in Listeners /\ Alike(L, v) /\ v.marks = L.marks
  BY <1>1, VisitingAlike DEF FailToInclude, FailToParse, VisitsInclude, Visits
<1>3. /\ Report /\ Active(l) /\ UNCHANGED <<bound, nested, outcome>>
      /\ UNCHANGED included \/ \E file \in Files : included' = included \cup {file}
  BY DEF FailToInclude, FailToParse
<1> HIDE DEF v
<1>4. l \in Listeners /\ Alike(L, l) /\ l.marks = L.marks BY <1>2 DEF Listeners, Alike
<1> HIDE DEF l
<1>5. nested' \in BOOLEAN /\ nested' = nested /\ (UNCHANGED included \/ included' \subseteq Files)
  BY <1>3 DEF WalkInv, TypeOK
<1> QED BY <1>3, <1>4, <1>5, KeptOnError

LEMMA KeptOnSkip == ASSUME WalkInv, NEW file, SkipInclude(file) PROVE WalkInv'
<1> DEFINE v == Visiting("IncludeStatement")
<1>1. L \in Listeners /\ Kept(L, reported, nested) BY LastIs
<1>2. v \in Listeners /\ Alike(L, v) /\ v.marks = L.marks
  BY <1>1, VisitingAlike DEF Kept, SkipInclude, VisitsInclude, Visits
<1>3. Active(v) /\ UNCHANGED <<bound, nested, included, outcome, reported, recent>>
  BY DEF SkipInclude
<1> HIDE DEF v
<1>4. Kept(v, reported, nested) BY <1>1, <1>2, AlikeKept
<1>5. nested' \in BOOLEAN /\ nested' = nested BY <1>3 DEF WalkInv, TypeOK
<1> QED BY <1>2, <1>3, <1>4, <1>5, ActiveKept

LEMMA KeptOnInclude ==
    ASSUME WalkInv, NEW file \in Files, NEW once, Include(file, once)
    PROVE  WalkInv'
<1> DEFINE v == Visiting("IncludeStatement")
           N == Len(chain)
<1>1. L \in Listeners /\ Kept(L, reported, nested) /\ N \in Nat \ {0} BY LastIs
<1>2. v \in Listeners /\ Alike(L, v) /\ v.marks = L.marks
  BY <1>1, VisitingAlike DEF Kept, Include, VisitsInclude, Visits
<1>3. PICK b \in BOOLEAN :
        /\ chain' = [chain EXCEPT ![N] = v] \o <<NewListener(b)>>
        /\ IF b THEN Report ELSE recent' = FALSE /\ UNCHANGED reported
  BY DEF Include
<1>4. /\ included' = included \cup {file} /\ UNCHANGED <<bound, nested, outcome>>
      /\ N < bound.files
  BY DEF Include
<1> DEFINE new == NewListener(b)
           replaced == [chain EXCEPT ![N] = v]
<1>5. new \in Listeners /\ Kept(new, reported', nested') BY NewKept
<1>6. Kept(v, reported, nested) BY <1>1, <1>2, AlikeKept
<1>7. /\ reported \in Nat /\ reported' \in Nat /\ (reported' = 0 => reported = 0)
      /\ recent' \in BOOLEAN
  <2>1. reported \in Nat BY DEF WalkInv, TypeOK
  <2>2. CASE b
    <3>1. reported' = reported + 1 /\ recent' = TRUE BY <1>3, <2>2 DEF Report
    <3> QED BY <2>1, <3>1
  <2>3. CASE ~b BY <1>3, <2>1, <2>3
  <2> QED BY <2>2, <2>3
<1> HIDE DEF v, new
<1>8. chain' = replaced \o <<new>> BY <1>3 DEF new
<1>9. /\ replaced \in Seq(Listeners) /\ Len(replaced) = N
      /\ \A i \in 1..N : replaced[i] = IF i = N THEN v ELSE chain[i]
  <2>1. chain \in Seq(Listeners) /\ N \in 1..N BY <1>1 DEF WalkInv, TypeOK
  <2> QED BY <1>2, <2>1, ExceptSeq
<1> HIDE DEF replaced
<1>10. /\ chain' \in Seq(Listeners) /\ Len(chain') = N + 1 /\ chain'[N + 1] = new
       /\ \A i \in 1..N : chain'[i] = replaced[i]
  BY <1>1, <1>5, <1>8, <1>9, SMTT(30)
<1>11. TypeOK'
  <2>1. bound \in Bounds /\ nested \in BOOLEAN /\ included \subseteq Files
        /\ outcome \in {"walking", "written", "failed"}
    BY DEF WalkInv, TypeOK
  <2>2. N + 1 <= bound.files
    <3>1. bound.files \in Nat BY <2>1, ListenerAssumption
    <3> QED BY <1>1, <1>4, <3>1
  <2>3. chain' # <<>> BY <1>1, <1>10
  <2> QED BY <1>4, <1>7, <1>10, <2>1, <2>2, <2>3 DEF TypeOK
<1>12. ASSUME NEW i \in 1..(N + 1) PROVE Kept(chain'[i], reported', nested')
  <2>1. CASE i = N + 1 BY <1>5, <1>10, <2>1
  <2>2. CASE i # N + 1
    <3>1. i \in 1..N BY <1>1, <2>2
    <3>2. Kept(chain'[i], reported, nested)
      <4>1. Kept(chain[i], reported, nested) BY <3>1, LastIs DEF WalkInv
      <4> QED BY <1>6, <1>9, <1>10, <3>1, <4>1
    <3> QED BY <1>4, <1>7, <3>2, LaterKept
  <2> QED BY <2>1, <2>2
<1>13. DOMAIN chain' = 1..(N + 1) BY <1>10
<1> QED BY <1>11, <1>12, <1>13 DEF WalkInv

LEMMA KeptOnExitIncluded == ASSUME WalkInv, ExitIncluded PROVE WalkInv'
<1>1. chain \in Seq(Listeners) /\ Len(chain) > 1 /\ Len(chain) \in Nat
  BY LastIs DEF WalkInv, TypeOK, ExitIncluded
<1>2. PICK k \in Nat \ {0} : k = Len(chain) - 1 BY <1>1
<1>3. Front(chain) \in Seq(Listeners) /\ Len(Front(chain)) = k
      /\ \A i \in 1..k : Front(chain)[i] = chain[i]
  <2>1. chain # <<>> BY <1>1
  <2> QED BY <1>1, <1>2, <2>1, FrontIs
<1>4. chain[k] \in Listeners /\ Front(chain)[k] = chain[k] /\ k \in 1..k /\ k \in 1..Len(chain)
  BY <1>1, <1>2, <1>3, ElementOfSeq
<1> DEFINE l == [chain[k] EXCEPT !.errors = L.errors]
<1>5. l \in Listeners /\ Alike(chain[k], l) /\ l.marks = chain[k].marks
  <2>1. L.errors \in BOOLEAN BY LastIs DEF Listeners
  <2> QED BY <1>4, <2>1 DEF Listeners, Alike
<1>6. chain' = [Front(chain) EXCEPT ![k] = l]
  BY <1>2, <1>4 DEF ExitIncluded, ErrorsFrom
<1> HIDE DEF l
<1>7. /\ chain' \in Seq(Listeners) /\ Len(chain') = k
      /\ \A i \in 1..k : chain'[i] = IF i = k THEN l ELSE chain[i]
  BY <1>3, <1>4, <1>5, <1>6, ExceptSeq
<1>8. UNCHANGED <<bound, nested, included, outcome, reported, recent>> BY DEF ExitIncluded
<1>9. TypeOK'
  <2>1. Len(chain') <= bound.files
    <3>1. Len(chain) <= bound.files /\ bound.files \in Nat
      BY ListenerAssumption DEF WalkInv, TypeOK
    <3> QED BY <1>1, <1>2, <1>7, <3>1
  <2>2. chain' # <<>> BY <1>2, <1>7
  <2> QED BY <1>7, <1>8, <2>1, <2>2 DEF WalkInv, TypeOK
<1>10. ASSUME NEW i \in 1..k PROVE Kept(chain'[i], reported, nested)
  <2>1. i \in 1..Len(chain) BY <1>1, <1>2
  <2>2. Kept(chain[i], reported, nested) BY <2>1, LastIs DEF WalkInv
  <2>3. CASE i = k BY <1>4, <1>5, <1>7, <2>2, <2>3, AlikeKept
  <2>4. CASE i # k BY <1>7, <2>2, <2>4
  <2> QED BY <2>3, <2>4
<1>11. DOMAIN chain' = 1..k BY <1>7
<1> QED BY <1>8, <1>9, <1>10, <1>11 DEF WalkInv

LEMMA WalkNext == WalkInv /\ [Next]_vars => WalkInv'
<1> SUFFICES ASSUME WalkInv, [Next]_vars PROVE WalkInv' OBVIOUS
<1>1. CASE Walk BY <1>1, KeptOnEnter, KeptOnFailToEnter, KeptOnExit, KeptOnFailToExit DEF Walk
<1>2. CASE Including
  <2>1. CASE FailToInclude \/ \E file \in Files : FailToParse(file) BY <2>1, KeptOnFailedInclude
  <2>2. ASSUME NEW file \in Files, SkipInclude(file) PROVE WalkInv' BY <2>2, KeptOnSkip
  <2>3. ASSUME NEW file \in Files, NEW once \in BOOLEAN, Include(file, once) PROVE WalkInv'
    BY <2>3, KeptOnInclude
  <2> QED BY <1>2, <2>1, <2>2, <2>3 DEF Including
<1>3. CASE ExitIncluded BY <1>3, KeptOnExitIncluded
<1>4. CASE ExitMain
  <2>1. UNCHANGED <<bound, nested, chain, included, reported, recent>>
        /\ outcome' \in {"written", "failed"}
    BY <1>4 DEF ExitMain
  <2> QED BY <2>1 DEF WalkInv, TypeOK
<1>5. CASE UNCHANGED vars BY <1>5 DEF vars, WalkInv, TypeOK
<1> QED BY <1>1, <1>2, <1>3, <1>4, <1>5 DEF Next

\* The invariant of the walk holds throughout: the stacks, marks and slots of every listener
\* are those of its open nodes (BashppListener and the handlers).
THEOREM WalkKept == Spec => []WalkInv
<1> QED BY WalkInit, WalkNext, PTL DEF Spec

\* The listeners of the open includes, their stacks, slots and marks keep their types (the
\* fields of BashppListener).
THEOREM ListenerTypes == Spec => []TypeOK
<1>1. WalkInv => TypeOK BY DEF WalkInv
<1> QED BY <1>1, WalkKept, PTL

LEMMA StackMatches == WalkInv => StackMatchesNodes
<1> SUFFICES ASSUME WalkInv PROVE StackMatchesNodes OBVIOUS
<1>1. L \in Listeners /\ Placed(L) BY LastIs DEF Kept
<1>2. \A i \in DOMAIN chain : Matches(chain[i]) BY DEF WalkInv, Kept, Placed
<1>3. ASSUME NEW n \in bound.nodes \ {"IncludeStatement"}, Visits(n),
             Handler[n].otherwise = "assert"
      PROVE  Suits(n)
  <2>1. n \in DOMAIN Handler BY ListenerAssumption DEF WalkInv, TypeOK, AllNodes
  <2>2. SlotFor(n) # {} BY <1>3 DEF Visits
  <2> QED BY <1>1, <1>3, <2>1, <2>2, FitsIn DEF Suits
<1>4. ASSUME Node = "Program" PROVE Len(L.entities) = 1
  <2>1. Len(L.open) = 1 BY <1>1, <1>4, NodeIs
  <2> QED BY <1>1, <2>1, TopsAre DEF Placed, Matches
<1>5. ASSUME Node # "Program" PROVE Sound(Node) BY <1>1, <1>5, ClosingIsSound
<1> QED BY <1>2, <1>3, <1>4, <1>5 DEF StackMatchesNodes

\* No error leaves an entity on the stack or takes one too many, and so no handler's
\* assertion fails (BashppListener's entity_stack).
THEOREM StacksMatch == Spec => []StackMatchesNodes
BY WalkKept, StackMatches, PTL

\* The context_expectations_stack holds what the open nodes expect, and the counters of
\* supershells, casts and typeofs are those of the open nodes.
THEOREM ContextsMatch == Spec => []ContextMatches
<1>1. WalkInv => ContextMatches
  <2> SUFFICES ASSUME WalkInv, NEW i \in DOMAIN chain
               PROVE  /\ Expects(chain[i])
                      /\ reported = 0 =>
                            \A m \in {"supershell", "cast", "typeof"} :
                                chain[i].marks[m] = Cardinality(Marking(chain[i], m))
    BY DEF ContextMatches
  <2>1. Kept(chain[i], reported, nested) BY DEF WalkInv
  <2>2. {"supershell", "cast", "typeof"} \subseteq Marks \ Flags BY MarksAre DEF Flags
  <2> QED BY <2>1, <2>2 DEF Kept, Placed, Exact
<1> QED BY <1>1, WalkKept, PTL

LEMMA LocalInDefinitions ==
    ASSUME NEW l \in Listeners, Placed(l), Exact(l), ClassMarked(l)
    PROVE  ShouldDeclareLocal(l) <=> Open(l, Definitions)
<1>1. DOMAIN l.open = 1..Len(l.open) /\ Len(l.open) \in Nat BY Opens
<1>2. "function" \in Marks \ Flags /\ {"class", "method"} = Flags BY MarksAre DEF Flags
<1>3. \A k \in DOMAIN l.open :
        /\ k \in Marking(l, "class") <=> l.open[k].node = "ClassDefinition"
        /\ k \in Marking(l, "method") => l.open[k].node = "MethodDefinition"
        /\ k \in Marking(l, "function") <=> l.open[k].node = "BashFunction"
  BY MarksAre DEF Marking
<1>4. l.marks["function"] = Cardinality(Marking(l, "function"))
      /\ IsFiniteSet(Marking(l, "function")) /\ Cardinality(Marking(l, "function")) \in Nat
      /\ (Cardinality(Marking(l, "function")) = 0 <=> Marking(l, "function") = {})
  <2>1. IsFiniteSet(1..Len(l.open)) BY <1>1, FS_Interval
  <2>2. Marking(l, "function") \subseteq 1..Len(l.open) BY <1>1 DEF Marking
  <2>3. IsFiniteSet(Marking(l, "function")) BY <2>1, <2>2, FS_Subset
  <2> QED BY <1>2, <2>3, FS_CardinalityType, FS_EmptySet DEF Exact
<1>5. \A k : Marking(l, k) \subseteq DOMAIN l.open BY DEF Marking
<1>6. ASSUME ShouldDeclareLocal(l) PROVE Open(l, Definitions)
  <2>1. PICK k \in {"class", "method", "function"} : l.marks[k] > 0
    BY <1>6 DEF ShouldDeclareLocal
  <2>2. Marking(l, k) # {}
    <3>1. CASE k \in {"class", "method"} BY <1>2, <2>1, <3>1 DEF Exact
    <3>2. CASE k = "function" BY <1>4, <2>1, <3>2
    <3> QED BY <2>1, <3>1, <3>2
  <2> QED BY <1>3, <1>5, <2>1, <2>2 DEF Open, Definitions
<1>7. ASSUME NEW k \in DOMAIN l.open, l.open[k].node = "ClassDefinition"
      PROVE  ShouldDeclareLocal(l)
  BY <1>3, <1>7 DEF ClassMarked, ShouldDeclareLocal
<1>8. ASSUME NEW k \in DOMAIN l.open, l.open[k].node = "BashFunction"
      PROVE  ShouldDeclareLocal(l)
  <2>1. l.marks["function"] > 0 BY <1>3, <1>4, <1>8
  <2> QED BY <2>1 DEF ShouldDeclareLocal
<1>9. ASSUME NEW k \in DOMAIN l.open, l.open[k].node \in Members
      PROVE  ShouldDeclareLocal(l)
  <2> DEFINE n == l.open[k].node
  <2>1. n \notin {"Program", "Block"} /\ n \in DOMAIN Pushed /\ Pushed[n] # "none"
    BY <1>9 DEF Members, Pushed
  <2>2. k \in 2..Len(l.open) /\ n \in DOMAIN Handler
    <3>1. k # 1 BY <2>1 DEF Placed, Rooted
    <3> QED BY <1>1, <3>1 DEF Placed, Rooted
  <2>3. Handler[n].push = Pushed[n] /\ Handler[n].top = {"class"}
    BY <1>9, <2>1, <2>2, AllHandled DEF Handles
  <2>4. k \in Owners(l) \ {1} BY <2>1, <2>2, <2>3 DEF Owners, Own
  <2>5. TopIn(l, k - 1) = "class" BY <2>3, <2>4 DEF Placed, Founded
  <2>6. k - 1 \in DOMAIN l.open BY <1>1, <2>2
  <2>7. PICK i \in 1..(k - 1) : l.open[i].node = "ClassDefinition"
    BY <2>5, <2>6 DEF Placed, ClassesOpen
  <2>8. i \in DOMAIN l.open BY <1>1, <2>2
  <2> QED BY <1>7, <2>7, <2>8
<1> QED BY <1>6, <1>7, <1>8, <1>9 DEF Open, Definitions, Members

\* Without errors, and without classes in definitions, local declarations are made in
\* definitions and nowhere else (should_declare_local).
THEOREM LocalsExact == Spec => []LocalExactly
<1>1. WalkInv => LocalExactly
  <2> SUFFICES ASSUME WalkInv, reported = 0, ~nested, NEW i \in DOMAIN chain
               PROVE  ShouldDeclareLocal(chain[i]) <=> Open(chain[i], Definitions)
    BY DEF LocalExactly
  <2>1. nested = FALSE /\ chain[i] \in Listeners
    <3>1. nested \in BOOLEAN /\ chain \in Seq(Listeners) BY DEF WalkInv, TypeOK
    <3> QED BY <3>1, LastIs, ElementOfSeq
  <2>2. Kept(chain[i], reported, nested) BY DEF WalkInv
  <2> QED BY <2>1, <2>2, LocalInDefinitions DEF Kept
<1> QED BY <1>1, WalkKept, PTL

--------------------------------------------------------------------------------
(* No error is lost: the active listener knows of it, and hands it to the one that it was *)
(* included from. *)

IsChain ==
    /\ \E S : chain \in Seq(S)
    /\ Len(chain) > 0
    /\ \A i \in 1..Len(chain) : "errors" \in DOMAIN chain[i]

\* ErrorsAfterLastIncludeStop says nothing of a walk that has not ended.
ErrorKnown == outcome = "walking" /\ recent => L.errors

IInv ==
    /\ IsChain
    /\ outcome \in {"walking", "written", "failed"}
    /\ recent \in BOOLEAN
    /\ ErrorKnown
    /\ ErrorsAfterLastIncludeStop

LEMMA ReplacedAt ==
    \A S, l : \A s \in Seq(S) : \A i \in 1..Len(s) :
        LET t == [s EXCEPT ![i] = l]
        IN  t \in Seq(S \cup {l}) /\ Len(t) = Len(s)
                /\ \A j \in 1..Len(s) : t[j] = IF j = i THEN l ELSE s[j]
<1> TAKE S, l
<1> TAKE s \in Seq(S)
<1> TAKE i \in 1..Len(s)
<1>1. s \in Seq(S \cup {l}) BY SeqMonotonic
<1> QED BY <1>1, ExceptSeq

\* Len and Last of a chain whose last listener was replaced.
LEMMA Replaced ==
    ASSUME IsChain, NEW l, "errors" \in DOMAIN l, Active(l)
    PROVE  IsChain' /\ L' = l
<1>1. PICK S : chain \in Seq(S) BY DEF IsChain
<1>2. Len(chain) \in Nat \ {0} BY <1>1 DEF IsChain
<1>3. /\ chain' \in Seq(S \cup {l}) /\ Len(chain') = Len(chain)
      /\ \A j \in 1..Len(chain) : chain'[j] = IF j = Len(chain) THEN l ELSE chain[j]
  BY <1>1, <1>2, ReplacedAt DEF Active
<1>4. chain'[Len(chain)] = l BY <1>2, <1>3
<1>5. L' = l BY <1>3, <1>4 DEF L, Last
<1>6. \A i \in 1..Len(chain') : "errors" \in DOMAIN chain'[i]
  BY <1>3 DEF IsChain
<1>7. IsChain' BY <1>2, <1>3, <1>6 DEF IsChain
<1> QED BY <1>5, <1>7

LEMMA ListenerHasErrors == IsChain => "errors" \in DOMAIN L
BY DEF IsChain, L, Last

\* Nothing but an error changes whether the active listener knows of one.
LEMMA SameErrors ==
    ASSUME IInv, NEW l, DOMAIN l = DOMAIN L, l.errors = L.errors, Active(l),
           UNCHANGED <<outcome, recent>>
    PROVE  IInv'
<1>1. IsChain' /\ L' = l BY ListenerHasErrors, Replaced DEF IInv
<1> QED BY <1>1 DEF IInv, ErrorKnown, ErrorsAfterLastIncludeStop

LEMMA KnownError ==
    ASSUME IInv, NEW l, DOMAIN l = DOMAIN L, l.errors = TRUE, Active(l), Report,
           outcome = "walking", UNCHANGED outcome
    PROVE  IInv'
<1>1. IsChain' /\ L' = l BY ListenerHasErrors, Replaced DEF IInv
<1> QED BY <1>1 DEF IInv, ErrorKnown, ErrorsAfterLastIncludeStop, Report

LEMMA ErrorsInit == Init => IInv
<1> SUFFICES ASSUME Init PROVE IInv OBVIOUS
<1>1. PICK b \in BOOLEAN : chain = <<NewListener(b)>> /\ recent = b BY DEF Init
<1>2. Len(chain) = 1 /\ chain[1] = NewListener(b) /\ chain \in Seq({NewListener(b)}) BY <1>1
<1>3. "errors" \in DOMAIN NewListener(b) /\ NewListener(b).errors = b BY DEF NewListener
<1>4. L = NewListener(b) BY <1>2 DEF L, Last
<1>5. \A i \in 1..Len(chain) : "errors" \in DOMAIN chain[i] BY <1>2, <1>3
<1>6. IsChain BY <1>2, <1>5 DEF IsChain
<1>7. outcome = "walking" BY DEF Init
<1> QED BY <1>1, <1>3, <1>4, <1>6, <1>7 DEF IInv, ErrorKnown, ErrorsAfterLastIncludeStop

LEMMA ErrorsNext == IInv /\ [Next]_vars => IInv'
<1> SUFFICES ASSUME IInv, [Next]_vars PROVE IInv' OBVIOUS
<1>e. "errors" \in DOMAIN L BY ListenerHasErrors DEF IInv
<1>1. ASSUME NEW n, Enter(n) PROVE IInv'
  <2> DEFINE l == [Visiting(n) EXCEPT !.open     = Append(@, [node |-> n, slot |-> 1]),
                                     !.entities = Push(@, Pushes(n, Top)),
                                     !.objects  = @ \o Expectation(n, Top),
                                     !.marks    = Marked(@, n)]
  <2>1. DOMAIN l = DOMAIN L /\ l.errors = L.errors BY <1>e DEF Visiting
  <2>2. Active(l) /\ UNCHANGED <<outcome, recent>> BY <1>1 DEF Enter
  <2> HIDE DEF l
  <2> QED BY <2>1, <2>2, SameErrors
<1>2. ASSUME NEW n, FailToEnter(n) PROVE IInv'
  <2>1. /\ DOMAIN AfterFailedEntry(n) = DOMAIN L
        /\ AfterFailedEntry(n).errors = TRUE
    BY <1>e DEF AfterFailedEntry, Visiting
  <2> QED BY <1>2, <2>1, KnownError DEF FailToEnter, Visits
<1>3. CASE Exit
  <2>1. DOMAIN Closed(Node) = DOMAIN L /\ Closed(Node).errors = L.errors BY <1>e DEF Closed
  <2>2. DOMAIN AsCopy(Closed(Node)) = DOMAIN L /\ AsCopy(Closed(Node)).errors = L.errors
    BY <1>e, <2>1 DEF AsCopy
  <2>3. CASE Active(Closed(Node)) BY <1>3, <2>1, <2>3, SameErrors DEF Exit
  <2>4. CASE Active(AsCopy(Closed(Node))) BY <1>3, <2>2, <2>4, SameErrors DEF Exit
  <2> QED BY <1>3, <2>3, <2>4 DEF Exit
<1>4. CASE FailToExit
  <2>1. DOMAIN AfterFailedExit(Node) = DOMAIN L /\ AfterFailedExit(Node).errors = TRUE
    BY <1>e DEF AfterFailedExit, Closed
  <2> QED BY <1>4, <2>1, KnownError DEF FailToExit, Visited
<1>5. ASSUME FailToInclude \/ \E file \in Files : FailToParse(file) PROVE IInv'
  <2> DEFINE l == [Visiting("IncludeStatement") EXCEPT !.errors = TRUE]
  <2>1. DOMAIN l = DOMAIN L /\ l.errors = TRUE BY <1>e DEF Visiting
  <2>2. Active(l) /\ Report /\ outcome = "walking" /\ UNCHANGED outcome
    BY <1>5 DEF FailToInclude, FailToParse, VisitsInclude, Visits
  <2> HIDE DEF l
  <2> QED BY <2>1, <2>2, KnownError
<1>6. ASSUME NEW file, SkipInclude(file) PROVE IInv'
  <2> DEFINE l == Visiting("IncludeStatement")
  <2>1. DOMAIN l = DOMAIN L /\ l.errors = L.errors BY <1>e DEF Visiting
  <2>2. Active(l) /\ UNCHANGED <<outcome, recent>> BY <1>6 DEF SkipInclude
  <2> HIDE DEF l
  <2> QED BY <2>1, <2>2, SameErrors
<1>7. ASSUME NEW file, NEW once, Include(file, once) PROVE IInv'
  <2> DEFINE l == Visiting("IncludeStatement")
             replaced == [chain EXCEPT ![Len(chain)] = l]
  <2>1. PICK b \in BOOLEAN :
            /\ chain' = replaced \o <<NewListener(b)>>
            /\ IF b THEN Report ELSE recent' = FALSE /\ UNCHANGED reported
    BY <1>7 DEF Include
  <2>2. PICK S : chain \in Seq(S) BY DEF IInv, IsChain
  <2>3. Len(chain) \in Nat \ {0} BY <2>2 DEF IInv, IsChain
  <2>4. "errors" \in DOMAIN l BY <1>e DEF Visiting
  <2>5. "errors" \in DOMAIN NewListener(b) /\ NewListener(b).errors = b BY DEF NewListener
  <2> HIDE DEF l
  <2>6. /\ replaced \in Seq(S \cup {l}) /\ Len(replaced) = Len(chain)
        /\ \A j \in 1..Len(chain) : replaced[j] = IF j = Len(chain) THEN l ELSE chain[j]
    BY <2>2, <2>3, ReplacedAt
  <2>7. \A i \in 1..Len(chain) : "errors" \in DOMAIN replaced[i]
    BY <2>4, <2>6 DEF IInv, IsChain
  <2> HIDE DEF replaced
  <2> DEFINE new == NewListener(b)
  <2>8. new.errors = b /\ "errors" \in DOMAIN new BY <2>5
  <2> HIDE DEF new
  <2>9. /\ chain' \in Seq(S \cup {l, new})
        /\ Len(chain') = Len(chain) + 1
        /\ chain'[Len(chain) + 1] = new
        /\ \A i \in 1..Len(chain) : chain'[i] = replaced[i]
    <3>1. chain' = replaced \o <<new>> BY <2>1 DEF new
    <3>2. replaced \in Seq(S \cup {l, new}) BY <2>6
    <3> QED BY <3>1, <3>2, <2>3, <2>6
  <2>10. \A i \in 1..Len(chain') : "errors" \in DOMAIN chain'[i] BY <2>3, <2>7, <2>8, <2>9
  <2>11. IsChain' BY <2>3, <2>9, <2>10 DEF IsChain
  <2>12. L'.errors = b BY <2>8, <2>9 DEF L, Last
  <2> QED BY <1>7, <2>1, <2>11, <2>12
          DEF IInv, ErrorKnown, ErrorsAfterLastIncludeStop, Include, Report, VisitsInclude, Visits
<1>8. CASE ExitIncluded
  <2>1. PICK S : chain \in Seq(S) BY DEF IInv, IsChain
  <2>2. Len(chain) \in Nat BY <2>1
  <2>3. Len(chain) > 1 BY <1>8 DEF ExitIncluded
  <2>4. PICK k \in Nat \ {0} : k = Len(chain) - 1 BY <2>2, <2>3
  <2>5. /\ Front(chain) \in Seq(S) /\ Len(Front(chain)) = k
        /\ \A i \in 1..k : Front(chain)[i] = chain[i]
    <3>1. chain # <<>> BY <2>1, <2>3
    <3> QED BY <2>1, <2>4, <3>1, FrontIs
  <2> DEFINE l == [Front(chain)[k] EXCEPT !.errors = L.errors]
  <2>6. chain' = [Front(chain) EXCEPT ![k] = l]
    BY <1>8, <2>4 DEF ExitIncluded, ErrorsFrom
  <2>7. "errors" \in DOMAIN Front(chain)[k] BY <2>2, <2>4, <2>5 DEF IInv, IsChain
  <2>8. "errors" \in DOMAIN l /\ l.errors = L.errors BY <2>7
  <2> HIDE DEF l
  <2>9. chain' \in Seq(S \cup {l}) /\ Len(chain') = k /\ chain'[k] = l
    BY <2>4, <2>5, <2>6, ReplacedAt
  <2>10. \A i \in 1..k : "errors" \in DOMAIN chain'[i]
    BY <2>4, <2>5, <2>8, <2>6 DEF IInv, IsChain
  <2>11. IsChain' BY <2>4, <2>9, <2>10 DEF IsChain
  <2>12. L'.errors = L.errors BY <2>8, <2>9 DEF L, Last
  <2> QED BY <1>8, <2>11, <2>12 DEF IInv, ErrorKnown, ErrorsAfterLastIncludeStop, ExitIncluded
<1>9. CASE ExitMain
  <2>1. UNCHANGED <<chain, recent>> /\ outcome = "walking"
        /\ outcome' = IF L.errors THEN "failed" ELSE "written"
    BY <1>9 DEF ExitMain, Visited
  <2>2. L' = L /\ IsChain' BY <2>1 DEF L, Last, IInv, IsChain
  <2> QED BY <2>1, <2>2 DEF IInv, ErrorKnown, ErrorsAfterLastIncludeStop
<1>10. CASE UNCHANGED vars
  <2>1. L' = L /\ IsChain' BY <1>10 DEF vars, L, Last, IInv, IsChain
  <2> QED BY <1>10, <2>1 DEF vars, IInv, ErrorKnown, ErrorsAfterLastIncludeStop
<1> QED BY <1>1, <1>2, <1>3, <1>4, <1>5, <1>6, <1>7, <1>8, <1>9, <1>10 DEF Next, Walk, Including

\* The output is not written after an error since the last include began (Program.cpp,
\* where the flag of the included file replaces that of the including one).
THEOREM ErrorsStop == Spec => []ErrorsAfterLastIncludeStop
<1>1. IInv => ErrorsAfterLastIncludeStop BY DEF IInv
<1> QED BY <1>1, ErrorsInit, ErrorsNext, PTL DEF Spec
================================================================================
