-------------------------------- MODULE Listener --------------------------------
(***************************************************************************)
(* The walk of the compiler over the syntax tree: BaseListener::walk, the  *)
(* handlers of BashppListener, and the listeners of included files.        *)
(*                                                                         *)
(* The tree is any one that the grammar allows, met node by node.  A       *)
(* SyntaxError ends the visit of the node whose handler throws it, and the *)
(* walk goes on after that node.  An include runs a listener of its own,   *)
(* with stacks of its own, on the same program: `chain` holds the ones     *)
(* that are running, the last of them active.                              *)
(***************************************************************************)
EXTENDS Handlers, FiniteSets, SequencesExt

CONSTANTS Files,     \* the files that can be included
          Bounds     \* on the nodes that occur and how many are open, on the files that
                     \* are open, and on the errors

AllNodes == DOMAIN Handler \cup {"IncludeStatement"}

ASSUME ListenerAssumption ==
    Bounds \subseteq [nodes : SUBSET AllNodes, depth : Nat \ {0}, files : Nat \ {0}, errors : Nat]

VARIABLES
    bound,      \* one of Bounds
    chain,      \* the listeners, from that of the main file on
    included,   \* included_files
    outcome,    \* "walking", "written" or "failed"
    reported,   \* how many errors were reported, and
    recent,     \* whether any since the last include began
    nested      \* whether a class was met inside of a class, method or function

vars == <<bound, chain, included, outcome, reported, recent, nested>>

--------------------------------------------------------------------------------
(* The active listener. *)

MarkedNodes ==
    [ClassDefinition |-> "class", MethodDefinition |-> "method", BashFunction |-> "function",
     Supershell |-> "supershell", DynamicCast |-> "cast", TypeofExpression |-> "typeof"]

Marks == {MarkedNodes[n] : n \in DOMAIN MarkedNodes}

\* in_class and in_method are Booleans, the other marks are stacks.
Flags == {"class", "method"}

\* These leave their mark before they check anything.
MarkedFirst == {"ClassDefinition", "BashFunction", "Supershell"}

Marked(marks, n) ==
    IF n \notin DOMAIN MarkedNodes THEN marks
    ELSE [marks EXCEPT ![MarkedNodes[n]] = IF MarkedNodes[n] \in Flags THEN 1 ELSE @ + 1]

\* Mutant: flags are counted down too.
UnmarkedFlags(marks, n) ==
    IF n \notin DOMAIN MarkedNodes THEN marks ELSE [marks EXCEPT ![MarkedNodes[n]] = @ - 1]

Unmarked(marks, n) ==
    IF n \notin DOMAIN MarkedNodes THEN marks
    ELSE [marks EXCEPT ![MarkedNodes[n]] = IF MarkedNodes[n] \in Flags THEN 0 ELSE @ - 1]

NewListener(hasErrors) ==
    [open |-> <<[node |-> "Program", slot |-> 1]>>, entities |-> <<"program">>,
     marks |-> [k \in Marks |-> 0], objects |-> <<>>, errors |-> hasErrors]

L == Last(chain)

Active(listener) == chain' = [chain EXCEPT ![Len(chain)] = listener]

Node == Last(L.open).node
Top  == Last(L.entities)

CanTakeObject == L.objects # <<>> /\ Last(L.objects)

\* Mutant: in_class counts for nothing.
ShouldDeclareLocalInMethod(l) == \E k \in {"method", "function"} : l.marks[k] > 0

ShouldDeclareLocal(l) == \E k \in {"class", "method", "function"} : l.marks[k] > 0

\* topmost_entity_is: the base types, and those derived from them.
Is(entity, type) ==
    CASE type = "string" -> entity \in Strings
      [] type = "code"   -> entity \in CodeEntities
      [] type = "object" -> entity \in Objects
      [] type = "assignment" -> entity \in {"assignment", "copy"}
      [] OTHER -> entity = type

\* A block has no entity of its own in these.
Surrounding == {"class", "method", "function", "for"}

Pushes(n, top) == IF n = "Block" /\ top \in Surrounding THEN "none" ELSE Handler[n].push

Push(stack, entity) == IF entity = "none" THEN stack ELSE Append(stack, entity)

\* What a node says of the objects in it: TRUE if they may stay what they are.
Expectation(n, top) ==
    CASE n \in {"DeleteStatement", "ObjectAssignment"} -> <<TRUE>>
      [] n = "ValueAssignment" -> <<top \in {"copy"} \cup Objects>>
      [] OTHER -> <<>>

--------------------------------------------------------------------------------
(* BaseListener::walk. *)

Slots == Shape[Node]

\* The slot that a child of type n may take.
SlotFor(n) ==
    {j \in Last(L.open).slot..Len(Slots) :
        /\ n \in Slots[j].of
        /\ \A i \in Last(L.open).slot..(j - 1) : Slots[i].least = 0 \/ Slots[i].many}

Advanced(open, j) ==
    [open EXCEPT ![Len(open)].slot = IF Slots[j].many THEN j ELSE j + 1]

\* The visit of a child of type n begins.
Visits(n) == outcome = "walking" /\ SlotFor(n) # {} /\ Len(L.open) < bound.depth

\* The listener after it took up the child.
Visiting(n) == [L EXCEPT !.open = Advanced(@, Min(SlotFor(n)))]

Definitions ==
    {"ClassDefinition", "MethodDefinition", "ConstructorDefinition", "DestructorDefinition",
     "BashFunction"}

Open(l, nodes) == \E i \in DOMAIN l.open : l.open[i].node \in nodes

NestedNow(n) == nested' = (nested \/ (n = "ClassDefinition" /\ Open(L, Definitions)))

Report ==
    /\ reported < bound.errors
    /\ reported' = reported + 1
    /\ recent' = TRUE

Suits(n) == Top \in Handler[n].top \/ Pushes(n, Top) # Handler[n].push

Enter(n) ==
    /\ Visits(n) /\ Suits(n)
    /\ Active([Visiting(n) EXCEPT
            !.open     = Append(@, [node |-> n, slot |-> 1]),
            !.entities = Push(@, Pushes(n, Top)),
            !.objects  = @ \o Expectation(n, Top),
            !.marks    = Marked(@, n)])
    /\ NestedNow(n)
    /\ UNCHANGED <<bound, included, outcome, reported, recent>>

\* Mutant: the entity stays.
AfterFailedEntryPushed(n) ==
    [Visiting(n) EXCEPT !.errors = TRUE,
                        !.entities = Push(@, Pushes(n, Top)),
                        !.marks  = IF n \in MarkedFirst THEN Marked(@, n) ELSE @]

\* The listener after the handler threw: what it pushed it has popped.
AfterFailedEntry(n) ==
    [Visiting(n) EXCEPT !.errors = TRUE,
                        !.marks  = IF n \in MarkedFirst THEN Marked(@, n) ELSE @]

FailToEnter(n) ==
    /\ Visits(n)
    /\ \/ ~Suits(n) /\ Handler[n].otherwise = "error"
       \/ Suits(n) /\ "enter" \in Handler[n].reports
    /\ Report
    /\ Active(AfterFailedEntry(n))
    /\ NestedNow(n)
    /\ UNCHANGED <<bound, included, outcome>>

\* All that the grammar asks of the node's children has been visited.
Visited ==
    /\ outcome = "walking"
    /\ \A i \in Last(L.open).slot..Len(Slots) : Slots[i].least = 0 \/ Slots[i].many

Closed(n) ==
    [L EXCEPT !.open     = Front(@),
              !.entities = IF Pushes(n, Top) = "none" THEN @ ELSE Front(@),
              !.objects  = IF Expectation(n, Top) = <<>> THEN @ ELSE Front(@),
              !.marks    = Unmarked(@, n)]

\* What the handler asserts on exit.
Sound(n) ==
    Pushes(n, Top) # "none" =>
        /\ Is(Top, Handler[n].push)
        /\ Len(L.entities) > 1 /\ Closed(n).entities # <<>>
        /\ Last(Closed(n).entities) \in Handler[n].top

\* The reference was the lvalue of an assignment, and an object.
AsCopy(listener) ==
    [listener EXCEPT !.entities = Append(Front(@), "copy")]

Exit ==
    /\ Visited /\ Node # "Program" /\ Sound(Node)
    /\ \/ Active(Closed(Node))
       \/ /\ Node = "ObjectReference" /\ CanTakeObject
          /\ Last(Closed(Node).entities) = "assignment"
          /\ Active(AsCopy(Closed(Node)))
    /\ UNCHANGED <<bound, nested, included, outcome, reported, recent>>

MayReport ==
    /\ "exit" \in Handler[Node].reports
    /\ Node = "ObjectAssignment" => Top = "copy"
    /\ Node = "ValueAssignment"  => Last(Closed(Node).entities) = "object"
    /\ Node = "PointerDeclaration" =>
           Last(Closed(Node).entities) \notin CodeEntities \cup {"datamember"}

\* Mutant: the expectation of a node that fails stays.
AfterFailedExitExpecting(n) == [Closed(n) EXCEPT !.errors = TRUE, !.objects = L.objects]

AfterFailedExit(n) == [Closed(n) EXCEPT !.errors = TRUE]

FailToExit ==
    /\ Visited /\ Node # "Program" /\ Sound(Node) /\ MayReport
    /\ Report
    /\ Active(AfterFailedExit(Node))
    /\ UNCHANGED <<bound, nested, included, outcome>>

--------------------------------------------------------------------------------
(* Includes and the end of a file. *)

VisitsInclude == "IncludeStatement" \in bound.nodes /\ Visits("IncludeStatement")

\* enterIncludeStatement: not at the top level, or no such file, or
FailToInclude ==
    /\ VisitsInclude
    /\ Report
    /\ Active([Visiting("IncludeStatement") EXCEPT !.errors = TRUE])
    /\ UNCHANGED <<bound, nested, included, outcome>>

\* one that cannot be parsed at all, or
FailToParse(file) ==
    /\ VisitsInclude /\ Top = "program"
    /\ included' = included \cup {file}
    /\ Report
    /\ Active([Visiting("IncludeStatement") EXCEPT !.errors = TRUE])
    /\ UNCHANGED <<bound, nested, outcome>>

\* one that @include_once finds included, or
SkipInclude(file) ==
    /\ VisitsInclude /\ Top = "program"
    /\ file \in included
    /\ Active(Visiting("IncludeStatement"))
    /\ UNCHANGED <<bound, nested, included, outcome, reported, recent>>

\* it is walked, with the errors of its parser or without.
Include(file, once) ==
    /\ VisitsInclude /\ Top = "program"
    /\ Len(chain) < bound.files
    /\ ~(once /\ file \in included)
    /\ included' = included \cup {file}
    /\ \E parserErrors \in BOOLEAN :
          /\ chain' = [chain EXCEPT ![Len(chain)] = Visiting("IncludeStatement")]
                          \o <<NewListener(parserErrors)>>
          /\ IF parserErrors THEN Report ELSE recent' = FALSE /\ UNCHANGED reported
    /\ UNCHANGED <<bound, nested, outcome>>

\* Mutant: the errors of the included file stay with it.
ErrorsFromHidden(includer, file) == includer.errors

\* included_from->set_has_errors(program_has_errors)
ErrorsFrom(includer, file) == file.errors

\* exitProgram, of an included file and
ExitIncluded ==
    /\ Visited /\ Node = "Program" /\ Len(chain) > 1 /\ Len(L.entities) = 1
    /\ chain' = [Front(chain) EXCEPT ![Len(chain) - 1].errors =
                    ErrorsFrom(chain[Len(chain) - 1], L)]
    /\ UNCHANGED <<bound, nested, included, outcome, reported, recent>>

\* of the main file.
ExitMain ==
    /\ Visited /\ Node = "Program" /\ Len(chain) = 1 /\ Len(L.entities) = 1
    /\ outcome' = IF L.errors THEN "failed" ELSE "written"
    /\ UNCHANGED <<bound, nested, chain, included, reported, recent>>

--------------------------------------------------------------------------------
Init ==
    /\ bound \in Bounds
    /\ included = {} /\ outcome = "walking" /\ nested = FALSE
    /\ \E parserErrors \in BOOLEAN :
          /\ chain = <<NewListener(parserErrors)>>
          /\ reported = IF parserErrors THEN 1 ELSE 0
          /\ recent = parserErrors

Walk ==
    \/ \E n \in bound.nodes \ {"IncludeStatement"} : Enter(n) \/ FailToEnter(n)
    \/ Exit \/ FailToExit

Including ==
    \/ FailToInclude
    \/ \E file \in Files :
          \/ FailToParse(file) \/ SkipInclude(file)
          \/ \E once \in BOOLEAN : Include(file, once)

Next == Walk \/ Including \/ ExitIncluded \/ ExitMain

Spec == Init /\ [][Next]_vars

--------------------------------------------------------------------------------
(* Properties. *)

Listeners ==
    [open : Seq([node : AllNodes \cup {"Program"}, slot : Nat \ {0}]), entities : Seq(Entities),
     marks : [Marks -> Nat], objects : Seq(BOOLEAN), errors : BOOLEAN]

TypeOK ==
    /\ bound \in Bounds
    /\ chain \in Seq(Listeners) \ {<<>>} /\ Len(chain) <= bound.files
    /\ included \subseteq Files
    /\ outcome \in {"walking", "written", "failed"}
    /\ reported \in Nat /\ recent \in BOOLEAN /\ nested \in BOOLEAN

\* The entity that the k-th open node has pushed. A block has one of its own in a pipeline
\* only.
Own(l, k) ==
    LET n == l.open[k].node
    IN  IF n = "Program" THEN "program"
        ELSE IF n = "Block" /\ l.open[k - 1].node # "BashPipeline" THEN "none"
        ELSE Handler[n].push

Owners(l) == {k \in DOMAIN l.open : Own(l, k) # "none"}

\* How many entities the first k open nodes have pushed, the last of which is on top for
\* the k-th of them.
Height(l, k) == Cardinality(Owners(l) \cap 1..k)

TopIn(l, k) == l.entities[Height(l, k)]

\* What an entity may be by now.
Becomes(entity) == IF entity = "assignment" THEN {"assignment", "copy"} ELSE {entity}

Matches(l) ==
    /\ Len(l.entities) = Height(l, Len(l.open))
    /\ \A k \in Owners(l) : TopIn(l, k) \in Becomes(Own(l, k))

\* However many nodes ended in an error, before or after they pushed their entity, the
\* entity stack of every listener is that of its open nodes: no assertion of a handler
\* fails, which would be an internal error of the compiler.
StackMatchesNodes ==
    /\ \A i \in DOMAIN chain : Matches(chain[i])
    /\ outcome = "walking" =>
          /\ \A n \in bound.nodes \ {"IncludeStatement"} :
                Visits(n) /\ Handler[n].otherwise = "assert" => Suits(n)
          /\ Visited => IF Node = "Program" THEN Len(L.entities) = 1 ELSE Sound(Node)

\* The open nodes that expect something of the objects in them.
Expectant(l) ==
    {k \in DOMAIN l.open :
        l.open[k].node \in {"DeleteStatement", "ObjectAssignment", "ValueAssignment"}}

Expected(l, k) == Cardinality(Expectant(l) \cap 1..k)

Expects(l) ==
    /\ Len(l.objects) = Expected(l, Len(l.open))
    /\ \A k \in Expectant(l) :
          <<l.objects[Expected(l, k)]>> = Expectation(l.open[k].node, TopIn(l, k - 1))

\* The open nodes that leave a mark.
Marking(l, mark) ==
    {k \in DOMAIN l.open :
        l.open[k].node \in DOMAIN MarkedNodes /\ MarkedNodes[l.open[k].node] = mark}

\* What is expected of an object is what the open deletes and assignments say, after
\* errors too; and as long as there are none, the listener knows the supershells, casts
\* and typeofs it is in.
ContextMatches ==
    \A i \in DOMAIN chain :
        /\ Expects(chain[i])
        /\ reported = 0 =>
              \A m \in {"supershell", "cast", "typeof"} :
                  chain[i].marks[m] = Cardinality(Marking(chain[i], m))

\* Temporary variables are declared local in classes, methods, constructors, destructors
\* and functions, and nowhere else, unless there were errors or a class inside of these.
LocalExactly ==
    reported = 0 /\ ~nested =>
        \A i \in DOMAIN chain : ShouldDeclareLocal(chain[i]) <=> Open(chain[i], Definitions)

\* If anything was wrong since the last include began, in whichever file, the program is
\* not written.
ErrorsAfterLastIncludeStop == outcome = "written" => ~recent

\* "Classes and objects are not code entities and cannot directly contain executable
\* instructions" (wiki/spec/entities.md): nothing that runs stands on a class.
NoCodeInClasses ==
    \A i \in DOMAIN chain : \A j \in 2..Len(chain[i].entities) :
        chain[i].entities[j - 1] = "class" =>
            chain[i].entities[j] \in {"class", "method", "datamember"}

\* A program with an error is not written.
ErrorsAreFatal == outcome = "written" => reported = 0

\* "If it's possible to declare 'local', then we should" (BashppListener.h).
LocalWhenPossible ==
    reported = 0 =>
        \A i \in DOMAIN chain : Open(chain[i], Definitions) => ShouldDeclareLocal(chain[i])

\* The only places where an object is not converted are those that ContextExpectations.h
\* lists: as what is deleted or assigned.
ObjectsTakenDirectly ==
    Node = "ObjectReference" /\ CanTakeObject =>
        L.entities[Len(L.entities) - 1] \in {"delete", "assignment", "value"}
================================================================================
