------------------------------ MODULE Symbols ------------------------------
(***************************************************************************)
(* Which entity a name means: the compiler's tree of entities, in which a  *)
(* scope remembers how much of its parent existed when it was opened, and  *)
(* the language server, which asks the finished tree what the name at a    *)
(* position means, after everything that came later was added to it.       *)
(*                                                                         *)
(* The actions are the listener's handlers on a program read from left to  *)
(* right; every token that opens, closes or names something has a position *)
(* of its own.  A statement that is refused without effect is no action,   *)
(* and neither is a method whose parameter is refused.                     *)
(***************************************************************************)
EXTENDS Naturals, Sequences, FiniteSetsExt

CONSTANTS
  Names,          \* the identifiers of the program
  MaxHere,        \* how many positions a program has
  MaxScopes,      \* how many scopes it has, the program included
  NestedClasses,  \* classes are also defined inside of functions, blocks and methods
  AskedScopes,    \* the kinds of scope in which the server is asked what a name means
  AskedTokens     \* the kinds of token it is asked about

Kinds  == {"program", "function", "block", "supershell", "class", "method"}
Tokens == {"object", "type", "class", "parameter"}

ASSUME SymbolsAssumption ==
  /\ MaxHere \in Nat /\ MaxScopes \in Nat \ {0} /\ NestedClasses \in BOOLEAN
  /\ AskedScopes \subseteq Kinds /\ AskedTokens \subseteq Tokens

VARIABLES
  scopes,         \* every scope opened so far; the first is the program
  stack,          \* entity_stack: the scopes still open, innermost last
  entities,       \* every object and class, in the order of their definitions
  owned_classes,  \* the classes of the program, as indices of entities
  entity_map,     \* the intervals mark_entity has inserted
  occurrences,    \* the tokens that name an entity, and what the compiler took them for
  here            \* the position of the last token

vars == <<scopes, stack, entities, owned_classes, entity_map, occurrences, here>>

Program  == 1
SIZE_MAX == MaxHere
Position == 0 .. MaxHere
ScopeId  == 1 .. MaxScopes
EntityId == 1 .. MaxHere

TypeOK ==
  /\ scopes \in Seq([kind : Kinds, parent : ScopeId, low : Position, local_objects : Seq(EntityId),
                     parent_visible_object_count_at_creation : 0 .. SIZE_MAX,
                     program_visible_class_count_at_creation : 0 .. SIZE_MAX])
  /\ stack \in Seq(DOMAIN scopes)
  /\ entities \in Seq([name : Names, class : {0} \cup DOMAIN entities, scope : DOMAIN scopes,
                       references : Seq(Position)])
  /\ owned_classes \in Seq(DOMAIN entities)
  /\ entity_map \subseteq [low : Position, high : Position, entity : DOMAIN scopes]
  /\ \A m \in entity_map : m.low < m.high
  /\ occurrences \subseteq [at : Position, scope : DOMAIN scopes, token : Tokens, name : Names,
                            means : DOMAIN entities]
  /\ here \in Position

--------------------------------------------------------------------------
(* What an entity can see.                                                 *)

\* OwnedEntityList: at most one entity, by its name and its place in the list.
find(list, n, max_visible_index) ==
  {list[i] : i \in {j \in DOMAIN list : /\ entities[list[j]].name = n
                                        /\ j - 1 <= max_visible_index}}

get_class(s, n) ==
  find(owned_classes, n,
       IF s = Program THEN SIZE_MAX ELSE scopes[s].program_visible_class_count_at_creation)

get_object(s, n) ==
  LET from[e \in DOMAIN scopes] ==
        [max \in 0 .. SIZE_MAX |->
           LET own == find(scopes[e].local_objects, n, max)
           IN  IF own # {} \/ e = Program
               THEN own
               ELSE from[scopes[e].parent][scopes[e].parent_visible_object_count_at_creation]]
  IN  from[s][SIZE_MAX]

number_of_known_objects(s) ==
  LET known[e \in DOMAIN scopes] ==
        Len(scopes[e].local_objects) + (IF e = Program THEN 0 ELSE known[scopes[e].parent])
  IN  known[s]

--------------------------------------------------------------------------
(* The compiler.                                                           *)

Top    == stack[Len(stack)]
InCode == scopes[Top].kind # "class"

inherit(kind, parent) ==
  [kind |-> kind, parent |-> parent, low |-> here + 1, local_objects |-> <<>>,
   parent_visible_object_count_at_creation |-> number_of_known_objects(parent),
   program_visible_class_count_at_creation |-> Len(owned_classes)]

Init ==
  /\ scopes = << [kind |-> "program", parent |-> Program, low |-> 0, local_objects |-> <<>>,
                  parent_visible_object_count_at_creation |-> 0,
                  program_visible_class_count_at_creation |-> 0] >>
  /\ stack = <<Program>>
  /\ entities = <<>>
  /\ owned_classes = <<>>
  /\ entity_map = {}
  /\ occurrences = {}
  /\ here = 0

\* set_definition_position makes the definition the first reference.
Defined(n, class, s, at) == [name |-> n, class |-> class, scope |-> s, references |-> <<at>>]

add_reference(es, e, at) == [es EXCEPT ![e].references = Append(@, at)]

Token(at, s, token, n, e) == [at |-> at, scope |-> s, token |-> token, name |-> n, means |-> e]

\* Mutant: the position of the definition is taken for both ends.
MarkDefinition(s, end) == {[low |-> scopes[s].low, high |-> scopes[s].low, entity |-> s]}

mark_entity(s, end) == {[low |-> scopes[s].low, high |-> end, entity |-> s]}

\* A function, a supershell, a block that is not the body of another construct; loops
\* and conditionals open and mark their scopes the way functions do.  The sequence and
\* the pipeline around a command, which hand on what they adopt, are left out.
Open(kind) ==
  /\ InCode
  /\ Len(scopes) < MaxScopes
  /\ scopes' = Append(scopes, inherit(kind, Top))
  /\ stack' = Append(stack, Len(scopes) + 1)
  /\ here' = here + 1
  /\ UNCHANGED <<entities, owned_classes, entity_map, occurrences>>

enterBashFunction == Open("function")
enterBlock        == Open("block")
enterSupershell   == Open("supershell")

\* A class is refused when the program has a class or an object of that name; its
\* parent class is looked up when the class itself is already prepared.
enterClassDefinition(n) ==
  LET c == Len(entities) + 1
      s == Len(scopes) + 1
      prepared == Append(entities, Defined(n, 0, s, here + 1))
      own == {Token(here + 1, s, "class", n, c)}
  IN  /\ Top = Program \/ (NestedClasses /\ InCode)
      /\ Len(scopes) < MaxScopes
      /\ get_class(Program, n) = {} /\ get_object(Program, n) = {}
      /\ scopes' = Append(scopes, inherit("class", Program))
      /\ stack' = Append(stack, s)
      /\ owned_classes' = Append(owned_classes, c)
      /\ \/ here' = here + 1 /\ entities' = prepared /\ occurrences' = occurrences \cup own
         \/ \E p \in {owned_classes'[i] : i \in DOMAIN owned_classes'} :
              /\ here' = here + 2
              /\ entities' = add_reference(prepared, p, here + 2)
              /\ occurrences' = occurrences \cup own
                   \cup {Token(here + 2, s, "class", prepared[p].name, p)}
      /\ UNCHANGED entity_map

\* A method inherits from the program, wherever its class is.  It may take a pointer:
\* the reference to the class is recorded at the @ in front of its name.
enterMethodDefinition ==
  LET s == Len(scopes) + 1
      opened == inherit("method", Program)
      o == Len(entities) + 1
  IN  /\ scopes[Top].kind = "class"
      /\ Len(scopes) < MaxScopes
      /\ stack' = Append(stack, s)
      /\ \/ /\ here' = here + 1
            /\ scopes' = Append(scopes, opened)
            /\ UNCHANGED <<entities, occurrences>>
         \/ \E n \in Names, c \in {owned_classes[i] : i \in DOMAIN owned_classes} :
              /\ get_object(Program, n) = {} /\ get_class(Program, n) = {}
              /\ here' = here + 4
              /\ scopes' = Append(scopes, [opened EXCEPT !.local_objects = <<o>>])
              /\ entities' = add_reference(Append(entities, Defined(n, c, s, here + 4)), c, here + 2)
              /\ occurrences' = occurrences \cup
                   {Token(here + 3, s, "parameter", n, c), Token(here + 4, s, "object", n, o)}
      /\ UNCHANGED <<owned_classes, entity_map>>

\* Mutant: the objects of a supershell end with it.
AdoptNothing(s, from) == scopes

adopt(s, from) == [scopes EXCEPT ![s].local_objects = @ \o scopes[from].local_objects]

\* The end of a scope, for the server from its definition to here or without a mark.
Leave(kind, marks, after) ==
  /\ scopes[Top].kind = kind
  /\ here' = here + 1
  /\ stack' = SubSeq(stack, 1, Len(stack) - 1)
  /\ entity_map' = entity_map \cup marks
  /\ scopes' = after
  /\ UNCHANGED <<entities, owned_classes, occurrences>>

exitBashFunction     == Leave("function", mark_entity(Top, here + 1), scopes)
exitBlock            == Leave("block", {}, scopes)
exitSupershell       == Leave("supershell", mark_entity(Top, here + 1),
                              adopt(scopes[Top].parent, Top))
exitClassDefinition  == Leave("class", mark_entity(Top, here + 1), scopes)
exitMethodDefinition == Leave("method", mark_entity(Top, here + 1), scopes)

\* @c n: when the name is taken the class has its reference already.
ObjectInstantiation(c, n) ==
  LET o == Len(entities) + 1
      free == get_class(Top, n) = {} /\ get_object(Top, n) = {}
  IN  /\ InCode
      /\ here' = here + 2
      /\ \E k \in get_class(Top, c) :
           /\ entities' = LET es == add_reference(entities, k, here + 1)
                          IN  IF free THEN Append(es, Defined(n, k, Top, here + 2)) ELSE es
           /\ occurrences' = occurrences \cup {Token(here + 1, Top, "type", c, k)}
                \cup IF free THEN {Token(here + 2, Top, "object", n, o)} ELSE {}
      /\ scopes' = IF free THEN [scopes EXCEPT ![Top].local_objects = Append(@, o)] ELSE scopes
      /\ UNCHANGED <<stack, owned_classes, entity_map>>

ObjectReference(n) ==
  /\ InCode
  /\ here' = here + 1
  /\ \E o \in get_object(Top, n) :
       /\ entities' = add_reference(entities, o, here + 1)
       /\ occurrences' = occurrences \cup {Token(here + 1, Top, "object", n, o)}
  /\ UNCHANGED <<scopes, stack, owned_classes, entity_map>>

NewStatement(c) ==
  /\ InCode
  /\ here' = here + 1
  /\ \E k \in get_class(Top, c) :
       /\ entities' = add_reference(entities, k, here + 1)
       /\ occurrences' = occurrences \cup {Token(here + 1, Top, "type", c, k)}
  /\ UNCHANGED <<scopes, stack, owned_classes, entity_map>>

\* Room is left to close what is open.
Fits == here' + Len(stack') - 1 <= MaxHere

Next ==
  /\ \/ enterBashFunction \/ enterBlock \/ enterSupershell
     \/ \E n \in Names : enterClassDefinition(n)
     \/ enterMethodDefinition
     \/ exitBashFunction \/ exitBlock \/ exitSupershell
     \/ exitClassDefinition \/ exitMethodDefinition
     \/ \E c, n \in Names : ObjectInstantiation(c, n)
     \/ \E n \in Names : ObjectReference(n)
     \/ \E c \in Names : NewStatement(c)
  /\ Fits

Spec == Init /\ [][Next]_vars

--------------------------------------------------------------------------
(* The language server, once the program has been read.                    *)

\* Mutant: the outermost.
FindOutermost(at) ==
  LET over == {m \in entity_map : m.low <= at /\ at <= m.high}
  IN  {m \in over : \A o \in over : m.low <= o.low}

find_innermost_overlap(at) ==
  LET over == {m \in entity_map : m.low <= at /\ at <= m.high}
  IN  {m \in over : \A o \in over : o.low <= m.low}

get_active_entity(at) ==
  LET found == find_innermost_overlap(at)
  IN  IF found = {} THEN Program ELSE (CHOOSE m \in found : TRUE).entity

resolve_entity_at(o) ==
  LET context == get_active_entity(o.at)
  IN  CASE o.token = "object"    -> get_object(context, o.name)
        [] o.token = "type"      -> get_class(context, o.name)
        [] o.token = "class"     -> get_class(Program, o.name)
        [] o.token = "parameter" -> {entities[e].class : e \in get_object(context, o.name)}

\* The first reference is the definition.
handleDefinition(o) == {Head(entities[e].references) : e \in resolve_entity_at(o)}

\* handleReferences lists what handleRename edits.
handleRename(o) == UNION {Range(entities[e].references) : e \in resolve_entity_at(o)}

--------------------------------------------------------------------------
(* What the documentation promises: accessible is what can be reached from *)
(* a scope by moving left or up, the objects of a finished supershell      *)
(* being those of the scope around it.                                     *)

Enclosing[s \in DOMAIN scopes] ==
  IF s = Program THEN {Program} ELSE {s} \cup Enclosing[scopes[s].parent]

Holder[s \in DOMAIN scopes] ==
  IF scopes[s].kind = "supershell" /\ s \notin Range(stack) THEN Holder[scopes[s].parent] ELSE s

Objects == {e \in DOMAIN entities : entities[e].class # 0}
Classes == DOMAIN entities \ Objects

\* In the scope that is being read the compiler finds under every name exactly the
\* object that was declared before, in that scope or one around it, and every class
\* defined before: the counts a scope keeps of its parents hide nothing from it, and
\* what a supershell adopts does not collide with what is there.
LeftOrUp ==
  \A n \in Names :
    /\ get_object(Top, n) = {o \in Objects : /\ entities[o].name = n
                                            /\ Holder[entities[o].scope] \in Enclosing[Top]}
    /\ get_class(Top, n) = {c \in Classes : entities[c].name = n}
    /\ Cardinality(get_object(Top, n) \cup get_class(Top, n)) <= 1

Asked == {x \in occurrences : scopes[x.scope].kind \in AskedScopes /\ x.token \in AskedTokens}

\* A rename requested at any token edits the tokens that mean the same entity and no
\* others, although the server looks the name up in the finished tree, where scopes
\* have more objects and the program more classes than when the compiler read it.
RenamesWhatMeansTheSame ==
  stack = <<Program>> =>
    \A o \in Asked :
      /\ resolve_entity_at(o) = {o.means}
      /\ {x.at : x \in occurrences} \cap handleRename(o) =
           {x.at : x \in {y \in occurrences : y.means = o.means /\ y.token \in AskedTokens}}

\* The definition of a name is never further down than the name: what comes later in
\* the program is not accessible.  Not true of the names in blocks.
DefinedBefore ==
  stack = <<Program>> => \A o \in Asked : \A at \in handleDefinition(o) : at <= o.at
=============================================================================
