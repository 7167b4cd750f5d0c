---------------------------- MODULE References -----------------------------
(***************************************************************************)
(* The Bash code the compiler writes for objects: how an object is laid    *)
(* out in shell variables, and what the code for a reference, an           *)
(* assignment, a copy, a call, @new, @delete and the end of a scope does   *)
(* to them.  Every action runs the generated code of one statement on the  *)
(* variables and, beside it, the meaning of the statement on the heap of   *)
(* ObjectStore; the invariants compare the two.                            *)
(*                                                                         *)
(* A variable's name and its value are sequences of parts: a__x is the     *)
(* sequence a followed by x, so that the prefix of a name can be read from *)
(* another variable, as the code does.                                     *)
(***************************************************************************)
EXTENDS ObjectStore

CONSTANTS
  Calls,         \* the paths methods are called on
  CopyFromThis,  \* the program writes copies from *@this
  Shadowing      \* a method of a local object declares a local of the same name

ASSUME SwitchesAssumption == CopyFromThis \in BOOLEAN /\ Shadowing \in BOOLEAN

VARIABLES
  mem,     \* one frame of variables for global scope and for each call
  pending  \* for each call: the temporaries its line unsets afterwards

vars == <<storeVars, mem, pending>>

Gone     == <<"unset">>    \* a local variable that its own function has unset
This     == <<"this">>
vPointer == "vPointer"
Endless  == <<"endless">>

--------------------------------------------------------------------------
(* Bash variables, with the dynamic scope of "local".                      *)

Frames(m, n) == {d \in DOMAIN m : n \in DOMAIN m[d]}
FrameOf(m, n) == CHOOSE d \in Frames(m, n) : \A e \in Frames(m, n) : e <= d

Value(m, n) ==
  IF Frames(m, n) = {} \/ m[FrameOf(m, n)][n] = Gone THEN <<>> ELSE m[FrameOf(m, n)][n]

Bind(frame, n, v) == [x \in DOMAIN frame \cup {n} |-> IF x = n THEN v ELSE frame[x]]
Drop(frame, n)    == [x \in DOMAIN frame \ {n} |-> frame[x]]

SetLocal(m, n, v) == [m EXCEPT ![Len(m)] = Bind(@, n, v)]
SetVar(m, n, v) ==
  LET d == IF Frames(m, n) = {} THEN 1 ELSE FrameOf(m, n) IN [m EXCEPT ![d] = Bind(@, n, v)]

\* Mutant: the variable is emptied and stays.
UnsetEmpty(m, n) == SetVar(m, n, <<>>)

\* unset, in a function called for it: the variable of the caller goes, and one
\* further out shows again.  In the function that declared it local it stays
\* local, which only shows while another frame has a variable of that name.
UnsetBelow(m, n) ==
  IF Frames(m, n) = {} THEN m ELSE [m EXCEPT ![FrameOf(m, n)] = Drop(@, n)]
Unset(m, n) ==
  IF Len(m) \in Frames(m, n) /\ Cardinality(Frames(m, n)) > 1
  THEN SetLocal(m, n, Gone)
  ELSE UnsetBelow(m, n)

\* Following a pointer to its end; each function does so in its own __this.
RECURSIVE Follow(_, _)
Follow(m, n) ==
  LET v == IF n = This THEN n ELSE Value(m, n)
  IN  IF v = <<>> THEN n ELSE IF v = n THEN Endless ELSE Follow(m, v)

\* Mutant: the argument of a method is followed for one step.
FollowedOnce(m, a) == IF Value(m, a) = <<>> THEN a ELSE Value(m, a)

this_pointer_validation(m, a) == Follow(m, a)

--------------------------------------------------------------------------
(* References.                                                             *)

\* n, ${n} or ${!n}
get_encased_ref(m, n, level) ==
  CASE level = 1 -> Value(m, n)
    [] level = 2 -> Value(m, Value(m, n))
    [] OTHER     -> n

Level(ref) == (IF ref.first THEN 1 ELSE 0) + (IF ref.second THEN 1 ELSE 0)

FirstObject(r) ==
  [code |-> <<r>>, first |-> r = "this" \/ r \in DOMAIN Pointers, second |-> FALSE,
   pre |-> <<>>, post |-> <<>>]

\* Mutant: the second level of indirection is forgotten.
MemberOneLevel(ref, m) ==
  LET lvalue == Append(ref.code, m)
  IN  [ref EXCEPT !.code = lvalue, !.first = TRUE,
         !.pre = IF ref.first
                 THEN Append(@, [var |-> lvalue, of |-> ref.code, level |-> Level(ref), member |-> m])
                 ELSE @]

Member(ref, m) ==
  LET lvalue == Append(ref.code, m)
  IN  IF ref.first
      THEN [ref EXCEPT !.code = lvalue, !.second = TRUE,
              !.pre = Append(@, [var |-> lvalue, of |-> ref.code, level |-> Level(ref), member |-> m]),
              !.post = Append(@, lvalue)]
      ELSE [ref EXCEPT !.code = lvalue, !.first = TRUE]

resolve_reference(path) == FoldLeft(Member, FirstObject(Head(path)), Tail(path))

\* The temporaries of a reference; they are local in functions and methods.
Temporary(m, t) ==
  LET v == Append(get_encased_ref(m, t.of, t.level), t.member)
  IN  IF Len(m) > 1 THEN SetLocal(m, t.var, v) ELSE SetVar(m, t.var, v)

Before(m, ref) == FoldLeft(Temporary, m, ref.pre)
After(m, post) == FoldLeft(Unset, m, post)

rvalue(m, ref) == get_encased_ref(m, ref.code, Level(ref))
lvalue(m, ref) == get_encased_ref(m, ref.code, Level(ref) - 1)

\* What a method gets as its first argument.
Argument(m, ref) == IF ref.code = This THEN Value(m, This) ELSE ref.code

--------------------------------------------------------------------------
(* The methods the compiler writes for every class.                        *)

NewRuns(m, c) == {i \in 1 .. Len(NewNames[c]) :
                    Value(m, Append(NewNames[c][i], vPointer)) = <<>>}
RandomAddress(m, c) ==
  NewNames[c][CHOOSE i \in NewRuns(m, c) : \A j \in NewRuns(m, c) : i <= j]

\* __new, with an address or with none; an object inside gets a call of its own __new.
RECURSIVE __new(_, _, _)
__new(m, a, c) ==
  LET datamember(k, dm) ==
        CASE dm.kind = "value"   -> SetVar(k, Append(a, dm.name), Default)
          [] dm.kind = "pointer" -> SetVar(k, Append(a, dm.name), Null)
          [] dm.kind = "object"  -> LET b == RandomAddress(k, dm.class)
                                    IN  SetVar(__new(k, b, dm.class), Append(a, dm.name), b)
  IN  FoldLeft(datamember, SetVar(m, Append(a, vPointer), <<c>>), Layout[c])

\* The same written out in place for a local object.
RECURSIVE inline_new(_, _, _)
inline_new(m, a, c) ==
  LET datamember(k, dm) ==
        CASE dm.kind = "value"   -> SetLocal(k, Append(a, dm.name), Default)
          [] dm.kind = "pointer" -> SetLocal(k, Append(a, dm.name), Null)
          [] dm.kind = "object"  -> inline_new(k, Append(a, dm.name), dm.class)
  IN  FoldLeft(datamember, SetLocal(m, Append(a, vPointer), <<c>>), Layout[c])

ClassAt(m, a) == Head(Value(m, Append(a, vPointer)))

\* Mutant: of an object inside, the address is copied.
CopyShallow(m, this, from) ==
  LET to  == Follow(m, this)
      src == Follow(m, from)
  IN  FoldLeft(LAMBDA k, dm : SetVar(k, Append(to, dm.name), Value(k, Append(src, dm.name))),
               m, Layout[ClassAt(m, to)])

RECURSIVE __copy(_, _, _)
__copy(m, this, from) ==
  LET to  == Follow(m, this)
      src == Follow(m, from)
      datamember(k, dm) ==
        IF dm.kind = "object"
        THEN __copy(k, Append(to, dm.name), Append(src, dm.name))
        ELSE SetVar(k, Append(to, dm.name), Value(k, Append(src, dm.name)))
  IN  FoldLeft(datamember, m, Layout[ClassAt(m, to)])

\* Mutant: the objects inside are not deleted.
DeleteOuter(m, this) ==
  LET a == Follow(m, this)
  IN  UnsetBelow(FoldLeft(LAMBDA k, dm : UnsetBelow(k, Append(a, dm.name)), m, Layout[ClassAt(m, a)]),
                 Append(a, vPointer))

RECURSIVE __delete(_, _)
__delete(m, this) ==
  LET a == Follow(m, this)
      datamember(k, dm) ==
        UnsetBelow(IF dm.kind = "object" THEN __delete(k, Append(a, dm.name)) ELSE k,
                   Append(a, dm.name))
  IN  UnsetBelow(FoldLeft(datamember, m, Layout[ClassAt(m, a)]), Append(a, vPointer))

--------------------------------------------------------------------------
(* Statements.                                                             *)

PathsTo(kinds) == {path \in Paths : Walk(path).kind \in kinds}

Init ==
  /\ StoreInit
  /\ mem = <<[n \in {<<p>> : p \in DOMAIN Pointers} |-> Null]>>
  /\ pending = <<>>

ObjectInstantiation ==
  \E o \in DOMAIN Globals :
    /\ Declare(o)
    /\ mem' = __new(mem, <<o>>, Globals[o])
    /\ UNCHANGED pending

LocalInstantiation ==
  \E l \in DOMAIN Locals :
    /\ ~Shadowing => (self[Depth][1] > 1 => self[Depth][2][1] # l)
    /\ DeclareLocal(l)
    /\ mem' = inline_new(mem, <<l>>, Locals[l])
    /\ UNCHANGED pending

Read ==
  \E path \in PathsTo({"value", "pointer"}) :
    /\ LET ref == resolve_reference(path) IN mem' = After(Before(mem, ref), ref.post)
    /\ UNCHANGED <<storeVars, pending>>

\* The left side's temporaries, the right side's, the assignment, then both unset.
Assigned(path, right, value(_)) ==
  LET left == resolve_reference(path)
      m    == Before(Before(mem, left), right)
  IN  After(SetVar(m, lvalue(m, left), value(m)), left.post \o right.post)

NoReference == [FirstObject("this") EXCEPT !.code = <<>>]

AssignValue ==
  \E path \in PathsTo({"value"}), v \in Values :
    /\ Assign(path, v)
    /\ mem' = Assigned(path, NoReference, LAMBDA m : v)
    /\ UNCHANGED pending

AssignReference ==
  \E kind \in {"value", "pointer"} : \E path, other \in PathsTo({kind}) :
    /\ Walk(path).class = Walk(other).class
    /\ Assign(path, Walk(other).val)
    /\ LET right == resolve_reference(other)
       IN  mem' = Assigned(path, right, LAMBDA m : rvalue(m, right))
    /\ UNCHANGED pending

AssignAddress ==
  \E path \in PathsTo({"pointer"}), o \in DOMAIN Globals :
    /\ Root(o).class = Walk(path).class
    /\ Assign(path, <<o>>)
    /\ mem' = Assigned(path, NoReference, LAMBDA m : <<o>>)
    /\ UNCHANGED pending

NewStatement ==
  \E path \in PathsTo({"pointer"}) :
    /\ AssignNew(path, Walk(path).class)
    /\ LET left == resolve_reference(path)
           m    == Before(mem, left)
           a    == RandomAddress(m, Walk(path).class)
           n    == __new(m, a, Walk(path).class)
       IN  mem' = After(SetVar(n, lvalue(n, left), a), left.post)
    /\ UNCHANGED pending

\* The right side is an object, or a pointer with the dereference operator.
ObjectAssignment ==
  \E path \in PathsTo({"object"}) \ {<<"this">>}, other \in PathsTo({"object", "pointer"}) :
    /\ Live(other) /\ heap[Target(other)].class = Walk(path).class
    /\ other = <<"this">> => CopyFromThis
    /\ LET left  == resolve_reference(path)
           right == resolve_reference(other)
           m     == Before(Before(mem, left), right)
       IN  /\ Follow(m, right.code) # Endless
           /\ mem' = After(__copy(m, left.code, right.code), left.post \o right.post)
    /\ CopyObject(path, other)
    /\ UNCHANGED pending

\* A method that is not virtual, up to its first statement.
CallMethod ==
  \E path \in Calls :
    /\ Live(path)
    /\ Enter(Target(path))
    /\ LET ref == resolve_reference(path)
           m   == Before(mem, ref)
       IN  /\ mem' = Append(m, Bind(<<>>, This, this_pointer_validation(m, Argument(m, ref))))
           /\ pending' = Append(pending, ref.post)

CallFunction ==
  /\ Enter(NoSelf)
  /\ mem' = Append(mem, <<>>)
  /\ pending' = Append(pending, <<>>)

\* The objects of the scope are deleted, and the caller's line ends.
Return ==
  /\ Leave
  /\ LET mine == {l \in DOMAIN Locals : <<Depth, <<l>>>> \in DOMAIN heap}
         done == FoldSet(LAMBDA l, m : __delete(m, <<l>>), mem, mine)
     IN  mem' = After(Front(done), Last(pending))
  /\ pending' = Front(pending)

DeleteStatement ==
  \E path \in PathsTo({"object", "pointer"}) :
    /\ Live(path) /\ Inhabitants(Target(path)) \cap ToSet(self) = {}
    /\ path \in {<<o>> : o \in DOMAIN Globals} \/ Walk(path).kind = "pointer"
    /\ DeleteObject(path)
    /\ LET ref == resolve_reference(path)
           m   == Before(mem, ref)
           a   == IF Walk(path).kind = "pointer" THEN rvalue(m, ref) ELSE ref.code
       IN  mem' = After(__delete(m, a), ref.post)
    /\ UNCHANGED pending

Next ==
  \/ ObjectInstantiation \/ LocalInstantiation
  \/ Read \/ AssignValue \/ AssignReference \/ AssignAddress \/ NewStatement
  \/ ObjectAssignment \/ CallMethod \/ CallFunction \/ Return \/ DeleteStatement

Spec == Init /\ [][Next]_vars

--------------------------------------------------------------------------
(* Properties.                                                             *)

TypeOK ==
  /\ \A id \in DOMAIN heap : id[1] \in 1 .. Depth /\ heap[id].class \in DOMAIN Layout
  /\ known \subseteq DOMAIN Globals
  /\ Depth \in 1 .. MaxDepth
  /\ Len(mem) = Depth /\ Len(pending) = Depth - 1
  /\ \A d \in DOMAIN mem : \A n \in DOMAIN mem[d] : n # <<>> /\ mem[d][n] # <<>>

\* Whatever reference to a primitive member or a pointer is written at this
\* point - through objects inside objects, pointers, @this or any mixture -
\* the code for it yields the value of the very member it names
\* (resolve_reference and the two levels of indirection after it).
ReadsNamed ==
  \A path \in Paths :
    LET w   == Walk(path)
        ref == resolve_reference(path)
    IN  w.kind \in {"value", "pointer"} => rvalue(Before(mem, ref), ref) = w.val

\* The variables that hold an object are those of its class at its address, with
\* the values that the statements so far have given it: no assignment, copy,
\* creation, deletion or call went to another object or missed its own.
MemoryIsHeap ==
  /\ \A id \in DOMAIN heap :
       LET frame == mem[id[1]]
           at(m) == Append(id[2], m)
       IN  /\ at(vPointer) \in DOMAIN frame /\ frame[at(vPointer)] = <<heap[id].class>>
           /\ \A dm \in Members(heap[id].class) :
                ~(dm.kind = "object" /\ id[1] > 1) =>
                  /\ at(dm.name) \in DOMAIN frame
                  /\ frame[at(dm.name)] = heap[id].val[dm.name]
  /\ \A p \in DOMAIN Pointers : mem[1][<<p>>] = pointer[p]

\* Every variable that is left belongs to an object that exists, is a pointer or
\* the __this of a call in progress, or is a temporary of a line that waits for a
\* call to return: temporaries and deleted objects leave nothing behind.
NothingLeft ==
  \A d \in DOMAIN mem : \A n \in DOMAIN mem[d] :
    \/ mem[d][n] = Gone
    \/ n = This /\ d > 1
    \/ d = 1 /\ n \in {<<p>> : p \in DOMAIN Pointers}
    \/ d < Depth /\ n \in ToSet(pending[d])
    \/ <<d, Front(n)>> \in DOMAIN heap
         /\ Last(n) \in {vPointer} \cup DOMAIN heap[<<d, Front(n)>>].val

\* Every copy finds its source: following the name that the code passes to
\* __copy, in the variables of that call, comes to an end.
CopiesEnd ==
  \A path \in PathsTo({"object", "pointer"}) :
    LET ref == resolve_reference(path)
    IN  (path # <<"this">> \/ CopyFromThis) => Follow(Before(mem, ref), ref.code) # Endless

\* A method runs on the object that the call named, whatever chain of pointers
\* and temporaries led to it (this_pointer_validation follows them).
ThisIsNamed ==
  \A d \in 2 .. Depth : self[d] # NoSelf => mem[d][This] = self[d][2]

\* A pointer that @delete was given is null afterwards (where every deletion is
\* through it): it is left as it was, which ReferencesDeleted.cfg shows.
DeletedPointerIsNull ==
  \A p \in DOMAIN Pointers :
    mem[1][<<p>>] = Null \/ <<1, mem[1][<<p>>]>> \in DOMAIN heap
=============================================================================
