-------------------------------- MODULE Classes --------------------------------
(***************************************************************************)
(* Classes as the compiler builds them (src/src/bpp_include/bpp_class.cpp, *)
(* the handlers of the listener that define classes and members, and       *)
(* bpp_program::add_class, which writes the functions and the vTables).    *)
(*                                                                         *)
(* Methods and data members are objects that a class shares with the       *)
(* classes that inherit from it: `meth` and `data` are the heaps, a class  *)
(* holds indices; a vector of them is a set, because nothing depends on    *)
(* its order.  inherit changes the shared objects in place.  `decl` and    *)
(* `extends` keep what the source says, as far as it was accepted.         *)
(*                                                                         *)
(* Names that bpp::is_valid_identifier refuses, parameters and bodies      *)
(* change nothing here.  A function bpp__CLASS__METHOD is a pair.          *)
(***************************************************************************)
EXTENDS Integers, Sequences, FiniteSets

CONSTANTS ClassNames, NoClass,
          MemberNames,    \* the names the program gives to methods and data members
          Bounds          \* on the classes, and the declarations in each of them

SystemMethods  == {"__copy", "__new", "__delete"}
SpecialMethods == {"toPrimitive", "__constructor", "__destructor"} \cup SystemMethods
Names          == MemberNames \cup SpecialMethods

ASSUME ClassesAssumption ==
    /\ IsFiniteSet(ClassNames) /\ NoClass \notin ClassNames
    /\ IsFiniteSet(MemberNames) /\ MemberNames \cap SpecialMethods = {}
    /\ Bounds \subseteq [classes : Nat, members : Nat]

VARIABLES
    bound,        \* one of Bounds
    meth, data,   \* the method and data member objects
    class,        \* owned_classes, in the order in which they were prepared
    current,      \* the index of the class that is being defined, or 0
    count,        \* how many declarations it has met
    emitted,      \* the functions that add_class has written, and from which objects
    vTable,       \* class -> method -> function
    calls,        \* constructor or destructor -> the class whose one it calls
    errors,       \* program_has_errors
    decl,         \* <<class, member>> -> its declaration
    extends       \* class -> the class it names as its parent

vars == <<bound, meth, data, class, current, count, emitted, vTable, calls, errors, decl, extends>>

--------------------------------------------------------------------------------
(* bpp_class *)

Scopes == {"public", "protected", "private"}

NewMethod(name, owner, scope, virtual, overridable, last) ==
    [name |-> name, owner |-> owner, scope |-> scope, virtual |-> virtual,
     overridable |-> overridable, inherited |-> FALSE, last |-> last]

\* The objects of ids that have the name (there is at most one).
Named(heap, ids, name) == {j \in ids : heap[j].name = name}

\* The method m of c gives way to a new one with its name.
Overrides(m, c) == m.inherited /\ m.overridable /\ m.last # c.name

Override(new, old, c) ==
    [new EXCEPT !.virtual = old.virtual, !.overridable = TRUE, !.last = c.name,
                !.owner = c.name]

\* The first toPrimitive of a class takes the place of the default one.
Custom(m, c) == m.name = "toPrimitive" /\ ~c.custom

\* Mutant: the class takes an inherited method for its own.
PlaceAlways(m, c) == [m EXCEPT !.owner = c.name, !.last = IF m.overridable THEN c.name ELSE @]

\* A method that no other class has: the class is its last override.
Place(m, c) ==
    IF m.inherited THEN m
    ELSE [m EXCEPT !.owner = c.name, !.last = IF m.overridable THEN c.name ELSE @]

\* add_method, with the method object i of the heap.
AddMethod(heap, c, i) ==
    LET custom  == Custom(heap[i], c)
        ids     == IF custom THEN c.methods \ Named(heap, c.methods, "toPrimitive")
                             ELSE c.methods
        same    == Named(heap, ids, heap[i].name)
        over    == {j \in same : Overrides(heap[j], c)}
        method  == IF over # {} THEN Override(heap[i], heap[CHOOSE j \in over : TRUE], c)
                   ELSE IF custom THEN [heap[i] EXCEPT !.virtual = TRUE, !.overridable = TRUE]
                   ELSE heap[i]
        ok      == same = over /\ Named(data, c.members, heap[i].name) = {}
    IN  [ok    |-> ok,
         heap  |-> [heap EXCEPT ![i] = Place(method, c)],
         class |-> [c EXCEPT !.methods = (ids \ over) \cup (IF ok THEN {i} ELSE {}),
                             !.custom  = @ \/ custom]]

\* A method object of its own.
AddNew(heap, c, method) == AddMethod(Append(heap, method), c, Len(heap) + 1)

Hide(object) == [object EXCEPT !.scope = IF @ = "private" THEN "inaccessible" ELSE @]

\* Mutant: private methods keep their scope.
InheritMethodOpen(heap, c, j) ==
    AddMethod([heap EXCEPT ![j] = [@ EXCEPT !.inherited = TRUE]], c, j)

\* inherit: a method,
InheritMethod(heap, c, j) ==
    AddMethod([heap EXCEPT ![j] = [Hide(@) EXCEPT !.inherited = TRUE]], c, j)

\* ... all of them but toPrimitive,
InheritMethods(heap, c, parent) ==
    LET After[k \in 0..Len(heap)] ==
            IF k = 0 THEN [ok |-> TRUE, heap |-> heap, class |-> c]
            ELSE IF k \in parent.methods /\ heap[k].name # "toPrimitive"
                 THEN InheritMethod(After[k - 1].heap, After[k - 1].class, k)
                 ELSE After[k - 1]
    IN  After[Len(heap)]

\* ... the data members, and the parents.
InheritMembers(c, parent) ==
    [c EXCEPT !.members = @ \cup parent.members,
              !.parents = @ \o parent.parents \o <<parent.name>>]

HideMembers(parent) ==
    [j \in DOMAIN data |-> IF j \in parent.members THEN Hide(data[j]) ELSE data[j]]

Known(name) == \E i \in DOMAIN class : class[i].name = name

ClassOf(classes, name) == classes[CHOOSE i \in DOMAIN classes : classes[i].name = name]

GetParent(c) == IF c.parents = <<>> THEN NoClass ELSE c.parents[Len(c.parents)]

\* get_method and get_datamember.
Access(heap, ids, name, c, context) ==
    LET found == Named(heap, ids, name)
    IN  IF found = {} THEN "absent"
        ELSE IF \/ \E j \in found : heap[j].scope = "public"
                \/ context = c.name /\ \E j \in found : heap[j].scope \in {"protected", "private"}
        THEN "found" ELSE "inaccessible"

\* generate_constructor_call_code, generate_destructor_call_code: the class whose
\* function is called for c.
StaticTarget(c, name) ==
    LET found == Named(meth, c.methods, name)
    IN  IF found = {} THEN NoClass
        ELSE LET m == meth[CHOOSE j \in found : TRUE]
             IN  IF m.owner = NoClass THEN c.name ELSE m.owner

--------------------------------------------------------------------------------
(* The handlers. *)

Fail == errors' = TRUE

Extend(f, key, value) == [k \in DOMAIN f \cup {key} |-> IF k = key THEN value ELSE f[k]]

NewClass(name) ==
    [name |-> name, methods |-> {Len(meth) + 1}, members |-> {}, custom |-> FALSE,
     parents |-> <<>>]

DefaultToPrimitive(name) == NewMethod("toPrimitive", NoClass, "public", TRUE, TRUE, name)

\* Mutant: the class whose name is taken stays on the entity stack.
EnterClassKnownOpen(name) ==
    /\ current = 0 /\ Known(name)
    /\ Fail
    /\ current' = Len(class) + 1
    /\ UNCHANGED <<bound, meth, data, class, count, emitted, vTable, calls, decl, extends>>

\* enterClassDefinition: the name is taken.
EnterClassKnown(name) ==
    /\ current = 0 /\ Known(name)
    /\ Fail
    /\ UNCHANGED <<bound, meth, data, class, current, count, emitted, vTable, calls, decl, extends>>

\* The class is prepared; without a parent, or
EnterClass(name) ==
    /\ current = 0 /\ ~Known(name)
    /\ meth' = Append(meth, DefaultToPrimitive(name))
    /\ class' = Append(class, NewClass(name))
    /\ current' = Len(class) + 1
    /\ count' = 0
    /\ extends' = Extend(extends, name, NoClass)
    /\ UNCHANGED <<bound, data, emitted, vTable, calls, errors, decl>>

\* with one that is not known: it stays prepared, or
EnterClassOrphan(name, parent) ==
    /\ current = 0 /\ ~Known(name)
    /\ ~Known(parent) /\ parent # name
    /\ meth' = Append(meth, DefaultToPrimitive(name))
    /\ class' = Append(class, NewClass(name))
    /\ Fail
    /\ extends' = Extend(extends, name, NoClass)
    /\ UNCHANGED <<bound, data, current, count, emitted, vTable, calls, decl>>

\* with one that is known, as the class itself already is.
EnterDerivedClass(name, parent) ==
    /\ current = 0 /\ ~Known(name)
    /\ Known(parent) \/ parent = name
    /\ LET heap == Append(meth, DefaultToPrimitive(name))
           up   == ClassOf(Append(class, NewClass(name)), parent)
           r    == InheritMethods(heap, NewClass(name), up)
       IN  /\ meth' = r.heap
           /\ data' = HideMembers(up)
           /\ class' = Append(class, InheritMembers(r.class, up))
    /\ current' = Len(class) + 1
    /\ count' = 0
    /\ extends' = Extend(extends, name, parent)
    /\ UNCHANGED <<bound, emitted, vTable, calls, errors, decl>>

Declaring == current # 0 /\ count < bound.members /\ count' = count + 1

\* The method is in the class now, or its definition is an error.
Define(method, declaration) ==
    LET r == AddNew(meth, class[current], method)
    IN  /\ class' = [class EXCEPT ![current] = r.class]
        /\ IF r.ok
           THEN /\ meth' = r.heap
                /\ decl' = Extend(decl, <<class[current].name, method.name>>, declaration)
                /\ UNCHANGED errors
           ELSE Fail /\ UNCHANGED <<meth, decl>>

\* enterMethodDefinition
DefineMethod(name, scope, virtual) ==
    /\ Declaring
    /\ IF name = "toPrimitive" /\ scope # "public"
       THEN Fail /\ UNCHANGED <<meth, class, decl>>
       ELSE Define(NewMethod(name, class[current].name, scope, virtual, virtual, NoClass),
                   [kind |-> "method", scope |-> scope, virtual |-> virtual])
    /\ UNCHANGED <<bound, data, current, emitted, vTable, calls, extends>>

\* Mutant: the parent's own constructor is called, never one it inherits.
ParentCallOwn(name) ==
    LET up == GetParent(class[current])
    IN  IF up # NoClass /\ <<up, name>> \in DOMAIN calls THEN up ELSE NoClass

\* The constructor or destructor of the parent that the one of this class calls.
ParentCall(name) ==
    LET up == GetParent(class[current])
    IN  IF up = NoClass THEN NoClass ELSE StaticTarget(ClassOf(class, up), name)

DefineSpecial(name, virtual) ==
    /\ Declaring
    /\ Define(NewMethod(name, class[current].name, "public", virtual, TRUE, NoClass),
              [kind |-> "method", scope |-> "public", virtual |-> virtual])
    /\ calls' = IF <<class[current].name, name>> \in DOMAIN decl' \ DOMAIN decl
                THEN Extend(calls, <<class[current].name, name>>, ParentCall(name))
                ELSE calls
    /\ UNCHANGED <<bound, data, current, emitted, vTable, extends>>

\* enterConstructorDefinition to exitConstructorDefinition
DefineConstructor == DefineSpecial("__constructor", FALSE)

\* enterDestructorDefinition to exitDestructorDefinition
DefineDestructor == DefineSpecial("__destructor", TRUE)

\* add_datamember
AddsDatamember(name) ==
    /\ Named(data, class[current].members, name) = {}
    /\ Named(meth, class[current].methods, name) = {}

\* enterDatamemberDeclaration and exitDatamemberDeclaration
DeclareDatamember(name, scope) ==
    /\ Declaring
    /\ IF AddsDatamember(name)
       THEN /\ data' = Append(data, [name |-> name, scope |-> scope])
            /\ class' = [class EXCEPT ![current].members = @ \cup {Len(data) + 1}]
            /\ decl' = Extend(decl, <<class[current].name, name>>,
                              [kind |-> "data", scope |-> scope, virtual |-> FALSE])
            /\ UNCHANGED errors
       ELSE Fail /\ UNCHANGED <<data, class, decl>>
    /\ UNCHANGED <<bound, meth, current, emitted, vTable, calls, extends>>

\* generate_copy_method, generate_new_method and generate_delete_method
CopyMethod(name)   == NewMethod("__copy",   name, "public", TRUE,  TRUE, NoClass)
NewNewMethod(name) == NewMethod("__new",    name, "public", FALSE, TRUE, NoClass)
DeleteMethod(name) == NewMethod("__delete", name, "public", TRUE,  TRUE, NoClass)

AddGenerated(heap, c) ==
    LET r == AddNew(heap, c, CopyMethod(c.name))
        t == AddNew(r.heap, r.class, NewNewMethod(c.name))
    IN  AddNew(t.heap, t.class, DeleteMethod(c.name))

\* Mutant: whether the method is virtual is not asked.
WritesOverride(m, c) == m.last = c.name

\* add_class writes the methods that c has of its own,
Writes(m, c) == IF m.virtual THEN m.last = c.name ELSE ~m.inherited

\* Mutant: every entry of the vTable names a function of the class itself.
TableOfOwn(heap, c) ==
    [n \in {heap[j].name : j \in {i \in c.methods : heap[i].virtual}} |-> <<c.name, n>>]

\* ... and the vTable.
TableOf(heap, c) ==
    LET virtual == {j \in c.methods : heap[j].virtual}
    IN  [n \in {heap[j].name : j \in virtual} |->
            <<heap[CHOOSE j \in virtual : heap[j].name = n].last, n>>]

ExitClass ==
    /\ current # 0
    /\ LET c == class[current]
           r == AddGenerated(meth, c)
       IN  /\ meth' = r.heap
           /\ class' = [class EXCEPT ![current] = r.class]
           /\ emitted' = emitted \cup
                  {[of |-> c.name, name |-> r.heap[j].name, from |-> j] :
                      j \in {i \in r.class.methods : Writes(r.heap[i], c)}}
           /\ vTable' = Extend(vTable, c.name, TableOf(r.heap, r.class))
    /\ current' = 0
    /\ UNCHANGED <<bound, data, count, calls, errors, decl, extends>>

--------------------------------------------------------------------------------
Init ==
    /\ bound \in Bounds
    /\ meth = <<>> /\ data = <<>> /\ class = <<>>
    /\ current = 0 /\ count = 0
    /\ emitted = {} /\ vTable = <<>> /\ calls = <<>>
    /\ errors = FALSE
    /\ decl = <<>> /\ extends = <<>>

Enter(name) ==
    \/ EnterClassKnown(name) \/ EnterClass(name)
    \/ \E parent \in ClassNames : EnterClassOrphan(name, parent) \/ EnterDerivedClass(name, parent)

Declare(scope) ==
    \/ \E name \in MemberNames \cup {"toPrimitive"}, virtual \in BOOLEAN :
          DefineMethod(name, scope, virtual)
    \/ \E name \in MemberNames : DeclareDatamember(name, scope)

\* Nothing depends on a class's name, so new ones are taken in one order.
Fresh(name) == Len(class) < bound.classes /\ name = CHOOSE n \in ClassNames : ~Known(n)

Next ==
    \/ \E name \in ClassNames : (Known(name) \/ Fresh(name)) /\ Enter(name)
    \/ \E scope \in Scopes : Declare(scope)
    \/ DefineConstructor \/ DefineDestructor
    \/ ExitClass

Spec == Init /\ [][Next]_vars

--------------------------------------------------------------------------------
(* What the source means. *)

Finished(c) == c \in DOMAIN vTable

\* The parent of a class that is not its own.
Up(c) == IF extends[c] = c THEN NoClass ELSE extends[c]

\* The declarations that the user does not write.
Implicit(c, n) == n = "toPrimitive" \/ (n \in SystemMethods /\ Finished(c))

Declares(c, n) == <<c, n>> \in DOMAIN decl \/ Implicit(c, n)

Declaration(c, n) ==
    IF n \in SpecialMethods
    THEN [kind |-> "method", scope |-> "public", virtual |-> n \notin {"__constructor", "__new"}]
    ELSE decl[<<c, n>>]

Nothing == [in |-> NoClass, kind |-> "none", scope |-> "public", virtual |-> FALSE, levels |-> <<>>]

\* What a name means in a class: what the nearest class says that declares it, and levels,
\* all that do, the nearest first.  What the oldest of them says of virtual holds for those
\* that override it.
Meanings[c \in DOMAIN extends] ==
    [n \in Names |->
        LET above == IF Up(c) = NoClass THEN Nothing ELSE Meanings[Up(c)][n]
            own   == Declaration(c, n)
        IN  IF ~Declares(c, n) THEN above
            ELSE [in |-> c, kind |-> own.kind, scope |-> own.scope,
                  virtual |-> IF above.in = NoClass THEN own.virtual ELSE above.virtual,
                  levels |-> <<c>> \o above.levels]]

IsMethod(c, n) == Meanings[c][n].kind = "method"

--------------------------------------------------------------------------------
(* Properties. *)

ScopeType == Scopes \cup {"inaccessible"}

MethodType ==
    [name : Names, owner : ClassNames \cup {NoClass}, scope : ScopeType, virtual : BOOLEAN,
     overridable : BOOLEAN, inherited : BOOLEAN, last : ClassNames \cup {NoClass}]

TypeOK ==
    /\ meth \in Seq(MethodType)
    /\ data \in Seq([name : MemberNames, scope : ScopeType])
    /\ class \in Seq([name : ClassNames, methods : SUBSET DOMAIN meth,
                      members : SUBSET DOMAIN data, custom : BOOLEAN, parents : Seq(ClassNames)])
    /\ current \in 0..Len(class)
    /\ bound \in Bounds /\ count \in 0..bound.members
    /\ emitted \subseteq [of : ClassNames, name : Names, from : DOMAIN meth]
    /\ \A k \in DOMAIN calls : calls[k] \in ClassNames \cup {NoClass}
    /\ errors \in BOOLEAN

\* The vTable of a class holds its virtual methods, each with the function of the
\* nearest class that declares it, however often it was inherited and overridden.
VirtualDispatch ==
    \A c \in DOMAIN vTable :
        vTable[c] = [n \in {m \in Names : IsMethod(c, m) /\ Meanings[c][m].virtual} |->
                        <<Meanings[c][n].in, n>>]

\* A call that is bound by the compiler goes to the same function.
StaticDispatch ==
    \A c \in DOMAIN vTable, n \in Names :
        StaticTarget(ClassOf(class, c), n) = IF IsMethod(c, n) THEN Meanings[c][n].in ELSE NoClass

\* Each function is written once, and what a call or a vTable names is written.
FunctionsWritten ==
    /\ \A e, f \in emitted : e.of = f.of /\ e.name = f.name => e = f
    /\ \A c \in DOMAIN vTable, n \in Names :
          IsMethod(c, n) => \E e \in emitted : e.of = Meanings[c][n].in /\ e.name = n

Reach(c, n, context) ==
    {Access(meth, c.methods, n, c, context), Access(data, c.members, n, c, context)}

\* In the class that is being defined, @this reaches what it or an ancestor declares
\* but the ancestors' private members, and @super nothing that is private.
AccessRespected ==
    current # 0 =>
        LET c  == class[current]
            up == Up(c.name)
        IN  \A n \in MemberNames :
              /\ LET m == Meanings[c.name][n]
                 IN  "found" \in Reach(c, n, c.name) <=>
                        m.kind # "none" /\ (m.in = c.name \/ m.scope # "private")
              /\ up # NoClass =>
                    LET m == Meanings[up][n]
                    IN  "found" \in Reach(ClassOf(class, up), n, up) <=>
                            m.kind # "none" /\ m.scope # "private"

\* The order in which the constructors (name) run for an object of c.
RunOrder(c, name) ==
    LET Run[k \in 0..Len(class)] == [d \in ClassNames \cup {NoClass} |->
            IF k = 0 \/ <<d, name>> \notin DOMAIN calls THEN <<>>
            ELSE <<d>> \o Run[k - 1][calls[<<d, name>>]]]
    IN  Run[Len(class)][StaticTarget(ClassOf(class, c), name)]

\* The constructors and destructors of a class and all its ancestors run, each once.
EveryLevelRuns ==
    \A c \in DOMAIN vTable, name \in {"__constructor", "__destructor"} :
        RunOrder(c, name) = Meanings[c][name].levels

\* "The parent class must be defined before the child class" (wiki/spec/classes.md).
ParentFirst ==
    ~errors => \A c \in DOMAIN extends : extends[c] # NoClass => extends[c] # c /\ Finished(extends[c])

\* A class that has declared a private member can access it (wiki/language.md).
OwnPrivate ==
    \A i \in DOMAIN class, n \in MemberNames :
        <<class[i].name, n>> \in DOMAIN decl => "found" \in Reach(class[i], n, class[i].name)

\* The new class inherits all methods of the parent class (wiki/spec/classes.md); every
\* class of its line has a toPrimitive.
InheritsToPrimitive ==
    \A c \in DOMAIN vTable :
        LET line == Meanings[c]["toPrimitive"].levels
        IN  (\E i \in DOMAIN line : <<line[i], "toPrimitive">> \in DOMAIN decl) =>
                <<vTable[c]["toPrimitive"][1], "toPrimitive">> \in DOMAIN decl
================================================================================
