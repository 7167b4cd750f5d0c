---------------------------- MODULE ObjectStore ----------------------------
(***************************************************************************)
(* What a program with objects means, without the Bash code that carries   *)
(* it out: a heap of objects, each with a value for every data member.     *)
(* A path names an object, a pointer or a primitive member: a root (an     *)
(* object, a pointer or "this") and the members after the dots.  Pointers  *)
(* on the way are followed; a data member that is an object belongs to the *)
(* object it is in.                                                        *)
(*                                                                         *)
(* An object is identified by <<d, a>>: the depth d of the call that       *)
(* declared it (1 is global scope, where @new puts objects too) and its    *)
(* address a.  An address is the sequence of the parts of a variable name  *)
(* that "__" joins.                                                        *)
(***************************************************************************)
EXTENDS Naturals, Sequences, FiniteSets, SequencesExt

CONSTANTS
  Layout,    \* class -> sequence of its data members [name, kind, class]
  Globals,   \* name -> class: objects declared at global scope
  Pointers,  \* name -> class: pointers declared at global scope
  Locals,    \* name -> class: objects declared in functions and methods
  NewNames,  \* class -> sequence of addresses @new may come to
  Values,    \* what a primitive member can be given
  Paths,     \* the references the program writes
  MaxDepth   \* bound on nested calls

Default == <<"default">>
Null    == <<"0">>
NoSelf  == <<0, <<>>>>

Members(c) == ToSet(Layout[c])

VARIABLES
  heap,     \* object -> [class, val]: val gives every data member
  pointer,  \* pointer declared at global scope -> address
  known,    \* global objects declared so far
  self      \* for every call in progress: the object it is a method of

storeVars == <<heap, pointer, known, self>>

Depth == Len(self)

--------------------------------------------------------------------------
(* Paths.  A step of a walk is [kind, id, val, class]: the kind of what    *)
(* the path names so far, the object it is (or the member belongs to), the *)
(* member's name and value, and its class.                                 *)

Nothing == [kind |-> "none", id |-> NoSelf, member |-> "", val |-> <<>>, class |-> ""]

ObjectAt(id) ==
  IF id \in DOMAIN heap
  THEN [Nothing EXCEPT !.kind = "object", !.id = id, !.class = heap[id].class]
  ELSE Nothing

Root(r) ==
  CASE r = "this" -> ObjectAt(self[Depth])
    [] r \in DOMAIN Locals -> ObjectAt(<<Depth, <<r>>>>)
    [] r \in DOMAIN Globals -> ObjectAt(<<1, <<r>>>>)
    [] r \in DOMAIN Pointers ->
         [Nothing EXCEPT !.kind = "pointer", !.member = r, !.val = pointer[r],
                         !.class = Pointers[r]]

\* The object that the next member is looked for in.
Holder(step) ==
  CASE step.kind = "pointer" -> <<1, step.val>>
    [] step.kind = "object"  -> step.id
    [] OTHER -> NoSelf

Dot(step, m) ==
  LET id == Holder(step)
      found == IF id \in DOMAIN heap
               THEN {dm \in Members(heap[id].class) : dm.name = m} ELSE {}
  IN  IF found = {} THEN Nothing
      ELSE LET dm == CHOOSE dm \in found : TRUE
               v  == heap[id].val[m]
           IN  IF dm.kind = "object" THEN ObjectAt(<<id[1], v>>)
               ELSE [kind |-> dm.kind, id |-> id, member |-> m, val |-> v,
                     class |-> dm.class]

Walk(path) == FoldLeft(Dot, Root(Head(path)), Tail(path))

\* The object a path names, through the pointer if it names one.
Target(path) == Holder(Walk(path))
Live(path)   == Target(path) \in DOMAIN heap

--------------------------------------------------------------------------
(* Creation: data members in the order of the class.                       *)

FreshNames(h, c) == {i \in 1 .. Len(NewNames[c]) : <<1, NewNames[c][i]>> \notin DOMAIN h}
FreshName(h, c)  ==
  NewNames[c][CHOOSE i \in FreshNames(h, c) : \A j \in FreshNames(h, c) : i <= j]

\* Where a data member that is an object is put: anywhere, or with its local owner.
Inside(h, id, dm) ==
  IF id[1] = 1 THEN <<1, FreshName(h, dm.class)>> ELSE <<id[1], Append(id[2], dm.name)>>

Put(h, id, obj) == [i \in DOMAIN h \cup {id} |-> IF i = id THEN obj ELSE h[i]]

RECURSIVE Created(_, _, _)
Created(h, id, c) ==
  LET member(g, dm) ==
        IF dm.kind = "object"
        THEN LET at == Inside(g, id, dm)
             IN  [Created(g, at, dm.class) EXCEPT ![id].val[dm.name] = at[2]]
        ELSE [g EXCEPT ![id].val[dm.name] = IF dm.kind = "pointer" THEN Null ELSE Default]
  IN  FoldLeft(member,
               Put(h, id, [class |-> c, val |-> [m \in {dm.name : dm \in Members(c)} |-> <<>>]]),
               Layout[c])

\* @new can be given an address for the object and each object inside it.
RECURSIVE Room(_, _)
Room(h, c) ==
  /\ FreshNames(h, c) # {}
  /\ \A dm \in Members(c) : dm.kind = "object" => Room(h, dm.class)

--------------------------------------------------------------------------
(* Copies are deep for members that are objects and copy pointers.  Deletes *)
(* take the objects inside with them and leave every pointer alone.         *)

RECURSIVE Copied(_, _, _)
Copied(h, to, from) ==
  LET member(g, dm) ==
        IF dm.kind = "object"
        THEN Copied(g, <<to[1], g[to].val[dm.name]>>, <<from[1], g[from].val[dm.name]>>)
        ELSE [g EXCEPT ![to].val[dm.name] = g[from].val[dm.name]]
  IN  FoldLeft(member, h, Layout[h[to].class])

RECURSIVE Inhabitants(_)
Inhabitants(id) ==
  {id} \cup UNION {Inhabitants(<<id[1], heap[id].val[dm.name]>>) :
                     dm \in {d \in Members(heap[id].class) : d.kind = "object"}}

Without(h, ids) == [i \in DOMAIN h \ ids |-> h[i]]

--------------------------------------------------------------------------
(* The statements.                                                          *)

StoreInit ==
  /\ heap = <<>>
  /\ pointer = [p \in DOMAIN Pointers |-> Null]
  /\ known = {}
  /\ self = <<NoSelf>>

Declare(o) ==
  /\ Depth = 1 /\ o \in DOMAIN Globals \ known
  /\ heap' = Created(heap, <<1, <<o>>>>, Globals[o])
  /\ known' = known \cup {o}
  /\ UNCHANGED <<pointer, self>>

DeclareLocal(l) ==
  /\ Depth > 1 /\ <<Depth, <<l>>>> \notin DOMAIN heap
  /\ heap' = Created(heap, <<Depth, <<l>>>>, Locals[l])
  /\ UNCHANGED <<pointer, known, self>>

\* Give the member or the pointer that a path names the value v, in heap h.
Given(h, path, v) ==
  LET w == Walk(path)
  IN  IF Len(path) = 1
      THEN heap' = h /\ pointer' = [pointer EXCEPT ![w.member] = v]
      ELSE heap' = [h EXCEPT ![w.id].val[w.member] = v] /\ UNCHANGED pointer

Assign(path, v) == Given(heap, path, v) /\ UNCHANGED <<known, self>>

AssignNew(path, c) ==
  /\ Room(heap, c)
  /\ LET a == FreshName(heap, c) IN Given(Created(heap, <<1, a>>, c), path, a)
  /\ UNCHANGED <<known, self>>

CopyObject(to, from) ==
  /\ heap' = Copied(heap, Target(to), Target(from))
  /\ UNCHANGED <<pointer, known, self>>

Enter(id) ==
  /\ Depth < MaxDepth
  /\ self' = Append(self, id)
  /\ UNCHANGED <<heap, pointer, known>>

Leave ==
  /\ Depth > 1
  /\ heap' = Without(heap, {i \in DOMAIN heap : i[1] = Depth})
  /\ self' = Front(self)
  /\ UNCHANGED <<pointer, known>>

DeleteObject(path) ==
  /\ heap' = Without(heap, Inhabitants(Target(path)))
  /\ UNCHANGED <<pointer, known, self>>
=============================================================================
