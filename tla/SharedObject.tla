----------------------------- MODULE SharedObject -----------------------------
(***************************************************************************)
(* The shared containers of the standard library (src/stdlib/SharedObject, *)
(* SharedQueue, SharedStack, SharedArray): processes that keep the         *)
(* elements as the lines of one file and lock the file with flock.         *)
(*                                                                         *)
(* flock locks the file that a descriptor was opened on (the inode), while *)
(* `sed -i` writes a new file and renames it over the old one.  So there   *)
(* are inodes: `path` is the one the object's name stands for now, 0 while *)
(* there is no file of that name.                                          *)
(*                                                                         *)
(* An element is the number of the call that added it; Blank are the calls *)
(* whose value is the empty string.  A command that reads or writes the    *)
(* file is one step, but that an element and its newline, which two        *)
(* commands append one after the other, are appended at once: nobody can   *)
(* come in between while the lock is held.  sed -i is three steps: its     *)
(* read and its two renames.                                               *)
(***************************************************************************)
EXTENDS Naturals, Sequences, FiniteSets, SequencesExt

CONSTANTS Processes, NoProcess,
          Operations,   \* the methods that the processes call
          MaxCalls,     \* bound on the calls of each process
          Sessions,     \* which of them, and how many calls, each process makes
          Blank

ASSUME SharedAssumption ==
    /\ IsFiniteSet(Processes) /\ NoProcess \notin Processes
    /\ MaxCalls \in Nat
    /\ Operations \subseteq {"lock", "unlock", "read", "push", "clear",
                             "at", "slice", "dequeue", "pop", "array_pop", "insert"}
    /\ Sessions \subseteq [Processes -> [operations : SUBSET Operations, calls : 0..MaxCalls]]

VARIABLES
    session,   \* what the processes may call
    path,      \* the inode of object_file, 0 if there is none
    content,   \* the lines of each inode
    holder,    \* who holds the flock of each inode
    pc, op,    \* where each process is, and the method it runs
    calls,     \* how many calls it has made
    fd,        \* the inode its lock descriptor is open on, 0 if there is none
    extended,  \* its extended_lock
    copy,      \* what it has read of the file
    added,     \* how many elements were ever added
    cleared,   \* how many of them when the container was last cleared
    taken      \* the results of dequeue and pop: the element, or 0 for failure

vars == <<session, path, content, holder, pc, op, calls, fd, extended, copy, added, cleared, taken>>

--------------------------------------------------------------------------------
MaxAdded == MaxCalls * Cardinality(Processes)

Goto(p, label) == pc' = [pc EXCEPT ![p] = label]

\* The lines the name stands for: none if there is no file, which a command that
\* writes to it, or opens it for that, creates.
Lines == IF path = 0 THEN <<>> ELSE content[path]

Create(lines) ==
    /\ content' = Append(content, lines)
    /\ holder' = Append(holder, NoProcess)
    /\ path' = Len(content) + 1

Write(lines) ==
    IF path = 0 THEN Create(lines)
    ELSE content' = [content EXCEPT ![path] = lines] /\ UNCHANGED <<path, holder>>

Add == added' = added + 1

\* A method starts: with the descriptor open, _lock does nothing.
Call(p, o) ==
    /\ pc[p] = "idle"
    /\ calls[p] < session[p].calls
    /\ o \in session[p].operations \ {"unlock"}
    /\ op' = [op EXCEPT ![p] = o]
    /\ calls' = [calls EXCEPT ![p] = @ + 1]
    /\ Goto(p, IF o = "lock" /\ fd[p] # 0 THEN "idle"
               ELSE IF fd[p] # 0 THEN "body" ELSE "open")
    /\ UNCHANGED <<session, path, content, holder, fd, extended, copy, added, cleared, taken>>

\* _lock: exec {fd}<>object_file ...
LockOpen(p) ==
    /\ pc[p] = "open"
    /\ IF path = 0 THEN Create(<<>>) ELSE UNCHANGED <<path, content, holder>>
    /\ fd' = [fd EXCEPT ![p] = path']
    /\ Goto(p, "flock")
    /\ UNCHANGED <<session, op, calls, extended, copy, added, cleared, taken>>

\* Mutant: the lock is not waited for.
LockFlockShared(p) ==
    /\ pc[p] = "flock"
    /\ holder' = [holder EXCEPT ![fd[p]] = p]
    /\ Goto(p, "body")
    /\ UNCHANGED <<session, path, content, op, calls, fd, extended, copy, added, cleared, taken>>

\* ... and flock -x.
LockFlock(p) ==
    /\ pc[p] = "flock"
    /\ holder[fd[p]] = NoProcess
    /\ holder' = [holder EXCEPT ![fd[p]] = p]
    /\ Goto(p, "body")
    /\ UNCHANGED <<session, path, content, op, calls, fd, extended, copy, added, cleared, taken>>

Release(p) ==
    /\ holder' = [i \in DOMAIN holder |->
                     IF i = fd[p] /\ holder[i] = p THEN NoProcess ELSE holder[i]]
    /\ fd' = [fd EXCEPT ![p] = 0]

\* _unlock is refused while the lock is extended, or was not acquired.
Unlocks(p) == IF fd[p] # 0 /\ ~extended[p] THEN Release(p) ELSE UNCHANGED <<holder, fd>>

\* Mutant: _unlock does not look at extended_lock.
MethodUnlockAlways(p) ==
    /\ pc[p] = "unlock"
    /\ Release(p)
    /\ Goto(p, "idle")
    /\ UNCHANGED <<session, path, content, op, calls, extended, copy, added, cleared, taken>>

\* Mutant: _unlock is forgotten.
MethodUnlockNever(p) ==
    /\ pc[p] = "unlock"
    /\ Goto(p, "idle")
    /\ UNCHANGED <<session, path, content, holder, fd, op, calls, extended, copy, added, cleared, taken>>

\* Every other method ends with _unlock.
MethodUnlock(p) ==
    /\ pc[p] = "unlock"
    /\ Unlocks(p)
    /\ Goto(p, "idle")
    /\ UNCHANGED <<session, path, content, op, calls, extended, copy, added, cleared, taken>>

\* lock: the lock stays until unlock.
Lock(p) ==
    /\ pc[p] = "body" /\ op[p] = "lock"
    /\ extended' = [extended EXCEPT ![p] = TRUE]
    /\ Goto(p, "idle")
    /\ UNCHANGED <<session, path, content, holder, op, calls, fd, copy, added, cleared, taken>>

\* unlock; it counts as no call, so that whoever locks can unlock.
Unlock(p) ==
    /\ pc[p] = "idle"
    /\ "unlock" \in session[p].operations
    /\ extended[p]
    /\ extended' = [extended EXCEPT ![p] = FALSE]
    /\ Release(p)
    /\ UNCHANGED <<session, path, content, pc, op, calls, copy, added, cleared, taken>>

--------------------------------------------------------------------------------
(* The methods, with the lock that _lock has got or found. *)

Body(p, o) == pc[p] = "body" /\ op[p] = o

\* at, slice and insert call size before they take the lock, slice once more for its end;
\* size locks and unlocks by itself.  What each goes on with:
AfterSize == [at |-> "read", slice |-> "slice_end", slice_end |-> "read", insert |-> "inserting"]

SizeFirst(p) ==
    /\ pc[p] = "body" /\ op[p] \in DOMAIN AfterSize
    /\ op[p] \in {"at", "slice"} => Lines # <<>>
    /\ op' = [op EXCEPT ![p] = AfterSize[op[p]]]
    /\ Unlocks(p)
    /\ Goto(p, IF fd'[p] # 0 THEN "body" ELSE "open")
    /\ UNCHANGED <<session, path, content, calls, extended, copy, added, cleared, taken>>

\* The index is out of bounds, or the range is empty (inserting at the front never is).
OutOfBounds(p) ==
    /\ pc[p] = "body" /\ op[p] \in {"at", "slice"}
    /\ Unlocks(p)
    /\ Goto(p, "idle")
    /\ UNCHANGED <<session, path, content, op, calls, extended, copy, added, cleared, taken>>

\* size, front, back, top, all, and what at and slice read in the end.
Read(p) ==
    /\ Body(p, "read")
    /\ copy' = [copy EXCEPT ![p] = Lines]
    /\ Goto(p, "unlock")
    /\ UNCHANGED <<session, path, content, holder, op, calls, fd, extended, added, cleared, taken>>

\* enqueue and push.
Push(p) ==
    /\ Body(p, "push")
    /\ Add
    /\ Write(Append(Lines, added + 1))
    /\ Goto(p, "unlock")
    /\ UNCHANGED <<session, op, calls, fd, extended, copy, cleared, taken>>

Clear(p) ==
    /\ Body(p, "clear")
    /\ Write(<<>>)
    /\ cleared' = added
    /\ Goto(p, "unlock")
    /\ UNCHANGED <<session, op, calls, fd, extended, copy, added, taken>>

\* _get_front, _get_back and _get_top: the line's value, 0 if that is empty.
Value(lines, i) == IF lines = <<>> \/ lines[i] \in Blank THEN 0 ELSE lines[i]

Chosen(p) == IF op[p] = "dequeue" THEN 1 ELSE Len(Lines)

\* dequeue and pop echo the element ...
TakeValue(p) ==
    /\ pc[p] = "body" /\ op[p] \in {"dequeue", "pop", "array_pop"}
    /\ Value(Lines, Chosen(p)) # 0
    /\ taken' = Append(taken, [value |-> Value(Lines, Chosen(p)), left |-> Len(Lines)])
    /\ Goto(p, "sed")
    /\ UNCHANGED <<session, path, content, holder, op, calls, fd, extended, copy, added, cleared>>

\* ... or fail and unlock,
TakeNothing(p) ==
    /\ pc[p] = "body" /\ op[p] \in {"dequeue", "pop"}
    /\ Value(Lines, Chosen(p)) = 0
    /\ taken' = Append(taken, [value |-> 0, left |-> Len(Lines)])
    /\ Goto(p, "unlock")
    /\ UNCHANGED <<session, path, content, holder, op, calls, fd, extended, copy, added, cleared>>

\* but SharedArray's pop calls unlock in place of _unlock.
TakeNothingArray(p) ==
    /\ Body(p, "array_pop")
    /\ Value(Lines, Chosen(p)) = 0
    /\ taken' = Append(taken, [value |-> 0, left |-> Len(Lines)])
    /\ extended' = [extended EXCEPT ![p] = FALSE]
    /\ IF extended[p] THEN Release(p) ELSE UNCHANGED <<holder, fd>>
    /\ Goto(p, "idle")
    /\ UNCHANGED <<session, path, content, op, calls, copy, added, cleared>>

\* sed -i reads the file, if there is one ...
SedRead(p) ==
    /\ pc[p] = "sed"
    /\ copy' = [copy EXCEPT ![p] = Lines]
    /\ Goto(p, IF path = 0 THEN "unlock" ELSE "backup")
    /\ UNCHANGED <<session, path, content, holder, op, calls, fd, extended, added, cleared, taken>>

\* ... renames it to object_file.tmp, or gives up if it is gone meanwhile ...
SedBackup(p) ==
    /\ pc[p] = "backup"
    /\ path' = 0
    /\ Goto(p, IF path = 0 THEN "unlock" ELSE "rename")
    /\ UNCHANGED <<session, content, holder, op, calls, fd, extended, copy, added, cleared, taken>>

\* Mutant: there is no new file to put in its place.
SedRenameGone(p) ==
    /\ pc[p] = "rename"
    /\ path' = Len(content) + 1
    /\ Goto(p, "unlock")
    /\ UNCHANGED <<session, content, holder, op, calls, fd, extended, copy, added, cleared, taken>>

\* Mutant: sed deletes the line at the wrong end.
SedRenameOtherEnd(p) ==
    /\ pc[p] = "rename"
    /\ Create(IF copy[p] = <<>> THEN <<>>
              ELSE IF op[p] = "dequeue" THEN Front(copy[p]) ELSE Tail(copy[p]))
    /\ Goto(p, "unlock")
    /\ UNCHANGED <<session, op, calls, fd, extended, copy, added, cleared, taken>>

\* ... and renames a new one, without the first or the last line, to object_file.
SedRename(p) ==
    /\ pc[p] = "rename"
    /\ Create(IF copy[p] = <<>> THEN <<>>
              ELSE IF op[p] = "dequeue" THEN Tail(copy[p]) ELSE Front(copy[p]))
    /\ Goto(p, "unlock")
    /\ UNCHANGED <<session, op, calls, fd, extended, copy, added, cleared, taken>>

\* insert at the front: the size that it asks for again, with the lock held, ends with
\* an _unlock of its own.
InsertSize(p) ==
    /\ Body(p, "inserting")
    /\ Unlocks(p)
    /\ Goto(p, IF Lines = <<>> THEN "append" ELSE "copy")
    /\ UNCHANGED <<session, path, content, op, calls, extended, copy, added, cleared, taken>>

\* The index is the size: append, and return.
InsertAppend(p) ==
    /\ pc[p] = "append"
    /\ Add
    /\ Write(Append(Lines, added + 1))
    /\ Goto(p, "idle")
    /\ UNCHANGED <<session, op, calls, fd, extended, copy, cleared, taken>>

InsertCopy(p) ==
    /\ pc[p] = "copy"
    /\ copy' = [copy EXCEPT ![p] = Lines]
    /\ Goto(p, "truncate")
    /\ UNCHANGED <<session, path, content, holder, op, calls, fd, extended, added, cleared, taken>>

InsertTruncate(p) ==
    /\ pc[p] = "truncate"
    /\ Write(<<>>)
    /\ Goto(p, "rewrite")
    /\ UNCHANGED <<session, op, calls, fd, extended, copy, added, cleared, taken>>

\* The new element, and the copied ones after it one by one.
InsertRewrite(p) ==
    /\ pc[p] = "rewrite"
    /\ Add
    /\ Write(Append(Lines, added + 1))
    /\ Goto(p, "rest")
    /\ UNCHANGED <<session, op, calls, fd, extended, copy, cleared, taken>>

InsertRest(p) ==
    /\ pc[p] = "rest" /\ copy[p] # <<>>
    /\ Write(Append(Lines, Head(copy[p])))
    /\ copy' = [copy EXCEPT ![p] = Tail(@)]
    /\ UNCHANGED <<session, pc, op, calls, fd, extended, added, cleared, taken>>

InsertDone(p) ==
    /\ pc[p] = "rest" /\ copy[p] = <<>>
    /\ Goto(p, "unlock")
    /\ UNCHANGED <<session, path, content, holder, op, calls, fd, extended, copy, added, cleared, taken>>

--------------------------------------------------------------------------------
\* The constructor's mktemp; the processes are forked from the one that ran it.
Init ==
    /\ session \in Sessions
    /\ path = 1
    /\ content = << <<>> >>
    /\ holder = <<NoProcess>>
    /\ pc = [p \in Processes |-> "idle"]
    /\ op = [p \in Processes |-> "read"]
    /\ calls = [p \in Processes |-> 0]
    /\ fd = [p \in Processes |-> 0]
    /\ extended = [p \in Processes |-> FALSE]
    /\ copy = [p \in Processes |-> <<>>]
    /\ added = 0
    /\ cleared = 0
    /\ taken = <<>>

Locking(p) == LockOpen(p) \/ LockFlock(p) \/ MethodUnlock(p) \/ Lock(p)

Taking(p) ==
    \/ TakeValue(p) \/ TakeNothing(p) \/ TakeNothingArray(p)
    \/ SedRead(p) \/ SedBackup(p) \/ SedRename(p)

Inserting(p) ==
    \/ InsertSize(p) \/ InsertAppend(p) \/ InsertCopy(p)
    \/ InsertTruncate(p) \/ InsertRewrite(p) \/ InsertRest(p) \/ InsertDone(p)

Sizing(p) == SizeFirst(p) \/ OutOfBounds(p)

Step(p) ==
    \/ Locking(p) \/ Unlock(p)
    \/ Sizing(p) \/ Read(p) \/ Push(p) \/ Clear(p) \/ Taking(p) \/ Inserting(p)

Next == \E p \in Processes : Step(p) \/ \E o \in Operations : Call(p, o)

Spec == Init /\ [][Next]_vars

\* A method that started goes on, who locked unlocks, and a flock that is free
\* again and again is obtained.
FairSpec == Spec /\ \A p \in Processes : WF_vars(Step(p)) /\ SF_vars(LockFlock(p))

--------------------------------------------------------------------------------
(* Properties. *)

TypeOK ==
    /\ session \in Sessions
    /\ content \in Seq(Seq(1..MaxAdded))
    /\ path \in 0..Len(content)
    /\ DOMAIN holder = DOMAIN content
    /\ \A i \in DOMAIN holder : holder[i] \in Processes \cup {NoProcess}
    /\ pc \in [Processes -> {"idle", "open", "flock", "body", "unlock", "sed", "backup", "rename",
                             "append", "copy", "truncate", "rewrite", "rest"}]
    /\ op \in [Processes -> Operations \cup {"read", "slice_end", "inserting"}]
    /\ calls \in [Processes -> 0..MaxCalls]
    /\ fd \in [Processes -> 0..Len(content)]
    /\ extended \in [Processes -> BOOLEAN]
    /\ copy \in [Processes -> Seq(1..MaxAdded)]
    /\ added \in 0..MaxAdded /\ cleared \in 0..added
    /\ \A i \in DOMAIN taken : taken[i] \in [value : 0..MaxAdded, left : 0..MaxAdded]

\* Where a method reads or writes the file.
Accessing(p) == pc[p] \notin {"idle", "open", "flock", "unlock"}

\* Until sed -i replaces it, a method accesses the file with the lock of the file that
\* the name stands for; insert does not, which lets go of the lock halfway.
LockedAccess ==
    path = 1 => \A p \in Processes : Accessing(p) /\ op[p] # "inserting" => holder[path] = p

\* Between calls only `lock` keeps the object locked, but for SharedArray's pop.
LockReleased ==
    \A p \in Processes :
        pc[p] = "idle" /\ fd[p] # 0 /\ op[p] # "array_pop" => extended[p]

\* SharedArray's pop releases the lock as the other methods do.
PopReleases ==
    \A p \in Processes :
        pc[p] = "idle" /\ fd[p] # 0 /\ op[p] = "array_pop" => extended[p]

\* A step of another process; one of p's own goes on in its method, or rewrites a copied line.
NotBy(p) == pc'[p] = pc[p] /\ copy'[p] = copy[p]

\* From lock to unlock, nobody else changes the elements.
ExclusiveWhileLocked ==
    [][\A p \in Processes :
          extended[p] /\ extended'[p] /\ NotBy(p) => Lines' = Lines]_vars

\* No element is dequeued or popped twice.
TakenOnce ==
    \A i, j \in DOMAIN taken : taken[i].value = taken[j].value /\ i # j => taken[i].value = 0

\* What was added since the container was cleared, and not taken, is there when no
\* method runs.
NothingLost ==
    (\A p \in Processes : pc[p] = "idle") =>
        \A e \in cleared + 1..added : \/ \E i \in DOMAIN Lines : Lines[i] = e
                                      \/ \E i \in DOMAIN taken : taken[i].value = e

\* dequeue and pop fail only on an empty container.
FailsOnlyEmpty == \A i \in DOMAIN taken : taken[i].value = 0 => taken[i].left = 0

\* Every call returns.
CallsReturn == \A p \in Processes : pc[p] # "idle" ~> pc[p] = "idle"
================================================================================
