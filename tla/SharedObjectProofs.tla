-------------------------- MODULE SharedObjectProofs --------------------------
(***************************************************************************)
(* What a program may rely on that uses a shared object in one of the two  *)
(* ways which are safe, for any number of processes and calls: all         *)
(* processes call the methods that leave the file in place and keep the    *)
(* lock to their end (Plain), or one process alone calls any methods       *)
(* (OnlyOne).  What happens otherwise is the matter of finding 2 and of  *)
(* SharedArrayInsert.cfg and SharedArrayPop.cfg.                           *)
(*                                                                         *)
(* Base holds however the object is used: the numbers, the types and that  *)
(* no more elements were added than calls were made that could add one.    *)
(* PlainInv and AloneInv say who holds the lock and where the elements     *)
(* are, in each of the two ways.                                           *)
(***************************************************************************)
EXTENDS SharedObject, SequenceTheorems, FiniteSetTheorems, TLAPS

PlainMethods == {"lock", "unlock", "read", "at", "slice", "push", "clear"}

Plain(s) == \A p \in Processes : s[p].operations \subseteq PlainMethods

OnlyOne(s, q) == \A p \in Processes \ {q} : s[p].calls = 0

SafeUse(s) == Plain(s) \/ \E q \in Processes : OnlyOne(s, q)

UsedSafely == \A s \in Sessions : SafeUse(s)

Labels == {"idle", "open", "flock", "body", "unlock", "sed", "backup", "rename",
           "append", "copy", "truncate", "rewrite", "rest"}

\* The call of p can still add an element.
MayAdd(p) == pc[p] \notin {"idle", "unlock", "rest"}

\* The calls made that can add none any more.
Spent ==
    {c \in Processes \X (1..MaxCalls) :
        c[2] <= calls[c[1]] - (IF MayAdd(c[1]) THEN 1 ELSE 0)}

Counts ==
    /\ added \in Nat /\ cleared \in 0..added
    /\ \A p \in Processes : MayAdd(p) => calls[p] > 0
    /\ added <= Cardinality(Spent)

Base ==
    /\ session \in Sessions
    /\ content \in Seq(Seq(1..added))
    /\ Len(content) > 0 /\ path \in {0, Len(content)}
    /\ holder \in Seq(Processes \cup {NoProcess}) /\ Len(holder) = Len(content)
    /\ pc \in [Processes -> Labels]
    /\ op \in [Processes -> Operations \cup {"read", "slice_end", "inserting"}]
    /\ calls \in [Processes -> 0..MaxCalls]
    /\ fd \in [Processes -> 0..Len(content)]
    /\ extended \in [Processes -> BOOLEAN]
    /\ copy \in [Processes -> Seq(1..added)]
    /\ taken \in Seq([value : 0..added, left : Nat])
    /\ Counts

LEMMA SpentFinite ==
    /\ IsFiniteSet(Processes \X (1..MaxCalls))
    /\ Cardinality(Processes \X (1..MaxCalls)) = MaxAdded
    /\ IsFiniteSet(Spent) /\ Cardinality(Spent) \in Nat /\ Cardinality(Spent) <= MaxAdded
<1>1. IsFiniteSet(1..MaxCalls) /\ Cardinality(1..MaxCalls) = MaxCalls
  BY SharedAssumption, FS_Interval
<1>2. IsFiniteSet(Processes) /\ Cardinality(Processes) \in Nat
  BY SharedAssumption, FS_CardinalityType
<1>3. /\ IsFiniteSet(Processes \X (1..MaxCalls))
      /\ Cardinality(Processes \X (1..MaxCalls)) = Cardinality(Processes) * MaxCalls
  BY <1>1, <1>2, FS_Product
<1>4. Spent \in SUBSET (Processes \X (1..MaxCalls)) BY DEF Spent
<1>5. Cardinality(Processes) * MaxCalls = MaxAdded BY <1>2, SharedAssumption DEF MaxAdded
<1> QED BY <1>3, <1>4, <1>5, FS_Subset, FS_CardinalityType

\* A step that adds nothing and after which no call can add that could not before.
LEMMA NothingAdded ==
    ASSUME Base, calls' = calls, UNCHANGED added, cleared' \in 0..added,
           \A p \in Processes : MayAdd(p)' => MayAdd(p)
    PROVE  Counts'
<1>1. Spent \subseteq Spent' BY DEF Spent, Base
<1>2. /\ IsFiniteSet(Spent') /\ Cardinality(Spent') \in Nat
      /\ Cardinality(Spent) \in Nat
  <2>1. IsFiniteSet(Spent') BY SpentFinite, FS_Subset DEF Spent
  <2> QED BY <2>1, SpentFinite, FS_CardinalityType
<1>3. Cardinality(Spent) <= Cardinality(Spent') BY <1>1, <1>2, FS_Subset
<1> QED BY <1>2, <1>3 DEF Base, Counts

\* A step in which p adds an element, and can add none any more in this call.
LEMMA OneAdded ==
    ASSUME Base, NEW p \in Processes, calls' = calls, Add, UNCHANGED cleared,
           MayAdd(p), ~MayAdd(p)',
           \A q \in Processes \ {p} : MayAdd(q)' <=> MayAdd(q)
    PROVE  Counts'
<1> DEFINE c == <<p, calls[p]>>
<1>1. calls[p] \in 1..MaxCalls BY SharedAssumption DEF Base, Counts
<1>2. c \notin Spent BY <1>1 DEF Spent
<1>3. Spent' = Spent \cup {c}
  <2> DEFINE Bound(q, m) == calls[q] - (IF m THEN 1 ELSE 0)
  <2>1. \A d \in Processes \X (1..MaxCalls) : d[1] \in Processes /\ d[2] \in 1..MaxCalls OBVIOUS
  <2>2. Bound(p, MayAdd(p)) = calls[p] - 1 /\ Bound(p, MayAdd(p)') = calls[p] BY <1>1
  <2>3. \A d \in Processes \X (1..MaxCalls) :
            d[2] <= Bound(d[1], MayAdd(d[1])') <=> d[2] <= Bound(d[1], MayAdd(d[1])) \/ d = c
    <3> SUFFICES ASSUME NEW x \in Processes, NEW i \in 1..MaxCalls
                 PROVE  i <= Bound(x, MayAdd(x)') <=> i <= Bound(x, MayAdd(x)) \/ (x = p /\ i = calls[p])
      OBVIOUS
    <3>1. CASE x = p BY <1>1, <2>2, <3>1
    <3>2. CASE x # p
      <4>1. MayAdd(x)' <=> MayAdd(x) BY <3>2
      <4> QED BY <3>2, <4>1
    <3> QED BY <3>1, <3>2
  <2> QED BY <1>1, <2>3 DEF Spent
<1>4. Cardinality(Spent') = Cardinality(Spent) + 1 BY <1>2, <1>3, SpentFinite, FS_AddElement
<1> QED BY <1>4, SpentFinite DEF Base, Counts, Add

\* A call that starts.
LEMMA OneStarted ==
    ASSUME Base, NEW p \in Processes, NEW o \in Operations, Call(p, o)
    PROVE  Counts'
<1>1. /\ calls[p] \in 0..MaxCalls /\ calls[p] + 1 \in 1..MaxCalls
      /\ calls' = [calls EXCEPT ![p] = calls[p] + 1]
  <2>1. session[p].calls \in 0..MaxCalls BY SharedAssumption DEF Base
  <2> QED BY <2>1, SharedAssumption DEF Base, Call
<1>2. ~MayAdd(p) BY DEF Call, MayAdd
<1>3. \A q \in Processes \ {p} : MayAdd(q)' = MayAdd(q) /\ calls'[q] = calls[q]
  BY DEF Call, Goto, MayAdd, Base
<1>4. Spent \subseteq Spent'
  <2> SUFFICES ASSUME NEW c \in Spent PROVE c \in Spent' OBVIOUS
  <2>1. c[1] \in Processes /\ c[2] \in 1..MaxCalls BY DEF Spent
  <2>2. CASE c[1] = p
    <3>1. c[2] <= calls[p] BY <1>1, <1>2, <2>2 DEF Spent
    <3>2. calls'[p] - (IF MayAdd(p)' THEN 1 ELSE 0) >= calls[p] BY <1>1 DEF Base
    <3> QED BY <1>1, <2>1, <2>2, <3>1, <3>2 DEF Spent
  <2>3. CASE c[1] # p BY <1>3, <2>1, <2>3 DEF Spent
  <2> QED BY <2>2, <2>3
<1>5. IsFiniteSet(Spent') /\ Cardinality(Spent') \in Nat
  <2>1. IsFiniteSet(Spent') BY SpentFinite, FS_Subset DEF Spent
  <2> QED BY <2>1, FS_CardinalityType
<1>6. Cardinality(Spent) <= Cardinality(Spent') BY <1>4, <1>5, FS_Subset
<1>7. \A q \in Processes : MayAdd(q)' => calls'[q] > 0 BY <1>1, <1>3 DEF Base, Counts
<1> QED BY <1>5, <1>6, <1>7, SpentFinite DEF Call, Base, Counts

LEMMA BaseInit == Init => Base
<1> SUFFICES ASSUME Init PROVE Base OBVIOUS
<1>1. content \in Seq(Seq(1..0)) /\ Len(content) = 1
  <2>1. <<>> \in Seq(1..0) OBVIOUS
  <2> QED BY <2>1 DEF Init
<1>2. holder \in Seq(Processes \cup {NoProcess}) /\ Len(holder) = 1 BY DEF Init
<1>3. taken \in Seq([value : 0..0, left : Nat]) BY DEF Init
<1>4. copy \in [Processes -> Seq(1..0)] BY DEF Init
<1>5. Counts BY SpentFinite DEF Init, Counts, MayAdd
<1> QED BY <1>1, <1>2, <1>3, <1>4, <1>5, SharedAssumption DEF Init, Base, Labels

\* What was recorded stays well-formed when elements are added.
LEMMA Grows ==
    ASSUME NEW n \in Nat, NEW m \in Nat, n <= m
    PROVE  /\ Seq(1..n) \subseteq Seq(1..m)
           /\ Seq(Seq(1..n)) \subseteq Seq(Seq(1..m))
           /\ Seq([value : 0..n, left : Nat]) \subseteq Seq([value : 0..m, left : Nat])
<1>1. \A s \in Seq(1..n) : s \in Seq(1..m)
  <2>1. 1..n \subseteq 1..m OBVIOUS
  <2> QED BY <2>1, SeqMonotonic
<1>2. \A s \in Seq(Seq(1..n)) : s \in Seq(Seq(1..m)) BY <1>1, SeqMonotonic
<1>3. \A s \in Seq([value : 0..n, left : Nat]) : s \in Seq([value : 0..m, left : Nat])
  <2>1. [value : 0..n, left : Nat] \subseteq [value : 0..m, left : Nat] OBVIOUS
  <2> QED BY <2>1, SeqMonotonic
<1> QED BY <1>1, <1>2, <1>3

LEMMA LinesKnown ==
    Base => /\ Lines = IF path = 0 THEN <<>> ELSE content[Len(content)]
            /\ Lines \in Seq(1..added) /\ Len(Lines) \in Nat
<1> SUFFICES ASSUME Base PROVE Lines \in Seq(1..added) BY DEF Base, Lines
<1>1. CASE path = 0 BY <1>1, EmptySeq DEF Lines
<1>2. CASE path # 0
  <2>1. path = Len(content) /\ Len(content) \in 1..Len(content) BY <1>2 DEF Base
  <2>2. content[Len(content)] \in Seq(1..added) BY <2>1, ElementOfSeq DEF Base
  <2> QED BY <1>2, <2>1, <2>2 DEF Lines
<1> QED BY <1>1, <1>2

LEMMA Created ==
    ASSUME Base, NEW lines \in Seq(1..added'), Create(lines), added' \in Nat, added <= added'
    PROVE  /\ content' \in Seq(Seq(1..added')) /\ Len(content') = Len(content) + 1
           /\ Lines' = lines /\ path' = Len(content')
           /\ holder' \in Seq(Processes \cup {NoProcess}) /\ Len(holder') = Len(content')
<1>1. /\ content \in Seq(Seq(1..added')) /\ holder \in Seq(Processes \cup {NoProcess})
      /\ Len(holder) = Len(content) /\ Len(content) \in Nat
  BY Grows DEF Base, Counts
<1>2. /\ content' \in Seq(Seq(1..added')) /\ Len(content') = Len(content) + 1
      /\ content'[Len(content) + 1] = lines
      /\ holder' \in Seq(Processes \cup {NoProcess}) /\ Len(holder') = Len(holder) + 1
  BY <1>1, AppendProperties DEF Create
<1>3. path' = Len(content) + 1 /\ path' # 0 BY <1>1 DEF Create
<1> QED BY <1>1, <1>2, <1>3 DEF Lines

LEMMA Written ==
    ASSUME Base, NEW lines \in Seq(1..added'), Write(lines), added' \in Nat, added <= added'
    PROVE  /\ content' \in Seq(Seq(1..added')) /\ Len(content') >= Len(content)
           /\ Lines' = lines /\ path' = Len(content')
           /\ holder' \in Seq(Processes \cup {NoProcess}) /\ Len(holder') = Len(content')
           /\ path # 0 => path' = path /\ holder' = holder /\ Len(content') = Len(content)
<1>0. Len(content) \in Nat \ {0} BY DEF Base
<1>1. CASE path = 0
  <2>1. Create(lines) BY <1>1 DEF Write
  <2> QED BY <1>0, <1>1, <2>1, Created
<1>2. CASE path # 0
  <2>1. content \in Seq(Seq(1..added')) /\ path = Len(content) BY <1>2, Grows DEF Base, Counts
  <2>2. content' = [content EXCEPT ![path] = lines] /\ UNCHANGED <<path, holder>>
    BY <1>2 DEF Write
  <2>3. content' \in Seq(Seq(1..added')) /\ Len(content') = Len(content) /\ content'[path] = lines
    BY <1>0, <2>1, <2>2, ExceptSeq
  <2> QED BY <1>2, <2>1, <2>2, <2>3 DEF Lines, Base
<1> QED BY <1>1, <1>2

LEMMA WrittenInPlace ==
    ASSUME Base, NEW lines \in Seq(1..added'), Write(lines), added' \in Nat, added <= added', path # 0
    PROVE  Lines' = lines /\ Len(content') = Len(content) /\ path' = path /\ holder' = holder
<1> QED BY Written

LEMMA Released ==
    ASSUME Base, NEW p \in Processes, Release(p) \/ UNCHANGED <<holder, fd>>
    PROVE  /\ holder' \in Seq(Processes \cup {NoProcess}) /\ Len(holder') = Len(holder)
           /\ fd' \in [Processes -> 0..Len(content)]
<1>1. CASE Release(p)
  <2>1. /\ DOMAIN holder = 1..Len(holder) /\ Len(holder) \in Nat
        /\ \A i \in 1..Len(holder) : holder[i] \in Processes \cup {NoProcess}
    BY DEF Base
  <2>2. holder' = [i \in 1..Len(holder) |-> IF i = fd[p] /\ holder[i] = p THEN NoProcess ELSE holder[i]]
    BY <1>1, <2>1 DEF Release
  <2>3. fd' \in [Processes -> 0..Len(content)] BY <1>1 DEF Release, Base
  <2> QED BY <2>1, <2>2, <2>3
<1>2. CASE UNCHANGED <<holder, fd>> BY <1>2 DEF Base
<1> QED BY <1>1, <1>2

\* What sed -i leaves of the lines that it read.
Left(p) ==
    IF copy[p] = <<>> THEN <<>> ELSE IF op[p] = "dequeue" THEN Tail(copy[p]) ELSE Front(copy[p])

LEMMA Cut ==
    ASSUME NEW S, NEW s \in Seq(S), s # <<>>
    PROVE  /\ Len(s) \in Nat \ {0}
           /\ Tail(s) \in Seq(S) /\ Len(Tail(s)) = Len(s) - 1
           /\ \A i \in 1..(Len(s) - 1) : Tail(s)[i] = s[i + 1]
           /\ Front(s) \in Seq(S) /\ Len(Front(s)) = Len(s) - 1
           /\ \A i \in 1..(Len(s) - 1) : Front(s)[i] = s[i]
<1>1. Len(s) \in Nat \ {0} BY EmptySeq
<1>2. \A i \in 1..(Len(s) - 1) : s[i] \in S BY <1>1
<1>3. /\ SubSeq(s, 1, Len(s) - 1) \in Seq(S)
      /\ Len(SubSeq(s, 1, Len(s) - 1)) = IF 1 <= Len(s) - 1 THEN (Len(s) - 1) - 1 + 1 ELSE 0
      /\ \A i \in 1..((Len(s) - 1) - 1 + 1) : SubSeq(s, 1, Len(s) - 1)[i] = s[1 + i - 1]
  BY <1>1, <1>2, SubSeqProperties
<1>4. /\ Tail(s) \in Seq(S) /\ Len(Tail(s)) = Len(s) - 1
      /\ \A i \in 1..(Len(s) - 1) : Tail(s)[i] = s[i + 1]
  BY HeadTailProperties
<1> QED BY <1>1, <1>3, <1>4 DEF Front

LEMMA LeftIsLines == ASSUME Base, NEW p \in Processes PROVE Left(p) \in Seq(1..added)
<1>1. copy[p] \in Seq(1..added) BY DEF Base
<1> QED BY <1>1, Cut, EmptySeq DEF Left

LEMMA Took ==
    ASSUME Base, NEW v \in 0..added, taken' = Append(taken, [value |-> v, left |-> Len(Lines)])
    PROVE  /\ taken' \in Seq([value : 0..added, left : Nat])
           /\ Len(taken') = Len(taken) + 1
           /\ taken'[Len(taken')] = [value |-> v, left |-> Len(Lines)]
           /\ \A i \in 1..Len(taken) : taken'[i] = taken[i]
<1>1. [value |-> v, left |-> Len(Lines)] \in [value : 0..added, left : Nat] BY LinesKnown
<1>2. taken \in Seq([value : 0..added, left : Nat]) BY DEF Base
<1> QED BY <1>1, <1>2, AppendProperties

LEMMA ValueKnown ==
    ASSUME Base, NEW p \in Processes
    PROVE  /\ Value(Lines, Chosen(p)) \in 0..added
           /\ Value(Lines, Chosen(p)) # 0 =>
                  /\ Lines # <<>> /\ Chosen(p) \in 1..Len(Lines)
                  /\ Value(Lines, Chosen(p)) = Lines[Chosen(p)]
<1>1. Lines \in Seq(1..added) /\ Len(Lines) \in Nat BY LinesKnown
<1>2. Lines # <<>> => Chosen(p) \in 1..Len(Lines) BY <1>1, EmptySeq DEF Chosen
<1>3. Lines # <<>> => Lines[Chosen(p)] \in 1..added BY <1>1, <1>2, ElementOfSeq
<1>4. added \in Nat BY DEF Base, Counts
<1> QED BY <1>2, <1>3, <1>4 DEF Value

\* Base however the object is used.
LEMMA BaseNext == Base /\ [Next]_vars => Base'
<1> SUFFICES ASSUME Base, [Next]_vars PROVE Base' OBVIOUS
<1>n. added \in Nat /\ cleared \in 0..added BY DEF Base, Counts
<1>1. ASSUME NEW p \in Processes, NEW o \in Operations, Call(p, o) PROVE Base'
  <2>1. calls' \in [Processes -> 0..MaxCalls]
    <3>1. session[p].calls \in 0..MaxCalls BY SharedAssumption DEF Base
    <3> QED BY <1>1, <3>1, SharedAssumption DEF Base, Call
  <2>2. pc' \in [Processes -> Labels] BY <1>1 DEF Base, Call, Goto, Labels
  <2> QED BY <1>1, <2>1, <2>2, OneStarted DEF Base, Call
<1>2. ASSUME NEW p \in Processes, LockOpen(p) PROVE Base'
  <2>1. Counts' BY <1>n, <1>2, NothingAdded DEF LockOpen, Goto, MayAdd, Base
  <2>2. /\ content' \in Seq(Seq(1..added)) /\ Len(content') >= Len(content)
        /\ path' = Len(content') /\ Len(content) \in Nat /\ Len(content') \in Nat
        /\ holder' \in Seq(Processes \cup {NoProcess}) /\ Len(holder') = Len(content')
    <3>1. Len(content) \in Nat /\ added' = added BY <1>2 DEF LockOpen, Base
    <3>2. CASE path = 0
      <4>1. Create(<<>>) /\ <<>> \in Seq(1..added') BY <1>2, <3>2, EmptySeq DEF LockOpen
      <4>2. added' \in Nat /\ added <= added' BY <1>n, <3>1
      <4>3. /\ content' \in Seq(Seq(1..added')) /\ Len(content') = Len(content) + 1
            /\ path' = Len(content') /\ holder' \in Seq(Processes \cup {NoProcess})
            /\ Len(holder') = Len(content')
        BY <4>1, <4>2, Created
      <4> QED BY <3>1, <4>3
    <3>3. CASE path # 0
      <4>1. UNCHANGED <<path, content, holder>> BY <1>2, <3>3 DEF LockOpen
      <4> QED BY <3>1, <3>3, <4>1 DEF Base
    <3> QED BY <3>2, <3>3
  <2>3. fd' \in [Processes -> 0..Len(content')]
    <3>1. fd' = [fd EXCEPT ![p] = path'] BY <1>2 DEF LockOpen
    <3> QED BY <2>2, <3>1 DEF Base
  <2>4. pc' \in [Processes -> Labels] BY <1>2 DEF LockOpen, Goto, Base, Labels
  <2>5. UNCHANGED <<session, op, calls, extended, copy, added, taken>> BY <1>2 DEF LockOpen
  <2>6. Len(content') > 0 BY <2>2 DEF Base
  <2> QED BY <2>1, <2>2, <2>3, <2>4, <2>5, <2>6 DEF Base
<1>3. ASSUME NEW p \in Processes, LockFlock(p) PROVE Base'
  <2>1. Counts' BY <1>n, <1>3, NothingAdded DEF LockFlock, Goto, MayAdd, Base
  <2>2. holder' \in Seq(Processes \cup {NoProcess}) /\ Len(holder') = Len(holder)
    <3>1. \A i \in DOMAIN holder : holder[i] \in Processes \cup {NoProcess} BY DEF Base
    <3>2. DOMAIN holder = 1..Len(holder) /\ Len(holder) \in Nat BY DEF Base
    <3>3. holder' \in [1..Len(holder) -> Processes \cup {NoProcess}]
      BY <1>3, <3>1, <3>2 DEF LockFlock
    <3> QED BY <3>2, <3>3
  <2> QED BY <1>3, <2>1, <2>2 DEF LockFlock, Goto, Base, Labels
<1>4. ASSUME NEW p \in Processes, MethodUnlock(p) PROVE Base'
  <2>1. Counts' BY <1>n, <1>4, NothingAdded DEF MethodUnlock, Goto, MayAdd, Base
  <2>2. Release(p) \/ UNCHANGED <<holder, fd>> BY <1>4 DEF MethodUnlock, Unlocks
  <2> QED BY <1>4, <2>1, <2>2, Released DEF MethodUnlock, Goto, Base, Labels
<1>5. ASSUME NEW p \in Processes, Lock(p) PROVE Base'
  <2>1. Counts' BY <1>n, <1>5, NothingAdded DEF Lock, Goto, MayAdd, Base
  <2> QED BY <1>5, <2>1 DEF Lock, Goto, Base, Labels
<1>6. ASSUME NEW p \in Processes, Unlock(p) PROVE Base'
  <2>1. Counts' BY <1>n, <1>6, NothingAdded DEF Unlock, MayAdd, Base
  <2> QED BY <1>6, <2>1, Released DEF Unlock, Base
<1>7. ASSUME NEW p \in Processes, Read(p) PROVE Base'
  <2>1. Counts' BY <1>n, <1>7, NothingAdded DEF Read, Goto, MayAdd, Base
  <2> QED BY <1>7, <2>1, LinesKnown DEF Read, Goto, Base, Labels
<1>8. ASSUME NEW p \in Processes, NEW lines \in Seq(1..(added + 1)), NEW label \in {"idle", "unlock", "rest"},
             Add, Write(lines), MayAdd(p), pc' = [pc EXCEPT ![p] = label],
             UNCHANGED <<session, op, calls, fd, extended, copy, cleared, taken>>
      PROVE  Base'
  <2>1. Counts' BY <1>n, <1>8, OneAdded DEF MayAdd, Base
  <2>2. added' = added + 1 /\ added' \in Nat BY <1>n, <1>8 DEF Add
  <2>3. /\ content' \in Seq(Seq(1..added')) /\ Len(content') >= Len(content) /\ path' = Len(content')
        /\ holder' \in Seq(Processes \cup {NoProcess}) /\ Len(holder') = Len(content')
    <3>1. added <= added' BY <1>n, <2>2
    <3> QED BY <1>8, <2>2, <3>1, Written
  <2>g. /\ Seq(1..added) \subseteq Seq(1..added')
        /\ Seq([value : 0..added, left : Nat]) \subseteq Seq([value : 0..added', left : Nat])
    <3>1. added <= added' BY <1>n, <2>2
    <3> QED BY <1>n, <2>2, <3>1, Grows
  <2>4. copy' \in [Processes -> Seq(1..added')] BY <1>8, <2>g DEF Base
  <2>5. taken' \in Seq([value : 0..added', left : Nat]) BY <1>8, <2>g DEF Base
  <2>6. fd' \in [Processes -> 0..Len(content')] /\ Len(content') > 0
    <3>1. Len(content) \in Nat \ {0} /\ Len(content') \in Nat BY <2>3 DEF Base
    <3>2. 0..Len(content) \subseteq 0..Len(content') BY <2>3, <3>1
    <3> QED BY <1>8, <2>3, <3>1, <3>2 DEF Base
  <2>7. pc' \in [Processes -> Labels] BY <1>8 DEF Base, Labels
  <2> QED BY <1>8, <2>1, <2>3, <2>4, <2>5, <2>6, <2>7 DEF Base
<1>9. ASSUME NEW p \in Processes, Push(p) PROVE Base'
  <2>1. Append(Lines, added + 1) \in Seq(1..(added + 1))
    <3>1. Lines \in Seq(1..(added + 1)) BY <1>n, LinesKnown, Grows
    <3> QED BY <1>n, <3>1, AppendProperties
  <2> QED BY <1>8, <1>9, <2>1 DEF Push, Goto, MayAdd, Body
<1>10. ASSUME NEW p \in Processes, InsertAppend(p) PROVE Base'
  <2>1. Append(Lines, added + 1) \in Seq(1..(added + 1))
    <3>1. Lines \in Seq(1..(added + 1)) BY <1>n, LinesKnown, Grows
    <3> QED BY <1>n, <3>1, AppendProperties
  <2> QED BY <1>8, <1>10, <2>1 DEF InsertAppend, Goto, MayAdd, Body
<1>11. ASSUME NEW p \in Processes, InsertRewrite(p) PROVE Base'
  <2>1. Append(Lines, added + 1) \in Seq(1..(added + 1))
    <3>1. Lines \in Seq(1..(added + 1)) BY <1>n, LinesKnown, Grows
    <3> QED BY <1>n, <3>1, AppendProperties
  <2> QED BY <1>8, <1>11, <2>1 DEF InsertRewrite, Goto, MayAdd, Body
\* A write that adds nothing.
<1>w. ASSUME NEW lines \in Seq(1..added), Write(lines), UNCHANGED <<session, op, calls, fd, extended, added, taken>>,
             Counts', pc' \in [Processes -> Labels], copy' \in [Processes -> Seq(1..added)]
      PROVE  Base'
  <2>1. /\ content' \in Seq(Seq(1..added)) /\ Len(content') >= Len(content) /\ path' = Len(content')
        /\ holder' \in Seq(Processes \cup {NoProcess}) /\ Len(holder') = Len(content')
    <3>1. added' = added /\ added' \in Nat /\ added <= added' BY <1>n, <1>w
    <3> QED BY <1>w, <3>1, Written
  <2>2. fd' \in [Processes -> 0..Len(content')] /\ Len(content') > 0
    <3>1. Len(content) \in Nat \ {0} /\ Len(content') \in Nat BY <2>1 DEF Base
    <3>2. 0..Len(content) \subseteq 0..Len(content') BY <2>1, <3>1
    <3> QED BY <1>w, <2>1, <3>1, <3>2 DEF Base
  <2> QED BY <1>w, <2>1, <2>2 DEF Base
<1>12. ASSUME NEW p \in Processes, Clear(p) PROVE Base'
  <2>1. Counts' BY <1>n, <1>12, NothingAdded DEF Clear, Goto, MayAdd, Base
  <2>2. pc' \in [Processes -> Labels] BY <1>12 DEF Clear, Goto, Base, Labels
  <2> QED BY <1>12, <1>w, <2>1, <2>2, EmptySeq DEF Clear, Base
<1>13. ASSUME NEW p \in Processes, TakeValue(p) PROVE Base'
  <2>1. Counts' BY <1>n, <1>13, NothingAdded DEF TakeValue, Goto, MayAdd, Base
  <2>2. taken' \in Seq([value : 0..added, left : Nat])
    BY <1>13, ValueKnown, Took DEF TakeValue
  <2> QED BY <1>13, <2>1, <2>2 DEF TakeValue, Goto, Base, Labels
<1>14. ASSUME NEW p \in Processes, TakeNothing(p) PROVE Base'
  <2>1. Counts' BY <1>n, <1>14, NothingAdded DEF TakeNothing, Goto, MayAdd, Base
  <2>2. taken' \in Seq([value : 0..added, left : Nat])
    <3>1. 0 \in 0..added /\ taken' = Append(taken, [value |-> 0, left |-> Len(Lines)])
      BY <1>n, <1>14 DEF TakeNothing
    <3> QED BY <3>1, Took
  <2> QED BY <1>14, <2>1, <2>2 DEF TakeNothing, Goto, Base, Labels
<1>15. ASSUME NEW p \in Processes, TakeNothingArray(p) PROVE Base'
  <2>1. Counts' BY <1>n, <1>15, NothingAdded DEF TakeNothingArray, Goto, MayAdd, Base
  <2>2. taken' \in Seq([value : 0..added, left : Nat])
    <3>1. 0 \in 0..added /\ taken' = Append(taken, [value |-> 0, left |-> Len(Lines)])
      BY <1>n, <1>15 DEF TakeNothingArray
    <3> QED BY <3>1, Took
  <2>3. Release(p) \/ UNCHANGED <<holder, fd>> BY <1>15 DEF TakeNothingArray
  <2> QED BY <1>15, <2>1, <2>2, <2>3, Released DEF TakeNothingArray, Goto, Base, Labels
<1>16. ASSUME NEW p \in Processes, SedRead(p) PROVE Base'
  <2>1. Counts' BY <1>n, <1>16, NothingAdded DEF SedRead, Goto, MayAdd, Base
  <2> QED BY <1>16, <2>1, LinesKnown DEF SedRead, Goto, Base, Labels
<1>17. ASSUME NEW p \in Processes, SedRename(p) PROVE Base'
  <2>1. Counts' BY <1>n, <1>17, NothingAdded DEF SedRename, Goto, MayAdd, Base
  <2>2. Create(Left(p)) /\ Left(p) \in Seq(1..added) BY <1>17, LeftIsLines DEF SedRename, Left
  <2>3. /\ content' \in Seq(Seq(1..added)) /\ Len(content') = Len(content) + 1
        /\ path' = Len(content')
        /\ holder' \in Seq(Processes \cup {NoProcess}) /\ Len(holder') = Len(content')
    <3>1. added' = added /\ added' \in Nat /\ added <= added' BY <1>n, <1>17 DEF SedRename
    <3> QED BY <2>2, <3>1, Created
  <2>4. Len(content) \in Nat BY DEF Base
  <2>5. fd' \in [Processes -> 0..Len(content')] BY <1>17, <2>3, <2>4 DEF SedRename, Base
  <2>6. Len(content') > 0 BY <2>3, <2>4
  <2>7. pc' \in [Processes -> Labels] BY <1>17 DEF SedRename, Goto, Base, Labels
  <2>8. UNCHANGED <<session, op, calls, extended, copy, added, taken>> BY <1>17 DEF SedRename
  <2> QED BY <2>1, <2>3, <2>5, <2>6, <2>7, <2>8 DEF Base
<1>18. ASSUME NEW p \in Processes, InsertSize(p) PROVE Base'
  <2>1. Counts' BY <1>n, <1>18, NothingAdded DEF InsertSize, Body, Goto, MayAdd, Base
  <2>2. Release(p) \/ UNCHANGED <<holder, fd>> BY <1>18 DEF InsertSize, Unlocks
  <2> QED BY <1>18, <2>1, <2>2, Released DEF InsertSize, Goto, Base, Labels
<1>19. ASSUME NEW p \in Processes, InsertCopy(p) PROVE Base'
  <2>1. Counts' BY <1>n, <1>19, NothingAdded DEF InsertCopy, Goto, MayAdd, Base
  <2> QED BY <1>19, <2>1, LinesKnown DEF InsertCopy, Goto, Base, Labels
<1>20. ASSUME NEW p \in Processes, InsertTruncate(p) PROVE Base'
  <2>1. Counts' BY <1>n, <1>20, NothingAdded DEF InsertTruncate, Goto, MayAdd, Base
  <2>2. pc' \in [Processes -> Labels] BY <1>20 DEF InsertTruncate, Goto, Base, Labels
  <2> QED BY <1>20, <1>w, <2>1, <2>2, EmptySeq DEF InsertTruncate, Base
<1>22. ASSUME NEW p \in Processes, InsertRest(p) PROVE Base'
  <2>1. Counts' BY <1>n, <1>22, NothingAdded DEF InsertRest, MayAdd, Base
  <2>2. copy[p] \in Seq(1..added) /\ copy[p] # <<>> BY <1>22 DEF InsertRest, Base
  <2>3. Head(copy[p]) \in 1..added /\ Tail(copy[p]) \in Seq(1..added) BY <2>2, HeadTailProperties
  <2>4. Append(Lines, Head(copy[p])) \in Seq(1..added) BY <2>3, LinesKnown, AppendProperties
  <2>5. copy' \in [Processes -> Seq(1..added)] BY <1>22, <2>3 DEF InsertRest, Base
  <2>6. pc' \in [Processes -> Labels] BY <1>22 DEF InsertRest, Base
  <2> QED BY <1>22, <1>w, <2>1, <2>4, <2>5, <2>6 DEF InsertRest
<1>23. ASSUME NEW p \in Processes, InsertDone(p) PROVE Base'
  <2>1. Counts' BY <1>n, <1>23, NothingAdded DEF InsertDone, Goto, MayAdd, Base
  <2> QED BY <1>23, <2>1 DEF InsertDone, Goto, Base, Labels
<1>24. ASSUME NEW p \in Processes, SedBackup(p) PROVE Base'
  <2>1. Counts' BY <1>n, <1>24, NothingAdded DEF SedBackup, Goto, MayAdd, Base
  <2> QED BY <1>24, <2>1 DEF SedBackup, Goto, Base, Labels
<1>25. ASSUME NEW p \in Processes, SizeFirst(p) PROVE Base'
  <2>1. Counts' BY <1>n, <1>25, NothingAdded DEF SizeFirst, Goto, MayAdd, Base
  <2>2. Release(p) \/ UNCHANGED <<holder, fd>> BY <1>25 DEF SizeFirst, Unlocks
  <2>3. op' \in [Processes -> Operations \cup {"read", "slice_end", "inserting"}]
    BY <1>25 DEF SizeFirst, AfterSize, Base
  <2> QED BY <1>25, <2>1, <2>2, <2>3, Released DEF SizeFirst, Goto, Base, Labels
<1>26. ASSUME NEW p \in Processes, OutOfBounds(p) PROVE Base'
  <2>1. Counts' BY <1>n, <1>26, NothingAdded DEF OutOfBounds, Goto, MayAdd, Base
  <2>2. Release(p) \/ UNCHANGED <<holder, fd>> BY <1>26 DEF OutOfBounds, Unlocks
  <2> QED BY <1>26, <2>1, <2>2, Released DEF OutOfBounds, Goto, Base, Labels
<1>21. CASE UNCHANGED vars
  BY <1>21, SpentFinite DEF vars, Base, Counts, Spent, MayAdd
<1> QED
  BY <1>1, <1>2, <1>3, <1>4, <1>5, <1>6, <1>7, <1>9, <1>10, <1>11, <1>12, <1>13, <1>14,
     <1>15, <1>16, <1>17, <1>18, <1>19, <1>20, <1>21, <1>22, <1>23, <1>24, <1>25, <1>26
  DEF Next, Step, Locking, Sizing, Taking, Inserting

--------------------------------------------------------------------------------
\* The process is between flock and the release of what it locked.
Keeps(p) == pc[p] \in {"body", "unlock"} \/ extended[p]

\* In the first way there is one file, which holds every element since the last clear, and
\* its lock is held by exactly the process that is past flock or keeps an extended lock.
PlainInv ==
    /\ Len(content) = 1 /\ path = 1 /\ taken = <<>>
    /\ \A p \in Processes :
          /\ pc[p] \in {"idle", "open", "flock", "body", "unlock"}
          /\ op[p] \in PlainMethods \cup {"slice_end"}
          /\ holder[1] = p <=> Keeps(p)
          /\ fd[p] = 1 <=> Keeps(p) \/ pc[p] = "flock"
          /\ extended[p] => pc[p] \in {"idle", "body", "unlock"}
    /\ Len(Lines) <= added
    /\ \A e \in cleared + 1..added : \E i \in 1..Len(Lines) : Lines[i] = e

Taken(e) == \E i \in 1..Len(taken) : taken[i].value = e

\* Where some of the elements are only in the process's copy of the file.
Copied == {"rename", "rewrite", "rest"}

\* The line of those that it read which sed is to delete.
Doomed(p) == copy[p][IF op[p] = "dequeue" THEN 1 ELSE Len(copy[p])]

\* In the second way the others do nothing, and q may have a part of the elements in its
\* hands: the one that sed is about to delete was echoed already, sed has read the file
\* before it renames it, and insert has copied the elements before it truncates the file.
AloneInv(q) ==
    /\ \A p \in Processes \ {q} : pc[p] = "idle" /\ fd[p] = 0 /\ ~extended[p]
    /\ path = 0 => pc[q] = "rename"
    /\ pc[q] = "rename" => Lines = <<>>
    /\ pc[q] \in {"sed", "backup", "rename"} => op[q] \in {"dequeue", "pop", "array_pop"}
    /\ pc[q] \in {"sed", "backup"} => Lines # <<>> /\ Taken(Lines[Chosen(q)])
    /\ pc[q] = "rename" => copy[q] # <<>> /\ Taken(Doomed(q))
    /\ pc[q] \in {"append", "copy", "truncate", "rewrite", "rest"} => op[q] = "inserting"
    /\ pc[q] \in {"backup", "truncate"} => copy[q] = Lines
    /\ pc[q] = "rewrite" => Lines = <<>>
    /\ pc[q] \in Copied => Len(Lines) + Len(copy[q]) <= added
    /\ Len(Lines) <= added
    /\ \A i \in 1..Len(taken) : taken[i].left <= added
    /\ \A e \in cleared + 1..added :
          \/ \E i \in 1..Len(Lines) : Lines[i] = e
          \/ Taken(e)
          \/ pc[q] \in Copied /\ \E i \in 1..Len(copy[q]) : copy[q][i] = e
    /\ Len(content) = 1 =>
          /\ holder[1] = q <=> fd[q] = 1 /\ pc[q] # "flock"
          /\ holder[1] \in {q, NoProcess}
          /\ pc[q] = "open" => fd[q] = 0
          /\ pc[q] \in {"flock", "body", "sed", "backup", "rename"} => fd[q] = 1

SafeInv ==
    /\ Base /\ SafeUse(session)
    /\ Plain(session) => PlainInv
    /\ \A q \in Processes : OnlyOne(session, q) => AloneInv(q)

\* Only the session's methods run.
LEMMA Called ==
    ASSUME Base, NEW p \in Processes, NEW o \in Operations, Call(p, o)
    PROVE  /\ o \in session[p].operations \ {"unlock"}
           /\ session[p].calls > 0
<1>1. session[p].calls \in Nat /\ calls[p] \in Nat /\ calls[p] < session[p].calls
  BY SharedAssumption DEF Base, Call
<1> QED BY <1>1 DEF Call

LEMMA PlainNext ==
    ASSUME Base, Base', Plain(session), PlainInv, [Next]_vars
    PROVE  PlainInv'
<1>a. NoProcess \notin Processes BY SharedAssumption
<1>b. /\ Len(content) = 1 /\ path = 1 /\ Len(holder) = 1 /\ fd \in [Processes -> {0, 1}]
      /\ holder = [i \in {1} |-> holder[1]] /\ 1 \in DOMAIN holder
      /\ added \in Nat /\ cleared \in 0..added
  BY DEF PlainInv, Base, Counts
<1>c. Lines \in Seq(1..added) /\ Len(Lines) \in Nat BY LinesKnown
\* What the lock says, apart from the elements.
<1> DEFINE Lock1 ==
      /\ Len(content) = 1 /\ path = 1 /\ taken = <<>>
      /\ \A p \in Processes :
            /\ pc[p] \in {"idle", "open", "flock", "body", "unlock"}
            /\ op[p] \in PlainMethods \cup {"slice_end"}
            /\ holder[1] = p <=> Keeps(p)
            /\ fd[p] = 1 <=> Keeps(p) \/ pc[p] = "flock"
            /\ extended[p] => pc[p] \in {"idle", "body", "unlock"}
    Elements ==
      /\ Len(Lines) <= added
      /\ \A e \in cleared + 1..added : \E i \in 1..Len(Lines) : Lines[i] = e
<1>d. Lock1 /\ Elements BY DEF PlainInv
<1>e. Lock1' /\ Elements' => PlainInv' BY DEF PlainInv
<1>f. UNCHANGED <<content, path, added, cleared>> => Elements' BY <1>d DEF Lines
<1> HIDE DEF Elements
<1>1. ASSUME NEW p \in Processes, NEW o \in Operations, Call(p, o) PROVE PlainInv'
  <2>1. o \in PlainMethods BY <1>1, Called DEF Plain
  <2>2. Lock1' BY <1>1, <1>b, <1>d, <2>1 DEF Call, Goto, Keeps, Base
  <2> QED BY <1>1, <1>e, <1>f, <2>2 DEF Call
<1>2. ASSUME NEW p \in Processes, LockOpen(p) PROVE PlainInv'
  <2>1. UNCHANGED <<path, content, holder>> BY <1>2, <1>b DEF LockOpen
  <2>2. Lock1' BY <1>2, <1>b, <1>d, <2>1 DEF LockOpen, Goto, Keeps, Base
  <2> QED BY <1>2, <1>e, <1>f, <2>1, <2>2 DEF LockOpen
\* Nobody else keeps the lock: the holder is NoProcess.
<1>3. ASSUME NEW p \in Processes, LockFlock(p) PROVE PlainInv'
  <2>1. fd[p] = 1 BY <1>3, <1>b, <1>d DEF LockFlock
  <2>2. \A q \in Processes : ~Keeps(q) BY <1>3, <1>a, <1>d, <2>1 DEF LockFlock
  <2>3. holder'[1] = p BY <1>3, <1>b, <2>1 DEF LockFlock
  <2>4. Lock1' BY <1>3, <1>b, <1>d, <2>1, <2>2, <2>3 DEF LockFlock, Goto, Keeps, Base
  <2> QED BY <1>3, <1>e, <1>f, <2>4 DEF LockFlock
<1>4. ASSUME NEW p \in Processes, MethodUnlock(p) PROVE PlainInv'
  <2>1. CASE extended[p]
    <3>1. UNCHANGED <<holder, fd>> BY <1>4, <2>1 DEF MethodUnlock, Unlocks
    <3>2. Lock1' BY <1>4, <1>d, <2>1, <3>1 DEF MethodUnlock, Goto, Keeps, Base
    <3> QED BY <1>4, <1>e, <1>f, <3>2 DEF MethodUnlock
  <2>2. CASE ~extended[p]
    <3>1. fd[p] = 1 /\ holder[1] = p BY <1>4, <1>d DEF MethodUnlock, Keeps
    <3>2. Release(p) BY <1>4, <2>2, <3>1 DEF MethodUnlock, Unlocks
    <3>3. holder'[1] = NoProcess BY <1>b, <3>1, <3>2 DEF Release
    <3>4. Lock1'
      BY <1>4, <1>a, <1>b, <1>d, <2>2, <3>1, <3>2, <3>3 DEF MethodUnlock, Release, Goto, Keeps, Base
    <3> QED BY <1>4, <1>e, <1>f, <3>4 DEF MethodUnlock
  <2> QED BY <2>1, <2>2
<1>5. ASSUME NEW p \in Processes, Lock(p) PROVE PlainInv'
  <2>1. Lock1' BY <1>5, <1>d DEF Lock, Goto, Keeps, Base
  <2> QED BY <1>5, <1>e, <1>f, <2>1 DEF Lock
<1>6. ASSUME NEW p \in Processes, Unlock(p) PROVE PlainInv'
  <2>1. fd[p] = 1 /\ holder[1] = p BY <1>6, <1>d DEF Unlock, Keeps
  <2>2. holder'[1] = NoProcess BY <1>6, <1>b, <2>1 DEF Unlock, Release
  <2>3. Lock1' BY <1>6, <1>a, <1>b, <1>d, <2>1, <2>2 DEF Unlock, Release, Keeps, Base
  <2> QED BY <1>6, <1>e, <1>f, <2>3 DEF Unlock
<1>7. ASSUME NEW p \in Processes, Read(p) PROVE PlainInv'
  <2>1. Lock1' BY <1>7, <1>d DEF Read, Body, Goto, Keeps, Base
  <2> QED BY <1>7, <1>e, <1>f, <2>1 DEF Read
<1>8. ASSUME NEW p \in Processes, Push(p) PROVE PlainInv'
  <2>1. added' = added + 1 /\ Lines \in Seq(1..added') /\ Append(Lines, added + 1) \in Seq(1..added')
    <3>1. added' = added + 1 BY <1>8 DEF Push, Add
    <3>2. Lines \in Seq(1..added') BY <1>b, <1>c, <3>1, Grows
    <3> QED BY <1>b, <3>1, <3>2, AppendProperties
  <2>2. /\ Lines' = Append(Lines, added + 1) /\ Len(content') = 1
        /\ UNCHANGED <<path, holder>>
    <3>1. Write(Append(Lines, added + 1)) BY <1>8 DEF Push
    <3>2. added' \in Nat /\ added <= added' BY <1>b, <2>1
    <3>3. path # 0 BY <1>b
    <3>4. /\ Lines' = Append(Lines, added + 1) /\ Len(content') = Len(content)
          /\ path' = path /\ holder' = holder
      BY <2>1, <3>1, <3>2, <3>3, WrittenInPlace
    <3> QED BY <1>b, <3>4
  <2>3. /\ Len(Lines') = Len(Lines) + 1 /\ Lines'[Len(Lines) + 1] = added + 1
        /\ \A i \in 1..Len(Lines) : Lines'[i] = Lines[i]
    BY <1>b, <2>1, <2>2, AppendProperties
  <2>4. Elements'
    <3>1. Len(Lines') <= added' BY <1>b, <1>c, <1>d, <2>1, <2>3 DEF Elements
    <3>2. ASSUME NEW e \in cleared' + 1..added' PROVE \E i \in 1..Len(Lines') : Lines'[i] = e
      <4>1. cleared' = cleared BY <1>8 DEF Push
      <4>2. CASE e = added + 1 BY <1>c, <2>3, <4>2
      <4>3. CASE e # added + 1
        <5>1. e \in cleared + 1..added BY <1>b, <2>1, <4>1, <4>3
        <5>2. PICK i \in 1..Len(Lines) : Lines[i] = e BY <1>d, <5>1 DEF Elements
        <5> QED BY <1>c, <2>3, <5>2
      <4> QED BY <4>2, <4>3
    <3> QED BY <3>1, <3>2 DEF Elements
  <2>5. Lock1' BY <1>8, <1>d, <2>2 DEF Push, Body, Goto, Keeps, Base
  <2> QED BY <1>e, <2>4, <2>5
<1>9. ASSUME NEW p \in Processes, Clear(p) PROVE PlainInv'
  <2>1. added' = added /\ cleared' = added /\ Write(<<>>) BY <1>9 DEF Clear
  <2>2. Lines' = <<>> /\ Len(content') = 1 /\ UNCHANGED <<path, holder>>
    <3>1. added' \in Nat /\ added <= added' /\ <<>> \in Seq(1..added') BY <1>b, <2>1, EmptySeq
    <3>2. path # 0 BY <1>b
    <3>3. Lines' = <<>> /\ Len(content') = Len(content) /\ path' = path /\ holder' = holder
      BY <2>1, <3>1, <3>2, WrittenInPlace
    <3> QED BY <1>b, <3>3
  <2>3. Elements' BY <1>b, <2>1, <2>2 DEF Elements
  <2>4. Lock1' BY <1>9, <1>d, <2>2 DEF Clear, Body, Goto, Keeps, Base
  <2> QED BY <1>e, <2>3, <2>4
\* size, called before the lock is taken.
<1>12. ASSUME NEW p \in Processes, SizeFirst(p) PROVE PlainInv'
  <2>1. /\ op' = [op EXCEPT ![p] = AfterSize[op[p]]] /\ op[p] \in {"at", "slice", "slice_end"}
        /\ fd[p] = 1 /\ holder[1] = p
    BY <1>12, <1>d DEF SizeFirst, AfterSize, Keeps, PlainMethods
  <2>2. \A q \in Processes : op'[q] \in PlainMethods \cup {"slice_end"}
    <3>1. AfterSize[op[p]] \in {"read", "slice_end"} BY <2>1 DEF AfterSize
    <3> QED BY <1>d, <2>1, <3>1 DEF PlainMethods, Base
  <2>3. CASE extended[p]
    <3>1. UNCHANGED <<holder, fd>> BY <1>12, <2>3 DEF SizeFirst, Unlocks
    <3>2. pc' = [pc EXCEPT ![p] = "body"]
      <4>1. fd'[p] # 0 BY <2>1, <3>1
      <4> QED BY <1>12, <4>1 DEF SizeFirst, Goto
    <3>3. Lock1' BY <1>12, <1>d, <2>2, <2>3, <3>1, <3>2 DEF SizeFirst, Keeps, Base
    <3> QED BY <1>12, <1>e, <1>f, <3>3 DEF SizeFirst
  <2>4. CASE ~extended[p]
    <3>1. Release(p) BY <1>12, <2>1, <2>4 DEF SizeFirst, Unlocks
    <3>2. holder'[1] = NoProcess BY <1>b, <2>1, <3>1 DEF Release
    <3>3. fd' = [fd EXCEPT ![p] = 0] /\ pc' = [pc EXCEPT ![p] = "open"]
      BY <1>12, <3>1 DEF SizeFirst, Release, Goto, Base
    <3>4. Lock1' BY <1>12, <1>a, <1>b, <1>d, <2>1, <2>2, <2>4, <3>2, <3>3 DEF SizeFirst, Keeps, Base
    <3> QED BY <1>12, <1>e, <1>f, <3>4 DEF SizeFirst
  <2> QED BY <2>3, <2>4
<1>13. ASSUME NEW p \in Processes, OutOfBounds(p) PROVE PlainInv'
  <2>1. fd[p] = 1 /\ holder[1] = p BY <1>13, <1>d DEF OutOfBounds, Keeps
  <2>2. CASE extended[p]
    <3>1. UNCHANGED <<holder, fd>> BY <1>13, <2>2 DEF OutOfBounds, Unlocks
    <3>2. Lock1' BY <1>13, <1>d, <2>2, <3>1 DEF OutOfBounds, Goto, Keeps, Base
    <3> QED BY <1>13, <1>e, <1>f, <3>2 DEF OutOfBounds
  <2>3. CASE ~extended[p]
    <3>1. Release(p) BY <1>13, <2>1, <2>3 DEF OutOfBounds, Unlocks
    <3>2. holder'[1] = NoProcess BY <1>b, <2>1, <3>1 DEF Release
    <3>3. Lock1'
      BY <1>13, <1>a, <1>b, <1>d, <2>1, <2>3, <3>1, <3>2 DEF OutOfBounds, Release, Goto, Keeps, Base
    <3> QED BY <1>13, <1>e, <1>f, <3>3 DEF OutOfBounds
  <2> QED BY <2>2, <2>3
\* The methods that Plain excludes never start.
<1>10. ASSUME NEW p \in Processes, Taking(p) \/ Inserting(p) PROVE FALSE
  <2>1. op[p] \notin {"dequeue", "pop", "array_pop", "inserting"} BY <1>d DEF PlainMethods
  <2>2. pc[p] \notin {"sed", "backup", "rename", "append", "copy", "truncate", "rewrite", "rest"}
    BY <1>d
  <2>3. ~Taking(p)
    BY <2>1, <2>2
    DEF Taking, TakeValue, TakeNothing, TakeNothingArray, SedRead, SedBackup, SedRename, Body
  <2>4. ~Inserting(p)
    BY <2>1, <2>2
    DEF Inserting, InsertSize, InsertAppend, InsertCopy, InsertTruncate, InsertRewrite, InsertRest,
        InsertDone, Body
  <2> QED BY <1>10, <2>3, <2>4
<1>11. CASE UNCHANGED vars BY <1>11 DEF vars, PlainInv, Lines, Keeps
<1> QED
  BY <1>1, <1>2, <1>3, <1>4, <1>5, <1>6, <1>7, <1>8, <1>9, <1>10, <1>11, <1>12, <1>13
  DEF Next, Step, Locking, Sizing

LEMMA AloneNext ==
    ASSUME Base, Base', NEW q \in Processes, OnlyOne(session, q), AloneInv(q), [Next]_vars
    PROVE  AloneInv(q)'
<1>a. NoProcess \notin Processes BY SharedAssumption
<1>b. added \in Nat /\ cleared \in 0..added /\ Len(content) \in Nat \ {0} BY DEF Base, Counts
<1>c. Lines \in Seq(1..added) /\ Len(Lines) \in Nat /\ copy[q] \in Seq(1..added) BY LinesKnown DEF Base
<1>h. \A i \in 1..Len(taken) : taken[i].left \in Nat
  <2>1. taken \in Seq([value : 0..added, left : Nat]) BY DEF Base
  <2>2. \A i \in 1..Len(taken) : taken[i] \in [value : 0..added, left : Nat]
    BY <2>1, ElementOfSeq
  <2> QED BY <2>2
\* The four parts of the invariant: the others, the place of q in its method,
\* the elements and the lock.
<1> DEFINE
      Others == \A p \in Processes \ {q} : pc[p] = "idle" /\ fd[p] = 0 /\ ~extended[p]
      Method ==
        /\ path = 0 => pc[q] = "rename"
        /\ pc[q] = "rename" => Lines = <<>>
        /\ pc[q] \in {"sed", "backup", "rename"} => op[q] \in {"dequeue", "pop", "array_pop"}
        /\ pc[q] \in {"sed", "backup"} => Lines # <<>> /\ Taken(Lines[Chosen(q)])
        /\ pc[q] = "rename" => copy[q] # <<>> /\ Taken(Doomed(q))
        /\ pc[q] \in {"append", "copy", "truncate", "rewrite", "rest"} => op[q] = "inserting"
        /\ pc[q] \in {"backup", "truncate"} => copy[q] = Lines
        /\ pc[q] = "rewrite" => Lines = <<>>
        /\ pc[q] \in Copied => Len(Lines) + Len(copy[q]) <= added
      Somewhere(e) ==
        \/ \E i \in 1..Len(Lines) : Lines[i] = e
        \/ Taken(e)
        \/ pc[q] \in Copied /\ \E i \in 1..Len(copy[q]) : copy[q][i] = e
      Elements ==
        /\ Len(Lines) <= added
        /\ \A i \in 1..Len(taken) : taken[i].left <= added
        /\ \A e \in cleared + 1..added : Somewhere(e)
      Lock1 ==
        Len(content) = 1 =>
          /\ holder[1] = q <=> fd[q] = 1 /\ pc[q] # "flock"
          /\ holder[1] \in {q, NoProcess}
          /\ pc[q] = "open" => fd[q] = 0
          /\ pc[q] \in {"flock", "body", "sed", "backup", "rename"} => fd[q] = 1
<1>d. Others /\ Method /\ Elements /\ Lock1 BY DEF AloneInv
<1>e. Others' /\ Method' /\ Elements' /\ Lock1' => AloneInv(q)' BY DEF AloneInv
<1>f. UNCHANGED <<content, path, added, cleared, taken, copy>> /\ pc[q] \notin Copied => Elements'
  BY <1>d DEF Lines, Taken
<1>g. Len(content) = 1 =>
        /\ path \in {0, 1} /\ Len(holder) = 1 /\ DOMAIN holder = {1} /\ 1 \in DOMAIN holder
        /\ \A p \in Processes : fd[p] \in {0, 1}
  BY DEF Base
<1> HIDE DEF Elements
\* Nobody else moves.
<1>1. ASSUME NEW p \in Processes \ {q}, Step(p) \/ \E o \in Operations : Call(p, o) PROVE FALSE
  <2>1. pc[p] = "idle" /\ ~extended[p] BY <1>d
  <2>2. ~Step(p)
    BY <2>1 DEF Step, Locking, Sizing, Taking, Inserting, LockOpen, LockFlock, MethodUnlock, Lock,
       Unlock, SizeFirst, OutOfBounds, Read, Push, Clear, TakeValue, TakeNothing, TakeNothingArray,
       SedRead, SedBackup, SedRename, InsertSize, InsertAppend, InsertCopy, InsertTruncate,
       InsertRewrite, InsertRest, InsertDone, Body
  <2>3. ASSUME NEW o \in Operations, Call(p, o) PROVE FALSE BY <2>3, Called DEF OnlyOne
  <2> QED BY <1>1, <2>2, <2>3
<1>2. ASSUME NEW o \in Operations, Call(q, o) PROVE AloneInv(q)'
  <2>1. Others' BY <1>2, <1>d DEF Call, Goto, Base
  <2>2. Method' BY <1>2, <1>d DEF Call, Goto, Base, Copied, Doomed
  <2>3. Lock1' BY <1>2, <1>d, <1>g DEF Call, Goto, Base
  <2>4. pc[q] \notin Copied BY <1>2 DEF Call, Copied
  <2> QED BY <1>2, <1>e, <1>f, <2>1, <2>2, <2>3, <2>4 DEF Call
<1>3. CASE LockOpen(q)
  <2>0. UNCHANGED <<path, content, holder>> BY <1>3, <1>d DEF LockOpen
  <2>1. Others' BY <1>3, <1>d DEF LockOpen, Goto, Base
  <2>2. Method' BY <1>3, <1>d DEF LockOpen, Goto, Copied, Base
  <2>3. Lock1' BY <1>3, <1>d, <1>g, <2>0 DEF LockOpen, Goto, Base
  <2>4. pc[q] \notin Copied BY <1>3 DEF LockOpen, Copied
  <2> QED BY <1>3, <1>e, <1>f, <2>0, <2>1, <2>2, <2>3, <2>4 DEF LockOpen
<1>4. CASE LockFlock(q)
  <2>1. Others' BY <1>4, <1>d DEF LockFlock, Goto, Base
  <2>2. Method' BY <1>4, <1>d DEF LockFlock, Goto, Base, Copied, Doomed
  <2>3. Lock1'
    <3>1. CASE Len(content) = 1
      <4>1. fd[q] = 1 /\ holder'[1] = q /\ pc'[q] = "body" /\ UNCHANGED fd
        BY <1>4, <1>d, <1>g, <3>1 DEF LockFlock, Goto, Base
      <4> QED BY <4>1
    <3>2. CASE Len(content) # 1 BY <1>4, <3>2 DEF LockFlock
    <3> QED BY <3>1, <3>2
  <2>4. pc[q] \notin Copied BY <1>4 DEF LockFlock, Copied
  <2> QED BY <1>4, <1>e, <1>f, <2>1, <2>2, <2>3, <2>4 DEF LockFlock
\* What a release, or none, does to the lock.
<1>5. ASSUME Release(q) \/ UNCHANGED <<holder, fd>>, UNCHANGED content, pc[q] \in {"idle", "body", "unlock"},
             pc'[q] \notin {"open", "flock", "body", "sed", "backup", "rename"}
      PROVE  Lock1'
  <2>1. CASE Release(q) /\ Len(content) = 1
    <3>1. fd'[q] = 0 /\ holder'[1] = (IF fd[q] = 1 /\ holder[1] = q THEN NoProcess ELSE holder[1])
      BY <1>g, <2>1 DEF Release, Base
    <3>2. holder'[1] = NoProcess BY <1>5, <1>d, <2>1, <3>1
    <3> QED BY <1>5, <1>a, <3>1, <3>2
  <2>2. CASE UNCHANGED <<holder, fd>> BY <1>5, <1>d, <2>2
  <2> QED BY <1>5, <2>1, <2>2
<1>6. CASE MethodUnlock(q)
  <2>1. Release(q) \/ UNCHANGED <<holder, fd>> BY <1>6 DEF MethodUnlock, Unlocks
  <2>2. Others' BY <1>6, <1>d, <2>1 DEF MethodUnlock, Release, Goto, Base
  <2>3. Method' BY <1>6, <1>d DEF MethodUnlock, Goto, Base, Copied, Doomed
  <2>4. Lock1' BY <1>6, <1>5, <2>1 DEF MethodUnlock, Goto, Base
  <2>5. pc[q] \notin Copied BY <1>6 DEF MethodUnlock, Copied
  <2> QED BY <1>6, <1>e, <1>f, <2>2, <2>3, <2>4, <2>5 DEF MethodUnlock
<1>7. CASE Lock(q)
  <2>1. Others' BY <1>7, <1>d DEF Lock, Goto, Base
  <2>2. Method' BY <1>7, <1>d DEF Lock, Goto, Base, Copied, Doomed
  <2>3. Lock1' BY <1>7, <1>d, <1>g DEF Lock, Goto, Base
  <2>4. pc[q] \notin Copied BY <1>7 DEF Lock, Copied
  <2> QED BY <1>7, <1>e, <1>f, <2>1, <2>2, <2>3, <2>4 DEF Lock
<1>8. CASE Unlock(q)
  <2>1. Others' BY <1>8, <1>d DEF Unlock, Release, Base
  <2>2. Method' BY <1>8, <1>d DEF Unlock, Copied, Doomed
  <2>3. Lock1' BY <1>8, <1>5 DEF Unlock
  <2>4. pc[q] \notin Copied BY <1>8 DEF Unlock, Copied
  <2> QED BY <1>8, <1>e, <1>f, <2>1, <2>2, <2>3, <2>4 DEF Unlock
<1>9. CASE Read(q)
  <2>1. Others' BY <1>9, <1>d DEF Read, Body, Goto, Base
  <2>2. Method' BY <1>9, <1>d DEF Read, Body, Goto, Base, Copied, Doomed
  <2>3. Lock1' BY <1>9, <1>d, <1>g DEF Read, Body, Goto, Base
  <2>4. Elements' BY <1>9, <1>d DEF Elements, Read, Body, Goto, Base, Lines, Taken, Copied
  <2> QED BY <1>e, <2>1, <2>2, <2>3, <2>4

<1>10. ASSUME Add, Write(Append(Lines, added + 1)), pc[q] \notin Copied, UNCHANGED <<cleared, taken>>
       PROVE  Elements' /\ Len(content') = Len(content) /\ UNCHANGED <<path, holder>>
  <2>p. path # 0 BY <1>10, <1>d DEF Copied
  <2>1. added' = added + 1 /\ Lines \in Seq(1..added') /\ Append(Lines, added + 1) \in Seq(1..added')
    <3>1. added' = added + 1 BY <1>10 DEF Add
    <3>2. Lines \in Seq(1..added') BY <1>b, <1>c, <3>1, Grows
    <3> QED BY <1>b, <3>1, <3>2, AppendProperties
  <2>2. /\ Lines' = Append(Lines, added + 1) /\ Len(content') = Len(content)
        /\ UNCHANGED <<path, holder>>
    <3>1. added' \in Nat /\ added <= added' BY <1>b, <2>1
    <3> QED BY <1>10, <1>b, <2>1, <2>p, <3>1, WrittenInPlace
  <2>3. /\ Len(Lines') = Len(Lines) + 1 /\ Lines'[Len(Lines) + 1] = added + 1
        /\ \A i \in 1..Len(Lines) : Lines'[i] = Lines[i]
    BY <1>b, <2>1, <2>2, AppendProperties
  <2>4. Len(Lines') <= added' BY <1>b, <1>c, <1>d, <2>1, <2>3 DEF Elements
  <2>5. \A i \in 1..Len(taken') : taken'[i].left <= added'
    BY <1>10, <1>b, <1>d, <1>h, <2>1 DEF Elements
  <2>6. ASSUME NEW e \in cleared' + 1..added' PROVE Somewhere(e)'
    <3>1. CASE e = added + 1 BY <1>c, <2>3, <3>1
    <3>2. CASE e # added + 1
      <4>1. e \in cleared + 1..added BY <1>10, <1>b, <2>1, <3>2
      <4>2. Somewhere(e) BY <1>d, <4>1 DEF Elements
      <4>3. CASE \E i \in 1..Len(Lines) : Lines[i] = e BY <1>c, <2>3, <4>3
      <4>4. CASE Taken(e) BY <1>10, <4>4 DEF Taken
      <4> QED BY <1>10, <4>2, <4>3, <4>4
    <3> QED BY <3>1, <3>2
  <2> QED BY <2>2, <2>4, <2>5, <2>6 DEF Elements
<1>11. CASE Push(q)
  <2>1. Others' BY <1>11, <1>d DEF Push, Body, Goto, Base
  <2>3. Elements' /\ Len(content') = Len(content) /\ UNCHANGED <<path, holder>>
    BY <1>10, <1>11 DEF Push, Body, Copied
  <2>2. Method' BY <1>11, <1>d, <2>3 DEF Push, Body, Goto, Base, Copied, Doomed
  <2>4. Lock1' BY <1>11, <1>d, <1>g, <2>3 DEF Push, Body, Goto, Base
  <2> QED BY <1>e, <2>1, <2>2, <2>3, <2>4
\* Lines that are emptied.
<1>12. ASSUME Write(<<>>), UNCHANGED added, pc[q] # "rename"
       PROVE  /\ Lines' = <<>> /\ Len(Lines') = 0 /\ Len(content') = Len(content)
              /\ UNCHANGED <<path, holder>>
  <2>1. added' \in Nat /\ added <= added' /\ <<>> \in Seq(1..added') BY <1>b, <1>12, EmptySeq
  <2>2. Lines' = <<>> /\ Len(content') = Len(content) /\ UNCHANGED <<path, holder>>
    BY <1>12, <1>d, <2>1, WrittenInPlace
  <2> QED BY <2>2
<1>13. CASE Clear(q)
  <2>1. Others' BY <1>13, <1>d DEF Clear, Body, Goto, Base
  <2>3. /\ Lines' = <<>> /\ Len(Lines') = 0 /\ Len(content') = Len(content)
        /\ UNCHANGED <<path, holder>>
    BY <1>12, <1>13 DEF Clear, Body
  <2>2. Method' BY <1>13, <1>d, <2>3 DEF Clear, Body, Goto, Base, Copied, Doomed
  <2>4. Elements'
    <3>1. added' = added /\ cleared' = added /\ taken' = taken BY <1>13 DEF Clear
    <3>2. cleared' + 1..added' = {} BY <1>b, <3>1
    <3> QED BY <1>b, <1>d, <2>3, <3>1, <3>2 DEF Elements
  <2>5. Lock1' BY <1>13, <1>d, <1>g, <2>3 DEF Clear, Body, Goto, Base
  <2> QED BY <1>e, <2>1, <2>2, <2>4, <2>5
\* What dequeue and pop echo adds to what was taken.
<1>14. ASSUME NEW v \in 0..added, taken' = Append(taken, [value |-> v, left |-> Len(Lines)]),
              pc[q] = "body", UNCHANGED <<content, path, added, cleared, copy>>
       PROVE  Elements' /\ Taken(v)' /\ Lines' = Lines
  <2>1. /\ Len(taken') = Len(taken) + 1
        /\ taken'[Len(taken')] = [value |-> v, left |-> Len(Lines)]
        /\ \A i \in 1..Len(taken) : taken'[i] = taken[i]
    BY <1>14, Took
  <2>2. Len(taken) \in Nat BY DEF Base
  <2>3. Lines' = Lines BY <1>14 DEF Lines
  <2>4. \A e : Taken(e) => Taken(e)' BY <2>1, <2>2 DEF Taken
  <2>5. Taken(v)' BY <2>1, <2>2 DEF Taken
  <2>6. \A i \in 1..Len(taken') : taken'[i].left <= added'
    BY <1>14, <1>d, <2>1, <2>2 DEF Elements
  <2>7. \A e \in cleared' + 1..added' : Somewhere(e)' BY <1>14, <1>d, <2>3, <2>4 DEF Elements, Copied
  <2>8. Len(Lines') <= added' BY <1>14, <1>d, <2>3 DEF Elements
  <2> QED BY <2>3, <2>5, <2>6, <2>7, <2>8 DEF Elements
<1>15. CASE TakeValue(q)
  <2>1. Others' BY <1>15, <1>d DEF TakeValue, Goto, Base
  <2>2. /\ Value(Lines, Chosen(q)) \in 0..added /\ Lines # <<>>
        /\ Value(Lines, Chosen(q)) = Lines[Chosen(q)]
    BY <1>15, ValueKnown DEF TakeValue
  <2>3. Elements' /\ Taken(Lines[Chosen(q)])' /\ Lines' = Lines
    <3>1. /\ taken' = Append(taken, [value |-> Lines[Chosen(q)], left |-> Len(Lines)])
          /\ pc[q] = "body" /\ UNCHANGED <<content, path, added, cleared, copy>>
      BY <1>15, <2>2 DEF TakeValue
    <3>2. PICK v \in 0..added : v = Lines[Chosen(q)] BY <2>2
    <3>3. Elements' /\ Taken(v)' /\ Lines' = Lines BY <1>14, <3>1, <3>2
    <3>4. Chosen(q)' = Chosen(q) BY <1>15, <3>3 DEF Chosen, TakeValue
    <3> QED BY <3>2, <3>3, <3>4
  <2>4. Method'
    <3>1. op'[q] \in {"dequeue", "pop", "array_pop"} /\ pc'[q] = "sed"
      BY <1>15 DEF TakeValue, Goto, Base
    <3>2. UNCHANGED path /\ path # 0 BY <1>15, <1>d DEF TakeValue
    <3> QED BY <2>2, <2>3, <3>1, <3>2 DEF Copied
  <2>5. Lock1' BY <1>15, <1>d, <1>g DEF TakeValue, Goto, Base
  <2> QED BY <1>e, <2>1, <2>3, <2>4, <2>5
<1>16. CASE TakeNothing(q)
  <2>1. Others' BY <1>16, <1>d DEF TakeNothing, Goto, Base
  <2>2. Method' BY <1>16, <1>d DEF TakeNothing, Goto, Base, Copied, Doomed
  <2>3. Elements'
    <3>1. 0 \in 0..added BY <1>b
    <3> QED BY <1>14, <1>16, <3>1 DEF TakeNothing
  <2>4. Lock1' BY <1>16, <1>d, <1>g DEF TakeNothing, Goto, Base
  <2> QED BY <1>e, <2>1, <2>2, <2>3, <2>4
<1>17. CASE TakeNothingArray(q)
  <2>1. Release(q) \/ UNCHANGED <<holder, fd>> BY <1>17 DEF TakeNothingArray
  <2>2. Others' BY <1>17, <1>d, <2>1 DEF TakeNothingArray, Release, Goto, Base
  <2>3. Method' BY <1>17, <1>d DEF TakeNothingArray, Body, Goto, Base, Copied, Doomed
  <2>4. Elements'
    <3>1. 0 \in 0..added BY <1>b
    <3> QED BY <1>14, <1>17, <3>1 DEF TakeNothingArray, Body
  <2>5. Lock1' BY <1>17, <1>5, <2>1 DEF TakeNothingArray, Body, Goto, Base
  <2> QED BY <1>e, <2>2, <2>3, <2>4, <2>5
<1>18. CASE SedRead(q)
  <2>1. Others' BY <1>18, <1>d DEF SedRead, Goto, Base
  <2>2. /\ Lines' = Lines /\ Chosen(q)' = Chosen(q) /\ taken' = taken /\ copy'[q] = Lines
        /\ pc[q] = "sed" /\ pc'[q] = "backup" /\ UNCHANGED <<path, op>>
    BY <1>18, <1>d DEF SedRead, Goto, Lines, Chosen, Base
  <2>3. Method' BY <1>d, <2>2 DEF Taken, Copied
  <2>4. Lock1' BY <1>18, <1>d, <1>g, <2>2 DEF SedRead, Goto, Base
  <2>5. Elements' BY <1>18, <1>d, <2>2 DEF Elements, SedRead, Taken, Copied
  <2> QED BY <1>e, <2>1, <2>3, <2>4, <2>5
\* The file is gone for a moment, and all that is left is in the copy.
<1>26. CASE SedBackup(q)
  <2>1. Others' BY <1>26, <1>d DEF SedBackup, Goto, Base
  <2>2. /\ pc[q] = "backup" /\ pc'[q] = "rename" /\ path' = 0
        /\ UNCHANGED <<content, holder, fd, op, copy, added, cleared, taken>>
    BY <1>26, <1>d DEF SedBackup, Goto, Base
  <2>3. Lines' = <<>> /\ Len(Lines') = 0 BY <2>2 DEF Lines
  <2>4. copy[q] = Lines /\ Lines # <<>> /\ Taken(Lines[Chosen(q)]) BY <1>d, <2>2
  <2>5. Doomed(q)' = Lines[Chosen(q)] BY <2>2, <2>4 DEF Doomed, Chosen
  <2>6. Taken(Doomed(q))' BY <2>2, <2>4, <2>5 DEF Taken
  <2>7. Len(Lines') + Len(copy'[q]) <= added' BY <1>c, <1>d, <2>2, <2>3, <2>4 DEF Elements
  <2>8. Method' BY <1>d, <2>2, <2>3, <2>4, <2>6, <2>7
  <2>9. Elements' BY <1>b, <1>d, <2>2, <2>3, <2>4 DEF Elements, Taken, Copied
  <2>10. Lock1' BY <1>d, <2>2
  <2> QED BY <1>e, <2>1, <2>8, <2>9, <2>10
\* The line that goes is the one that was echoed.
<1>19. CASE SedRename(q)
  <2>1. Others' BY <1>19, <1>d DEF SedRename, Goto, Base
  <2>2. Create(Left(q)) /\ Left(q) \in Seq(1..added') BY <1>19, LeftIsLines DEF SedRename, Left
  <2>3. Len(content') = Len(content) + 1 /\ Lines' = Left(q) /\ path' = Len(content')
    <3>1. added' = added /\ added' \in Nat /\ added <= added' BY <1>19, <1>b DEF SedRename
    <3> QED BY <2>2, <3>1, Created
  <2>5. /\ copy[q] # <<>> /\ Taken(Doomed(q)) /\ Lines = <<>> /\ Len(Lines) = 0
        /\ Len(Lines) + Len(copy[q]) <= added
    BY <1>19, <1>d DEF SedRename, Copied
  <2>6. /\ Len(copy[q]) \in Nat \ {0} /\ Len(Lines') = Len(copy[q]) - 1
        /\ IF op[q] = "dequeue" THEN \A i \in 1..(Len(copy[q]) - 1) : Lines'[i] = copy[q][i + 1]
                                ELSE \A i \in 1..(Len(copy[q]) - 1) : Lines'[i] = copy[q][i]
    BY <1>c, <2>3, <2>5, Cut DEF Left
  <2>7. UNCHANGED <<added, cleared, taken>> /\ pc[q] = "rename" /\ pc'[q] = "unlock"
    BY <1>19 DEF SedRename, Goto, Base
  <2>8. ASSUME NEW e \in cleared + 1..added PROVE Somewhere(e)'
    <3>1. CASE Taken(e) BY <2>7, <3>1 DEF Taken
    <3>2. ASSUME NEW i \in 1..Len(copy[q]), copy[q][i] = e PROVE Somewhere(e)'
      <4>1. CASE op[q] = "dequeue"
        <5>1. CASE i = 1 BY <2>5, <2>7, <3>2, <4>1, <5>1 DEF Taken, Doomed
        <5>2. CASE i # 1
          <6>1. i - 1 \in 1..(Len(copy[q]) - 1) BY <2>6, <5>2
          <6>2. Lines'[i - 1] = copy[q][i] BY <2>6, <4>1, <6>1
          <6> QED BY <2>6, <3>2, <6>1, <6>2
        <5> QED BY <5>1, <5>2
      <4>2. CASE op[q] # "dequeue"
        <5>1. CASE i = Len(copy[q]) BY <2>5, <2>7, <3>2, <4>2, <5>1 DEF Taken, Doomed
        <5>2. CASE i # Len(copy[q])
          <6>1. i \in 1..(Len(copy[q]) - 1) BY <2>6, <5>2
          <6> QED BY <2>6, <3>2, <4>2, <6>1
        <5> QED BY <5>1, <5>2
      <4> QED BY <4>1, <4>2
    <3> QED BY <1>d, <2>5, <2>7, <3>1, <3>2 DEF Elements
  <2>9. Elements'
    <3>1. Len(Lines') <= added' BY <1>b, <2>5, <2>6, <2>7
    <3> QED BY <1>d, <2>7, <2>8, <3>1 DEF Elements
  <2>10. Method' BY <1>b, <2>3, <2>7 DEF Copied
  <2>11. Lock1'
    <3>1. Len(content') # 1 BY <1>b, <2>3
    <3> QED BY <3>1
  <2> QED BY <1>e, <2>1, <2>9, <2>10, <2>11
<1>20. CASE InsertSize(q)
  <2>1. Release(q) \/ UNCHANGED <<holder, fd>> BY <1>20 DEF InsertSize, Unlocks
  <2>2. Others' BY <1>20, <1>d, <2>1 DEF InsertSize, Release, Goto, Base
  <2>3. Method' BY <1>20, <1>d DEF InsertSize, Body, Goto, Base, Copied, Doomed
  <2>4. Lock1' BY <1>20, <1>5, <2>1 DEF InsertSize, Body, Goto, Base
  <2> QED BY <1>20, <1>e, <1>f, <2>2, <2>3, <2>4 DEF InsertSize, Body, Copied
<1>21. CASE InsertAppend(q)
  <2>1. Others' BY <1>21, <1>d DEF InsertAppend, Goto, Base
  <2>3. Elements' /\ Len(content') = Len(content) /\ UNCHANGED <<path, holder>>
    BY <1>10, <1>21 DEF InsertAppend, Copied
  <2>2. Method' BY <1>21, <1>d, <2>3 DEF InsertAppend, Goto, Base, Copied, Doomed
  <2>4. Lock1' BY <1>21, <1>d, <1>g, <2>3 DEF InsertAppend, Goto, Base
  <2> QED BY <1>e, <2>1, <2>2, <2>3, <2>4
<1>22. CASE InsertCopy(q)
  <2>1. Others' BY <1>22, <1>d DEF InsertCopy, Goto, Base
  <2>2. /\ Lines' = Lines /\ copy'[q] = Lines /\ UNCHANGED <<taken, op, path>>
        /\ pc[q] = "copy" /\ pc'[q] = "truncate"
    BY <1>22 DEF InsertCopy, Goto, Lines, Base
  <2>3. Method' BY <1>22, <1>d, <2>2 DEF InsertCopy, Copied, Doomed
  <2>4. Lock1' BY <1>22, <1>d, <1>g DEF InsertCopy, Goto, Base
  <2>5. Elements' BY <1>22, <1>d, <2>2 DEF Elements, InsertCopy, Taken, Copied
  <2> QED BY <1>e, <2>1, <2>3, <2>4, <2>5
<1>23. CASE InsertTruncate(q)
  <2>1. Others' BY <1>23, <1>d DEF InsertTruncate, Goto, Base
  <2>2. /\ Lines' = <<>> /\ Len(Lines') = 0 /\ Len(content') = Len(content)
        /\ UNCHANGED <<path, holder>>
    BY <1>12, <1>23 DEF InsertTruncate
  <2>3. pc[q] = "truncate" /\ pc'[q] = "rewrite" /\ UNCHANGED <<copy, op, added, cleared, taken>>
    BY <1>23 DEF InsertTruncate, Goto, Base
  <2>7. copy[q] = Lines /\ Len(copy[q]) <= added BY <1>d, <2>3 DEF Elements
  <2>4. Method' BY <1>c, <1>d, <2>2, <2>3, <2>7
  <2>5. Lock1' BY <1>23, <1>d, <1>g, <2>2 DEF InsertTruncate, Goto, Base
  <2>6. Elements' BY <1>b, <1>d, <2>2, <2>3, <2>7 DEF Elements, Taken, Copied
  <2> QED BY <1>e, <2>1, <2>4, <2>5, <2>6
\* The new element comes first, and the copied ones follow one by one.
<1>24. CASE InsertRewrite(q)
  <2>1. Others' BY <1>24, <1>d DEF InsertRewrite, Goto, Base
  <2>2. /\ pc[q] = "rewrite" /\ pc'[q] = "rest" /\ added' = added + 1 /\ added' \in Nat /\ added <= added'
        /\ UNCHANGED <<copy, op, cleared, taken>> /\ Write(Append(Lines, added + 1))
    BY <1>24, <1>b DEF InsertRewrite, Goto, Add, Base
  <2>3. Lines = <<>> /\ Len(Lines) = 0 /\ Len(copy[q]) <= added /\ Len(copy[q]) \in Nat /\ path # 0
    BY <1>c, <1>d, <2>2 DEF Copied
  <2>4. Lines \in Seq(1..added') BY <1>b, <1>c, <2>2, Grows
  <2>5. /\ Append(Lines, added + 1) \in Seq(1..added') /\ Len(Append(Lines, added + 1)) = 1
        /\ Append(Lines, added + 1)[1] = added + 1
    BY <1>b, <2>2, <2>3, <2>4, AppendProperties
  <2>6. /\ Lines' = Append(Lines, added + 1) /\ Len(content') = Len(content)
        /\ UNCHANGED <<path, holder>>
    BY <2>2, <2>3, <2>5, WrittenInPlace
  <2>7. Len(Lines') = 1 /\ Lines'[1] = added + 1 BY <2>5, <2>6
  <2>8. ASSUME NEW e \in cleared' + 1..added' PROVE Somewhere(e)'
    <3>1. CASE e = added + 1 BY <2>7, <3>1
    <3>2. CASE e # added + 1
      <4>1. e \in cleared + 1..added BY <1>b, <2>2, <3>2
      <4>2. Somewhere(e) BY <1>d, <4>1 DEF Elements
      <4> QED BY <2>2, <2>3, <4>2 DEF Taken, Copied
    <3> QED BY <3>1, <3>2
  <2>9. \A i \in 1..Len(taken') : taken'[i].left <= added'
    BY <1>b, <1>d, <1>h, <2>2 DEF Elements
  <2>10. Elements' BY <1>b, <2>2, <2>7, <2>8, <2>9 DEF Elements
  <2>11. Len(Lines') + Len(copy'[q]) <= added' BY <1>b, <2>2, <2>3, <2>7
  <2>12. Method' BY <1>d, <2>2, <2>3, <2>6, <2>11
  <2>13. Lock1' BY <1>24, <1>d, <1>g, <2>6 DEF InsertRewrite, Goto, Base
  <2> QED BY <1>e, <2>1, <2>10, <2>12, <2>13
<1>27. CASE InsertRest(q)
  <2>1. Others' BY <1>27, <1>d DEF InsertRest, Base
  <2> DEFINE h == Head(copy[q])
  <2>2. /\ pc[q] = "rest" /\ copy[q] # <<>> /\ copy'[q] = Tail(copy[q]) /\ Write(Append(Lines, h))
        /\ UNCHANGED <<pc, op, fd, added, cleared, taken>>
    BY <1>27 DEF InsertRest, Base
  <2>3. /\ path # 0 /\ Len(Lines) + Len(copy[q]) <= added /\ Len(copy[q]) \in Nat \ {0}
        /\ h = copy[q][1] /\ h \in 1..added
        /\ Len(copy'[q]) = Len(copy[q]) - 1
        /\ \A i \in 1..(Len(copy[q]) - 1) : copy'[q][i] = copy[q][i + 1]
    <3>1. path # 0 /\ Len(Lines) + Len(copy[q]) <= added BY <1>d, <2>2 DEF Copied
    <3>2. /\ Len(copy[q]) \in Nat \ {0} /\ Len(Tail(copy[q])) = Len(copy[q]) - 1
          /\ \A i \in 1..(Len(copy[q]) - 1) : Tail(copy[q])[i] = copy[q][i + 1]
      BY <1>c, <2>2, Cut
    <3>3. h = copy[q][1] /\ h \in 1..added
      <4>1. copy[q] \in Seq(1..added) /\ copy[q] # <<>> BY <1>c, <2>2
      <4>2. h \in 1..added BY <4>1, HeadTailProperties
      <4> QED BY <4>1, <4>2
    <3> QED BY <2>2, <3>1, <3>2, <3>3
  <2> HIDE DEF h
  <2>4. /\ Append(Lines, h) \in Seq(1..added) /\ Len(Append(Lines, h)) = Len(Lines) + 1
        /\ Append(Lines, h)[Len(Lines) + 1] = h
        /\ \A i \in 1..Len(Lines) : Append(Lines, h)[i] = Lines[i]
    BY <1>c, <2>3, AppendProperties
  <2>5. Lines' = Append(Lines, h) /\ Len(content') = Len(content) /\ UNCHANGED <<path, holder>>
    <3>1. added' = added /\ added' \in Nat /\ added <= added' BY <1>b, <2>2
    <3> QED BY <2>2, <2>3, <2>4, <3>1, WrittenInPlace
  <2>6. ASSUME NEW e \in cleared + 1..added PROVE Somewhere(e)'
    <3>1. Somewhere(e) BY <1>d DEF Elements
    <3>2. CASE Taken(e) BY <2>2, <3>2 DEF Taken
    <3>3. ASSUME NEW i \in 1..Len(Lines), Lines[i] = e PROVE Somewhere(e)'
      BY <1>c, <2>4, <2>5, <3>3
    <3>4. ASSUME NEW i \in 1..Len(copy[q]), copy[q][i] = e PROVE Somewhere(e)'
      <4>1. CASE i = 1 BY <1>c, <2>3, <2>4, <2>5, <3>4, <4>1
      <4>2. CASE i # 1
        <5>1. i - 1 \in 1..(Len(copy[q]) - 1) /\ (i - 1) + 1 = i BY <2>3, <4>2
        <5>2. copy'[q][i - 1] = e BY <2>3, <3>4, <5>1
        <5> QED BY <2>2, <2>3, <5>1, <5>2 DEF Copied
      <4> QED BY <4>1, <4>2
    <3> QED BY <3>1, <3>2, <3>3, <3>4
  <2>7. Len(Lines') + Len(copy'[q]) <= added' /\ Len(Lines') <= added'
    <3>1. Len(Lines') = Len(Lines) + 1 /\ added' = added BY <2>2, <2>4, <2>5
    <3>2. Len(copy'[q]) = Len(copy[q]) - 1 /\ Len(copy[q]) \in Nat \ {0} BY <2>3
    <3>3. Len(Lines) \in Nat /\ Len(Lines) + Len(copy[q]) <= added /\ added \in Nat
      BY <1>b, <1>c, <2>3
    <3>4. \A l \in Nat, k \in Nat \ {0}, n \in Nat :
              l + k <= n => (l + 1) + (k - 1) <= n /\ l + 1 <= n
      OBVIOUS
    <3>5. /\ (Len(Lines) + 1) + (Len(copy[q]) - 1) <= added
          /\ Len(Lines) + 1 <= added
      BY <3>2, <3>3, <3>4
    <3> QED BY <3>1, <3>2, <3>5
  <2>8. Elements' BY <1>d, <2>2, <2>6, <2>7 DEF Elements
  <2>9. Method' BY <1>d, <2>2, <2>3, <2>5, <2>7
  <2>10. Lock1' BY <1>d, <2>2, <2>5
  <2> QED BY <1>e, <2>1, <2>8, <2>9, <2>10
<1>28. CASE InsertDone(q)
  <2>1. Others' BY <1>28, <1>d DEF InsertDone, Goto, Base
  <2>2. /\ pc[q] = "rest" /\ pc'[q] = "unlock" /\ copy[q] = <<>> /\ Lines' = Lines
        /\ UNCHANGED <<path, added, cleared, taken>>
    BY <1>28 DEF InsertDone, Goto, Lines, Base
  <2>3. Method' BY <1>d, <2>2 DEF Copied
  <2>4. Lock1' BY <1>28, <1>d, <1>g DEF InsertDone, Goto, Base
  <2>5. Elements' BY <1>d, <2>2 DEF Elements, Taken
  <2> QED BY <1>e, <2>1, <2>3, <2>4, <2>5
<1>29. CASE SizeFirst(q)
  <2>1. /\ pc[q] = "body" /\ path # 0 /\ pc'[q] \in {"body", "open"}
        /\ UNCHANGED <<content, path, copy, added, cleared, taken>>
    BY <1>29, <1>d DEF SizeFirst, Goto, Base
  <2>2. Release(q) \/ UNCHANGED <<holder, fd>> BY <1>29 DEF SizeFirst, Unlocks
  <2>3. Others' BY <1>29, <1>d, <2>2 DEF SizeFirst, Release, Goto, Base
  <2>4. Method' BY <2>1 DEF Copied
  <2>5. Lock1'
    <3>1. CASE UNCHANGED <<holder, fd>>
      <4>1. Len(content) = 1 => fd[q] = 1 /\ pc'[q] = "body"
        BY <1>29, <1>d, <2>1, <3>1 DEF SizeFirst, Goto, Base
      <4> QED BY <1>d, <2>1, <3>1, <4>1
    <3>2. CASE Release(q) /\ Len(content) = 1
      <4>1. fd'[q] = 0 /\ pc'[q] = "open" BY <1>29, <3>2 DEF SizeFirst, Release, Goto, Base
      <4>2. holder'[1] = NoProcess
        BY <1>a, <1>d, <1>g, <2>1, <3>2 DEF Release
      <4> QED BY <1>a, <4>1, <4>2
    <3>3. CASE Len(content) # 1 BY <2>1, <3>3
    <3> QED BY <2>2, <3>1, <3>2, <3>3
  <2>6. pc[q] \notin Copied BY <2>1 DEF Copied
  <2> QED BY <1>e, <1>f, <2>1, <2>3, <2>4, <2>5, <2>6
<1>30. CASE OutOfBounds(q)
  <2>1. Release(q) \/ UNCHANGED <<holder, fd>> BY <1>30 DEF OutOfBounds, Unlocks
  <2>2. Others' BY <1>30, <1>d, <2>1 DEF OutOfBounds, Release, Goto, Base
  <2>3. Method' BY <1>30, <1>d DEF OutOfBounds, Goto, Base, Copied
  <2>4. Lock1' BY <1>30, <1>5, <2>1 DEF OutOfBounds, Goto, Base
  <2>5. pc[q] \notin Copied BY <1>30 DEF OutOfBounds, Copied
  <2> QED BY <1>30, <1>e, <1>f, <2>2, <2>3, <2>4, <2>5 DEF OutOfBounds
<1>25. CASE UNCHANGED vars
  <2>1. /\ UNCHANGED <<path, content, holder, pc, op, fd, extended, copy, added, cleared, taken>>
        /\ Lines' = Lines /\ Chosen(q)' = Chosen(q) /\ Doomed(q)' = Doomed(q)
    BY <1>25 DEF vars, Lines, Chosen, Doomed
  <2>2. Others' BY <1>d, <2>1
  <2>3. Method' BY <1>d, <2>1 DEF Taken, Copied
  <2>4. Elements' BY <1>d, <2>1 DEF Elements, Taken, Copied
  <2>5. Lock1' BY <1>d, <2>1
  <2> QED BY <1>e, <2>2, <2>3, <2>4, <2>5
<1> QED
  BY <1>1, <1>2, <1>3, <1>4, <1>6, <1>7, <1>8, <1>9, <1>11, <1>13, <1>15, <1>16, <1>17, <1>18,
     <1>19, <1>20, <1>21, <1>22, <1>23, <1>24, <1>25, <1>26, <1>27, <1>28, <1>29, <1>30
  DEF Next, Step, Locking, Sizing, Taking, Inserting

--------------------------------------------------------------------------------
LEMMA SafeInit == ASSUME UsedSafely, Init PROVE SafeInv
<1>1. Base BY BaseInit
<1>2. Len(content) = 1 /\ Lines = <<>> /\ Len(Lines) = 0 /\ Len(taken) = 0 BY DEF Init, Lines
<1>3. NoProcess \notin Processes BY SharedAssumption
<1>4. PlainInv BY <1>2, <1>3 DEF Init, PlainInv, PlainMethods, Keeps
<1>5. ASSUME NEW q \in Processes PROVE AloneInv(q) BY <1>2, <1>3 DEF Init, AloneInv
<1>6. SafeUse(session) BY DEF UsedSafely, Init
<1> QED BY <1>1, <1>4, <1>5, <1>6 DEF SafeInv

LEMMA SafeNext == SafeInv /\ [Next]_vars => SafeInv'
<1> SUFFICES ASSUME SafeInv, [Next]_vars PROVE SafeInv' OBVIOUS
<1>1. Base /\ Base' BY BaseNext DEF SafeInv
<1>2. session' = session
  BY DEF vars, Next, Step, Locking, Sizing, Taking, Inserting, Call, LockOpen, LockFlock,
     MethodUnlock, Lock, Unlock, SizeFirst, OutOfBounds, Read, Push, Clear, TakeValue, TakeNothing,
     TakeNothingArray, SedRead, SedBackup, SedRename, InsertSize, InsertAppend, InsertCopy,
     InsertTruncate, InsertRewrite, InsertRest, InsertDone
<1>3. Plain(session) => PlainInv' BY <1>1, PlainNext DEF SafeInv
<1>4. ASSUME NEW q \in Processes, OnlyOne(session, q) PROVE AloneInv(q)'
  BY <1>1, <1>4, AloneNext DEF SafeInv
<1> QED BY <1>1, <1>2, <1>3, <1>4 DEF SafeInv, SafeUse, Plain, OnlyOne

LEMMA SafeAlways == ASSUME UsedSafely PROVE Spec => []SafeInv
<1> QED BY SafeInit, SafeNext, PTL DEF Spec

\* The types of the container's state; an element is the number of a call that was made,
\* and the file never has more lines than there were such calls.
THEOREM SharedTypes == ASSUME UsedSafely PROVE Spec => []TypeOK
<1>1. SafeInv => TypeOK
  <2> SUFFICES ASSUME SafeInv PROVE TypeOK OBVIOUS
  <2>1. Base BY DEF SafeInv
  <2>2. added \in 0..MaxAdded /\ cleared \in 0..added /\ MaxAdded \in Nat
    <3>1. MaxAdded \in Nat BY SpentFinite, FS_CardinalityType
    <3> QED BY <2>1, <3>1, SpentFinite DEF Base, Counts
  <2>3. Seq(1..added) \subseteq Seq(1..MaxAdded) /\ Seq(Seq(1..added)) \subseteq Seq(Seq(1..MaxAdded))
    BY <2>2, Grows
  <2>4. \A i \in DOMAIN taken : taken[i] \in [value : 0..MaxAdded, left : 0..MaxAdded]
    <3>1. \A i \in 1..Len(taken) : taken[i] \in [value : 0..added, left : Nat]
      <4>1. taken \in Seq([value : 0..added, left : Nat]) BY <2>1 DEF Base
      <4> QED BY <4>1, ElementOfSeq
    <3>2. \A i \in 1..Len(taken) : taken[i].left <= added
      BY DEF SafeInv, SafeUse, PlainInv, AloneInv
    <3>3. DOMAIN taken = 1..Len(taken) BY <2>1 DEF Base
    <3>4. ASSUME NEW i \in DOMAIN taken
          PROVE  taken[i] \in [value : 0..MaxAdded, left : 0..MaxAdded]
      <4>1. taken[i] \in [value : 0..added, left : Nat] /\ taken[i].left <= added
        BY <3>1, <3>2, <3>3
      <4>2. taken[i].value \in 0..MaxAdded /\ taken[i].left \in 0..MaxAdded BY <2>2, <4>1
      <4> QED BY <4>1, <4>2
    <3> QED BY <3>4
  <2>5. /\ DOMAIN holder = 1..Len(holder) /\ DOMAIN content = 1..Len(content)
        /\ \A i \in 1..Len(holder) : holder[i] \in Processes \cup {NoProcess}
    BY <2>1 DEF Base
  <2>6. path \in 0..Len(content) /\ DOMAIN holder = DOMAIN content
    <3>1. Len(content) \in Nat BY <2>1 DEF Base
    <3>2. path \in {0, Len(content)} /\ Len(holder) = Len(content) BY <2>1 DEF Base
    <3>3. path \in 0..Len(content) BY <3>1, <3>2
    <3> QED BY <2>5, <3>2, <3>3
  <2>7. copy \in [Processes -> Seq(1..MaxAdded)] BY <2>1, <2>3 DEF Base
  <2> QED BY <2>1, <2>2, <2>3, <2>4, <2>5, <2>6, <2>7 DEF Base, Labels, TypeOK
<1> QED BY <1>1, SafeAlways, PTL

\* Until sed -i puts another file in its place, the methods access the file under the lock
\* of SharedObject's _lock.
THEOREM LockProtects == ASSUME UsedSafely PROVE Spec => []LockedAccess
<1>1. SafeInv => LockedAccess
  <2> SUFFICES ASSUME SafeInv, path = 1, NEW p \in Processes, Accessing(p), op[p] # "inserting"
               PROVE  holder[path] = p
    BY DEF LockedAccess
  <2>1. Base /\ Len(content) = 1 /\ pc[p] \in Labels BY DEF SafeInv, Base
  <2>2. pc[p] \in {"body", "sed", "backup", "rename", "append", "copy", "truncate", "rewrite", "rest"}
    BY <2>1 DEF Accessing, Labels
  <2>3. CASE Plain(session) BY <2>2, <2>3 DEF SafeInv, PlainInv, Keeps
  <2>4. ASSUME NEW q \in Processes, OnlyOne(session, q) PROVE holder[path] = p
    <3>1. AloneInv(q) BY <2>4 DEF SafeInv
    <3>2. p = q BY <2>2, <3>1 DEF AloneInv
    <3> QED BY <2>1, <2>2, <3>1, <3>2 DEF AloneInv
  <2> QED BY <2>3, <2>4 DEF SafeInv, SafeUse
<1> QED BY <1>1, SafeAlways, PTL

\* A method that appends, reads or clears gives back the lock that it took (_unlock).
THEOREM LockIsReleased == ASSUME \A s \in Sessions : Plain(s) PROVE Spec => []LockReleased
<1>1. UsedSafely BY DEF UsedSafely, SafeUse
<1>2. SafeInv => LockReleased
  <2> SUFFICES ASSUME SafeInv PROVE LockReleased OBVIOUS
  <2>1. PlainInv BY DEF SafeInv, Base
  <2>2. \A p \in Processes : fd[p] # 0 => fd[p] = 1
    <3>1. fd \in [Processes -> 0..1] BY <2>1 DEF PlainInv, SafeInv, Base
    <3> QED BY <3>1
  <2> QED BY <2>1, <2>2 DEF PlainInv, Keeps, LockReleased
<1> QED BY <1>1, <1>2, SafeAlways, PTL

\* Between method calls, every element that was added since the last clear is in the file
\* or was returned by dequeue or pop: neither an interrupted sequence of appends by several
\* processes nor the steps of sed -i and insert in one lose any.
THEOREM ElementsKept == ASSUME UsedSafely PROVE Spec => []NothingLost
<1>1. SafeInv => NothingLost
  <2> SUFFICES ASSUME SafeInv, \A p \in Processes : pc[p] = "idle", NEW e \in cleared + 1..added
               PROVE  \/ \E i \in DOMAIN Lines : Lines[i] = e
                      \/ \E i \in DOMAIN taken : taken[i].value = e
    BY DEF NothingLost
  <2>1. DOMAIN Lines = 1..Len(Lines) /\ DOMAIN taken = 1..Len(taken)
    <3>1. Lines \in Seq(1..added) BY LinesKnown DEF SafeInv
    <3> QED BY <3>1 DEF SafeInv, Base
  <2>2. CASE Plain(session) BY <2>1, <2>2 DEF SafeInv, PlainInv
  <2>3. ASSUME NEW q \in Processes, OnlyOne(session, q)
        PROVE  \/ \E i \in DOMAIN Lines : Lines[i] = e
               \/ \E i \in DOMAIN taken : taken[i].value = e
    BY <2>1, <2>3 DEF SafeInv, AloneInv, Taken, Copied
  <2> QED BY <2>2, <2>3 DEF SafeInv, SafeUse
<1> QED BY <1>1, SafeAlways, PTL

\* From lock to unlock nobody but the process that called lock changes the elements: a
\* step of another one that does would need the lock of the file.
THEOREM LockExcludes == ASSUME UsedSafely PROVE Spec => ExclusiveWhileLocked
<1> DEFINE Kept ==
      \A p \in Processes :
          extended[p] /\ extended'[p] /\ NotBy(p) => Lines' = Lines
<1>1. SafeInv /\ [Next]_vars => [Kept]_vars
  <2> SUFFICES ASSUME SafeInv, Next, NEW p \in Processes, extended[p], extended'[p], NotBy(p)
               PROVE  Lines' = Lines
    OBVIOUS
  <2>1. PICK q \in Processes : Step(q) \/ \E o \in Operations : Call(q, o) BY DEF Next
  <2>2. pc \in [Processes -> Labels] BY DEF SafeInv, Base
  <2>3. CASE q = p
    <3>1. ~Locking(p) BY <2>2 DEF Locking, LockOpen, LockFlock, MethodUnlock, Lock, Goto, NotBy
    <3>2. ~Read(p) /\ ~Push(p) /\ ~Clear(p) BY <2>2 DEF Read, Push, Clear, Body, Goto, NotBy
    <3>3. ~Taking(p)
      BY <2>2 DEF Taking, TakeValue, TakeNothing, TakeNothingArray, SedRead, SedBackup, SedRename,
         Body, Goto, NotBy
    <3>4. ~Inserting(p)
      <4>1. ~InsertRest(p)
        <5>1. ASSUME InsertRest(p) PROVE Len(copy'[p]) # Len(copy[p])
          <6>1. copy[p] \in Seq(1..added) /\ copy[p] # <<>> /\ copy'[p] = Tail(copy[p])
            BY <5>1 DEF InsertRest, SafeInv, Base
          <6> QED BY <6>1, Cut
        <5> QED BY <5>1 DEF NotBy
      <4> QED
        BY <2>2, <4>1 DEF Inserting, InsertSize, InsertAppend, InsertCopy, InsertTruncate,
           InsertRewrite, InsertDone, Body, Goto, NotBy
    <3>5. ~Unlock(p)
      <4>1. extended \in [Processes -> BOOLEAN] BY DEF SafeInv, Base
      <4> QED BY <4>1 DEF Unlock
    <3>6. CASE Sizing(p) BY <3>6 DEF Sizing, SizeFirst, OutOfBounds, Lines
    <3>7. ASSUME NEW o \in Operations, Call(p, o) PROVE Lines' = Lines BY <3>7 DEF Call, Lines
    <3> QED BY <2>1, <2>3, <3>1, <3>2, <3>3, <3>4, <3>5, <3>6, <3>7 DEF Step
  <2>4. CASE q # p
    <3>c. ASSUME NEW o \in Operations, Call(q, o) PROVE Lines' = Lines BY <3>c DEF Call, Lines
    <3>1. CASE Plain(session)
      <4>1. PlainInv BY <3>1 DEF SafeInv
      <4>2. holder[1] = p /\ ~Keeps(q) BY <2>4, <4>1 DEF PlainInv, Keeps
      <4>3. pc[q] \in {"idle", "open", "flock"} /\ path # 0 BY <4>1, <4>2 DEF PlainInv, Keeps
      <4>4. Step(q) => UNCHANGED <<path, content>>
        BY <4>3
        DEF Step, Locking, Sizing, Taking, Inserting, LockOpen, LockFlock, MethodUnlock, Lock,
            Unlock, SizeFirst, OutOfBounds, Read, Push, Clear, TakeValue, TakeNothing,
            TakeNothingArray, SedRead, SedBackup, SedRename, InsertSize, InsertAppend, InsertCopy,
            InsertTruncate, InsertRewrite, InsertRest, InsertDone, Body
      <4> QED BY <2>1, <3>c, <4>4 DEF Lines
    <3>2. ASSUME NEW r \in Processes, OnlyOne(session, r) PROVE Lines' = Lines
      <4>1. AloneInv(r) BY <3>2 DEF SafeInv
      <4>2. p = r BY <4>1 DEF AloneInv
      <4>3. pc[q] = "idle" /\ ~extended[q] BY <2>4, <4>1, <4>2 DEF AloneInv
      <4>4. ~Step(q)
        BY <4>3
        DEF Step, Locking, Sizing, Taking, Inserting, LockOpen, LockFlock, MethodUnlock, Lock,
            Unlock, SizeFirst, OutOfBounds, Read, Push, Clear, TakeValue, TakeNothing,
            TakeNothingArray, SedRead, SedBackup, SedRename, InsertSize, InsertAppend, InsertCopy,
            InsertTruncate, InsertRewrite, InsertRest, InsertDone, Body
      <4> QED BY <2>1, <3>c, <4>4
    <3> QED BY <3>1, <3>2 DEF SafeInv, SafeUse
  <2> QED BY <2>3, <2>4
<1> QED BY <1>1, SafeAlways, PTL DEF Spec, ExclusiveWhileLocked

================================================================================
