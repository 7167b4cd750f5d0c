--------------------------- MODULE ThreadPoolProofs ---------------------------
(***************************************************************************)
(* Proofs about ThreadPool, for any finite set of workers and any number   *)
(* of tasks.                                                               *)
(*                                                                         *)
(* TypeOK and NoLostWakeup are inductive: a push adds one task and one     *)
(* pending notification, a notification turns into a ready worker unless   *)
(* nobody waits, a worker that takes a task takes itself away with it, and *)
(* a worker only goes to sleep when the queue is empty.  Accounted needs   *)
(* that no task in the queue, or started, is numbered beyond enqueued.     *)
(***************************************************************************)
EXTENDS ThreadPool, TLAPS, FiniteSetTheorems, SequenceTheorems

Labels == {"idle", "ready", "waiting", "running", "returned",
           "notify_one", "notify_all", "destroy", "join"}

\* What the owner's label contributes to NoLostWakeup.
Pending == IF pc[Owner] = "notify_one" THEN 1 ELSE 0

LEMMA TypeInit == Init => TypeOK
<1> SUFFICES ASSUME Init PROVE TypeOK OBVIOUS
<1>1. <<>> \in Seq(1..MaxTasks) OBVIOUS
<1>2. enqueued \in 0..MaxTasks /\ dropped \in SUBSET (1..MaxTasks)
  BY ThreadPoolAssumption DEF Init
<1>3. QED BY <1>1, <1>2 DEF Init, TypeOK

LEMMA TypeNext == TypeOK /\ [Next]_vars => TypeOK'
<1> SUFFICES ASSUME TypeOK, [Next]_vars PROVE TypeOK' OBVIOUS
<1> USE ThreadPoolAssumption DEF TypeOK, Goto, Wake
<1>1. ASSUME NEW w \in Workers, Worker(w) PROVE TypeOK'
  <2>1. CASE WorkerReturn(w) BY <2>1 DEF WorkerReturn
  <2>2. CASE WorkerTake(w)
    <3>1. Head(tasks) \in 1..MaxTasks /\ Tail(tasks) \in Seq(1..MaxTasks)
      BY <2>2, HeadTailProperties DEF WorkerTake
    <3>2. QED BY <2>2, <3>1 DEF WorkerTake
  <2>3. CASE WorkerWait(w) BY <2>3 DEF WorkerWait
  <2>4. CASE WorkerFinish(w) BY <2>4 DEF WorkerFinish
  <2>5. CASE NotifyAll(w) BY <2>5 DEF NotifyAll
  <2>6. QED BY <1>1, <2>1, <2>2, <2>3, <2>4, <2>5 DEF Worker
<1>2. ASSUME NEW w \in Workers, SpuriousWakeup(w) PROVE TypeOK'
  BY <1>2 DEF SpuriousWakeup
<1>3. ASSUME NEW t \in Workers \cup {Owner}, Cleanup(t) PROVE TypeOK'
  <2>1. {tasks[i] : i \in 1..Len(tasks)} \in SUBSET (1..MaxTasks)
    BY ElementOfSeq
  <2>2. <<>> \in Seq(1..MaxTasks) BY EmptySeq
  <2>3. QED BY <1>3, <2>1, <2>2 DEF Cleanup
<1>4. CASE NotifyOne BY <1>4 DEF NotifyOne
<1>5. CASE NotifyAll(Owner) BY <1>5 DEF NotifyAll
<1>6. CASE DestroyNotifyAll BY <1>6 DEF DestroyNotifyAll
<1>7. CASE Join BY <1>7 DEF Join
<1>8. CASE Enqueue BY <1>8 DEF Enqueue
<1>9. CASE Destroy BY <1>9 DEF Destroy
<1>10. CASE UNCHANGED vars BY <1>10 DEF vars
<1>11. QED
  BY <1>1, <1>2, <1>3, <1>4, <1>5, <1>6, <1>7, <1>8, <1>9, <1>10
     DEF Next, OwnerStep

--------------------------------------------------------------------------------
(* Counting the workers on their way to the queue. *)

LEMMA ReadyCount ==
    /\ IsFiniteSet(At("ready"))
    /\ Cardinality(At("ready")) \in Nat
BY ThreadPoolAssumption, FS_Subset, FS_CardinalityType DEF At

\* A worker that gets ready adds one, a worker that was ready takes one away.
LEMMA ReadyMore ==
    ASSUME NEW w \in Workers, w \notin At("ready"), At("ready")' = At("ready") \cup {w}
    PROVE  Cardinality(At("ready"))' = Cardinality(At("ready")) + 1
BY ReadyCount, FS_AddElement

LEMMA ReadyFewer ==
    ASSUME NEW w \in Workers, w \in At("ready"), At("ready")' = At("ready") \ {w}
    PROVE  Cardinality(At("ready"))' = Cardinality(At("ready")) - 1
BY ReadyCount, FS_RemoveElement

LEMMA WakeupNext == TypeOK /\ NoLostWakeup /\ [Next]_vars => NoLostWakeup'
<1> SUFFICES ASSUME TypeOK, NoLostWakeup, [Next]_vars PROVE NoLostWakeup' OBVIOUS
<1> DEFINE ready == Cardinality(At("ready"))
<1>1. /\ At("waiting") = {} \/ Len(tasks) <= ready + Pending
      /\ ready \in Nat /\ Len(tasks) \in Nat /\ Pending \in {0, 1}
      /\ Owner \notin Workers
      /\ pc \in [Workers \cup {Owner} -> Labels]
  BY ReadyCount, LenProperties, ThreadPoolAssumption
     DEF NoLostWakeup, Pending, TypeOK, Labels
<1>2. /\ IsFiniteSet(At("ready")')
      /\ ready' \in Nat
      /\ Pending' \in {0, 1}
  <2>1. At("ready")' \subseteq Workers BY DEF At
  <2>2. QED
    BY <2>1, ThreadPoolAssumption, FS_Subset, FS_CardinalityType DEF Pending
<1> HIDE DEF ready
\* An empty queue is never late.
<1>4. ASSUME tasks' = <<>> PROVE NoLostWakeup'
  <2>1. Len(tasks') = 0 BY <1>4
  <2>2. QED BY <1>2, <2>1 DEF NoLostWakeup, Pending, ready
<1>5. ASSUME UNCHANGED <<At("waiting"), At("ready"), tasks, Pending>>
      PROVE  NoLostWakeup'
  BY <1>1, <1>5 DEF NoLostWakeup, Pending, ready
<1>6. ASSUME NEW w \in Workers, Worker(w) PROVE NoLostWakeup'
  <2>1. CASE WorkerReturn(w) BY <1>4, <2>1 DEF WorkerReturn
  <2>2. CASE WorkerTake(w)
    <3>1. At("waiting")' = At("waiting") /\ At("ready")' = At("ready") \ {w}
      BY <1>1, <2>2 DEF WorkerTake, Goto, At
    <3>2. w \in At("ready") BY <2>2 DEF WorkerTake, At
    <3>3. ready' = ready - 1 BY <3>1, <3>2, ReadyFewer DEF ready
    <3>4. Len(tasks') = Len(tasks) - 1
      BY <2>2, HeadTailProperties DEF WorkerTake, TypeOK
    <3>5. Pending' = Pending BY <1>1, <2>2 DEF WorkerTake, Goto, Pending
    <3>6. QED BY <1>1, <3>1, <3>3, <3>4, <3>5 DEF NoLostWakeup, Pending, ready
  <2>3. CASE WorkerWait(w) BY <1>4, <2>3 DEF WorkerWait
  <2>4. CASE WorkerFinish(w)
    <3>1. /\ At("waiting")' = At("waiting") /\ At("ready")' = At("ready") \cup {w}
          /\ w \notin At("ready") /\ Pending' = Pending /\ tasks' = tasks
      BY <1>1, <2>4 DEF WorkerFinish, Goto, At, Pending
    <3>2. ready' = ready + 1 BY <3>1, ReadyMore DEF ready
    <3>3. QED BY <1>1, <3>1, <3>2 DEF NoLostWakeup, Pending, ready
  <2>5. CASE NotifyAll(w)
    <3>1. At("waiting")' = {} BY <1>1, <2>5 DEF NotifyAll, Wake, At
    <3>2. QED BY <3>1 DEF NoLostWakeup
  <2>6. QED BY <1>6, <2>1, <2>2, <2>3, <2>4, <2>5 DEF Worker
<1>7. ASSUME NEW w \in Workers, SpuriousWakeup(w) PROVE NoLostWakeup'
  <2>1. /\ At("waiting")' = At("waiting") \ {w} /\ At("ready")' = At("ready") \cup {w}
        /\ w \notin At("ready") /\ w \in At("waiting")
        /\ Pending' = Pending /\ tasks' = tasks
    BY <1>1, <1>7 DEF SpuriousWakeup, Goto, At, Pending
  <2>2. ready' = ready + 1 BY <2>1, ReadyMore DEF ready
  <2>3. QED BY <1>1, <2>1, <2>2 DEF NoLostWakeup, Pending, ready
<1>8. ASSUME NEW t \in Workers \cup {Owner}, Cleanup(t) PROVE NoLostWakeup'
  BY <1>4, <1>8 DEF Cleanup
<1>9. CASE NotifyOne
  <2>1. CASE At("waiting") = {} /\ Goto(Owner, "idle")
    <3>1. At("waiting")' = {} BY <1>1, <2>1 DEF Goto, At
    <3>2. QED BY <3>1 DEF NoLostWakeup
  <2>2. ASSUME NEW w \in At("waiting"), pc' = [Wake({w}) EXCEPT ![Owner] = "idle"]
        PROVE  NoLostWakeup'
    <3>1. /\ w \in Workers /\ w \notin At("ready")
          /\ At("ready")' = At("ready") \cup {w}
          /\ Pending = 1 /\ Pending' = 0 /\ tasks' = tasks
      BY <1>1, <1>9, <2>2 DEF NotifyOne, Wake, At, Pending
    <3>2. ready' = ready + 1 BY <3>1, ReadyMore DEF ready
    <3>3. QED BY <1>1, <2>2, <3>1, <3>2 DEF NoLostWakeup, Pending, ready
  <2>3. QED BY <1>9, <2>1, <2>2 DEF NotifyOne
<1>10. CASE NotifyAll(Owner)
  <2>1. At("waiting")' = {} BY <1>1, <1>10 DEF NotifyAll, Wake, At
  <2>2. QED BY <2>1 DEF NoLostWakeup
<1>11. CASE DestroyNotifyAll
  <2>1. At("waiting")' = {} BY <1>1, <1>11 DEF DestroyNotifyAll, Wake, At
  <2>2. QED BY <2>1 DEF NoLostWakeup
<1>12. CASE Join \/ Destroy
  <2>1. UNCHANGED <<At("waiting"), At("ready"), tasks, Pending>>
    BY <1>1, <1>12 DEF Join, Destroy, Goto, At, Pending
  <2>2. QED BY <1>5, <2>1
<1>13. CASE Enqueue
  <2>1. /\ At("waiting")' = At("waiting") /\ At("ready")' = At("ready")
        /\ Pending = 0 /\ Pending' = 1
    BY <1>1, <1>13 DEF Enqueue, Goto, At, Pending
  <2>2. Len(tasks') = Len(tasks) + 1 BY <1>13 DEF Enqueue, TypeOK
  <2>3. QED BY <1>1, <2>1, <2>2 DEF NoLostWakeup, Pending, ready
<1>14. CASE UNCHANGED vars
  <2>1. UNCHANGED <<At("waiting"), At("ready"), tasks, Pending>>
    BY <1>14 DEF vars, At, Pending
  <2>2. QED BY <1>5, <2>1
<1>15. QED
  BY <1>6, <1>7, <1>8, <1>9, <1>10, <1>11, <1>12, <1>13, <1>14 DEF Next, OwnerStep

--------------------------------------------------------------------------------
(* Nobody sleeps through the stop. *)

LEMMA StopNext == TypeOK /\ NoSleepAfterStop /\ [Next]_vars => NoSleepAfterStop'
<1> SUFFICES ASSUME TypeOK, NoSleepAfterStop, [Next]_vars,
                    stop', At("waiting")' # {}
             PROVE  \/ \E t \in Workers \cup {Owner} : pc'[t] = "notify_all"
                    \/ pc'[Owner] = "destroy"
  BY DEF NoSleepAfterStop
<1>1. /\ pc \in [Workers \cup {Owner} -> Labels]
      /\ Owner \notin Workers
  BY ThreadPoolAssumption DEF TypeOK, Labels
\* A step that adds no sleeper, does not set stop and leaves the notifier alone.
<1>2. ASSUME stop, At("waiting")' \subseteq At("waiting"),
             \A t \in Workers \cup {Owner} :
                 pc[t] \in {"notify_all", "destroy"} => pc'[t] = pc[t]
      PROVE  \/ \E t \in Workers \cup {Owner} : pc'[t] = "notify_all"
             \/ pc'[Owner] = "destroy"
  <2>1. \/ \E t \in Workers \cup {Owner} : pc[t] = "notify_all"
        \/ pc[Owner] = "destroy"
    BY <1>2 DEF NoSleepAfterStop
  <2>2. QED BY <1>2, <2>1
<1>3. ASSUME NEW w \in Workers, Worker(w) \/ SpuriousWakeup(w), ~NotifyAll(w)
      PROVE  \/ \E t \in Workers \cup {Owner} : pc'[t] = "notify_all"
             \/ pc'[Owner] = "destroy"
  <2>1. /\ stop
        /\ At("waiting")' \subseteq At("waiting")
        /\ \A t \in Workers \cup {Owner} :
               pc[t] \in {"notify_all", "destroy"} => pc'[t] = pc[t]
    BY <1>1, <1>3 DEF Worker, WorkerReturn, WorkerTake, WorkerWait, WorkerFinish,
                      SpuriousWakeup, Goto, At
  <2>2. QED BY <1>2, <2>1
<1>4. ASSUME NEW t \in Workers \cup {Owner}, NotifyAll(t) PROVE FALSE
  BY <1>1, <1>4 DEF NotifyAll, Wake, At
<1>5. ASSUME NEW t \in Workers \cup {Owner}, Cleanup(t) PROVE pc'[t] = "notify_all"
  BY <1>1, <1>5 DEF Cleanup, Goto
<1>6. CASE NotifyOne
  <2>1. /\ stop
        /\ At("waiting")' \subseteq At("waiting")
        /\ \A t \in Workers \cup {Owner} :
               pc[t] \in {"notify_all", "destroy"} => pc'[t] = pc[t]
    BY <1>1, <1>6 DEF NotifyOne, Wake, Goto, At
  <2>2. QED BY <1>2, <2>1
<1>7. CASE DestroyNotifyAll
  BY <1>1, <1>7 DEF DestroyNotifyAll, Wake, At
<1>8. CASE Join \/ Enqueue
  <2>1. /\ stop
        /\ At("waiting")' \subseteq At("waiting")
        /\ \A t \in Workers \cup {Owner} :
               pc[t] \in {"notify_all", "destroy"} => pc'[t] = pc[t]
    BY <1>1, <1>8 DEF Join, Enqueue, Goto, At
  <2>2. QED BY <1>2, <2>1
<1>9. CASE Destroy BY <1>1, <1>9 DEF Destroy, Goto
<1>10. CASE UNCHANGED vars
  <2>1. /\ stop /\ At("waiting")' \subseteq At("waiting") /\ pc' = pc
    BY <1>10 DEF vars, At
  <2>2. QED BY <1>2, <2>1
<1>11. QED
  BY <1>3, <1>4, <1>5, <1>6, <1>7, <1>8, <1>9, <1>10 DEF Next, OwnerStep

--------------------------------------------------------------------------------
(* No task is lost, repeated or overtaken. *)

\* Tasks are numbered as they come: none has a number beyond enqueued.
Numbered ==
    /\ \A i \in 1..Len(tasks) : tasks[i] <= enqueued
    /\ \A i \in 1..Len(started) : started[i] <= enqueued

LEMMA AccountedInit == Init => Accounted /\ Numbered
BY DEF Init, Accounted, Numbered

LEMMA AccountedNext ==
    TypeOK /\ Accounted /\ Numbered /\ [Next]_vars => Accounted' /\ Numbered'
<1> SUFFICES ASSUME TypeOK, Accounted, Numbered, [Next]_vars
             PROVE  Accounted' /\ Numbered'
  OBVIOUS
<1>1. /\ tasks \in Seq(1..MaxTasks) /\ started \in Seq(1..MaxTasks)
      /\ enqueued \in Nat
  BY ThreadPoolAssumption DEF TypeOK
<1>2. ASSUME UNCHANGED <<tasks, started, dropped, enqueued>>
      PROVE  Accounted' /\ Numbered'
  BY <1>2 DEF Accounted, Numbered
<1>3. ASSUME NEW w \in Workers, WorkerTake(w) PROVE Accounted' /\ Numbered'
  <2> DEFINE n == Len(tasks)  m == Len(started)
  <2>1. /\ n \in Nat \ {0} /\ m \in Nat
        /\ tasks' = Tail(tasks) /\ Len(tasks') = n - 1
        /\ \A i \in 1..(n - 1) : tasks'[i] = tasks[i + 1]
        /\ Len(started') = m + 1
        /\ \A i \in 1..m : started'[i] = started[i]
        /\ started'[m + 1] = tasks[1]
        /\ dropped' = dropped /\ enqueued' = enqueued
    BY <1>1, <1>3 DEF WorkerTake
  <2>2. /\ \A i \in 1..n : tasks[i] \in 1..MaxTasks
        /\ \A i \in 1..m : started[i] \in 1..MaxTasks
    BY <1>1, ElementOfSeq
  <2> HIDE DEF n, m
  <2>3. /\ \A i, j \in 1..m : i < j => started[i] < started[j]
        /\ \A i, j \in 1..n : i < j => tasks[i] < tasks[j]
        /\ \A i \in 1..m, j \in 1..n : started[i] < tasks[j]
        /\ \A k \in 1..enqueued :
              \/ \E i \in 1..m : started[i] = k
              \/ \E i \in 1..n : tasks[i] = k
              \/ k \in dropped
    BY DEF Accounted, n, m
  <2>4. ASSUME NEW i \in 1..Len(started'), NEW j \in 1..Len(started'), i < j
        PROVE  started'[i] < started'[j]
    <3>1. i \in 1..m BY <2>1, <2>4
    <3>2. CASE j = m + 1 BY <2>1, <2>3, <3>1, <3>2
    <3>3. CASE j # m + 1
      <4>1. j \in 1..m BY <2>1, <3>3
      <4>2. QED BY <2>1, <2>3, <2>4, <3>1, <4>1
    <3>4. QED BY <3>2, <3>3
  <2>5. \A i, j \in 1..Len(tasks') : i < j => tasks'[i] < tasks'[j]
    BY <2>1, <2>2, <2>3
  <2>6. \A i \in 1..Len(started'), j \in 1..Len(tasks') : started'[i] < tasks'[j]
    BY <2>1, <2>2, <2>3
  <2>7. ASSUME NEW k \in 1..enqueued'
        PROVE  \/ \E i \in 1..Len(started') : started'[i] = k
               \/ \E i \in 1..Len(tasks') : tasks'[i] = k
               \/ k \in dropped'
    <3>1. CASE \E i \in 1..m : started[i] = k BY <2>1, <3>1
    <3>2. ASSUME NEW i \in 1..n, tasks[i] = k
          PROVE  \/ \E j \in 1..Len(started') : started'[j] = k
                 \/ \E j \in 1..Len(tasks') : tasks'[j] = k
      <4>1. CASE i = 1 BY <2>1, <3>2, <4>1
      <4>2. CASE i # 1
        <5>1. i - 1 \in 1..Len(tasks') /\ tasks'[i - 1] = k
          BY <2>1, <3>2, <4>2
        <5>2. QED BY <5>1
      <4>3. QED BY <4>1, <4>2
    <3>3. QED BY <1>1, <2>1, <2>3, <3>1, <3>2
  <2>8. Numbered'
    BY <2>1, <2>2 DEF Numbered, n, m
  <2>9. QED BY <2>4, <2>5, <2>6, <2>7, <2>8 DEF Accounted
<1>4. ASSUME NEW t \in Workers \cup {Owner}, Cleanup(t)
      PROVE  Accounted' /\ Numbered'
  <2>1. /\ Len(tasks') = 0 /\ started' = started /\ enqueued' = enqueued
        /\ \A i \in 1..Len(tasks) : tasks[i] \in dropped'
        /\ dropped \subseteq dropped'
    BY <1>4 DEF Cleanup
  <2>2. QED BY <1>1, <2>1 DEF Accounted, Numbered
<1>5. CASE Enqueue
  <2> DEFINE n == Len(tasks)  m == Len(started)
  <2>1. /\ n \in Nat /\ m \in Nat
        /\ Len(tasks') = n + 1
        /\ \A i \in 1..n : tasks'[i] = tasks[i]
        /\ tasks'[n + 1] = enqueued + 1
        /\ started' = started /\ dropped' = dropped /\ enqueued' = enqueued + 1
    BY <1>1, <1>5 DEF Enqueue
  <2>2. /\ \A i \in 1..n : tasks[i] \in 1..MaxTasks /\ tasks[i] <= enqueued
        /\ \A i \in 1..m : started[i] \in 1..MaxTasks /\ started[i] <= enqueued
    <3>1. \A i \in 1..n : tasks[i] \in 1..MaxTasks BY <1>1, ElementOfSeq
    <3>2. \A i \in 1..m : started[i] \in 1..MaxTasks BY <1>1, ElementOfSeq
    <3>3. QED BY <3>1, <3>2 DEF Numbered
  <2> HIDE DEF n, m
  <2>3. /\ \A i, j \in 1..m : i < j => started[i] < started[j]
        /\ \A i, j \in 1..n : i < j => tasks[i] < tasks[j]
        /\ \A i \in 1..m, j \in 1..n : started[i] < tasks[j]
        /\ \A k \in 1..enqueued :
              \/ \E i \in 1..m : started[i] = k
              \/ \E i \in 1..n : tasks[i] = k
              \/ k \in dropped
    BY DEF Accounted, n, m
  <2>4. Len(started') = m BY <2>1 DEF m
  <2>5. ASSUME NEW i \in 1..Len(tasks'), NEW j \in 1..Len(tasks'), i < j
        PROVE  tasks'[i] < tasks'[j]
    <3>1. i \in 1..n BY <2>1, <2>5
    <3>2. CASE j = n + 1
      <4>1. tasks'[i] = tasks[i] /\ tasks'[j] = enqueued + 1 BY <2>1, <3>1, <3>2
      <4>2. tasks[i] \in Nat /\ tasks[i] <= enqueued BY <2>2, <3>1
      <4>3. QED BY <1>1, <4>1, <4>2
    <3>3. CASE j # n + 1
      <4>1. j \in 1..n BY <2>1, <3>3
      <4>2. QED BY <2>1, <2>3, <2>5, <3>1, <4>1
    <3>4. QED BY <3>2, <3>3
  <2>6. \A i \in 1..Len(started'), j \in 1..Len(tasks') : started'[i] < tasks'[j]
    BY <1>1, <2>1, <2>2, <2>3, <2>4
  <2>7. ASSUME NEW k \in 1..enqueued'
        PROVE  \/ \E i \in 1..Len(started') : started'[i] = k
               \/ \E i \in 1..Len(tasks') : tasks'[i] = k
               \/ k \in dropped'
    <3>1. CASE k = enqueued + 1 BY <2>1, <3>1
    <3>2. CASE k # enqueued + 1
      <4>1. k \in 1..enqueued BY <1>1, <2>1, <3>2
      <4>2. \A i \in 1..n : i \in 1..Len(tasks') BY <2>1
      <4>3. QED BY <2>1, <2>3, <2>4, <4>1, <4>2
    <3>3. QED BY <3>1, <3>2
  <2>8. Numbered'
    BY <1>1, <2>1, <2>2, <2>4 DEF Numbered
  <2>9. QED BY <2>1, <2>3, <2>4, <2>5, <2>6, <2>7, <2>8 DEF Accounted
<1>6. ASSUME NEW w \in Workers, Worker(w) \/ SpuriousWakeup(w), ~WorkerTake(w)
      PROVE  Accounted' /\ Numbered'
  <2>1. UNCHANGED <<tasks, started, dropped, enqueued>>
    BY <1>6 DEF Worker, WorkerReturn, WorkerWait, WorkerFinish, NotifyAll, SpuriousWakeup
  <2>2. QED BY <1>2, <2>1
<1>7. CASE OwnerStep \/ Destroy \/ UNCHANGED vars
  <2>1. UNCHANGED <<tasks, started, dropped, enqueued>>
    BY <1>7 DEF OwnerStep, NotifyOne, NotifyAll, DestroyNotifyAll, Join, Destroy, vars
  <2>2. QED BY <1>2, <2>1
<1>8. QED BY <1>3, <1>4, <1>5, <1>6, <1>7 DEF Next

--------------------------------------------------------------------------------
(* The theorems. *)

\* Every variable of the thread pool keeps its type.
THEOREM PoolTypeCorrect == Spec => []TypeOK
<1>1. QED BY TypeInit, TypeNext, PTL DEF Spec

\* For every number of workers and tasks: no task waits for a worker that
\* sleeps (enqueue pushes, unlocks and only then notifies one worker).
THEOREM WakeupsNotLost == Spec => []NoLostWakeup
<1>1. Init => NoLostWakeup BY DEF Init, NoLostWakeup, At
<1>2. QED BY <1>1, PoolTypeCorrect, WakeupNext, PTL DEF Spec

\* No worker sleeps through the stop of cleanup or of the destructor, whichever
\* of them comes first.
THEOREM StopHeard == Spec => []NoSleepAfterStop
<1>1. Init => NoSleepAfterStop BY DEF Init, NoSleepAfterStop
<1>2. QED BY <1>1, PoolTypeCorrect, StopNext, PTL DEF Spec

\* Every enqueued task is waiting, started or dropped by cleanup, and tasks
\* start in the order of enqueue, each of them once.
THEOREM TasksAccounted == Spec => []Accounted
<1>1. QED BY PoolTypeCorrect, AccountedInit, AccountedNext, PTL DEF Spec
================================================================================
