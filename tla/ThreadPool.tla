------------------------------ MODULE ThreadPool ------------------------------
(***************************************************************************)
(* The language server's thread pool (src/src/lsp/ThreadPool): a queue of  *)
(* tasks under queue_mutex, workers that wait on a condition variable, an  *)
(* owner that enqueues and finally destroys the pool, and cleanup, which   *)
(* a task (the exit notification) or the owner calls.                      *)
(*                                                                         *)
(* What runs under queue_mutex is one step.  Notifying happens after the   *)
(* mutex is released and is a step of its own; condition.wait checks its   *)
(* predicate and blocks in one step, and may wake up spuriously.           *)
(***************************************************************************)
EXTENDS Naturals, Sequences, FiniteSets

CONSTANTS Workers,   \* the threads of the pool
          Owner,     \* the thread that runs mainLoop
          MaxTasks   \* bound on the tasks that are ever enqueued

ASSUME ThreadPoolAssumption ==
    /\ IsFiniteSet(Workers)
    /\ Owner \notin Workers
    /\ MaxTasks \in Nat

VARIABLES
    tasks,     \* the queue; a task is the number of enqueue's call for it
    stop,
    pc,        \* where each thread is
    enqueued,  \* how many tasks were enqueued so far
    cleaned,   \* cleanup was called: BashppServer::cleanup does it only once
    started,   \* the tasks that a worker took, in the order they were taken
    dropped    \* the tasks that cleanup popped

vars == <<tasks, stop, pc, enqueued, cleaned, started, dropped>>

--------------------------------------------------------------------------------
At(label) == {w \in Workers : pc[w] = label}

Goto(t, label) == pc' = [pc EXCEPT ![t] = label]

\* Waking up the workers of S: each of them takes queue_mutex again.
Wake(S) == [t \in DOMAIN pc |-> IF t \in S THEN "ready" ELSE pc[t]]

\* A worker with queue_mutex, whose wait is over: stop, and nothing left.
WorkerReturn(w) ==
    /\ pc[w] = "ready"
    /\ stop /\ tasks = <<>>
    /\ Goto(w, "returned")
    /\ UNCHANGED <<tasks, stop, enqueued, cleaned, started, dropped>>

\* Mutant: a worker pops without looking whether there is a task.
WorkerTakeLate(w) ==
    /\ pc[w] = "ready"
    /\ started' = Append(started, IF tasks = <<>> THEN 0 ELSE Head(tasks))
    /\ tasks' = IF tasks = <<>> THEN tasks ELSE Tail(tasks)
    /\ Goto(w, "running")
    /\ UNCHANGED <<stop, enqueued, cleaned, dropped>>

\* Mutant: the queue is used as a stack.
WorkerTakeLast(w) ==
    /\ pc[w] = "ready"
    /\ tasks # <<>>
    /\ started' = Append(started, tasks[Len(tasks)])
    /\ tasks' = SubSeq(tasks, 1, Len(tasks) - 1)
    /\ Goto(w, "running")
    /\ UNCHANGED <<stop, enqueued, cleaned, dropped>>

\* ... or the next task, whether or not stop is set.
WorkerTake(w) ==
    /\ pc[w] = "ready"
    /\ tasks # <<>>
    /\ started' = Append(started, Head(tasks))
    /\ tasks' = Tail(tasks)
    /\ Goto(w, "running")
    /\ UNCHANGED <<stop, enqueued, cleaned, dropped>>

WorkerWait(w) ==
    /\ pc[w] = "ready"
    /\ ~stop /\ tasks = <<>>
    /\ Goto(w, "waiting")
    /\ UNCHANGED <<tasks, stop, enqueued, cleaned, started, dropped>>

WorkerFinish(w) ==
    /\ pc[w] = "running"
    /\ Goto(w, "ready")
    /\ UNCHANGED <<tasks, stop, enqueued, cleaned, started, dropped>>

\* A wait may end without a notification.
SpuriousWakeup(w) ==
    /\ pc[w] = "waiting"
    /\ Goto(w, "ready")
    /\ UNCHANGED <<tasks, stop, enqueued, cleaned, started, dropped>>

\* Mutant: nobody is notified.
EnqueueSilently ==
    /\ pc[Owner] = "idle"
    /\ enqueued < MaxTasks
    /\ enqueued' = enqueued + 1
    /\ tasks' = Append(tasks, enqueued + 1)
    /\ UNCHANGED <<stop, pc, cleaned, started, dropped>>

\* enqueue: the task is pushed under the mutex ...
Enqueue ==
    /\ pc[Owner] = "idle"
    /\ enqueued < MaxTasks
    /\ enqueued' = enqueued + 1
    /\ tasks' = Append(tasks, enqueued + 1)
    /\ Goto(Owner, "notify_one")
    /\ UNCHANGED <<stop, cleaned, started, dropped>>

\* ... and one waiting worker, if any, is notified after it.
NotifyOne ==
    /\ pc[Owner] = "notify_one"
    /\ \/ \E w \in At("waiting") :
             pc' = [Wake({w}) EXCEPT ![Owner] = "idle"]
       \/ At("waiting") = {} /\ Goto(Owner, "idle")
    /\ UNCHANGED <<tasks, stop, enqueued, cleaned, started, dropped>>

\* cleanup, called by the task a worker runs or by the owner.
Cleanup(t) ==
    /\ pc[t] = IF t = Owner THEN "idle" ELSE "running"
    /\ ~cleaned
    /\ cleaned' = TRUE
    /\ dropped' = dropped \cup {tasks[i] : i \in 1..Len(tasks)}
    /\ tasks' = <<>>
    /\ stop' = TRUE
    /\ Goto(t, "notify_all")
    /\ UNCHANGED <<enqueued, started>>

\* Mutant: cleanup notifies one worker only.
NotifyAllOne(t) ==
    /\ pc[t] = "notify_all"
    /\ \E S \in SUBSET At("waiting") :
          /\ Cardinality(S) = IF At("waiting") = {} THEN 0 ELSE 1
          /\ pc' = [Wake(S) EXCEPT ![t] = IF t = Owner THEN "idle" ELSE "running"]
    /\ UNCHANGED <<tasks, stop, enqueued, cleaned, started, dropped>>

NotifyAll(t) ==
    /\ pc[t] = "notify_all"
    /\ pc' = [Wake(At("waiting")) EXCEPT ![t] = IF t = Owner THEN "idle" ELSE "running"]
    /\ UNCHANGED <<tasks, stop, enqueued, cleaned, started, dropped>>

\* ~ThreadPool: stop is set, all are notified, and the workers are joined.
Destroy ==
    /\ pc[Owner] = "idle"
    /\ stop' = TRUE
    /\ Goto(Owner, "destroy")
    /\ UNCHANGED <<tasks, enqueued, cleaned, started, dropped>>

\* Mutant: the destructor notifies nobody before it joins.
DestroyNotifyNone ==
    /\ pc[Owner] = "destroy"
    /\ Goto(Owner, "join")
    /\ UNCHANGED <<tasks, stop, enqueued, cleaned, started, dropped>>

DestroyNotifyAll ==
    /\ pc[Owner] = "destroy"
    /\ pc' = [Wake(At("waiting")) EXCEPT ![Owner] = "join"]
    /\ UNCHANGED <<tasks, stop, enqueued, cleaned, started, dropped>>

Join ==
    /\ pc[Owner] = "join"
    /\ At("returned") = Workers
    /\ Goto(Owner, "returned")
    /\ UNCHANGED <<tasks, stop, enqueued, cleaned, started, dropped>>

--------------------------------------------------------------------------------
Init ==
    /\ tasks = <<>>
    /\ stop = FALSE
    /\ pc = [t \in Workers \cup {Owner} |-> IF t = Owner THEN "idle" ELSE "ready"]
    /\ enqueued = 0
    /\ cleaned = FALSE
    /\ started = <<>>
    /\ dropped = {}

Worker(w) ==
    \/ WorkerReturn(w) \/ WorkerTake(w) \/ WorkerWait(w) \/ WorkerFinish(w)
    \/ NotifyAll(w)

OwnerStep == NotifyOne \/ NotifyAll(Owner) \/ DestroyNotifyAll \/ Join

Next ==
    \/ \E w \in Workers : Worker(w) \/ SpuriousWakeup(w) \/ Cleanup(w)
    \/ OwnerStep
    \/ Enqueue \/ Cleanup(Owner) \/ Destroy

Spec == Init /\ [][Next]_vars

\* Threads run, tasks return; nobody has to enqueue, clean up or destroy, and
\* no wakeup is spurious by right.
FairSpec ==
    /\ Spec
    /\ \A w \in Workers : WF_vars(Worker(w))
    /\ WF_vars(OwnerStep)

--------------------------------------------------------------------------------
(* Properties. *)

TypeOK ==
    /\ tasks \in Seq(1..MaxTasks)
    /\ stop \in BOOLEAN
    /\ pc \in [Workers \cup {Owner} ->
                 {"idle", "ready", "waiting", "running", "returned",
                  "notify_one", "notify_all", "destroy", "join"}]
    /\ enqueued \in 0..MaxTasks
    /\ cleaned \in BOOLEAN
    /\ started \in Seq(1..MaxTasks)
    /\ dropped \in SUBSET (1..MaxTasks)

\* A task never waits for a worker that sleeps: there are as many workers on
\* their way to the queue, or notifications on theirs to the workers, as there
\* are tasks, or else no worker sleeps.
NoLostWakeup ==
    \/ At("waiting") = {}
    \/ Len(tasks) <= Cardinality(At("ready"))
                       + (IF pc[Owner] = "notify_one" THEN 1 ELSE 0)

\* Nobody sleeps through the stop: whoever set it has still to notify all.
NoSleepAfterStop ==
    stop /\ At("waiting") # {} =>
        \/ \E t \in Workers \cup {Owner} : pc[t] = "notify_all"
        \/ pc[Owner] = "destroy"

\* Tasks start in the order of enqueue, each of them once: what started, what
\* waits and what was dropped are all the tasks there ever were.
Accounted ==
    /\ \A i, j \in 1..Len(started) : i < j => started[i] < started[j]
    /\ \A i, j \in 1..Len(tasks) : i < j => tasks[i] < tasks[j]
    /\ \A i \in 1..Len(started), j \in 1..Len(tasks) : started[i] < tasks[j]
    /\ \A k \in 1..enqueued :
          \/ \E i \in 1..Len(started) : started[i] = k
          \/ \E i \in 1..Len(tasks) : tasks[i] = k
          \/ k \in dropped

\* While the pool is not stopped, every task in it is started some day.
TasksStart == tasks # <<>> ~> (tasks = <<>> \/ stop)

\* Once stopped, every worker returns, and so the destructor's joins do.
WorkersReturn == stop ~> At("returned") = Workers
================================================================================
