--------------------------- MODULE LspServerProofs ---------------------------
(***************************************************************************)
(* Proofs about LspServer, for any workers, documents and sessions.        *)
(*                                                                         *)
(* Messages: each is in one place, not yet read, in the queue, with one    *)
(* worker or handled, so that its handler runs once and a didChange has    *)
(* one thread (Once, Unspawned).  Debounce: the thread with the last       *)
(* generation of a state has not been superseded, so that what is dropped  *)
(* is dropped for one that stays (Generations).  Shutdown: whoever saw the *)
(* response sends its next messages when shutdown_requested is set, and    *)
(* nobody clears it (ShutdownSeen, LateRefused).  Documents: the texts     *)
(* that the editor, the files and the pool hold.  Programs: one that is    *)
(* not parsed from the contents of its file is due, some worker or thread  *)
(* has yet to parse or to erase it (AllCurrent).                           *)
(***************************************************************************)
EXTENDS LspServer, TLAPS, SequenceTheorems

Msg == [kind : AllKinds, file : Files, late : BOOLEAN]

Labels == AllKinds \cup
             {"idle", "start", "shutdown_respond", "resolve", "exit_drop", "exit_code",
              "close_file", "watched_look", "watched_reparse", "watched_create",
              "change_spawn"}

\* The kind of the messages whose handler has this label.
KindAt(l) ==
    CASE l = "shutdown_respond" -> "shutdown"
      [] l = "resolve" -> "complete"
      [] l \in {"exit_drop", "exit_code"} -> "exit"
      [] l = "close_file" -> "close"
      [] l \in {"watched_look", "watched_reparse", "watched_create"} -> "watched"
      [] l = "change_spawn" -> "change"
      [] OTHER -> l

--------------------------------------------------------------------------------
(* The invariant. *)

MessageType ==
    /\ session \in Sessions
    /\ sent \in Seq(Msg) /\ Len(sent) <= session.messages
    /\ taken \in 0..Len(sent)
    /\ queue \in Seq(1..taken)
    /\ worker \in [Workers -> [msg : 0..taken, at : Labels]]

\* A worker is idle, or its label belongs to a handler of its message.
Handling ==
    \A w \in Workers :
        /\ worker[w].at = "idle" <=> worker[w].msg = 0
        /\ worker[w].at \notin {"idle", "start"} => Kind(w) = KindAt(worker[w].at)

\* No message is in two places.
Once ==
    /\ \A i, j \in 1..Len(queue) : queue[i] = queue[j] => i = j
    /\ \A i \in 1..Len(queue), w \in Workers : worker[w].msg # queue[i]
    /\ \A v, w \in Workers : worker[v].msg = worker[w].msg => v = w \/ worker[v].msg = 0

Messages == MessageType /\ Handling /\ Once

ThreadLabels == {"none", "sleep", "superseded", "store", "look", "reparse", "create",
                 "failed", "finish", "done"}

DebounceType ==
    /\ change_generation \in Seq(Nat)
    /\ thread \in [Ids -> [at : ThreadLabels, state : Nat, generation : Nat]]
    /\ DOMAIN states \subseteq Files
    /\ \A f \in DOMAIN states : states[f] \in 1..Len(change_generation)
    /\ processing_didChange \in BOOLEAN

\* A message is still to be read, in the queue, or with a worker.
Placed(c) ==
    \/ c > taken
    \/ \E i \in 1..Len(queue) : queue[i] = c
    \/ \E w \in Workers : worker[w].msg = c

\* A message whose handler has not started a thread has none.
Unspawned == \A c \in Ids : Placed(c) => thread[c] = NoThread

\* Generations are numbered from 1 up to the one the state has now, whose thread was
\* not superseded.
Generations ==
    /\ \A c \in Ids : thread[c] # NoThread =>
          /\ sent[c].kind = "change" /\ thread[c].at # "none"
          /\ thread[c].state \in 1..Len(change_generation)
          /\ thread[c].generation \in 1..change_generation[thread[c].state]
          /\ thread[c].at = "superseded" =>
                thread[c].generation < change_generation[thread[c].state]
    /\ \A s \in 1..Len(change_generation) :
          \E d \in Ids : /\ thread[d].at # "none"
                         /\ thread[d].state = s
                         /\ thread[d].generation = change_generation[s]

Debounce == DebounceType /\ Unspawned /\ Generations

Results == {"result", "refused"}

\* Only with shutdown_requested set was a response to shutdown seen or is one sent.
ShutdownSeen ==
    /\ \A i \in 1..Len(sent) : sent[i].late => shutdown_requested
    /\ \A i \in 1..Len(responses) :
          sent[responses[i].msg].kind = "shutdown" => shutdown_requested
    /\ \A w \in Workers : worker[w].at = "shutdown_respond" => shutdown_requested

\* No handler of a request runs for an editor that has seen the response.
LateRefused ==
    /\ \A w \in Workers :
          worker[w].at \notin {"idle", "start"} /\ Kind(w) \in Requests =>
              ~sent[worker[w].msg].late
    /\ \A i \in 1..Len(responses) :
          sent[responses[i].msg].late => responses[i].result = "refused"

Refusing ==
    /\ shutdown_requested \in BOOLEAN
    /\ responses \in Seq([msg : Nat, result : Results])
    /\ \A i \in 1..Len(responses) : responses[i].msg \in 1..taken
    /\ ShutdownSeen
    /\ LateRefused
    /\ process = "exit 1" => \A i \in 1..Len(sent) : sent[i].kind = "exit" => ~sent[i].late

Holds(contents, texts) ==
    DOMAIN contents \subseteq Files /\ \A f \in DOMAIN contents : contents[f] \in texts

Documents ==
    /\ Holds(buffer, Texts) /\ disk \in [Files -> Texts]
    /\ Holds(unsaved, Texts) /\ Holds(programs, Texts \cup {Empty})

ControlType ==
    /\ stop \in BOOLEAN /\ exiting \in BOOLEAN
    /\ main \in {"check", "read", "cleanup", "drop", "destroy", "join"}
    /\ process \in {"running", "exit 0", "exit 1"}

--------------------------------------------------------------------------------
(* What the steps have in common. *)

\* The messages sent, and the documents and workers of a session.
LEMMA Typed ==
    ASSUME MessageType
    PROVE  /\ Len(sent) \in Nat /\ taken \in Nat /\ taken <= Len(sent)
           /\ Len(sent) <= MaxMessages /\ MaxMessages \in Nat
           /\ session.files \subseteq Files /\ session.workers \subseteq Workers
           /\ \A i \in 1..Len(sent) : sent[i] \in Msg
           /\ Len(queue) \in Nat /\ \A i \in 1..Len(queue) : queue[i] \in 1..taken
<1>1. Len(sent) \in Nat /\ \A i \in 1..Len(sent) : sent[i] \in Msg
  BY ElementOfSeq, LenProperties DEF MessageType
<1>2. Len(queue) \in Nat /\ \A i \in 1..Len(queue) : queue[i] \in 1..taken
  BY ElementOfSeq, LenProperties DEF MessageType
<1>3. /\ session.messages \in 0..MaxMessages
      /\ session.files \subseteq Files /\ session.workers \subseteq Workers
  BY LspAssumption DEF MessageType
<1>4. QED BY <1>1, <1>2, <1>3, LspAssumption DEF MessageType

\* The steps of a worker after it took a message.
Moves(w) ==
    \/ Refuse(w) \/ Dispatch(w)
    \/ Hover(w) \/ Definition(w) \/ DocumentSymbol(w) \/ References(w) \/ Rename(w)
    \/ CompleteWait(w) \/ CompleteRespond(w) \/ Unknown(w) \/ Shutdown(w)
    \/ Open(w) \/ Change(w) \/ Save(w) \/ Close(w) \/ Watched(w) \/ Exit(w)

LEMMA WorkerMessage ==
    ASSUME Messages, NEW w \in Workers, worker[w].at # "idle"
    PROVE  /\ worker[w].msg \in 1..taken /\ worker[w].msg \in 1..Len(sent)
           /\ worker[w].msg \in Ids
           /\ sent[worker[w].msg] \in Msg
<1>1. worker[w].msg \in 0..taken /\ worker[w].msg # 0
  BY DEF Messages, MessageType, Handling
<1>2. worker[w].msg \in 1..Len(sent) /\ worker[w].msg \in Ids
  BY <1>1, Typed DEF Messages, Ids
<1>3. QED BY <1>1, <1>2, Typed DEF Messages

\* A worker goes on in the handler of its message, or is done with it.
LEMMA MovesLabel ==
    ASSUME Messages, NEW w \in Workers, Moves(w)
    PROVE  /\ worker[w].at # "idle"
           /\ UNCHANGED <<session, sent, taken>>
           /\ queue' \in {queue, <<>>}
           /\ \/ Finish(w)
              \/ \E l \in Labels \ {"idle", "start"} : Goto(w, l) /\ KindAt(l) = Kind(w)
<1>1. worker[w].at # "idle" => Kind(w) \in AllKinds
  BY WorkerMessage DEF Kind, Msg
<1> USE DEF At, AnswerFrom, editor, Labels, KindAt, AllKinds
<1>2. worker[w].at \notin {"idle", "start"} => Kind(w) = KindAt(worker[w].at)
  BY DEF Messages, Handling
<1>3. CASE Refuse(w) BY <1>3 DEF Refuse
<1>4. CASE Dispatch(w) BY <1>1, <1>4 DEF Dispatch
<1>5. CASE Hover(w) \/ Definition(w) \/ DocumentSymbol(w) \/ References(w) \/ Rename(w)
  BY <1>5 DEF Hover, Definition, DocumentSymbol, References, Rename
<1>6. CASE CompleteWait(w) \/ CompleteRespond(w)
  BY <1>2, <1>6 DEF CompleteWait, CompleteRespond
<1>7. CASE Unknown(w) \/ Shutdown(w) BY <1>2, <1>7 DEF Unknown, Shutdown
<1>8. CASE Open(w) \/ Change(w) \/ Save(w) BY <1>2, <1>8 DEF Open, Change, Save
<1>9. CASE Close(w) BY <1>2, <1>9 DEF Close
<1>10. CASE Watched(w) BY <1>2, <1>10 DEF Watched
<1>11. CASE Exit(w) BY <1>2, <1>11 DEF Exit
<1>12. QED
  BY <1>3, <1>4, <1>5, <1>6, <1>7, <1>8, <1>9, <1>10, <1>11 DEF Moves

--------------------------------------------------------------------------------
(* Each message is in one place. *)

LEMMA InitMessages == Init => Messages
<1> SUFFICES ASSUME Init PROVE Messages OBVIOUS
<1>1. Len(sent) = 0 /\ sent \in Seq(Msg) /\ session.messages \in 0..MaxMessages
  BY LspAssumption, EmptySeq DEF Init
<1>2. MessageType
  BY <1>1, LspAssumption, EmptySeq DEF Init, MessageType, Idle, Labels
<1>3. Handling /\ Once BY EmptySeq DEF Init, Handling, Once, Idle
<1>4. QED BY <1>2, <1>3 DEF Messages

LEMMA SendMessages ==
    ASSUME Messages, NEW kind \in AllKinds, NEW f \in Files, Send(kind, f)
    PROVE  Messages' /\ \A i \in 1..Len(sent) : sent'[i] = sent[i]
<1> DEFINE m == Message(kind, f)
<1>1. /\ sent' = Append(sent, m) /\ Len(sent) < session.messages
      /\ UNCHANGED <<session, taken, queue, worker>>
  BY DEF Send
<1>2. m \in Msg BY DEF Message, Msg
<1> HIDE DEF m
<1>3. /\ sent' \in Seq(Msg) /\ Len(sent') = Len(sent) + 1
      /\ \A i \in 1..Len(sent) : sent'[i] = sent[i]
  BY <1>1, <1>2, AppendProperties DEF Messages, MessageType
<1>4. Len(sent) \in Nat /\ taken \in Nat /\ session.messages \in Nat
  BY Typed, LspAssumption DEF Messages, MessageType
<1>5. MessageType' BY <1>1, <1>3, <1>4 DEF Messages, MessageType
<1>6. Once' BY <1>1 DEF Messages, Once
<1>7. ASSUME NEW w \in Workers, worker[w].at # "idle" PROVE Kind(w)' = Kind(w)
  BY <1>1, <1>3, <1>7, WorkerMessage DEF Kind
<1>8. Handling' BY <1>1, <1>7 DEF Messages, Handling
<1>9. QED BY <1>3, <1>5, <1>6, <1>8 DEF Messages

LEMMA ReadMessages ==
    ASSUME Messages, MainRead
    PROVE  Messages'
<1>1. /\ taken < Len(sent) /\ taken' = taken + 1 /\ queue' = Append(queue, taken + 1)
      /\ UNCHANGED <<session, sent, worker>>
  BY DEF MainRead, editor
<1>2. /\ taken \in Nat /\ Len(sent) \in Nat /\ Len(queue) \in Nat
      /\ \A i \in 1..Len(queue) : queue[i] \in 1..taken
  BY Typed DEF Messages
<1>3. queue \in Seq(1..(taken + 1))
  BY <1>2, SeqMonotonic DEF Messages, MessageType
<1>4. /\ queue' \in Seq(1..(taken + 1)) /\ Len(queue') = Len(queue) + 1
      /\ \A i \in 1..Len(queue) : queue'[i] = queue[i]
      /\ queue'[Len(queue) + 1] = taken + 1
  BY <1>1, <1>2, <1>3, AppendProperties
<1>5. \A w \in Workers : worker[w].msg \in 0..taken
  BY DEF Messages, MessageType
<1>6. MessageType' BY <1>1, <1>2, <1>4 DEF Messages, MessageType
<1>7. Handling' BY <1>1 DEF Messages, Handling, Kind
<1>8. ASSUME NEW i \in 1..Len(queue') PROVE i \in 1..Len(queue) \/ queue'[i] = taken + 1
  BY <1>2, <1>4, <1>8
<1>9. ASSUME NEW i \in 1..Len(queue'), NEW j \in 1..Len(queue'), queue'[i] = queue'[j]
      PROVE  i = j
  <2>1. CASE i \in 1..Len(queue) /\ j \in 1..Len(queue)
    BY <1>4, <1>9, <2>1 DEF Messages, Once
  <2>2. CASE i \notin 1..Len(queue) \/ j \notin 1..Len(queue)
    <3>1. queue'[i] = taken + 1 BY <1>8, <1>9, <2>2
    <3>2. i \notin 1..Len(queue) /\ j \notin 1..Len(queue) BY <3>1, <1>2, <1>4, <1>9
    <3>3. QED BY <3>2, <1>2, <1>4
  <2>3. QED BY <2>1, <2>2
<1>10. ASSUME NEW i \in 1..Len(queue'), NEW w \in Workers PROVE worker[w].msg # queue'[i]
  <2>1. CASE i \in 1..Len(queue) BY <1>4, <2>1 DEF Messages, Once
  <2>2. CASE queue'[i] = taken + 1 BY <1>2, <1>5, <2>2
  <2>3. QED BY <1>8, <2>1, <2>2
<1>11. Once' BY <1>1, <1>9, <1>10 DEF Messages, Once
<1>12. QED BY <1>6, <1>7, <1>11 DEF Messages

LEMMA TakeMessages ==
    ASSUME Messages, NEW w \in Workers, Take(w)
    PROVE  /\ Messages'
           /\ worker'[w].msg = queue[1] /\ 1 \in 1..Len(queue)
           /\ \A v \in Workers \ {w} : worker'[v] = worker[v]
           /\ \A i \in 1..Len(queue') : queue'[i] = queue[i + 1] /\ i + 1 \in 1..Len(queue)
<1>1. /\ worker[w].at = "idle" /\ queue # <<>>
      /\ worker' = [worker EXCEPT ![w] = [msg |-> Head(queue), at |-> "start"]]
      /\ queue' = Tail(queue)
      /\ UNCHANGED <<session, sent, taken>>
  BY DEF Take, At, editor
<1>2. /\ Len(queue) \in Nat /\ taken \in Nat
      /\ \A i \in 1..Len(queue) : queue[i] \in 1..taken
  BY Typed DEF Messages
<1>3. /\ Len(queue) >= 1 /\ Head(queue) = queue[1]
      /\ queue' \in Seq(1..taken) /\ Len(queue') = Len(queue) - 1
      /\ \A i \in 1..Len(queue') : queue'[i] = queue[i + 1]
  BY <1>1, <1>2, HeadTailProperties, EmptySeq DEF Messages, MessageType
<1>4. 1 \in 1..Len(queue) /\ \A i \in 1..Len(queue') : i + 1 \in 1..Len(queue)
  BY <1>2, <1>3
<1>5. worker \in [Workers -> [msg : 0..taken, at : Labels]]
  BY DEF Messages, MessageType
<1>6. /\ worker'[w] = [msg |-> queue[1], at |-> "start"]
      /\ \A v \in Workers \ {w} : worker'[v] = worker[v]
  BY <1>1, <1>3, <1>5
<1>7. MessageType'
  <2>1. [msg |-> queue[1], at |-> "start"] \in [msg : 0..taken, at : Labels]
    BY <1>2, <1>4 DEF Labels
  <2>2. worker' \in [Workers -> [msg : 0..taken, at : Labels]]
    BY <1>1, <1>3, <1>5, <2>1
  <2>3. QED BY <1>1, <1>3, <2>2 DEF Messages, MessageType
<1>8. Handling'
  <2>1. queue[1] # 0 BY <1>2, <1>4
  <2>2. QED BY <1>1, <1>6, <2>1 DEF Messages, Handling, Kind
<1>9. Once'
  <2>1. \A i, j \in 1..Len(queue) : queue[i] = queue[j] => i = j
    BY DEF Messages, Once
  <2>2. \A i \in 1..Len(queue), v \in Workers : worker[v].msg # queue[i]
    BY DEF Messages, Once
  <2>3. ASSUME NEW i \in 1..Len(queue') PROVE i \in Nat /\ i >= 1
    BY <1>2, <1>3
  <2>4. \A i, j \in 1..Len(queue') : queue'[i] = queue'[j] => i = j
    BY <1>3, <1>4, <2>1, <2>3
  <2>5. \A i \in 1..Len(queue'), v \in Workers : worker'[v].msg # queue'[i]
    BY <1>3, <1>4, <1>6, <2>1, <2>2, <2>3
  <2>6. \A u, v \in Workers :
           worker'[u].msg = worker'[v].msg => u = v \/ worker'[u].msg = 0
    BY <1>4, <1>6, <2>2 DEF Messages, Once
  <2>7. QED BY <2>4, <2>5, <2>6 DEF Once
<1>10. QED BY <1>3, <1>4, <1>6, <1>7, <1>8, <1>9 DEF Messages

LEMMA MovesMessages ==
    ASSUME Messages, NEW w \in Workers, Moves(w)
    PROVE  Messages'
<1>1. /\ worker[w].at # "idle" /\ UNCHANGED <<session, sent, taken>>
      /\ queue' \in {queue, <<>>}
      /\ \/ Finish(w)
         \/ \E l \in Labels \ {"idle", "start"} : Goto(w, l) /\ KindAt(l) = Kind(w)
  BY MovesLabel
<1>2. worker \in [Workers -> [msg : 0..taken, at : Labels]] /\ taken \in Nat
  BY Typed DEF Messages, MessageType
<1>3. PICK m \in {worker[w].msg, 0}, l \in Labels :
         /\ worker' = [worker EXCEPT ![w] = [msg |-> m, at |-> l]]
         /\ l = "idle" <=> m = 0
         /\ l \notin {"idle", "start"} => KindAt(l) = Kind(w) /\ m = worker[w].msg
  <2>1. CASE Finish(w)
    <3>1. worker' = [worker EXCEPT ![w] = [msg |-> 0, at |-> "idle"]]
      BY <2>1 DEF Finish, Idle
    <3>2. QED BY <3>1 DEF Labels
  <2>2. CASE \E l \in Labels \ {"idle", "start"} : Goto(w, l) /\ KindAt(l) = Kind(w)
    <3>1. PICK l \in Labels \ {"idle", "start"} : Goto(w, l) /\ KindAt(l) = Kind(w)
      BY <2>2
    <3>2. [worker[w] EXCEPT !.at = l] = [msg |-> worker[w].msg, at |-> l]
      BY <1>2
    <3>3. worker' = [worker EXCEPT ![w] = [worker[w] EXCEPT !.at = l]]
      BY <3>1 DEF Goto
    <3>4. worker' = [worker EXCEPT ![w] = [msg |-> worker[w].msg, at |-> l]]
      BY <3>2, <3>3
    <3>5. worker[w].msg # 0 BY <1>1 DEF Messages, Handling
    <3>6. QED BY <3>1, <3>4, <3>5
  <2>3. QED BY <1>1, <2>1, <2>2
<1> DEFINE x == [msg |-> m, at |-> l]
<1>4. worker'[w] = x /\ \A v \in Workers \ {w} : worker'[v] = worker[v]
  BY <1>2, <1>3
<1>5. queue' \in Seq(1..taken) /\ (queue' = queue \/ Len(queue') = 0)
  BY <1>1, EmptySeq DEF Messages, MessageType
<1>6. MessageType'
  <2>1. x \in [msg : 0..taken, at : Labels] BY <1>2, <1>3
  <2>2. QED BY <1>1, <1>2, <1>3, <1>5, <2>1 DEF Messages, MessageType
<1>7. Handling' BY <1>1, <1>3, <1>4 DEF Messages, Handling, Kind
<1>8. /\ \A v \in Workers : worker'[v].msg = worker[v].msg \/ worker'[v].msg = 0
      /\ \A i \in 1..Len(queue') : i \in 1..Len(queue) /\ queue'[i] = queue[i] /\ queue[i] # 0
  BY <1>3, <1>4, <1>5, Typed DEF Messages
<1>9. Once'
  <2>1. \A i, j \in 1..Len(queue') : queue'[i] = queue'[j] => i = j
    BY <1>8 DEF Messages, Once
  <2>2. \A i \in 1..Len(queue'), v \in Workers : worker'[v].msg # queue'[i]
    BY <1>8 DEF Messages, Once
  <2>3. \A u, v \in Workers :
           worker'[u].msg = worker'[v].msg => u = v \/ worker'[u].msg = 0
    BY <1>8 DEF Messages, Once
  <2>4. QED BY <2>1, <2>2, <2>3 DEF Once
<1>10. QED BY <1>6, <1>7, <1>9 DEF Messages

LEMMA NextMessages ==
    ASSUME Messages, [Next]_vars
    PROVE  Messages'
<1>1. ASSUME UNCHANGED <<session, sent, taken, worker>>, queue' \in {queue, <<>>}
      PROVE  Messages'
  <2>1. queue' \in Seq(1..taken) /\ (queue' = queue \/ Len(queue') = 0)
    BY <1>1, EmptySeq DEF Messages, MessageType
  <2>2. QED BY <1>1, <2>1 DEF Messages, MessageType, Handling, Once, Kind
<1>2. ASSUME NEW w \in Workers, Worker(w) PROVE Messages'
  BY <1>2, TakeMessages, MovesMessages DEF Worker, Moves
<1>3. CASE Main \/ MainEnd
  <2>1. CASE MainRead BY <2>1, ReadMessages
  <2>2. CASE ~MainRead
    <3>1. UNCHANGED <<session, sent, taken, worker>> /\ queue' \in {queue, <<>>}
      BY <1>3, <2>2 DEF Main, MainCheck, MainCleanup, MainDrop, MainDestroy, MainJoin,
         MainEnd, editor
    <3>2. QED BY <1>1, <3>1
  <2>3. QED BY <2>1, <2>2
<1>4. ASSUME NEW c \in Ids, Thread(c) PROVE Messages'
  <2>1. UNCHANGED <<session, sent, taken, worker, queue>>
    BY <1>4 DEF Thread, ThreadWake, ThreadStore, ThreadLook, ThreadReparse, ThreadCreate,
       ThreadFinish, ThreadUnchanged, editor
  <2>2. QED BY <1>1, <2>1
<1>5. CASE UNCHANGED vars BY <1>1, <1>5 DEF vars, editor
<1>6. QED BY <1>2, <1>3, <1>4, <1>5, SendMessages DEF Next

\* What was sent stays as it was, and what was handled is not handled again.
LEMMA SentKept ==
    ASSUME Messages, [Next]_vars
    PROVE  \A i \in 1..Len(sent) : sent'[i] = sent[i]
<1>1. CASE UNCHANGED sent BY <1>1
<1>2. ASSUME NEW kind \in AllKinds, NEW f \in Files, Send(kind, f)
      PROVE  \A i \in 1..Len(sent) : sent'[i] = sent[i]
  BY <1>2, SendMessages
<1>3. ASSUME NEW w \in Workers, Worker(w) PROVE UNCHANGED sent
  BY <1>3, MovesLabel DEF Worker, Moves, Take, editor
<1>4. ASSUME Main \/ MainEnd PROVE UNCHANGED sent
  BY <1>4 DEF Main, MainCheck, MainRead, MainCleanup, MainDrop, MainDestroy, MainJoin,
     MainEnd, editor
<1>5. ASSUME NEW c \in Ids, Thread(c) PROVE UNCHANGED sent
  BY <1>5 DEF Thread, ThreadWake, ThreadStore, ThreadLook, ThreadReparse, ThreadCreate,
     ThreadFinish, ThreadUnchanged, editor
<1>6. CASE UNCHANGED vars BY <1>6 DEF vars, editor
<1>7. QED BY <1>1, <1>2, <1>3, <1>4, <1>5, <1>6 DEF Next

\* A step of a worker takes its message out of the places or leaves it with the worker.
LEMMA MovesPlaces ==
    ASSUME Messages, NEW w \in Workers, Moves(w), NEW c \in Ids, Placed(c)'
    PROVE  Placed(c) /\ (c = worker[w].msg => ~Finish(w))
<1>1. /\ worker[w].at # "idle" /\ UNCHANGED taken /\ queue' \in {queue, <<>>}
      /\ Finish(w) \/ \E l : Goto(w, l)
  BY MovesLabel
<1>2. /\ worker \in [Workers -> [msg : 0..taken, at : Labels]] /\ taken \in Nat
      /\ worker[w].msg \in 1..taken
  BY <1>1, Typed, WorkerMessage DEF Messages, MessageType
<1>3. /\ worker'[w].msg \in {worker[w].msg, 0}
      /\ Finish(w) => worker'[w].msg = 0
      /\ \A v \in Workers \ {w} : worker'[v] = worker[v]
  BY <1>1, <1>2 DEF Finish, Goto, Idle
<1>4. \A i \in 1..Len(queue') : i \in 1..Len(queue) /\ queue'[i] = queue[i]
  BY <1>1, EmptySeq
<1>5. CASE c > taken BY <1>2, <1>5 DEF Placed
<1>6. CASE \E i \in 1..Len(queue') : queue'[i] = c
  <2>1. PICK i \in 1..Len(queue) : queue[i] = c BY <1>4, <1>6
  <2>2. c # worker[w].msg BY <2>1 DEF Messages, Once
  <2>3. QED BY <2>1, <2>2 DEF Placed
<1>7. CASE \E v \in Workers : worker'[v].msg = c
  <2>1. PICK v \in Workers : worker'[v].msg = c BY <1>7
  <2>2. c # 0 BY DEF Ids
  <2>3. CASE v = w BY <1>3, <2>1, <2>2, <2>3 DEF Placed
  <2>4. CASE v # w
    <3>1. worker[v].msg = c BY <1>3, <2>1, <2>4
    <3>2. c # worker[w].msg BY <2>2, <2>4, <3>1 DEF Messages, Once
    <3>3. QED BY <3>1, <3>2 DEF Placed
  <2>5. QED BY <2>3, <2>4
<1>8. QED BY <1>1, <1>5, <1>6, <1>7 DEF Placed

LEMMA Places ==
    ASSUME Messages, [Next]_vars, NEW c \in Ids, Placed(c)'
    PROVE  Placed(c)
<1>1. ASSUME UNCHANGED <<taken, worker>>, queue' \in {queue, <<>>} PROVE Placed(c)
  BY <1>1, EmptySeq DEF Placed
<1>2. ASSUME NEW w \in Workers, Worker(w) PROVE Placed(c)
  <2>1. CASE Take(w)
    <3>1. UNCHANGED taken BY <2>1 DEF Take
    <3>2. QED BY <2>1, <3>1, TakeMessages DEF Placed
  <2>2. CASE Moves(w) BY <2>2, MovesPlaces
  <2>3. QED BY <1>2, <2>1, <2>2 DEF Worker, Moves
<1>3. CASE MainRead
  <2>1. taken' = taken + 1 /\ queue' = Append(queue, taken + 1) /\ UNCHANGED worker
    BY <1>3 DEF MainRead
  <2>2. /\ Len(queue) \in Nat /\ taken \in Nat
        /\ \A i \in 1..(Len(queue) + 1) :
              queue'[i] = IF i <= Len(queue) THEN queue[i] ELSE taken + 1
        /\ Len(queue') = Len(queue) + 1
    BY <2>1, Typed DEF Messages, MessageType
  <2>3. c \in Nat BY Typed DEF Ids, Messages
  <2>4. CASE \E i \in 1..Len(queue') : queue'[i] = c
    <3>1. PICK i \in 1..(Len(queue) + 1) : queue'[i] = c BY <2>2, <2>4
    <3>2. CASE i <= Len(queue) BY <2>2, <3>1, <3>2 DEF Placed
    <3>3. CASE ~(i <= Len(queue)) BY <2>2, <2>3, <3>1, <3>3 DEF Placed
    <3>4. QED BY <3>2, <3>3
  <2>5. QED BY <2>1, <2>2, <2>3, <2>4 DEF Placed
<1>4. CASE (Main \/ MainEnd) /\ ~MainRead
  <2>1. UNCHANGED <<taken, worker>> /\ queue' \in {queue, <<>>}
    BY <1>4 DEF Main, MainCheck, MainCleanup, MainDrop, MainDestroy, MainJoin, MainEnd
  <2>2. QED BY <1>1, <2>1
<1>5. ASSUME NEW d \in Ids, Thread(d) PROVE Placed(c)
  <2>1. UNCHANGED <<taken, worker, queue>>
    BY <1>5 DEF Thread, ThreadWake, ThreadStore, ThreadLook, ThreadReparse, ThreadCreate,
       ThreadFinish, ThreadUnchanged
  <2>2. QED BY <1>1, <2>1
<1>6. ASSUME NEW kind \in AllKinds, NEW f \in Files, Send(kind, f) PROVE Placed(c)
  BY <1>1, <1>6 DEF Send
<1>7. CASE UNCHANGED vars BY <1>1, <1>7 DEF vars
<1>8. QED BY <1>2, <1>3, <1>4, <1>5, <1>6, <1>7 DEF Next

--------------------------------------------------------------------------------
(* The generations of a state. *)

LEMMA InitDebounce == Init => Debounce
<1> SUFFICES ASSUME Init PROVE Debounce OBVIOUS
<1>1. Len(change_generation) = 0 /\ change_generation \in Seq(Nat) /\ DOMAIN states = {}
  BY EmptySeq DEF Init
<1>2. DebounceType BY <1>1 DEF Init, DebounceType, NoThread, ThreadLabels
<1>3. \A c \in Ids : thread[c] = NoThread BY DEF Init
<1>4. QED BY <1>1, <1>2, <1>3 DEF Debounce, Unspawned, Generations

\* A change takes the next generation of the state of its file, or the first of a new one.
LEMMA NextGeneration ==
    ASSUME Messages, Debounce, NEW w \in Workers, worker[w].at = "change_spawn", Change(w)
    PROVE  /\ File(w) \in Files /\ Finish(w)
           /\ \E s \in Nat :
                 /\ change_generation' \in Seq(Nat)
                 /\ s \in 1..Len(change_generation')
                 /\ 1..Len(change_generation') = 1..Len(change_generation) \cup {s}
                 /\ \A i \in 1..Len(change_generation) :
                       change_generation'[i] = IF i = s THEN change_generation[i] + 1
                                                        ELSE change_generation[i]
                 /\ change_generation'[s] >= 1
                 /\ states' = Put(KeptStates, File(w), s)
                 /\ thread' = [thread EXCEPT ![worker[w].msg] =
                       [at |-> "sleep", state |-> s, generation |-> change_generation'[s]]]
<1> DEFINE f == File(w)
           n == Len(change_generation)
           s == IF f \in DOMAIN KeptStates THEN states[f] ELSE n + 1
           generations == IF f \in DOMAIN KeptStates THEN change_generation
                                                     ELSE Append(change_generation, 0)
<1>1. f \in Files BY WorkerMessage DEF File, Msg
<1>2. /\ Finish(w)
      /\ states' = Put(KeptStates, f, s)
      /\ change_generation' = [generations EXCEPT ![s] = @ + 1]
      /\ thread' = [thread EXCEPT ![worker[w].msg] =
             [at |-> "sleep", state |-> s, generation |-> generations[s] + 1]]
  BY DEF Change, At
<1>3. n \in Nat /\ change_generation \in Seq(Nat) BY LenProperties DEF Debounce, DebounceType
<1>4. /\ generations \in Seq(Nat) /\ s \in 1..Len(generations) /\ s \in Nat
      /\ 1..Len(generations) = 1..n \cup {s}
      /\ \A i \in 1..n : generations[i] = change_generation[i]
      /\ \A i \in 1..Len(generations) : generations[i] \in Nat
  <2>1. CASE f \in DOMAIN KeptStates
    <3>1. f \in DOMAIN states BY <2>1 DEF KeptStates, Restrict
    <3>2. states[f] \in 1..n BY <3>1 DEF Debounce, DebounceType
    <3>3. QED BY <1>3, <2>1, <3>2, ElementOfSeq
  <2>2. CASE f \notin DOMAIN KeptStates
    <3>1. /\ Append(change_generation, 0) \in Seq(Nat)
          /\ Len(Append(change_generation, 0)) = n + 1
          /\ \A i \in 1..n : Append(change_generation, 0)[i] = change_generation[i]
      BY <1>3, AppendProperties
    <3>2. \A i \in 1..(n + 1) : Append(change_generation, 0)[i] \in Nat
      BY <3>1, ElementOfSeq
    <3>3. QED BY <1>3, <2>2, <3>1, <3>2
  <2>3. QED BY <2>1, <2>2
<1> HIDE DEF f, n, s, generations
<1>5. generations[s] + 1 \in Nat /\ generations[s] + 1 >= 1 BY <1>4
<1>6. /\ change_generation' = [generations EXCEPT ![s] = generations[s] + 1]
      /\ change_generation' \in Seq(Nat) /\ Len(change_generation') = Len(generations)
      /\ \A i \in 1..Len(generations) :
            change_generation'[i] = IF i = s THEN generations[s] + 1 ELSE generations[i]
  BY <1>2, <1>4, <1>5, ExceptSeq
<1>7. change_generation'[s] = generations[s] + 1 BY <1>4, <1>6
<1>8. \A i \in 1..n :
         change_generation'[i] = IF i = s THEN change_generation[i] + 1 ELSE change_generation[i]
  BY <1>4, <1>6
<1>9. QED BY <1>1, <1>2, <1>4, <1>5, <1>6, <1>7, <1>8 DEF f, n

LEMMA SpawnDebounce ==
    ASSUME Messages, Debounce, NEW w \in Workers, worker[w].at = "change_spawn", Change(w)
    PROVE  Debounce'
<1> DEFINE m == worker[w].msg
           cg == change_generation
           n == Len(change_generation)
<1>1. PICK s \in Nat :
         /\ cg' \in Seq(Nat) /\ s \in 1..Len(cg')
         /\ 1..Len(cg') = 1..n \cup {s}
         /\ \A i \in 1..n : cg'[i] = IF i = s THEN cg[i] + 1 ELSE cg[i]
         /\ cg'[s] >= 1
         /\ states' = Put(KeptStates, File(w), s)
         /\ thread' = [thread EXCEPT ![m] =
               [at |-> "sleep", state |-> s, generation |-> cg'[s]]]
  BY NextGeneration
<1>2. /\ m \in 1..taken /\ m \in Ids /\ sent[m].kind = "change"
  BY WorkerMessage DEF Messages, Handling, Kind, KindAt
<1>3. /\ Finish(w) /\ File(w) \in Files /\ Moves(w)
      /\ UNCHANGED <<sent, taken, processing_didChange>>
  BY NextGeneration DEF Moves, Change, At, editor
<1>4. /\ cg'[s] \in Nat /\ n \in Nat
      /\ \A i \in 1..n : cg[i] \in Nat
      /\ thread \in [Ids -> [at : ThreadLabels, state : Nat, generation : Nat]]
  BY <1>1, ElementOfSeq, LenProperties DEF Debounce, DebounceType
<1>5. /\ thread'[m] = [at |-> "sleep", state |-> s, generation |-> cg'[s]]
      /\ \A c \in Ids \ {m} : thread'[c] = thread[c]
      /\ thread' \in [Ids -> [at : ThreadLabels, state : Nat, generation : Nat]]
  BY <1>1, <1>2, <1>4 DEF ThreadLabels
<1>6. thread[m] = NoThread BY <1>2 DEF Debounce, Unspawned, Placed
<1>7. DebounceType'
  <2>1. /\ DOMAIN KeptStates \subseteq DOMAIN states
        /\ \A f \in DOMAIN KeptStates : KeptStates[f] = states[f]
    BY DEF KeptStates, Restrict
  <2>2. /\ DOMAIN states' \subseteq Files
        /\ \A f \in DOMAIN states' : states'[f] \in 1..Len(cg')
    BY <1>1, <1>3, <2>1 DEF Put, Debounce, DebounceType
  <2>3. QED BY <1>1, <1>3, <1>5, <2>2 DEF Debounce, DebounceType
<1>8. Unspawned'
  <2> SUFFICES ASSUME NEW c \in Ids, Placed(c)' PROVE thread'[c] = NoThread
    BY DEF Unspawned
  <2>1. Placed(c) /\ c # m BY <1>3, MovesPlaces
  <2>2. QED BY <1>5, <2>1 DEF Debounce, Unspawned
<1>9. Generations'
  <2>1. ASSUME NEW c \in Ids, thread'[c] # NoThread
        PROVE  /\ sent'[c].kind = "change" /\ thread'[c].at # "none"
               /\ thread'[c].state \in 1..Len(cg')
               /\ thread'[c].generation \in 1..cg'[thread'[c].state]
               /\ thread'[c].at = "superseded" =>
                     thread'[c].generation < cg'[thread'[c].state]
    <3>1. CASE c = m
      <4>1. thread'[c].at = "sleep" /\ thread'[c].state = s /\ thread'[c].generation = cg'[s]
        BY <1>5, <3>1
      <4>2. cg'[s] \in 1..cg'[s] BY <1>1, <1>4
      <4>3. sent'[c].kind = "change" BY <1>2, <1>3, <3>1
      <4>4. QED BY <1>1, <4>1, <4>2, <4>3
    <3>2. CASE c # m
      <4>1. /\ thread'[c] = thread[c] /\ thread[c] # NoThread
            /\ sent[c].kind = "change" /\ thread[c].at # "none"
            /\ thread[c].state \in 1..n
            /\ thread[c].generation \in 1..cg[thread[c].state]
            /\ thread[c].at = "superseded" => thread[c].generation < cg[thread[c].state]
        BY <1>5, <2>1, <3>2 DEF Debounce, Generations
      <4>2. cg[thread[c].state] \in Nat /\ cg'[thread[c].state] \in Nat
            /\ cg'[thread[c].state] >= cg[thread[c].state]
        BY <1>1, <1>4, <4>1
      <4>3. thread[c].generation \in 1..cg'[thread[c].state] BY <4>1, <4>2
      <4>4. thread[c].at = "superseded" => thread[c].generation < cg'[thread[c].state]
        BY <4>1, <4>2, <4>3
      <4>5. thread[c].state \in 1..Len(cg') BY <1>1, <4>1
      <4>6. QED BY <1>3, <4>1, <4>3, <4>4, <4>5
    <3>3. QED BY <3>1, <3>2
  <2>2. ASSUME NEW i \in 1..Len(cg')
        PROVE  \E d \in Ids : /\ thread'[d].at # "none"
                              /\ thread'[d].state = i
                              /\ thread'[d].generation = cg'[i]
    <3>1. CASE i = s BY <1>2, <1>5, <3>1
    <3>2. CASE i # s
      <4>1. i \in 1..n /\ cg'[i] = cg[i] BY <1>1, <2>2, <3>2
      <4>2. PICK d \in Ids : /\ thread[d].at # "none"
                             /\ thread[d].state = i
                             /\ thread[d].generation = cg[i]
        BY <4>1 DEF Debounce, Generations
      <4>3. d # m BY <1>6, <4>2 DEF NoThread
      <4>4. QED BY <1>5, <4>1, <4>2, <4>3
    <3>3. QED BY <3>1, <3>2
  <2>3. QED BY <2>1, <2>2 DEF Generations
<1>10. QED BY <1>7, <1>8, <1>9 DEF Debounce

\* A detached thread goes on, and is dropped only when a newer generation is there.
LEMMA ThreadMoves ==
    ASSUME NEW c \in Ids, Thread(c)
    PROVE  /\ thread[c].at # "none"
           /\ UNCHANGED <<sent, taken, states, change_generation>>
           /\ UNCHANGED processing_didChange \/ processing_didChange' = FALSE
           /\ \E l \in ThreadLabels \ {"none"} :
                 ThreadGoto(c, l) /\ (l = "superseded" => Superseded(c))
<1> USE DEF ThreadAt, ThreadUnchanged, ThreadLabels, editor
<1>1. CASE ThreadWake(c) BY <1>1 DEF ThreadWake
<1>2. CASE ThreadStore(c) BY <1>2 DEF ThreadStore
<1>3. CASE ThreadLook(c) BY <1>3 DEF ThreadLook
<1>4. CASE ThreadReparse(c) BY <1>4 DEF ThreadReparse
<1>5. CASE ThreadCreate(c) BY <1>5 DEF ThreadCreate
<1>6. CASE ThreadFinish(c) BY <1>6 DEF ThreadFinish
<1>7. QED BY <1>1, <1>2, <1>3, <1>4, <1>5, <1>6 DEF Thread

LEMMA ThreadDebounce ==
    ASSUME Messages, Debounce, NEW c \in Ids, Thread(c)
    PROVE  Debounce'
<1>1. /\ thread[c].at # "none"
      /\ UNCHANGED <<sent, taken, states, change_generation>>
      /\ processing_didChange' \in BOOLEAN
  BY ThreadMoves DEF Debounce, DebounceType
<1>2. PICK l \in ThreadLabels \ {"none"} :
         ThreadGoto(c, l) /\ (l = "superseded" => Superseded(c))
  BY ThreadMoves
<1>3. thread \in [Ids -> [at : ThreadLabels, state : Nat, generation : Nat]]
  BY DEF Debounce, DebounceType
<1>4. /\ thread'[c].at = l
      /\ thread'[c].state = thread[c].state /\ thread'[c].generation = thread[c].generation
      /\ \A d \in Ids \ {c} : thread'[d] = thread[d]
      /\ thread' \in [Ids -> [at : ThreadLabels, state : Nat, generation : Nat]]
  BY <1>2, <1>3 DEF ThreadGoto
<1>5. thread[c] # NoThread BY <1>1 DEF NoThread
<1>6. DebounceType' BY <1>1, <1>4 DEF Debounce, DebounceType
<1>7. Unspawned'
  <2> SUFFICES ASSUME NEW d \in Ids, Placed(d)' PROVE thread'[d] = NoThread
    BY DEF Unspawned
  <2>1. Next BY DEF Next
  <2>2. thread[d] = NoThread BY <2>1, Places DEF Debounce, Unspawned
  <2>3. QED BY <1>4, <1>5, <2>2
<1>8. /\ sent[c].kind = "change"
      /\ thread[c].state \in 1..Len(change_generation)
      /\ thread[c].generation \in 1..change_generation[thread[c].state]
  BY <1>5 DEF Debounce, Generations
<1>9. Superseded(c) => thread[c].generation < change_generation[thread[c].state]
  <2>1. change_generation[thread[c].state] \in Nat
    BY <1>8, ElementOfSeq DEF Debounce, DebounceType
  <2>2. QED BY <1>8, <2>1 DEF Superseded
<1>10. Generations'
  <2>1. ASSUME NEW d \in Ids, thread'[d] # NoThread
        PROVE  /\ sent'[d].kind = "change" /\ thread'[d].at # "none"
               /\ thread'[d].state \in 1..Len(change_generation)
               /\ thread'[d].generation \in 1..change_generation[thread'[d].state]
               /\ thread'[d].at = "superseded" =>
                     thread'[d].generation < change_generation[thread'[d].state]
    <3>1. CASE d = c BY <1>1, <1>2, <1>4, <1>8, <1>9, <3>1
    <3>2. CASE d # c BY <1>1, <1>4, <2>1, <3>2 DEF Debounce, Generations
    <3>3. QED BY <3>1, <3>2
  <2>2. ASSUME NEW s \in 1..Len(change_generation)
        PROVE  \E d \in Ids : /\ thread'[d].at # "none"
                              /\ thread'[d].state = s
                              /\ thread'[d].generation = change_generation[s]
    <3>1. PICK d \in Ids : /\ thread[d].at # "none"
                           /\ thread[d].state = s
                           /\ thread[d].generation = change_generation[s]
      BY DEF Debounce, Generations
    <3>2. CASE d = c BY <1>2, <1>4, <3>1, <3>2
    <3>3. CASE d # c BY <1>4, <3>1, <3>3
    <3>4. QED BY <3>2, <3>3
  <2>3. QED BY <1>1, <2>1, <2>2 DEF Generations
<1>11. QED BY <1>6, <1>7, <1>10 DEF Debounce

\* All other steps leave the states and the threads alone.
LEMMA KeptDebounce ==
    ASSUME Messages, Debounce, [Next]_vars,
           UNCHANGED <<states, change_generation, thread>>,
           processing_didChange' \in BOOLEAN
    PROVE  Debounce'
<1>1. DebounceType' BY DEF Debounce, DebounceType
<1>2. Unspawned' BY Places DEF Debounce, Unspawned
<1>3. ASSUME NEW c \in Ids, thread[c] # NoThread PROVE sent'[c].kind = sent[c].kind
  <2>1. c \in 1..Len(sent)
    BY <1>3, Typed DEF Messages, Debounce, Unspawned, Placed, Ids
  <2>2. QED BY <2>1, SentKept
<1>4. Generations' BY <1>3 DEF Debounce, Generations
<1>5. QED BY <1>1, <1>2, <1>4 DEF Debounce

LEMMA NextDebounce ==
    ASSUME Messages, Debounce, [Next]_vars
    PROVE  Debounce'
<1>1. processing_didChange \in BOOLEAN BY DEF Debounce, DebounceType
<1>2. ASSUME NEW c \in Ids, Thread(c) PROVE Debounce' BY <1>2, ThreadDebounce
<1>3. ASSUME NEW w \in Workers, Worker(w) PROVE Debounce'
  <2>1. CASE worker[w].at = "change_spawn" /\ Change(w) BY <2>1, SpawnDebounce
  <2>2. CASE worker[w].at # "change_spawn" /\ Change(w)
    <3>1. UNCHANGED <<states, change_generation, thread>> /\ processing_didChange' = TRUE
      BY <2>2 DEF Change, At
    <3>2. QED BY <1>3, <3>1, KeptDebounce DEF Next
  <2>3. CASE ~Change(w)
    <3>1. UNCHANGED debounce
      BY <1>3, <2>3 DEF Worker, Take, Refuse, Dispatch, Hover, Definition, DocumentSymbol,
         References, Rename, AnswerFrom, CompleteWait, CompleteRespond, Unknown, Shutdown,
         Open, Save, Close, Watched, Exit
    <3>2. QED BY <1>1, <1>3, <3>1, KeptDebounce DEF Next, debounce
  <2>4. QED BY <2>1, <2>2, <2>3
<1>4. ASSUME NEW kind \in AllKinds, NEW f \in Files, Send(kind, f) PROVE UNCHANGED debounce
  BY <1>4 DEF Send
<1>5. ASSUME Main \/ MainEnd PROVE UNCHANGED debounce
  BY <1>5 DEF Main, MainCheck, MainRead, MainCleanup, MainDrop, MainDestroy, MainJoin,
     MainEnd
<1>6. ASSUME UNCHANGED vars PROVE UNCHANGED debounce BY <1>6 DEF vars
<1>7. ASSUME UNCHANGED debounce PROVE Debounce' BY <1>1, <1>7, KeptDebounce DEF debounce
<1>8. QED BY <1>2, <1>3, <1>4, <1>5, <1>6, <1>7 DEF Next

\* The thread that has the last generation of a state is the one that stays.
LEMMA LastStays ==
    ASSUME Debounce
    PROVE  EditsNotLost
<1> SUFFICES ASSUME NEW c \in Ids, thread[c].at = "superseded"
             PROVE  \E d \in Ids : /\ thread[d].state = thread[c].state
                                   /\ thread[d].generation > thread[c].generation
                                   /\ thread[d].at # "superseded"
  BY DEF EditsNotLost
<1> DEFINE s == thread[c].state
<1>1. /\ s \in 1..Len(change_generation)
      /\ thread[c].generation < change_generation[s]
  BY DEF Debounce, Generations, NoThread
<1>2. PICK d \in Ids : /\ thread[d].at # "none" /\ thread[d].state = s
                       /\ thread[d].generation = change_generation[s]
  BY <1>1 DEF Debounce, Generations
<1>3. thread[c].generation \in Nat /\ change_generation[s] \in Nat
  BY <1>1, ElementOfSeq DEF Debounce, DebounceType
<1>4. thread[d].at # "superseded"
  <2>1. thread[d] # NoThread BY <1>2 DEF NoThread
  <2>2. thread[d].at = "superseded" => change_generation[s] < change_generation[s]
    BY <1>2, <2>1 DEF Debounce, Generations
  <2>3. QED BY <1>3, <2>2
<1>5. QED BY <1>1, <1>2, <1>3, <1>4

\* A debounced change is dropped only for one with a higher generation that is not
\* dropped itself, however the handlers and the detached threads interleave.
THEOREM EditsKept == Spec => []EditsNotLost
<1>1. Init => Messages /\ Debounce BY InitMessages, InitDebounce
<1>2. Messages /\ Debounce /\ [Next]_vars => (Messages /\ Debounce)'
  BY NextMessages, NextDebounce
<1>3. Messages /\ Debounce => EditsNotLost BY LastStays
<1>4. QED BY <1>1, <1>2, <1>3, PTL DEF Spec
--------------------------------------------------------------------------------
(* The shutdown. *)

LEMMA InitRefusing == Init => Refusing
<1> SUFFICES ASSUME Init PROVE Refusing OBVIOUS
<1>1. /\ Len(sent) = 0 /\ Len(responses) = 0
      /\ responses \in Seq([msg : Nat, result : Results])
      /\ \A w \in Workers : worker[w].at = "idle"
      /\ shutdown_requested = FALSE /\ process = "running"
  BY EmptySeq DEF Init, Idle
<1>2. ShutdownSeen /\ LateRefused BY <1>1 DEF ShutdownSeen, LateRefused
<1>3. shutdown_requested \in BOOLEAN /\ process # "exit 1" BY <1>1
<1>4. \A i \in 1..Len(responses) : responses[i].msg \in 1..taken BY <1>1
<1>5. QED BY <1>1, <1>2, <1>3, <1>4 DEF Refusing

\* What is sent after a response to shutdown was seen is sent with the flag set.
LEMMA SendRefusing ==
    ASSUME Messages, Refusing, NEW kind \in AllKinds, NEW f \in Files, Send(kind, f)
    PROVE  Refusing'
<1> DEFINE m == Message(kind, f)
<1>1. /\ sent' = Append(sent, m) /\ process = "running"
      /\ UNCHANGED <<taken, worker, shutdown_requested, process, responses>>
  BY DEF Send, Running, control
<1>2. m.late => shutdown_requested
  <2>1. DOMAIN responses = 1..Len(responses) BY LenProperties DEF Refusing
  <2>2. QED BY <2>1 DEF Message, Refusing, ShutdownSeen
<1>3. m \in Msg BY DEF Message, Msg
<1> HIDE DEF m
<1>4. /\ Len(sent') = Len(sent) + 1 /\ Len(sent) \in Nat
      /\ \A i \in 1..Len(sent) : sent'[i] = sent[i]
      /\ sent'[Len(sent) + 1] = m
  BY <1>1, <1>3, AppendProperties, LenProperties DEF Messages, MessageType
<1>5. \A i \in 1..taken : i \in 1..Len(sent) BY Typed DEF Messages
<1>6. ASSUME NEW i \in 1..Len(sent'), sent'[i].late PROVE shutdown_requested
  <2>1. CASE i \in 1..Len(sent) BY <1>4, <1>6, <2>1 DEF Refusing, ShutdownSeen
  <2>2. CASE i = Len(sent) + 1 BY <1>2, <1>4, <1>6, <2>2
  <2>3. QED BY <1>4, <2>1, <2>2
<1>7. ASSUME NEW i \in 1..Len(responses) PROVE sent'[responses[i].msg] = sent[responses[i].msg]
  BY <1>4, <1>5 DEF Refusing
<1>8. ShutdownSeen' BY <1>1, <1>6, <1>7 DEF Refusing, ShutdownSeen
<1>9. ASSUME NEW w \in Workers, worker[w].at # "idle"
      PROVE  sent'[worker[w].msg] = sent[worker[w].msg]
  BY <1>4, <1>9, WorkerMessage
<1>10. LateRefused' BY <1>1, <1>7, <1>9 DEF Refusing, LateRefused, Kind
<1>11. QED BY <1>1, <1>8, <1>10 DEF Refusing

\* What a worker does to the shutdown, and what it answers.
LEMMA MovesShutdown ==
    ASSUME Messages, NEW w \in Workers, Moves(w)
    PROVE  /\ UNCHANGED shutdown_requested \/ shutdown_requested' = TRUE
           /\ \/ UNCHANGED process
              \/ process' = "exit 1" /\ ~shutdown_requested /\ UNCHANGED shutdown_requested
           /\ worker'[w].at = "shutdown_respond" => shutdown_requested'
           /\ worker[w].at = "start" /\ Kind(w) \in Requests =>
                 Finish(w) \/ ~shutdown_requested
           /\ \/ UNCHANGED responses
              \/ Respond(w, "refused") /\ shutdown_requested
              \/ /\ Respond(w, "result")
                 /\ worker[w].at \notin {"idle", "start"}
                 /\ Kind(w) \in Requests
                 /\ Kind(w) = "shutdown" => worker[w].at = "shutdown_respond"
<1>1. worker[w].at \notin {"idle", "start"} => Kind(w) = KindAt(worker[w].at)
  BY DEF Messages, Handling
<1>2. worker[w].at # "idle" => Kind(w) \in AllKinds
  BY WorkerMessage DEF Kind, Msg
<1>3. /\ Finish(w) => worker'[w].at = "idle"
      /\ \A l : Goto(w, l) => worker'[w].at = l
  BY DEF Messages, MessageType, Finish, Goto, Idle
<1> USE DEF At, AnswerFrom, control, KindAt, Requests, AllKinds
<1>4. CASE Refuse(w) BY <1>3, <1>4 DEF Refuse
<1>5. CASE Dispatch(w) BY <1>2, <1>3, <1>5 DEF Dispatch
<1>6. CASE Hover(w) \/ Definition(w) \/ DocumentSymbol(w) \/ References(w) \/ Rename(w)
  BY <1>1, <1>3, <1>6 DEF Hover, Definition, DocumentSymbol, References, Rename
<1>7. CASE CompleteWait(w) \/ CompleteRespond(w) \/ Unknown(w)
  BY <1>1, <1>3, <1>7 DEF CompleteWait, CompleteRespond, Unknown
<1>8. CASE Shutdown(w) BY <1>1, <1>3, <1>8 DEF Shutdown
<1>9. CASE Open(w) \/ Change(w) \/ Save(w) BY <1>3, <1>9 DEF Open, Change, Save
<1>10. CASE Close(w) \/ Watched(w) BY <1>3, <1>10 DEF Close, Watched
<1>11. CASE Exit(w) BY <1>3, <1>11 DEF Exit
<1>12. QED BY <1>4, <1>5, <1>6, <1>7, <1>8, <1>9, <1>10, <1>11 DEF Moves

LEMMA MovesRefusing ==
    ASSUME Messages, Refusing, NEW w \in Workers, Moves(w)
    PROVE  Refusing'
<1> DEFINE m == worker[w].msg
<1>1. /\ UNCHANGED shutdown_requested \/ shutdown_requested' = TRUE
      /\ \/ UNCHANGED process
         \/ process' = "exit 1" /\ ~shutdown_requested /\ UNCHANGED shutdown_requested
      /\ worker'[w].at = "shutdown_respond" => shutdown_requested'
      /\ worker[w].at = "start" /\ Kind(w) \in Requests => Finish(w) \/ ~shutdown_requested
      /\ \/ UNCHANGED responses
         \/ Respond(w, "refused") /\ shutdown_requested
         \/ /\ Respond(w, "result")
            /\ worker[w].at \notin {"idle", "start"}
            /\ Kind(w) \in Requests
            /\ Kind(w) = "shutdown" => worker[w].at = "shutdown_respond"
  BY MovesShutdown
<1>2. /\ worker[w].at # "idle" /\ UNCHANGED <<sent, taken>>
      /\ Finish(w) \/ \E l : Goto(w, l)
  BY MovesLabel
<1>3. m \in 1..taken /\ m \in 1..Len(sent) /\ m \in Nat
  BY <1>2, WorkerMessage, Typed DEF Messages
<1>4. /\ \A v \in Workers \ {w} : worker'[v] = worker[v]
      /\ Finish(w) => worker'[w] = Idle
      /\ ~Finish(w) => worker'[w].msg = m
  BY <1>2 DEF Messages, MessageType, Finish, Goto
<1>5. /\ shutdown_requested \in BOOLEAN /\ shutdown_requested' \in BOOLEAN
      /\ shutdown_requested => shutdown_requested'
  <2>1. shutdown_requested \in BOOLEAN BY DEF Refusing
  <2>2. UNCHANGED shutdown_requested \/ shutdown_requested' = TRUE BY <1>1
  <2>3. QED BY <2>1, <2>2
<1>6. /\ responses' \in Seq([msg : Nat, result : Results])
      /\ \A i \in 1..Len(responses') :
            \/ i \in 1..Len(responses) /\ responses'[i] = responses[i]
            \/ /\ responses'[i].msg = m
               /\ \/ responses'[i].result = "refused" /\ shutdown_requested
                  \/ /\ worker[w].at \notin {"idle", "start"}
                     /\ Kind(w) \in Requests
                     /\ Kind(w) = "shutdown" => worker[w].at = "shutdown_respond"
  <2>1. responses \in Seq([msg : Nat, result : Results]) /\ Len(responses) \in Nat
    BY LenProperties DEF Refusing
  <2>2. CASE UNCHANGED responses BY <2>1, <2>2
  <2>3. CASE ~UNCHANGED responses
    <3>1. PICK r \in Results :
             /\ Respond(w, r)
             /\ \/ r = "refused" /\ shutdown_requested
                \/ /\ worker[w].at \notin {"idle", "start"}
                   /\ Kind(w) \in Requests
                   /\ Kind(w) = "shutdown" => worker[w].at = "shutdown_respond"
      BY <1>1, <2>3 DEF Results
    <3>2. /\ [msg |-> m, result |-> r] \in [msg : Nat, result : Results]
          /\ responses' = Append(responses, [msg |-> m, result |-> r])
      BY <1>3, <3>1 DEF Respond
    <3>3. /\ responses' \in Seq([msg : Nat, result : Results])
          /\ Len(responses') = Len(responses) + 1
          /\ \A i \in 1..Len(responses) : responses'[i] = responses[i]
          /\ responses'[Len(responses) + 1] = [msg |-> m, result |-> r]
      BY <2>1, <3>2, AppendProperties
    <3>4. \A i \in 1..Len(responses') : i \in 1..Len(responses) \/ i = Len(responses) + 1
      BY <2>1, <3>3
    <3>5. QED BY <3>1, <3>3, <3>4
  <2>4. QED BY <2>2, <2>3
<1>7. \A i \in 1..Len(responses') : responses'[i].msg \in 1..taken
  BY <1>3, <1>6 DEF Refusing
<1>8. ShutdownSeen'
  <2>1. \A i \in 1..Len(sent') : sent'[i].late => shutdown_requested'
    BY <1>2, <1>5 DEF Refusing, ShutdownSeen
  <2>2. ASSUME NEW i \in 1..Len(responses'), sent[responses'[i].msg].kind = "shutdown"
        PROVE  shutdown_requested'
    BY <1>5, <1>6, <2>2 DEF Refusing, ShutdownSeen, Kind
  <2>3. ASSUME NEW v \in Workers, worker'[v].at = "shutdown_respond"
        PROVE  shutdown_requested'
    BY <1>1, <1>4, <1>5, <2>3 DEF Refusing, ShutdownSeen
  <2>4. QED BY <1>2, <2>1, <2>2, <2>3 DEF ShutdownSeen
<1>9. LateRefused'
  <2>1. ASSUME NEW v \in Workers, worker'[v].at \notin {"idle", "start"},
               sent[worker'[v].msg].kind \in Requests, sent[worker'[v].msg].late
        PROVE  FALSE
    <3>1. CASE v # w BY <1>4, <2>1, <3>1 DEF Refusing, LateRefused, Kind
    <3>2. CASE v = w
      <4>1. ~Finish(w) /\ worker'[w].msg = m BY <1>4, <2>1, <3>2 DEF Idle
      <4>2. CASE worker[w].at = "start"
        <5>1. ~shutdown_requested BY <1>1, <2>1, <3>2, <4>1, <4>2 DEF Kind
        <5>2. QED BY <1>3, <2>1, <3>2, <4>1, <5>1 DEF Refusing, ShutdownSeen
      <4>3. CASE worker[w].at # "start"
        BY <1>2, <2>1, <3>2, <4>1, <4>3 DEF Refusing, LateRefused, Kind
      <4>4. QED BY <4>2, <4>3
    <3>3. QED BY <3>1, <3>2
  <2>2. ASSUME NEW i \in 1..Len(responses'), sent[responses'[i].msg].late
        PROVE  responses'[i].result = "refused"
    BY <1>6, <2>2 DEF Refusing, LateRefused
  <2>3. QED BY <1>2, <2>1, <2>2 DEF LateRefused, Kind
<1>10. process' = "exit 1" => \A i \in 1..Len(sent) : sent[i].kind = "exit" => ~sent[i].late
  BY <1>1 DEF Refusing, ShutdownSeen
<1>11. QED BY <1>2, <1>5, <1>6, <1>7, <1>8, <1>9, <1>10 DEF Refusing

LEMMA NextRefusing ==
    ASSUME Messages, Refusing, [Next]_vars
    PROVE  Refusing'
<1>1. ASSUME UNCHANGED <<sent, worker, responses, shutdown_requested>>,
             taken' \in {taken, taken + 1}, process' \in {process, "exit 0"}
      PROVE  Refusing'
  <2>1. \A i \in 1..Len(responses) : responses[i].msg \in 1..taken'
    <3>1. taken \in Nat /\ \A i \in 1..Len(responses) : responses[i].msg \in 1..taken
      BY Typed DEF Messages, Refusing
    <3>2. taken' = taken \/ taken' = taken + 1 BY <1>1
    <3>3. \A i \in 1..taken : i \in 1..taken' BY <3>1, <3>2
    <3>4. QED BY <3>1, <3>3
  <2>2. ShutdownSeen' BY <1>1 DEF Refusing, ShutdownSeen
  <2>3. LateRefused' BY <1>1 DEF Refusing, LateRefused, Kind
  <2>4. QED BY <1>1, <2>1, <2>2, <2>3 DEF Refusing
<1>2. ASSUME NEW w \in Workers, Worker(w) PROVE Refusing'
  <2>1. CASE Take(w)
    <3>1. /\ UNCHANGED <<sent, taken, responses, shutdown_requested, process>>
          /\ worker' = [worker EXCEPT ![w] = [msg |-> Head(queue), at |-> "start"]]
      BY <2>1 DEF Take, editor, control
    <3>2. /\ worker'[w].at = "start"
          /\ \A v \in Workers \ {w} : worker'[v] = worker[v]
      BY <3>1 DEF Messages, MessageType
    <3>3. ShutdownSeen' BY <3>1, <3>2 DEF Refusing, ShutdownSeen
    <3>4. LateRefused' BY <3>1, <3>2 DEF Refusing, LateRefused, Kind
    <3>5. QED BY <3>1, <3>3, <3>4 DEF Refusing
  <2>2. CASE Moves(w) BY <2>2, MovesRefusing
  <2>3. QED BY <1>2, <2>1, <2>2 DEF Worker, Moves
<1>3. CASE Main \/ MainEnd
  <2>1. /\ UNCHANGED <<sent, worker, responses, shutdown_requested>>
        /\ taken' \in {taken, taken + 1} /\ process' \in {process, "exit 0"}
    BY <1>3 DEF Main, MainCheck, MainRead, MainCleanup, MainDrop, MainDestroy, MainJoin,
       MainEnd, editor
  <2>2. QED BY <1>1, <2>1
<1>4. ASSUME NEW c \in Ids, Thread(c) PROVE Refusing'
  <2>1. UNCHANGED <<sent, worker, responses, shutdown_requested, taken, process>>
    BY <1>4 DEF Thread, ThreadWake, ThreadStore, ThreadLook, ThreadReparse, ThreadCreate,
       ThreadFinish, ThreadUnchanged, editor, control
  <2>2. QED BY <1>1, <2>1
<1>5. CASE UNCHANGED vars BY <1>1, <1>5 DEF vars, editor, control
<1>6. QED BY <1>2, <1>3, <1>4, <1>5, SendRefusing DEF Next

\* An editor that waits for the response to its shutdown request gets no exit code 1 and
\* no result after it, whatever the workers do meanwhile.
THEOREM ExitClean == Spec => []CleanExit
<1>1. Init => Messages /\ Refusing BY InitMessages, InitRefusing
<1>2. Messages /\ Refusing /\ [Next]_vars => (Messages /\ Refusing)'
  BY NextMessages, NextRefusing
<1>3. Messages /\ Refusing => CleanExit
  <2> SUFFICES ASSUME Messages, Refusing PROVE CleanExit OBVIOUS
  <2>1. DOMAIN sent = 1..Len(sent) /\ DOMAIN responses = 1..Len(responses)
    BY LenProperties DEF Messages, MessageType, Refusing
  <2>2. QED BY <2>1 DEF Refusing, LateRefused, CleanExit
<1>4. QED BY <1>1, <1>2, <1>3, PTL DEF Spec
--------------------------------------------------------------------------------
(* The documents and the texts that the pool holds of them. *)

LEMMA PutHolds ==
    ASSUME NEW g, NEW texts, Holds(g, texts), NEW f \in Files, NEW text \in texts
    PROVE  Holds(Put(g, f, text), texts)
BY DEF Holds, Put

LEMMA EraseHolds ==
    ASSUME NEW g, NEW texts, Holds(g, texts), NEW f
    PROVE  Holds(Erase(g, f), texts)
BY DEF Holds, Erase, Restrict

LEMMA PoolHolds ==
    ASSUME Documents, NEW f \in Files
    PROVE  /\ Holds(GetProgram(f), Texts \cup {Empty})
           /\ Holds(GetProgramsForFile(f), Texts \cup {Empty})
           /\ Holds(ReparsePrograms(f), Texts \cup {Empty})
<1>1. Text(f) \in Texts BY DEF Documents, Holds, Text
<1>2. QED BY <1>1, PutHolds DEF Documents, GetProgram, GetProgramsForFile, ReparsePrograms

LEMMA SendDocuments ==
    ASSUME Messages, Documents, NEW kind \in AllKinds, NEW f \in Files, Send(kind, f)
    PROVE  Documents'
<1>1. Len(sent) + 1 \in Texts
  BY LspAssumption, Typed DEF Send, Messages, MessageType, Texts
<1>2. disk[f] \in Texts /\ (f \in DOMAIN buffer => buffer[f] \in Texts)
  BY DEF Documents, Holds
<1>3. UNCHANGED <<unsaved, programs>> BY DEF Send, pool
<1>4. Holds(buffer', Texts)
  <2>1. CASE kind = "open"
    BY <1>2, <2>1, PutHolds DEF Send, Documents
  <2>2. CASE kind = "change"
    <3>1. buffer' = [buffer EXCEPT ![f] = Len(sent) + 1] BY <2>2 DEF Send
    <3>2. QED BY <1>1, <3>1 DEF Documents, Holds
  <2>3. CASE kind = "close" BY <2>3, EraseHolds DEF Send, Documents
  <2>4. CASE kind \notin {"open", "change", "close"} BY <2>4 DEF Send, Documents
  <2>5. QED BY <2>1, <2>2, <2>3, <2>4
<1>5. disk' \in [Files -> Texts]
  <2>1. \/ UNCHANGED disk
        \/ disk' = [disk EXCEPT ![f] = buffer[f]] /\ f \in DOMAIN buffer
        \/ disk' = [disk EXCEPT ![f] = Len(sent) + 1]
    BY DEF Send
  <2>2. QED BY <1>1, <1>2, <2>1 DEF Documents
<1>6. QED BY <1>3, <1>4, <1>5 DEF Documents

LEMMA NextDocuments ==
    ASSUME Messages, Debounce, Documents, [Next]_vars
    PROVE  Documents'
<1> USE DEF editor, pool
<1>1. ASSUME NEW w \in Workers, Worker(w) PROVE Documents'
  <2>1. UNCHANGED <<buffer, disk>>
    BY <1>1 DEF Worker, Take, Refuse, Dispatch, Hover, Definition, DocumentSymbol,
       References, Rename, AnswerFrom, CompleteWait, CompleteRespond, Unknown, Shutdown,
       Open, Change, Save, Close, Watched, Exit
  <2>2. worker[w].at # "idle" => File(w) \in Files
    BY WorkerMessage DEF File, Msg
  <2>3. \/ UNCHANGED <<unsaved, programs>>
        \/ /\ unsaved' = Erase(unsaved, File(w)) /\ UNCHANGED programs
        \/ /\ programs' = Erase(programs, File(w)) /\ UNCHANGED unsaved
        \/ /\ programs' \in {GetProgram(File(w)), GetProgramsForFile(File(w)),
                             ReparsePrograms(File(w))}
           /\ worker[w].at # "idle" /\ UNCHANGED unsaved
    BY <1>1 DEF Worker, Take, Refuse, Dispatch, Hover, Definition, DocumentSymbol,
       References, Rename, AnswerFrom, CompleteWait, CompleteRespond, Unknown, Shutdown,
       Open, Change, Save, Close, Watched, Exit, At
  <2>4. Holds(unsaved', Texts) BY <2>3, EraseHolds DEF Documents
  <2>5. Holds(programs', Texts \cup {Empty})
    BY <2>2, <2>3, EraseHolds, PoolHolds, ZenonT(30) DEF Documents
  <2>6. QED BY <2>1, <2>4, <2>5 DEF Documents
<1>2. ASSUME NEW c \in Ids, Thread(c) PROVE Documents'
  <2>1. thread[c] # NoThread
    <3>1. thread[c].at # "none" BY <1>2, ThreadMoves
    <3>2. QED BY <3>1 DEF NoThread
  <2>2. c \in 1..Len(sent)
    BY <2>1, Typed DEF Messages, Debounce, Unspawned, Placed, Ids
  <2>3. sent[c].file \in Files /\ c \in Texts
    BY <2>2, Typed DEF Messages, Msg, Ids, Texts
  <2>4. /\ UNCHANGED <<buffer, disk>>
        /\ unsaved' \in {unsaved, Put(unsaved, sent[c].file, c)}
        /\ programs' \in {programs, GetProgram(sent[c].file), ReparsePrograms(sent[c].file)}
    BY <1>2 DEF Thread, ThreadWake, ThreadStore, ThreadLook, ThreadReparse, ThreadCreate,
       ThreadFinish, ThreadUnchanged
  <2>5. Holds(unsaved', Texts) BY <2>3, <2>4, PutHolds DEF Documents
  <2>6. Holds(programs', Texts \cup {Empty}) BY <2>3, <2>4, PoolHolds DEF Documents
  <2>7. QED BY <2>4, <2>5, <2>6 DEF Documents
<1>3. ASSUME Main \/ MainEnd PROVE UNCHANGED <<buffer, disk, unsaved, programs>>
  BY <1>3 DEF Main, MainCheck, MainRead, MainCleanup, MainDrop, MainDestroy, MainJoin,
     MainEnd
<1>4. ASSUME UNCHANGED vars PROVE UNCHANGED <<buffer, disk, unsaved, programs>>
  BY <1>4 DEF vars
<1>5. ASSUME UNCHANGED <<buffer, disk, unsaved, programs>> PROVE Documents'
  BY <1>5 DEF Documents, Holds
<1>6. QED BY <1>1, <1>2, <1>3, <1>4, <1>5, SendDocuments DEF Next

LEMMA NextControl ==
    ASSUME ControlType, [Next]_vars
    PROVE  ControlType'
<1> USE DEF control
<1>1. ASSUME Main \/ MainEnd PROVE ControlType'
  BY <1>1 DEF ControlType, Main, MainCheck, MainRead, MainCleanup, MainDrop, MainDestroy,
     MainJoin, MainEnd, MainGoto
<1>2. ASSUME NEW w \in Workers, Exit(w) PROVE ControlType'
  BY <1>2 DEF ControlType, Exit
<1>3. ASSUME UNCHANGED <<stop, main, exiting, process>> PROVE ControlType'
  BY <1>3 DEF ControlType
<1>4. ASSUME NEW w \in Workers, Worker(w), ~Exit(w)
      PROVE  UNCHANGED <<stop, main, exiting, process>>
  BY <1>4 DEF Worker, Take, Refuse, Dispatch, Hover, Definition, DocumentSymbol,
     References, Rename, AnswerFrom, CompleteWait, CompleteRespond, Unknown, Shutdown,
     Open, Change, Save, Close, Watched
<1>5. ASSUME NEW c \in Ids, Thread(c) PROVE UNCHANGED <<stop, main, exiting, process>>
  BY <1>5 DEF Thread, ThreadWake, ThreadStore, ThreadLook, ThreadReparse, ThreadCreate,
     ThreadFinish, ThreadUnchanged
<1>6. ASSUME NEW kind \in AllKinds, NEW f \in Files, Send(kind, f)
      PROVE  UNCHANGED <<stop, main, exiting, process>>
  BY <1>6 DEF Send
<1>7. ASSUME UNCHANGED vars PROVE UNCHANGED <<stop, main, exiting, process>>
  BY <1>7 DEF vars
<1>8. QED BY <1>1, <1>2, <1>3, <1>4, <1>5, <1>6, <1>7 DEF Next

--------------------------------------------------------------------------------
(* Type correctness. *)

LspInvariant == Messages /\ Debounce /\ Refusing /\ Documents /\ ControlType

LEMMA InvariantTypes ==
    ASSUME LspInvariant
    PROVE  TypeOK
<1> USE DEF LspInvariant
<1>1. /\ DOMAIN sent = 1..Len(sent) /\ DOMAIN responses = 1..Len(responses)
      /\ DOMAIN change_generation = 1..Len(change_generation)
  BY LenProperties DEF Messages, MessageType, Refusing, Debounce, DebounceType
<1>2. \A i \in DOMAIN sent : sent[i] \in [kind : AllKinds, file : Files, late : BOOLEAN]
  BY <1>1, Typed DEF Messages, Msg
<1>3. ASSUME NEW w \in Workers
      PROVE  \/ worker[w] = Idle
             \/ /\ worker[w].msg \in 1..taken
                /\ worker[w].at \in AllKinds \cup
                      {"start", "shutdown_respond", "resolve", "exit_drop", "exit_code",
                       "close_file", "watched_look", "watched_reparse", "watched_create",
                       "change_spawn"}
  <2>1. worker[w] \in [msg : 0..taken, at : Labels] BY DEF Messages, MessageType
  <2>2. worker[w].at = "idle" => worker[w].msg = 0 BY DEF Messages, Handling
  <2>3. CASE worker[w].at = "idle" BY <2>1, <2>2, <2>3 DEF Idle
  <2>4. CASE worker[w].at # "idle" BY <2>1, <2>4, WorkerMessage DEF Labels
  <2>5. QED BY <2>3, <2>4
<1>4. ASSUME NEW i \in DOMAIN responses
      PROVE  responses[i] \in [msg : 1..taken, result : {"result", "refused"}]
  <2>1. responses[i] \in [msg : Nat, result : Results] /\ responses[i].msg \in 1..taken
    BY <1>1, ElementOfSeq DEF Refusing
  <2>2. QED BY <2>1 DEF Results
<1>5. \A f \in DOMAIN states : states[f] \in DOMAIN change_generation
  BY <1>1 DEF Debounce, DebounceType
<1>6. ASSUME NEW c \in Ids
      PROVE  \/ thread[c] = NoThread
             \/ /\ thread[c].state \in DOMAIN change_generation
                /\ sent[c].kind = "change"
  BY <1>1 DEF Debounce, Generations
<1>7. /\ session \in Sessions /\ taken \in 0..Len(sent) /\ queue \in Seq(1..taken)
      /\ processing_didChange \in BOOLEAN /\ shutdown_requested \in BOOLEAN
      /\ DOMAIN states \subseteq Files
  BY DEF Messages, MessageType, Debounce, DebounceType, Refusing
<1>8. QED BY <1>2, <1>3, <1>4, <1>5, <1>6, <1>7 DEF Documents, Holds, ControlType, TypeOK

\* Every variable stays of its type, and what the threads and the responses name was sent.
THEOREM LspTypeCorrect == Spec => []TypeOK
<1>1. Init => LspInvariant
  <2> SUFFICES ASSUME Init PROVE LspInvariant OBVIOUS
  <2>1. Documents BY LspAssumption DEF Init, Documents, Holds, Texts
  <2>2. ControlType BY DEF Init, ControlType
  <2>3. QED BY <2>1, <2>2, InitMessages, InitDebounce, InitRefusing DEF LspInvariant
<1>2. LspInvariant /\ [Next]_vars => LspInvariant'
  BY NextMessages, NextDebounce, NextRefusing, NextDocuments, NextControl DEF LspInvariant
<1>3. LspInvariant => TypeOK BY InvariantTypes
<1>4. QED BY <1>1, <1>2, <1>3, PTL DEF Spec

--------------------------------------------------------------------------------
(* The programs and the contents they were parsed from. *)

\* The worker w will still erase, look at or parse the program of f, ...
WorkerDue(w, f) ==
    /\ \/ worker[w].at \in {"watched", "watched_look", "watched_reparse", "close_file"}
       \/ worker[w].at = "start" /\ Kind(w) = "watched"
    /\ File(w) = f

\* ... or the detached thread c, ...
ThreadDue(c, f) == thread[c].at \in {"look", "reparse"} /\ sent[c].file = f

Watches(i, f) == sent[i].kind = "watched" /\ sent[i].file = f

\* ... or whoever gets a message that is not taken yet.
Due(f) ==
    \/ \E i \in 1..Len(sent) : i > taken /\ Watches(i, f)
    \/ \E i \in 1..Len(queue) : Watches(queue[i], f)
    \/ \E w \in Workers : WorkerDue(w, f)
    \/ \E c \in Ids : ThreadDue(c, f)

Current(f) ==
    f \in DOMAIN programs => programs[f] \in {Empty, Text(f)} \/ Saved(f) \/ Due(f)

\* A program that is not parsed from the contents of its file is due, while the pool runs.
AllCurrent == ~stop => \A f \in Files : Current(f)

\* A thread there is belongs to a message that was read.
LEMMA ThreadMessage ==
    ASSUME Messages, Debounce, NEW c \in Ids, thread[c].at # "none"
    PROVE  /\ c \in 1..Len(sent) /\ c <= taken /\ sent[c].file \in Files
           /\ \A w \in Workers : worker[w].msg # c
           /\ \A i \in 1..Len(queue) : queue[i] # c
<1>1. thread[c] # NoThread BY DEF NoThread
<1>2. ~Placed(c) BY <1>1 DEF Debounce, Unspawned
<1>3. c \in 1..Len(sent) /\ c <= taken
  BY <1>2, Typed DEF Messages, Placed, Ids
<1>4. QED BY <1>2, <1>3, Typed DEF Messages, Placed, Msg

LEMMA SendCurrent ==
    ASSUME Messages, Debounce, Documents, AllCurrent,
           NEW kind \in AllKinds, NEW f \in Files, Send(kind, f)
    PROVE  AllCurrent'
<1> DEFINE m == Message(kind, f)
           n == Len(sent)
<1>1. /\ sent' = Append(sent, m)
      /\ UNCHANGED <<taken, queue, stop, worker, thread, unsaved, programs>>
  BY DEF Send, control, debounce, pool
<1>2. m.kind = kind /\ m.file = f BY DEF Message
<1> HIDE DEF m
<1>3. /\ n \in Nat /\ taken \in Nat /\ taken <= n /\ n <= MaxMessages
      /\ \A i \in 1..Len(queue) : queue[i] \in 1..taken
  BY Typed DEF Messages
<1>4. /\ Len(sent') = n + 1 /\ sent'[n + 1] = m
      /\ \A i \in 1..n : sent'[i] = sent[i]
      /\ DOMAIN sent = 1..n /\ DOMAIN sent' = 1..(n + 1)
  BY <1>1, <1>3, AppendProperties, LenProperties DEF Messages, MessageType
<1> HIDE DEF n
<1>5. \A i \in 1..n : i \in 1..(n + 1) BY <1>3
<1>6. ASSUME NEW g, Saved(g) PROVE Saved(g)'
  BY <1>4, <1>5, <1>6 DEF Saved
<1>7. ASSUME NEW g, Due(g) PROVE Due(g)'
  <2>1. CASE \E i \in 1..n : i > taken /\ Watches(i, g)
    BY <1>1, <1>4, <1>5, <2>1 DEF Due, Watches
  <2>2. CASE \E i \in 1..Len(queue) : Watches(queue[i], g)
    <3>1. PICK i \in 1..Len(queue) : Watches(queue[i], g) BY <2>2
    <3>2. queue[i] \in 1..n BY <1>3
    <3>3. Watches(queue[i], g)' BY <1>1, <1>4, <3>1, <3>2 DEF Watches
    <3>4. QED BY <1>1, <3>3 DEF Due
  <2>3. CASE \E w \in Workers : WorkerDue(w, g)
    <3>1. PICK w \in Workers : WorkerDue(w, g) BY <2>3
    <3>2. worker[w].msg \in 1..n BY <3>1, WorkerMessage DEF WorkerDue, n
    <3>3. WorkerDue(w, g)' BY <1>1, <1>4, <3>1, <3>2 DEF WorkerDue, File, Kind
    <3>4. QED BY <3>3 DEF Due
  <2>4. CASE \E c \in Ids : ThreadDue(c, g)
    <3>1. PICK c \in Ids : ThreadDue(c, g) BY <2>4
    <3>2. c \in 1..n BY <3>1, ThreadMessage DEF ThreadDue, n
    <3>3. ThreadDue(c, g)' BY <1>1, <1>4, <3>1, <3>2 DEF ThreadDue
    <3>4. QED BY <3>3 DEF Due
  <2>5. QED BY <1>7, <2>1, <2>2, <2>3, <2>4 DEF Due, n
<1>8. ASSUME NEW g \in Files, Current(g) PROVE Current(g)'
  <2>1. \/ disk'[g] = disk[g]
        \/ kind \in {"save", "watched"} /\ g = f
    BY DEF Send, Documents
  <2>2. CASE disk'[g] = disk[g]
    <3>1. Text(g)' = Text(g) BY <1>1, <2>2 DEF Text
    <3>2. QED BY <1>1, <1>6, <1>7, <1>8, <3>1 DEF Current, Empty
  <2>3. CASE kind = "save" /\ g = f
    <3>1. n + 1 \in DOMAIN sent' BY <1>3, <1>4
    <3>2. Saved(g)' BY <1>2, <1>4, <2>3, <3>1 DEF Saved
    <3>3. QED BY <3>2 DEF Current
  <2>4. CASE kind = "watched" /\ g = f
    <3>1. n + 1 \in 1..(n + 1) /\ n + 1 > taken BY <1>3
    <3>2. Due(g)' BY <1>1, <1>2, <1>4, <2>4, <3>1 DEF Due, Watches
    <3>3. QED BY <3>2 DEF Current
  <2>5. QED BY <2>1, <2>2, <2>3, <2>4
<1>9. QED BY <1>1, <1>8 DEF AllCurrent

LEMMA MainCurrent ==
    ASSUME Messages, AllCurrent, Main \/ MainEnd
    PROVE  AllCurrent'
<1>1. UNCHANGED <<sent, disk, worker, thread, unsaved, programs>>
  BY DEF Main, MainCheck, MainRead, MainCleanup, MainDrop, MainDestroy, MainJoin,
     MainEnd, editor, debounce, pool
<1>2. \/ MainRead
      \/ stop' = TRUE
      \/ UNCHANGED <<taken, queue, stop>>
  BY DEF Main, MainCheck, MainRead, MainCleanup, MainDrop, MainDestroy, MainJoin, MainEnd
<1>3. ASSUME NEW g, Due(g), MainRead PROVE Due(g)'
  <2>1. /\ taken' = taken + 1 /\ queue' = Append(queue, taken + 1)
    BY <1>3 DEF MainRead
  <2>2. /\ taken \in Nat /\ Len(sent) \in Nat /\ queue \in Seq(Nat)
    BY Typed, SeqMonotonic DEF Messages, MessageType
  <2>3. /\ Len(queue') = Len(queue) + 1 /\ Len(queue) \in Nat
        /\ \A i \in 1..Len(queue) : queue'[i] = queue[i]
        /\ queue'[Len(queue) + 1] = taken + 1
    BY <2>1, <2>2, AppendProperties, LenProperties
  <2>4. /\ \A i \in 1..Len(queue) : i \in 1..Len(queue')
        /\ Len(queue) + 1 \in 1..Len(queue')
    BY <2>3
  <2>5. CASE \E i \in 1..Len(sent) : i > taken /\ Watches(i, g)
    <3>1. PICK i \in 1..Len(sent) : i > taken /\ Watches(i, g) BY <2>5
    <3>2. i = taken + 1 \/ i > taken' BY <2>1, <2>2, <3>1
    <3>3. CASE i = taken + 1 BY <1>1, <2>3, <2>4, <3>1, <3>3 DEF Due, Watches
    <3>4. CASE i > taken' BY <1>1, <3>1, <3>4 DEF Due, Watches
    <3>5. QED BY <3>2, <3>3, <3>4
  <2>6. CASE \E i \in 1..Len(queue) : Watches(queue[i], g)
    BY <1>1, <2>3, <2>4, <2>6 DEF Due, Watches
  <2>7. CASE \E w \in Workers : WorkerDue(w, g)
    BY <1>1, <2>7 DEF Due, WorkerDue, File, Kind
  <2>8. CASE \E c \in Ids : ThreadDue(c, g)
    BY <1>1, <2>8 DEF Due, ThreadDue
  <2>9. QED BY <1>3, <2>5, <2>6, <2>7, <2>8 DEF Due
<1>4. ASSUME NEW g, Due(g), UNCHANGED <<taken, queue>> PROVE Due(g)'
  BY <1>1, <1>4 DEF Due, Watches, WorkerDue, ThreadDue, File, Kind
<1>5. ASSUME NEW g \in Files, Current(g), Due(g) => Due(g)' PROVE Current(g)'
  BY <1>1, <1>5 DEF Current, Text, Saved, Empty
<1>6. MainRead => UNCHANGED stop BY DEF MainRead
<1>7. QED BY <1>2, <1>3, <1>4, <1>5, <1>6 DEF AllCurrent

LEMMA TakeCurrent ==
    ASSUME Messages, AllCurrent, NEW w \in Workers, Take(w)
    PROVE  AllCurrent'
<1>1. /\ UNCHANGED <<sent, disk, taken, stop, thread, unsaved, programs>>
      /\ worker[w].at = "idle" /\ queue # <<>>
      /\ worker' = [worker EXCEPT ![w] = [msg |-> Head(queue), at |-> "start"]]
      /\ queue' = Tail(queue)
  BY DEF Take, At, editor, control, debounce, pool
<1>2. queue \in Seq(1..taken) /\ worker \in [Workers -> [msg : 0..taken, at : Labels]]
  BY DEF Messages, MessageType
<1>3. /\ Len(queue) \in Nat /\ Len(queue') = Len(queue) - 1
      /\ \A i \in 1..Len(queue') : queue'[i] = queue[i + 1]
      /\ worker'[w] = [msg |-> queue[1], at |-> "start"]
      /\ \A v \in Workers \ {w} : worker'[v] = worker[v]
  BY <1>1, <1>2, HeadTailProperties, LenProperties
<1>4. ASSUME NEW g, Due(g) PROVE Due(g)'
  <2>1. CASE \E i \in 1..Len(sent) : i > taken /\ Watches(i, g)
    BY <1>1, <2>1 DEF Due, Watches
  <2>2. CASE \E i \in 1..Len(queue) : Watches(queue[i], g)
    <3>1. PICK i \in 1..Len(queue) : Watches(queue[i], g) BY <2>2
    <3>2. CASE i = 1
      <4>1. WorkerDue(w, g)' BY <1>1, <1>3, <3>1, <3>2 DEF WorkerDue, Watches, Kind, File
      <4>2. QED BY <4>1 DEF Due
    <3>3. CASE i # 1
      <4>1. PICK j \in 1..Len(queue') : i = j + 1
        <5>1. i - 1 \in 1..Len(queue') /\ i = (i - 1) + 1 BY <1>3, <3>1, <3>3
        <5>2. QED BY <5>1
      <4>2. Watches(queue[j], g)' BY <1>1, <1>3, <3>1, <4>1 DEF Watches
      <4>3. QED BY <4>2 DEF Due
    <3>4. QED BY <3>2, <3>3
  <2>3. CASE \E v \in Workers : WorkerDue(v, g)
    <3>1. PICK v \in Workers : WorkerDue(v, g) BY <2>3
    <3>2. v # w BY <1>1, <3>1 DEF WorkerDue
    <3>3. WorkerDue(v, g)' BY <1>1, <1>3, <3>1, <3>2 DEF WorkerDue, Kind, File
    <3>4. QED BY <3>3 DEF Due
  <2>4. CASE \E c \in Ids : ThreadDue(c, g)
    BY <1>1, <2>4 DEF Due, ThreadDue
  <2>5. QED BY <1>4, <2>1, <2>2, <2>3, <2>4 DEF Due
<1>5. ASSUME NEW g \in Files, Current(g) PROVE Current(g)'
  BY <1>1, <1>4, <1>5 DEF Current, Text, Saved, Empty
<1>6. QED BY <1>1, <1>5 DEF AllCurrent

\* What is due stays due, but for what the worker itself was to do.
LEMMA MovesDue ==
    ASSUME Messages, Debounce, NEW w \in Workers, Moves(w), UNCHANGED queue,
           NEW g, Due(g), ~WorkerDue(w, g)
    PROVE  Due(g)'
<1>1. /\ worker[w].at # "idle" /\ UNCHANGED <<sent, taken>>
      /\ Finish(w) \/ \E l : Goto(w, l)
  BY MovesLabel
<1>2. \A v \in Workers \ {w} : worker'[v] = worker[v]
  BY <1>1 DEF Finish, Goto, Messages, MessageType
<1>3. \A c \in Ids \ {worker[w].msg} : thread'[c] = thread[c]
  <2>1. CASE UNCHANGED thread BY <2>1
  <2>2. CASE ~UNCHANGED thread
    <3>1. Change(w) /\ worker[w].at = "change_spawn"
      BY <2>2 DEF Moves, Refuse, Dispatch, Hover, Definition, DocumentSymbol, References,
         Rename, AnswerFrom, CompleteWait, CompleteRespond, Unknown, Shutdown, Open,
         Change, Save, Close, Watched, Exit, At, debounce
    <3>2. PICK x : thread' = [thread EXCEPT ![worker[w].msg] = x]
      BY <3>1, NextGeneration
    <3>3. QED BY <3>2 DEF Debounce, DebounceType
  <2>3. QED BY <2>1, <2>2
<1>4. CASE \E i \in 1..Len(sent) : i > taken /\ Watches(i, g)
  BY <1>1, <1>4 DEF Due, Watches
<1>5. CASE \E i \in 1..Len(queue) : Watches(queue[i], g)
  BY <1>1, <1>5 DEF Due, Watches
<1>6. CASE \E v \in Workers : WorkerDue(v, g)
  BY <1>1, <1>2, <1>6 DEF Due, WorkerDue, Kind, File
<1>7. CASE \E c \in Ids : ThreadDue(c, g)
  <2>1. PICK c \in Ids : ThreadDue(c, g) BY <1>7
  <2>2. worker[w].msg # c BY <2>1, ThreadMessage DEF ThreadDue
  <2>3. ThreadDue(c, g)' BY <1>1, <1>3, <2>1, <2>2 DEF ThreadDue
  <2>4. QED BY <2>3 DEF Due
<1>8. QED BY <1>4, <1>5, <1>6, <1>7 DEF Due

\* The calls of the pool leave a program that is parsed from what it holds, or the one
\* there was.
LEMMA PoolCurrent ==
    ASSUME NEW f, NEW g
    PROVE  /\ \A p \in {GetProgram(f), GetProgramsForFile(f), ReparsePrograms(f)} :
                 /\ g # f => /\ g \in DOMAIN p <=> g \in DOMAIN programs
                             /\ g \in DOMAIN p => p[g] = programs[g]
           /\ \A p \in {GetProgram(f), GetProgramsForFile(f)} :
                 p[f] = Text(f) \/ p = programs
           /\ ReparsePrograms(f)[f] \in {Empty, Text(f)}
           /\ g # f => /\ g \in DOMAIN Erase(programs, f) <=> g \in DOMAIN programs
                       /\ g \in DOMAIN programs => Erase(programs, f)[g] = programs[g]
           /\ f \notin DOMAIN Erase(programs, f)
BY DEF GetProgram, GetProgramsForFile, ReparsePrograms, Put, Erase, Restrict

LEMMA MovesCurrent ==
    ASSUME Messages, Debounce, AllCurrent, NEW w \in Workers, Moves(w)
    PROVE  AllCurrent'
<1> DEFINE f == File(w)
           l == worker[w].at
<1>1. /\ l # "idle" /\ UNCHANGED <<sent, taken>>
      /\ UNCHANGED queue \/ stop' = TRUE
  BY MovesLabel DEF Moves, Refuse, Dispatch, Hover, Definition, DocumentSymbol, References,
     Rename, AnswerFrom, CompleteWait, CompleteRespond, Unknown, Shutdown, Open, Change,
     Save, Close, Watched, Exit
<1>2. /\ UNCHANGED disk
      /\ \/ /\ UNCHANGED <<unsaved, programs>>
            /\ \/ ~WorkerDue(w, f)
               \/ Goto(w, "watched") \/ Goto(w, "watched_reparse")
               \/ ~Parsed(f)
         \/ /\ unsaved' = Erase(unsaved, f) /\ UNCHANGED programs
            /\ l = "save" \/ Goto(w, "close_file") \/ Goto(w, "watched_look")
         \/ /\ programs' \in {GetProgram(f), GetProgramsForFile(f)} /\ UNCHANGED unsaved
            /\ l \in {"open", "definition", "symbols", "references", "rename",
                      "watched_create"}
         \/ /\ programs' = ReparsePrograms(f) /\ UNCHANGED unsaved
            /\ l = "watched_reparse"
         \/ /\ programs' = Erase(programs, f) /\ UNCHANGED unsaved
            /\ l = "close_file"
  BY DEF Moves, Refuse, Dispatch, Hover, Definition, DocumentSymbol, References, Rename,
     AnswerFrom, CompleteWait, CompleteRespond, Unknown, Shutdown, Open, Change, Save,
     Close, Watched, Exit, At, editor, pool, WorkerDue, Requests, HasProgram, Parsed
<1>3. UNCHANGED stop \/ stop' = TRUE
  BY DEF Moves, Refuse, Dispatch, Hover, Definition, DocumentSymbol, References, Rename,
     AnswerFrom, CompleteWait, CompleteRespond, Unknown, Shutdown, Open, Change, Save,
     Close, Watched, Exit, control
<1> SUFFICES ASSUME ~stop', NEW g \in Files PROVE Current(g)'
  BY DEF AllCurrent
<1>4. Current(g) /\ UNCHANGED queue
  BY <1>1, <1>3 DEF AllCurrent
<1>5. Saved(g) => Saved(g)' BY <1>1 DEF Saved
<1>6. ASSUME ~WorkerDue(w, g), g \in DOMAIN programs' => g \in DOMAIN programs,
             g \in DOMAIN programs' => programs'[g] = programs[g], Text(g)' = Text(g)
      PROVE  Current(g)'
  <2>1. Due(g) => Due(g)' BY <1>4, <1>6, MovesDue
  <2>2. QED BY <1>4, <1>5, <1>6, <2>1 DEF Current, Empty
<1>7. CASE g # f
  <2>1. ~WorkerDue(w, g) BY <1>7 DEF WorkerDue
  <2>2. Text(g)' = Text(g) BY <1>2, <1>7 DEF Text, Erase, Restrict
  <2>3. /\ g \in DOMAIN programs' <=> g \in DOMAIN programs
        /\ g \in DOMAIN programs' => programs'[g] = programs[g]
    BY <1>2, <1>7, PoolCurrent
  <2>4. QED BY <1>6, <2>1, <2>2, <2>3
<1>8. CASE g = f
  <2>1. worker'[w].at \in {"watched", "watched_look", "watched_reparse", "close_file"}
        /\ worker'[w].msg = worker[w].msg => Current(g)'
    BY <1>1, <1>8 DEF Current, Due, WorkerDue, File
  <2>2. Goto(w, "close_file") \/ Goto(w, "watched") \/ Goto(w, "watched_look")
           \/ Goto(w, "watched_reparse") => Current(g)'
    BY <2>1 DEF Goto, Messages, MessageType
  <2>3. CASE UNCHANGED <<unsaved, programs>> /\ (~WorkerDue(w, f) \/ ~Parsed(f))
    <3>1. Text(g)' = Text(g) BY <1>2, <2>3 DEF Text
    <3>2. CASE ~WorkerDue(w, f) BY <1>6, <1>8, <2>3, <3>1, <3>2
    <3>3. CASE ~Parsed(f)
      BY <1>8, <2>3, <3>1, <3>3 DEF Current, Empty, Parsed, HasProgram
    <3>4. QED BY <2>3, <3>2, <3>3
  <2>4. CASE l = "save"
    <3>1. Kind(w) = "save" BY <2>4 DEF Messages, Handling, KindAt
    <3>2. Saved(g)
      BY <1>1, <1>8, <3>1, WorkerMessage, LenProperties
      DEF Saved, Kind, File, Messages, MessageType
    <3>3. QED BY <1>5, <3>2 DEF Current
  <2>5. CASE /\ programs' \in {GetProgram(f), GetProgramsForFile(f)} /\ UNCHANGED unsaved
             /\ l \in {"open", "definition", "symbols", "references", "rename",
                       "watched_create"}
    <3>1. ~WorkerDue(w, g) BY <2>5 DEF WorkerDue
    <3>2. Text(g)' = Text(g) BY <1>2, <2>5 DEF Text
    <3>3. CASE programs'[f] = Text(f) BY <1>8, <3>2, <3>3 DEF Current
    <3>4. CASE programs' = programs BY <1>6, <3>1, <3>2, <3>4
    <3>5. QED BY <2>5, <3>3, <3>4, PoolCurrent
  <2>6. CASE programs' = ReparsePrograms(f) /\ UNCHANGED unsaved
    <3>1. Text(g)' = Text(g) BY <1>2, <2>6 DEF Text
    <3>2. programs'[f] \in {Empty, Text(f)} BY <2>6, PoolCurrent
    <3>3. QED BY <1>8, <3>1, <3>2 DEF Current, Empty
  <2>7. CASE programs' = Erase(programs, f)
    BY <1>8, <2>7, PoolCurrent DEF Current
  <2>8. QED BY <1>2, <2>2, <2>3, <2>4, <2>5, <2>6, <2>7
<1>9. QED BY <1>7, <1>8

LEMMA ThreadCurrent ==
    ASSUME Messages, Debounce, AllCurrent, NEW c \in Ids, Thread(c)
    PROVE  AllCurrent'
<1> DEFINE f == sent[c].file
<1>1. UNCHANGED <<sent, disk, taken, queue, worker, stop>>
  BY DEF Thread, ThreadWake, ThreadStore, ThreadLook, ThreadReparse, ThreadCreate,
     ThreadFinish, ThreadUnchanged, editor, control
<1>2. \A d \in Ids \ {c} : thread'[d] = thread[d]
  BY ThreadMoves DEF ThreadGoto, Debounce, DebounceType
<1>3. \/ /\ UNCHANGED <<unsaved, programs>>
         /\ ~ThreadDue(c, f) \/ ThreadGoto(c, "reparse") \/ ~HasProgram(f)
      \/ /\ unsaved' = Put(unsaved, f, c) /\ UNCHANGED programs
         /\ ThreadGoto(c, "look")
      \/ /\ programs' = ReparsePrograms(f) /\ UNCHANGED unsaved
      \/ /\ programs' = GetProgram(f) /\ UNCHANGED unsaved
         /\ ~ThreadDue(c, f)
  BY DEF Thread, ThreadWake, ThreadStore, ThreadLook, ThreadReparse, ThreadCreate,
     ThreadFinish, ThreadAt, ThreadDue, pool
<1> SUFFICES ASSUME ~stop', NEW g \in Files PROVE Current(g)'
  BY DEF AllCurrent
<1>4. Current(g) BY <1>1 DEF AllCurrent
<1>5. Saved(g) => Saved(g)' BY <1>1 DEF Saved
<1>6. ASSUME ~ThreadDue(c, g), g \in DOMAIN programs' => g \in DOMAIN programs,
             g \in DOMAIN programs' => programs'[g] = programs[g], Text(g)' = Text(g)
      PROVE  Current(g)'
  <2>1. ASSUME NEW d \in Ids, ThreadDue(d, g) PROVE ThreadDue(d, g)'
    BY <1>1, <1>2, <1>6, <2>1 DEF ThreadDue
  <2>2. Due(g) => Due(g)' BY <1>1, <2>1 DEF Due, Watches, WorkerDue, Kind, File
  <2>3. QED BY <1>4, <1>5, <1>6, <2>2 DEF Current, Empty
<1>7. CASE g # f
  <2>1. ~ThreadDue(c, g) BY <1>7 DEF ThreadDue
  <2>2. Text(g)' = Text(g) BY <1>1, <1>3, <1>7 DEF Text, Put
  <2>3. /\ g \in DOMAIN programs' <=> g \in DOMAIN programs
        /\ g \in DOMAIN programs' => programs'[g] = programs[g]
    BY <1>3, <1>7, PoolCurrent
  <2>4. QED BY <1>6, <2>1, <2>2, <2>3
<1>8. CASE g = f
  <2>1. ThreadGoto(c, "look") \/ ThreadGoto(c, "reparse") => Current(g)'
    BY <1>1, <1>8 DEF ThreadGoto, Current, Due, ThreadDue, Debounce, DebounceType
  <2>2. UNCHANGED unsaved => Text(g)' = Text(g) BY <1>1 DEF Text
  <2>3. CASE UNCHANGED <<unsaved, programs>> /\ ~ThreadDue(c, f)
    BY <1>6, <1>8, <2>2, <2>3
  <2>4. CASE UNCHANGED programs /\ ~HasProgram(f)
    BY <1>8, <2>4 DEF Current, HasProgram
  <2>5. CASE programs' = ReparsePrograms(f) /\ UNCHANGED unsaved
    <3>1. programs'[f] \in {Empty, Text(f)} BY <2>5, PoolCurrent
    <3>2. QED BY <1>8, <2>2, <2>5, <3>1 DEF Current, Empty
  <2>6. CASE programs' = GetProgram(f) /\ UNCHANGED unsaved /\ ~ThreadDue(c, f)
    <3>1. CASE programs'[f] = Text(f) BY <1>8, <2>2, <2>6, <3>1 DEF Current
    <3>2. CASE programs' = programs BY <1>6, <1>8, <2>2, <2>6, <3>2
    <3>3. QED BY <2>6, <3>1, <3>2, PoolCurrent
  <2>7. QED BY <1>3, <2>1, <2>3, <2>4, <2>5, <2>6
<1>9. QED BY <1>7, <1>8

LEMMA NextCurrent ==
    ASSUME Messages, Debounce, Documents, AllCurrent, [Next]_vars
    PROVE  AllCurrent'
<1>1. ASSUME NEW w \in Workers, Worker(w) PROVE AllCurrent'
  BY <1>1, TakeCurrent, MovesCurrent DEF Worker, Moves
<1>2. CASE UNCHANGED vars
  BY <1>2 DEF vars, editor, control, debounce, pool, AllCurrent, Current, Text, Saved,
     Due, Watches, WorkerDue, ThreadDue, Kind, File, Empty
<1>3. QED BY <1>1, <1>2, SendCurrent, MainCurrent, ThreadCurrent DEF Next

\* While the pool runs and all is quiet, the program of a file was parsed from what the
\* pool holds as its contents, unless a save dropped those, or there is none.
THEOREM ProgramsCurrent == Spec => []ParsedIsCurrent
<1> DEFINE Inv == Messages /\ Debounce /\ Documents /\ AllCurrent
<1>1. Init => Inv
  <2> SUFFICES ASSUME Init PROVE Inv OBVIOUS
  <2>1. Documents BY LspAssumption DEF Init, Documents, Holds, Texts
  <2>2. AllCurrent BY DEF Init, AllCurrent, Current
  <2>3. QED BY <2>1, <2>2, InitMessages, InitDebounce
<1>2. Inv /\ [Next]_vars => Inv'
  BY NextMessages, NextDebounce, NextDocuments, NextCurrent
<1>3. Inv => ParsedIsCurrent
  <2> SUFFICES ASSUME Inv, Quiet, ~stop, NEW f \in DOMAIN programs, ~Saved(f)
               PROVE  programs[f] \in {Empty, Text(f)}
    BY DEF ParsedIsCurrent
  <2>1. f \in Files BY DEF Documents, Holds
  <2>2. /\ DOMAIN queue = 1..Len(queue) /\ taken = Len(sent) /\ taken \in Nat
        /\ \A i \in 1..Len(queue) : queue[i] \in 1..taken
    BY Typed, LenProperties DEF Quiet, Messages, MessageType
  <2>3. ~\E i \in 1..Len(sent) : i > taken BY <2>2
  <2>4. ~\E i \in 1..Len(queue) : Watches(queue[i], f)
    BY <2>2 DEF Quiet, Handled
  <2>5. ~\E w \in Workers : WorkerDue(w, f)
    BY WorkerMessage DEF WorkerDue, Quiet, Handled
  <2>6. ~\E c \in Ids : ThreadDue(c, f)
    <3> SUFFICES ASSUME NEW c \in Ids, ThreadDue(c, f) PROVE FALSE OBVIOUS
    <3>1. c \in 1..taken BY <2>2, ThreadMessage DEF ThreadDue
    <3>2. QED BY <3>1 DEF Quiet, Live, ThreadDue
  <2>7. ~Due(f) BY <2>3, <2>4, <2>5, <2>6 DEF Due
  <2>8. QED BY <2>1, <2>7 DEF AllCurrent, Current
<1>4. QED BY <1>1, <1>2, <1>3, PTL DEF Spec

==============================================================================
