------------------------------ MODULE LspServer ------------------------------
(***************************************************************************)
(* The language server (src/src/lsp/BashppServer and its handlers): the    *)
(* main thread reads messages and gives them to the workers, a worker runs *)
(* the handler of one message, and each didChange starts a detached thread *)
(* that waits for the debounce time before it stores the text and parses.  *)
(*                                                                         *)
(* A message is its position in `sent`; the text of a didChange (and of a  *)
(* file on disk) is the position of the message that brought it, 0 at      *)
(* first.  The thread pool is its queue (ThreadPool has its inside), and   *)
(* the program pool is one program per file (ProgramPool has the rest):    *)
(* each call of it is one step, or two where it reads the snapshot first.  *)
(***************************************************************************)
EXTENDS Naturals, Sequences, FiniteSets, Functions

CONSTANTS Workers,      \* the threads of the pool
          Files,        \* the documents
          MaxMessages,  \* bound on the messages that the editor sends
          Sessions      \* what one session is bounded to

AllKinds == {"hover", "definition", "symbols", "references", "rename",
             "complete", "unknown", "shutdown",
             "open", "change", "save", "close", "watched", "exit"}

ASSUME LspAssumption ==
    /\ IsFiniteSet(Workers) /\ IsFiniteSet(Files)
    /\ MaxMessages \in Nat
    /\ Sessions \subseteq [kinds : SUBSET AllKinds, messages : 0..MaxMessages,
                           workers : SUBSET Workers, files : SUBSET Files]

VARIABLES
    \* the editor and the files
    session,     \* the bounds of this run of the server
    sent,        \* the messages so far
    buffer,      \* the text of each open document
    disk,        \* the text of each file
    \* the server
    taken,       \* how many messages mainLoop has enqueued
    queue,       \* the thread pool's queue
    stop,        \* the thread pool is stopped
    main,        \* where the main thread is
    exiting, shutdown_requested,
    process,     \* "running", or how it ended
    worker,      \* the message each worker handles, and where it is
    responses,   \* the responses in the order they are sent
    \* debouncing
    processing_didChange,
    states,      \* DebounceStateMap: file -> the state it has now
    change_generation,  \* of every DebounceState there has been
    thread,      \* the detached thread of each didChange
    \* the program pool
    unsaved,     \* file -> unsaved contents
    programs     \* file -> the text its program was parsed from

editor   == <<session, sent, buffer, disk>>
control  == <<stop, main, exiting, shutdown_requested, process>>
debounce == <<processing_didChange, states, change_generation, thread>>
pool     == <<unsaved, programs>>
vars == <<editor, taken, queue, control, worker, responses, debounce, pool>>

--------------------------------------------------------------------------------
Ids      == 1..MaxMessages
Texts    == 0..MaxMessages
Requests == {"hover", "definition", "symbols", "references", "rename",
             "complete", "unknown", "shutdown"}

\* A file in program_indices without a program (see ProgramPool, EmptyEntry).
Empty == MaxMessages + 1

Idle     == [msg |-> 0, at |-> "idle"]
NoThread == [at |-> "none", state |-> 0, generation |-> 0]

Put(f, key, value) == [x \in DOMAIN f \cup {key} |-> IF x = key THEN value ELSE f[x]]
Erase(f, key)      == Restrict(f, DOMAIN f \ {key})

\* What a parse of the file reads now: get_file_contents.
Text(f) == IF f \in DOMAIN unsaved THEN unsaved[f] ELSE disk[f]

Responded == {responses[i].msg : i \in DOMAIN responses}

Running == process = "running"

--------------------------------------------------------------------------------
(* The editor: it opens a document before it edits, saves or closes it. *)

Message(kind, f) ==
    [kind |-> kind, file |-> f,
     \* it had the response to a shutdown request when it sent this
     late |-> \E i \in DOMAIN responses : sent[responses[i].msg].kind = "shutdown"]

Send(kind, f) ==
    /\ Running
    /\ kind \in session.kinds /\ f \in session.files
    /\ Len(sent) < session.messages
    /\ ~\E i \in DOMAIN sent : sent[i].kind = "exit"
    /\ sent' = Append(sent, Message(kind, f))
    /\ CASE kind = "open" ->
                /\ f \notin DOMAIN buffer
                /\ buffer' = Put(buffer, f, disk[f])
                /\ UNCHANGED disk
         [] kind = "change" ->
                /\ f \in DOMAIN buffer
                /\ buffer' = [buffer EXCEPT ![f] = Len(sent) + 1]
                /\ UNCHANGED disk
         [] kind = "save" ->
                /\ f \in DOMAIN buffer
                /\ disk' = [disk EXCEPT ![f] = buffer[f]]
                /\ UNCHANGED buffer
         [] kind = "close" ->
                /\ f \in DOMAIN buffer
                /\ buffer' = Erase(buffer, f)
                /\ UNCHANGED disk
         [] kind = "watched" ->
                /\ f \notin DOMAIN buffer
                /\ disk' = [disk EXCEPT ![f] = Len(sent) + 1]
                /\ UNCHANGED buffer
         [] OTHER -> UNCHANGED <<buffer, disk>>
    /\ UNCHANGED <<session, taken, queue, control, worker, responses, debounce, pool>>

--------------------------------------------------------------------------------
(* The main thread: mainLoop, then cleanup and the destructor. *)

MainGoto(label) == main' = label

MainCheck ==
    /\ Running
    /\ main = "check"
    /\ MainGoto(IF exiting THEN "cleanup" ELSE "read")
    /\ UNCHANGED <<editor, taken, queue, stop, exiting, shutdown_requested, process,
                   worker, responses, debounce, pool>>

\* Mutant: the same message is enqueued again and again.
MainReadAgain ==
    /\ Running
    /\ main = "read"
    /\ taken < Len(sent)
    /\ queue' = Append(queue, taken + 1)
    /\ MainGoto("check")
    /\ UNCHANGED <<editor, taken, stop, exiting, shutdown_requested, process,
                   worker, responses, debounce, pool>>

\* It blocks here until there is a message.
MainRead ==
    /\ Running
    /\ main = "read"
    /\ taken < Len(sent)
    /\ taken' = taken + 1
    /\ queue' = Append(queue, taken + 1)
    /\ MainGoto("check")
    /\ UNCHANGED <<editor, stop, exiting, shutdown_requested, process,
                   worker, responses, debounce, pool>>

\* Mutant: a closed stream is taken for a message that is yet to come.
MainEndRetry ==
    /\ Running
    /\ main = "read"
    /\ taken = Len(sent)
    /\ sent # <<>> /\ sent[Len(sent)].kind = "exit"
    /\ MainGoto("read")
    /\ UNCHANGED <<editor, taken, queue, stop, exiting, shutdown_requested, process,
                   worker, responses, debounce, pool>>

\* The stream ends: an editor that sent exit may close it.
MainEnd ==
    /\ Running
    /\ main = "read"
    /\ taken = Len(sent)
    /\ sent # <<>> /\ sent[Len(sent)].kind = "exit"
    /\ MainGoto("cleanup")
    /\ UNCHANGED <<editor, taken, queue, stop, exiting, shutdown_requested, process,
                   worker, responses, debounce, pool>>

\* main calls cleanup, which does nothing if a worker did or does it ...
MainCleanup ==
    /\ Running
    /\ main = "cleanup"
    /\ exiting' = TRUE
    /\ MainGoto(IF exiting THEN "destroy" ELSE "drop")
    /\ UNCHANGED <<editor, taken, queue, stop, shutdown_requested, process,
                   worker, responses, debounce, pool>>

MainDrop ==
    /\ Running
    /\ main = "drop"
    /\ queue' = <<>>
    /\ stop' = TRUE
    /\ MainGoto("destroy")
    /\ UNCHANGED <<editor, taken, exiting, shutdown_requested, process,
                   worker, responses, debounce, pool>>

\* ... and returns: the server and its thread pool are destroyed,
MainDestroy ==
    /\ Running
    /\ main = "destroy"
    /\ stop' = TRUE
    /\ MainGoto("join")
    /\ UNCHANGED <<editor, taken, queue, exiting, shutdown_requested, process,
                   worker, responses, debounce, pool>>

\* once the workers have emptied the queue and returned.
MainJoin ==
    /\ Running
    /\ main = "join"
    /\ queue = <<>> /\ \A w \in Workers : worker[w] = Idle
    /\ process' = "exit 0"
    /\ UNCHANGED <<editor, taken, queue, stop, main, exiting, shutdown_requested,
                   worker, responses, debounce, pool>>

--------------------------------------------------------------------------------
(* A worker: processMessage, and the handler of each kind of message. *)

At(w, label) == Running /\ worker[w].at = label

Goto(w, label) == worker' = [worker EXCEPT ![w].at = label]
Finish(w)      == worker' = [worker EXCEPT ![w] = Idle]

Kind(w) == sent[worker[w].msg].kind
File(w) == sent[worker[w].msg].file

Respond(w, result) == responses' = Append(responses, [msg |-> worker[w].msg, result |-> result])

\* The thread pool keeps running what is in its queue even when it is stopped.
Take(w) ==
    /\ w \in session.workers
    /\ At(w, "idle")
    /\ queue # <<>>
    /\ worker' = [worker EXCEPT ![w] = [msg |-> Head(queue), at |-> "start"]]
    /\ queue' = Tail(queue)
    /\ UNCHANGED <<editor, taken, control, responses, debounce, pool>>

\* processMessage: after a shutdown request every request is refused.
Refuse(w) ==
    /\ At(w, "start")
    /\ Kind(w) \in Requests
    /\ shutdown_requested
    /\ Respond(w, "refused")
    /\ Finish(w)
    /\ UNCHANGED <<editor, taken, queue, control, debounce, pool>>

Dispatch(w) ==
    /\ At(w, "start")
    /\ Kind(w) \in Requests => ~shutdown_requested
    /\ Goto(w, Kind(w))
    /\ UNCHANGED <<editor, taken, queue, control, responses, debounce, pool>>

\* A request without a handler: invalidRequestHandler throws, nothing is sent.
Unknown(w) ==
    /\ At(w, "unknown")
    /\ Finish(w)
    /\ UNCHANGED <<editor, taken, queue, control, responses, debounce, pool>>

\* Mutant: the shutdown request is answered before the flag is set.
ShutdownAnswerFirst(w) ==
    \/ /\ At(w, "shutdown")
       /\ Respond(w, "result")
       /\ Goto(w, "shutdown_respond")
       /\ UNCHANGED <<editor, taken, queue, control, debounce, pool>>
    \/ /\ At(w, "shutdown_respond")
       /\ shutdown_requested' = TRUE
       /\ Finish(w)
       /\ UNCHANGED <<editor, taken, queue, stop, main, exiting, process,
                      responses, debounce, pool>>

Shutdown(w) ==
    \/ /\ At(w, "shutdown")
       /\ shutdown_requested' = TRUE
       /\ Goto(w, "shutdown_respond")
       /\ UNCHANGED <<editor, taken, queue, stop, main, exiting, process,
                      responses, debounce, pool>>
    \/ /\ At(w, "shutdown_respond")
       /\ Respond(w, "result")
       /\ Finish(w)
       /\ UNCHANGED <<editor, taken, queue, control, debounce, pool>>

\* A completion sleeps until no didChange is being processed ...
CompleteWait(w) ==
    /\ At(w, "complete")
    /\ ~processing_didChange
    /\ Goto(w, "resolve")
    /\ UNCHANGED <<editor, taken, queue, control, responses, debounce, pool>>

\* ... and then jumps the queue of the pool, like a hover: it looks at the
\* snapshot, and a file that has no program there gets none.
CompleteRespond(w) ==
    /\ At(w, "resolve")
    /\ Respond(w, "result")
    /\ Finish(w)
    /\ UNCHANGED <<editor, taken, queue, control, debounce, pool>>

Hover(w) ==
    /\ At(w, "hover")
    /\ Respond(w, "result")
    /\ Finish(w)
    /\ UNCHANGED <<editor, taken, queue, control, debounce, pool>>

\* exit: cleanup, unless main does it, then the exit code of an editor that
\* did not ask for the shutdown.
Exit(w) ==
    \/ /\ At(w, "exit")
       /\ exiting' = TRUE
       /\ Goto(w, IF exiting THEN "exit_code" ELSE "exit_drop")
       /\ UNCHANGED <<editor, taken, queue, stop, main, shutdown_requested, process,
                      responses, debounce, pool>>
    \/ /\ At(w, "exit_drop")
       /\ queue' = <<>>
       /\ stop' = TRUE
       /\ Goto(w, "exit_code")
       /\ UNCHANGED <<editor, taken, main, exiting, shutdown_requested, process,
                      responses, debounce, pool>>
    \/ /\ At(w, "exit_code")
       /\ process' = IF shutdown_requested THEN process ELSE "exit 1"
       /\ Finish(w)
       /\ UNCHANGED <<editor, taken, queue, stop, main, exiting, shutdown_requested,
                      responses, debounce, pool>>

--------------------------------------------------------------------------------
(* The program pool, seen from the handlers. *)

HasProgram(f) == f \in DOMAIN programs
Parsed(f)     == HasProgram(f) /\ programs[f] # Empty

\* get_program returns the program of the file or makes one.
GetProgram(f) == IF Parsed(f) THEN programs ELSE Put(programs, f, Text(f))

\* get_programs_for_file is content with an entry that has no program.
GetProgramsForFile(f) == IF HasProgram(f) THEN programs ELSE GetProgram(f)

\* The locked half of re_parse_programs, when has_program found the file: a
\* file that lost its program since then gets an entry without one.
ReparsePrograms(f) == Put(programs, f, IF Parsed(f) THEN Text(f) ELSE Empty)

--------------------------------------------------------------------------------
(* The handlers of the requests that look into the pool itself: each of them may
   parse the file, which need not be open.  What they look up there, and what
   they answer when they do not find it, is not told apart. *)

AnswerFrom(w, pool_programs) ==
    /\ programs' = pool_programs
    /\ Respond(w, "result")
    /\ Finish(w)
    /\ UNCHANGED <<editor, taken, queue, control, debounce, unsaved>>

Definition(w)     == At(w, "definition") /\ AnswerFrom(w, GetProgram(File(w)))
DocumentSymbol(w) == At(w, "symbols")    /\ AnswerFrom(w, GetProgram(File(w)))
References(w)     == At(w, "references") /\ AnswerFrom(w, GetProgramsForFile(File(w)))
Rename(w)         == At(w, "rename")     /\ AnswerFrom(w, GetProgramsForFile(File(w)))

--------------------------------------------------------------------------------
(* The handlers of notifications. *)

\* open_file after it changes nothing here: get_program marked the file too.
Open(w) ==
    /\ At(w, "open")
    /\ programs' = GetProgram(File(w))
    /\ Finish(w)
    /\ UNCHANGED <<editor, taken, queue, control, responses, debounce, unsaved>>

Save(w) ==
    /\ At(w, "save")
    /\ unsaved' = Erase(unsaved, File(w))
    /\ Finish(w)
    /\ UNCHANGED <<editor, taken, queue, control, responses, debounce, programs>>

Close(w) ==
    \/ /\ At(w, "close")
       /\ unsaved' = Erase(unsaved, File(w))
       /\ Goto(w, "close_file")
       /\ UNCHANGED <<editor, taken, queue, control, responses, debounce, programs>>
    \/ /\ At(w, "close_file")
       /\ programs' = IF Parsed(File(w)) THEN Erase(programs, File(w)) ELSE programs
       /\ Finish(w)
       /\ UNCHANGED <<editor, taken, queue, control, responses, debounce, unsaved>>

\* The files of one notification are handled one after the other: here, of one.
Watched(w) ==
    \/ /\ At(w, "watched")
       /\ unsaved' = Erase(unsaved, File(w))
       /\ Goto(w, "watched_look")
       /\ UNCHANGED <<editor, taken, queue, control, responses, debounce, programs>>
    \/ /\ At(w, "watched_look")
       /\ Goto(w, IF HasProgram(File(w)) THEN "watched_reparse" ELSE "watched_create")
       /\ UNCHANGED <<editor, taken, queue, control, responses, debounce, pool>>
    \/ /\ At(w, "watched_reparse")
       /\ programs' = ReparsePrograms(File(w))
       /\ Finish(w)
       /\ UNCHANGED <<editor, taken, queue, control, responses, debounce, unsaved>>
    \/ /\ At(w, "watched_create")
       /\ programs' = GetProgram(File(w))
       /\ Finish(w)
       /\ UNCHANGED <<editor, taken, queue, control, responses, debounce, unsaved>>

\* DebounceStateMap::get drops the states of files without a program first.
KeptStates == Restrict(states, {f \in DOMAIN states : HasProgram(f)})

\* Mutant: a thread is given the generation before its own.
ChangeOldGeneration(w) ==
    \/ /\ At(w, "change")
       /\ processing_didChange' = TRUE
       /\ Goto(w, "change_spawn")
       /\ UNCHANGED <<editor, taken, queue, control, responses, states,
                      change_generation, thread, pool>>
    \/ /\ At(w, "change_spawn")
       /\ LET f == File(w)
              s == IF f \in DOMAIN KeptStates THEN states[f] ELSE Len(change_generation) + 1
              generations == IF f \in DOMAIN KeptStates THEN change_generation
                                                        ELSE Append(change_generation, 0)
          IN /\ states' = Put(KeptStates, f, s)
             /\ change_generation' = [generations EXCEPT ![s] = @ + 1]
             /\ thread' = [thread EXCEPT ![worker[w].msg] =
                    [at |-> "sleep", state |-> s, generation |-> generations[s]]]
       /\ Finish(w)
       /\ UNCHANGED <<editor, taken, queue, control, responses, processing_didChange, pool>>

\* didChange: the flag, then the file's state and its next generation.  Those
\* two are one step: nobody else's get tells whether fetch_add came yet.
Change(w) ==
    \/ /\ At(w, "change")
       /\ processing_didChange' = TRUE
       /\ Goto(w, "change_spawn")
       /\ UNCHANGED <<editor, taken, queue, control, responses, states,
                      change_generation, thread, pool>>
    \/ /\ At(w, "change_spawn")
       /\ LET f == File(w)
              s == IF f \in DOMAIN KeptStates THEN states[f] ELSE Len(change_generation) + 1
              generations == IF f \in DOMAIN KeptStates THEN change_generation
                                                        ELSE Append(change_generation, 0)
          IN /\ states' = Put(KeptStates, f, s)
             /\ change_generation' = [generations EXCEPT ![s] = @ + 1]
             /\ thread' = [thread EXCEPT ![worker[w].msg] =
                    [at |-> "sleep", state |-> s, generation |-> generations[s] + 1]]
       /\ Finish(w)
       /\ UNCHANGED <<editor, taken, queue, control, responses, processing_didChange, pool>>

--------------------------------------------------------------------------------
(* The detached thread of the didChange c. *)

ThreadAt(c, label)   == Running /\ thread[c].at = label
ThreadGoto(c, label) == thread' = [thread EXCEPT ![c].at = label]
ThreadUnchanged      == UNCHANGED <<editor, taken, queue, control, worker, responses,
                                    states, change_generation>>

Superseded(c) == change_generation[thread[c].state] # thread[c].generation

\* After the debounce time, whatever it is: a newer change, or the pool.
ThreadWake(c) ==
    /\ ThreadAt(c, "sleep")
    /\ ThreadGoto(c, IF Superseded(c) THEN "superseded" ELSE "store")
    /\ ThreadUnchanged /\ UNCHANGED <<processing_didChange, pool>>

ThreadStore(c) ==
    /\ ThreadAt(c, "store")
    /\ unsaved' = Put(unsaved, sent[c].file, c)
    /\ ThreadGoto(c, "look")
    /\ ThreadUnchanged /\ UNCHANGED <<processing_didChange, programs>>

ThreadLook(c) ==
    /\ ThreadAt(c, "look")
    /\ ThreadGoto(c, IF HasProgram(sent[c].file) THEN "reparse" ELSE "create")
    /\ ThreadUnchanged /\ UNCHANGED <<processing_didChange, pool>>

\* Mutant: the program that was parsed again is not put in the pool.
ThreadReparseNothing(c) ==
    /\ ThreadAt(c, "reparse")
    /\ ThreadGoto(c, IF Parsed(sent[c].file) THEN "finish" ELSE "failed")
    /\ ThreadUnchanged /\ UNCHANGED <<processing_didChange, pool>>

\* With no program parsed again, the thread returns at once.
ThreadReparse(c) ==
    /\ ThreadAt(c, "reparse")
    /\ programs' = ReparsePrograms(sent[c].file)
    /\ ThreadGoto(c, IF Parsed(sent[c].file) THEN "finish" ELSE "failed")
    /\ ThreadUnchanged /\ UNCHANGED <<processing_didChange, unsaved>>

ThreadCreate(c) ==
    /\ ThreadAt(c, "create")
    /\ programs' = GetProgram(sent[c].file)
    /\ ThreadGoto(c, "finish")
    /\ ThreadUnchanged /\ UNCHANGED <<processing_didChange, unsaved>>

\* Mutant: the flag stays set.
ThreadFinishSilently(c) ==
    /\ ThreadAt(c, "finish")
    /\ ThreadGoto(c, "done")
    /\ ThreadUnchanged /\ UNCHANGED <<processing_didChange, pool>>

\* The diagnostics are sent, the debounce time is adapted and the flag cleared.
ThreadFinish(c) ==
    /\ ThreadAt(c, "finish")
    /\ processing_didChange' = FALSE
    /\ ThreadGoto(c, "done")
    /\ ThreadUnchanged /\ UNCHANGED pool

--------------------------------------------------------------------------------
Init ==
    /\ session \in Sessions
    /\ sent = <<>>
    /\ buffer = <<>>
    /\ disk = [f \in Files |-> 0]
    /\ taken = 0
    /\ queue = <<>>
    /\ stop = FALSE
    /\ main = "check"
    /\ exiting = FALSE
    /\ shutdown_requested = FALSE
    /\ process = "running"
    /\ worker = [w \in Workers |-> Idle]
    /\ responses = <<>>
    /\ processing_didChange = FALSE
    /\ states = <<>>
    /\ change_generation = <<>>
    /\ thread = [c \in Ids |-> NoThread]
    /\ unsaved = <<>>
    /\ programs = <<>>

Main == MainCheck \/ MainRead \/ MainCleanup \/ MainDrop \/ MainDestroy \/ MainJoin

Worker(w) ==
    \/ Take(w) \/ Refuse(w) \/ Dispatch(w)
    \/ Hover(w) \/ Definition(w) \/ DocumentSymbol(w) \/ References(w) \/ Rename(w)
    \/ CompleteWait(w) \/ CompleteRespond(w) \/ Unknown(w) \/ Shutdown(w)
    \/ Open(w) \/ Change(w) \/ Save(w) \/ Close(w) \/ Watched(w) \/ Exit(w)

Thread(c) ==
    \/ ThreadWake(c) \/ ThreadStore(c) \/ ThreadLook(c)
    \/ ThreadReparse(c) \/ ThreadCreate(c) \/ ThreadFinish(c)

Next ==
    \/ \E kind \in AllKinds, f \in Files : Send(kind, f)
    \/ Main \/ MainEnd
    \/ \E w \in Workers : Worker(w)
    \/ \E c \in Ids : Thread(c)

Spec == Init /\ [][Next]_vars

\* Threads run; the editor need not send anything, nor end the stream.
FairSpec ==
    /\ Spec
    /\ WF_vars(Main)
    /\ \A w \in Workers : WF_vars(Worker(w))
    /\ \A c \in Ids : WF_vars(Thread(c))

\* ... but most editors close the stream after exit.
FairClosingSpec == FairSpec /\ WF_vars(MainEnd)

--------------------------------------------------------------------------------
(* Properties. *)

TypeOK ==
    /\ session \in Sessions
    /\ \A i \in DOMAIN sent : sent[i] \in [kind : AllKinds, file : Files, late : BOOLEAN]
    /\ DOMAIN buffer \subseteq Files /\ \A f \in DOMAIN buffer : buffer[f] \in Texts
    /\ disk \in [Files -> Texts]
    /\ taken \in 0..Len(sent)
    /\ queue \in Seq(1..taken)
    /\ stop \in BOOLEAN /\ exiting \in BOOLEAN /\ shutdown_requested \in BOOLEAN
    /\ main \in {"check", "read", "cleanup", "drop", "destroy", "join"}
    /\ process \in {"running", "exit 0", "exit 1"}
    /\ \A w \in Workers :
          \/ worker[w] = Idle
          \/ /\ worker[w].msg \in 1..taken
             /\ worker[w].at \in AllKinds \cup
                   {"start", "shutdown_respond", "resolve", "exit_drop", "exit_code",
                    "close_file", "watched_look", "watched_reparse", "watched_create",
                    "change_spawn"}
    /\ \A i \in DOMAIN responses :
          responses[i] \in [msg : 1..taken, result : {"result", "refused"}]
    /\ processing_didChange \in BOOLEAN
    /\ DOMAIN states \subseteq Files
    /\ \A f \in DOMAIN states : states[f] \in DOMAIN change_generation
    /\ \A c \in Ids : \/ thread[c] = NoThread
                      \/ /\ thread[c].state \in DOMAIN change_generation
                         /\ sent[c].kind = "change"
    /\ DOMAIN unsaved \subseteq Files /\ \A f \in DOMAIN unsaved : unsaved[f] \in Texts
    /\ DOMAIN programs \subseteq Files
    /\ \A f \in DOMAIN programs : programs[f] \in Texts \cup {Empty}

Handled(c) ==
    /\ c <= taken
    /\ \A i \in DOMAIN queue : queue[i] # c
    /\ \A w \in Workers : worker[w].msg # c

Live(c) == thread[c].at \in {"sleep", "store", "look", "reparse", "create", "finish"}

\* Nothing to do: every message is handled, every detached thread has ended.
Quiet ==
    /\ taken = Len(sent)
    /\ \A c \in 1..taken : Handled(c) /\ ~Live(c)

\* For an editor that waits for the response to its shutdown request the server is shut
\* down, on whichever workers the messages that follow are handled: a request is refused,
\* and exit never ends the process with code 1.
CleanExit ==
    /\ process = "exit 1" => ~\E i \in DOMAIN sent : sent[i].kind = "exit" /\ sent[i].late
    /\ \A i \in DOMAIN responses : sent[responses[i].msg].late => responses[i].result = "refused"

\* A change is dropped only for one that came with a higher generation and
\* whose own thread was not dropped, or will not be.
EditsNotLost ==
    \A c \in Ids : thread[c].at = "superseded" =>
        \E d \in Ids : /\ thread[d].state = thread[c].state
                       /\ thread[d].generation > thread[c].generation
                       /\ thread[d].at # "superseded"

Saved(f) == \E i \in DOMAIN sent : sent[i].kind = "save" /\ sent[i].file = f

\* Until the pool stops, which drops what is queued, when all is quiet the program of a
\* file was parsed from what the pool holds as the file's contents, whichever of the
\* workers and threads put it there; a save drops those contents without a parse.
ParsedIsCurrent ==
    Quiet /\ ~stop =>
        \A f \in DOMAIN programs : programs[f] \in {Empty, Text(f)} \/ Saved(f)

\* With one worker, when all is quiet what the pool holds of a document is what
\* the editor holds of it.
NewestStored ==
    Cardinality(session.workers) = 1 /\ Quiet =>
        \A f \in DOMAIN buffer \cap DOMAIN unsaved : unsaved[f] = buffer[f]

\* A change is dropped only for one that the editor sent after it.
SupersededIsOlder ==
    \A c \in Ids : thread[c].at = "superseded" =>
        \E d \in Ids : d > c /\ thread[d].state = thread[c].state

\* A completion looks at a pool that has every earlier change of the document,
\* but for those that a newer change superseded.
CompletionSeesLatest ==
    \A w \in Workers : worker[w].at = "resolve" =>
        \A c \in 1..worker[w].msg :
            sent[c].kind = "change" /\ sent[c].file = File(w) =>
                thread[c].at \notin {"none", "sleep", "store"}

\* While the flag is set, some change is still being processed.
FlagMeansPending ==
    processing_didChange =>
        \/ \E w \in Workers : worker[w].at = "change_spawn"
        \/ \E c \in Ids : Live(c)

\* Once a document is closed and all is quiet, nothing unsaved is kept of it.
NoUnsavedAfterClose ==
    Quiet => DOMAIN unsaved \subseteq DOMAIN buffer

\* Every completion request is answered.
CompletionsAnswered ==
    \A i \in Ids : (i <= Len(sent) /\ sent[i].kind = "complete") ~> (i \in Responded)

\* After exit the process ends.
ExitEnds == (\E i \in DOMAIN sent : sent[i].kind = "exit") ~> ~Running
================================================================================
