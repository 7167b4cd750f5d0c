------------------------------ MODULE ProgramPool ------------------------------
(***************************************************************************)
(* The language server's pool of parsed programs (src/src/lsp/ProgramPool).*)
(*                                                                         *)
(* Worker threads call the pool's operations concurrently.  The pool       *)
(* proper is protected by the recursive mutex pool_mutex; readers that     *)
(* "jump the queue" read a snapshot instead, which every operation that    *)
(* changes the pool republishes in two steps: it copies the pool under     *)
(* pool_mutex and, later, installs the copy under snapshot_mutex.          *)
(*                                                                         *)
(* One action is one stretch of code between two points where another      *)
(* thread can run or where the code starts a new turn of a loop.  A parse  *)
(* happens with pool_mutex held and is part of the action that uses it.    *)
(* A vector of positions in program_indices is a set here: the code never  *)
(* stores a position twice, and "the first one" is any of them.            *)
(***************************************************************************)
EXTENDS Naturals, Sequences, SequencesExt

CONSTANTS
    Threads,      \* threads that call the pool
    NoThread,
    Files,        \* absolute paths of source files
    NoFile,
    Contents,     \* what a file can contain
    Includes,     \* Includes[c]: the files that the text c includes
    Marked,       \* texts that declare an entity, and so get an entity map
    Missing,      \* the content of a path at which no file can be opened
    MaxPrograms,  \* max_programs
    Disks,        \* what can be on disk when the server starts
    Edits         \* the changes <<f, c>> made to files, on disk or in the editor

ASSUME PoolAssumption ==
    /\ NoThread \notin Threads
    /\ NoFile \notin Files
    /\ Includes \in [Contents -> SUBSET Files]
    /\ Marked \subseteq Contents
    /\ Missing \in Contents
    /\ MaxPrograms \in Nat \ {0}
    /\ Disks \subseteq [Files -> Contents]
    /\ Edits \subseteq Files \X Contents

VARIABLES
    disk,      \* the file system, changed by anyone at any time
    pool,      \* the four containers that pool_mutex protects
    snapshot,  \* the copy of them that snapshot_mutex protects
    mutex,     \* the owner of pool_mutex
    pc,        \* where each thread is
    file,      \* the file_path argument of each thread's call
    nested,    \* the call is get_programs_for_file, which holds pool_mutex
    todo,      \* the positions that a loop of the call has not visited yet
    copy       \* the thread's new_snapshot

vars == <<disk, pool, snapshot, mutex, pc, file, nested, todo, copy>>

--------------------------------------------------------------------------------
(* The pool as a value. *)

Program == [main : Files, sources : SUBSET Files]

EmptyPool ==
    [programs |-> <<>>, program_indices |-> <<>>,
     open_files |-> {}, unsaved_changes |-> <<>>]

Positions(p) == 1..Len(p.programs)

\* Mutant: the snapshot is asked instead of the pool.
IndexedInSnapshot(p, f) == f \in DOMAIN snapshot.program_indices

Indexed(p, f) ==
    /\ f \in DOMAIN p.program_indices
    /\ p.program_indices[f] # {}

\* std::erase_if(program_indices, ... empty())
NonEmptyEntries(index) ==
    [f \in {g \in DOMAIN index : index[g] # {}} |-> index[f]]

\* Mutant: every position is decremented.
ShiftAll(i, k) == i - 1

\* Mutant: the positions after the erased one stay as they were.
ShiftNone(i, k) == i

\* Position i, when position k is erased from a vector.
Shift(i, k) == IF i > k THEN i - 1 ELSE i

\* _remove_program(k)
RemoveProgram(p, k) ==
    [p EXCEPT
        !.programs = RemoveAt(@, k),
        !.program_indices =
            NonEmptyEntries([f \in DOMAIN @ |-> {Shift(i, k) : i \in @[f] \ {k}}]),
        !.open_files = @ \ p.programs[k].sources]

\* The loop over get_source_files() that maps each of them to position k.
MapSources(index, sources, k) ==
    [f \in DOMAIN index \cup sources |->
        (IF f \in DOMAIN index THEN index[f] ELSE {})
            \cup (IF f \in sources THEN {k} ELSE {})]

\* program_indices[f], which makes an empty entry when there is none.
WithEntry(index, f) ==
    [g \in DOMAIN index \cup {f} |-> IF g \in DOMAIN index THEN index[g] ELSE {}]

PushProgram(p, prog) ==
    [p EXCEPT
        !.programs = Append(@, prog),
        !.program_indices = MapSources(@, prog.sources, Len(p.programs) + 1),
        !.open_files = @ \cup {prog.main}]

\* One turn of the loop of re_parse_programs, after a successful parse.
ReplaceProgram(p, k, prog) ==
    [p EXCEPT
        !.programs = [@ EXCEPT ![k] = prog],
        !.program_indices =
            NonEmptyEntries(
                MapSources([f \in DOMAIN @ |-> @[f] \ {k}], prog.sources, k))]

--------------------------------------------------------------------------------
(* Parsing. *)

\* What the parser reads for f: replacement contents, else the file on disk.
Text(f) ==
    IF f \in DOMAIN pool.unsaved_changes THEN pool.unsaved_changes[f] ELSE disk[f]

\* An include of a path that realpath cannot resolve is a reported error and
\* leaves no trace, whatever its replacement contents are.
Edge(f, g) == g \in Includes[Text(f)] /\ disk[g] # Missing

Reachable(f) ==
    {g \in Files :
        \A S \in SUBSET Files :
            (f \in S /\ \A a \in S, b \in Files : Edge(a, b) => b \in S) => g \in S}

\* The keys of entity_maps.  An included file is one of them only once an
\* entity is marked in it: enterProgram adds its path to the program that the
\* included listener is about to drop.
SourcesOf(f) == {f} \cup {g \in Reachable(f) : Text(g) \in Marked}

Parses(f) == Text(f) # Missing

Parse(f) == [main |-> f, sources |-> SourcesOf(f)]

--------------------------------------------------------------------------------
(* Threads. *)

Idle(t) == pc[t] = "idle"

Goto(t, label) == pc' = [pc EXCEPT ![t] = label]

MayLock(t) == mutex \in {NoThread, t}

\* Leaving the scope of a lock_guard: get_programs_for_file still owns the
\* mutex when the get_program it called returns.
UnlockInner(t) == mutex' = IF nested[t] THEN t ELSE NoThread

\* The call returns to its caller.
Return(t) ==
    /\ Goto(t, "idle")
    /\ file' = [file EXCEPT ![t] = NoFile]
    /\ nested' = [nested EXCEPT ![t] = FALSE]
    /\ mutex' = IF mutex = t THEN NoThread ELSE mutex

SetUnsavedFileContents(t, f, c) ==
    /\ Idle(t) /\ mutex = NoThread
    /\ <<f, c>> \in Edits /\ c # Missing
    /\ pool' = [pool EXCEPT !.unsaved_changes =
                    [g \in DOMAIN @ \cup {f} |-> IF g = f THEN c ELSE @[g]]]
    /\ Goto(t, "copy")
    /\ UNCHANGED <<disk, snapshot, mutex, file, nested, todo, copy>>

RemoveUnsavedFileContents(t, f) ==
    /\ Idle(t) /\ mutex = NoThread
    /\ pool' = [pool EXCEPT !.unsaved_changes =
                    [g \in DOMAIN @ \ {f} |-> @[g]]]
    /\ Goto(t, "copy")
    /\ UNCHANGED <<disk, snapshot, mutex, file, nested, todo, copy>>

GetProgram(t, f) ==
    /\ Idle(t)
    /\ file' = [file EXCEPT ![t] = f]
    /\ Goto(t, "get")
    /\ UNCHANGED <<disk, pool, snapshot, mutex, nested, todo, copy>>

\* get_program: the file has a program already.
GetFound(t) ==
    /\ pc[t] = "get" /\ MayLock(t)
    /\ Indexed(pool, file[t])
    /\ Return(t)
    /\ UNCHANGED <<disk, pool, snapshot, todo, copy>>

\* Mutant: the pool is full one program too early.
EvictedEarly ==
    IF Len(pool.programs) + 1 >= MaxPrograms /\ pool.programs # <<>>
    THEN RemoveProgram(pool, 1) ELSE pool

Evicted ==
    IF Len(pool.programs) >= MaxPrograms THEN RemoveProgram(pool, 1) ELSE pool

\* get_program: the parse throws; the program evicted to make room is gone,
\* and the function returns before it publishes a snapshot.
GetParseFails(t) ==
    /\ pc[t] = "get" /\ MayLock(t)
    /\ ~Indexed(pool, file[t])
    /\ ~Parses(file[t])
    /\ pool' = Evicted
    /\ Return(t)
    /\ UNCHANGED <<disk, snapshot, todo, copy>>

GetCreate(t) ==
    /\ pc[t] = "get" /\ MayLock(t)
    /\ ~Indexed(pool, file[t])
    /\ Parses(file[t])
    /\ pool' = PushProgram(Evicted, Parse(file[t]))
    /\ mutex' = t
    /\ Goto(t, "subsume")
    /\ UNCHANGED <<disk, snapshot, file, nested, todo, copy>>

\* Earlier programs whose main file the new (last) program includes.
Subsumed(p, f) ==
    {k \in 1..(Len(p.programs) - 1) :
        /\ p.programs[k].main \in p.programs[Len(p.programs)].sources
        /\ p.programs[k].main # f}

\* One turn of get_program's last loop: the least of the positions is removed.
SubsumeOne(t) ==
    /\ pc[t] = "subsume"
    /\ \E k \in Subsumed(pool, file[t]) :
          /\ \A j \in Subsumed(pool, file[t]) : k <= j
          /\ pool' = RemoveProgram(pool, k)
    /\ UNCHANGED <<disk, snapshot, mutex, pc, file, nested, todo, copy>>

SubsumeDone(t) ==
    /\ pc[t] = "subsume"
    /\ Subsumed(pool, file[t]) = {}
    /\ UnlockInner(t)
    /\ Goto(t, "copy")
    /\ UNCHANGED <<disk, pool, snapshot, file, nested, todo, copy>>

\* Mutant: only the programs are copied, not their index.
CopyProgramsOnly(t) ==
    /\ pc[t] = "copy" /\ MayLock(t)
    /\ copy' = [copy EXCEPT ![t] =
                   [pool EXCEPT !.program_indices = snapshot.program_indices]]
    /\ Goto(t, "install")
    /\ UNCHANGED <<disk, pool, snapshot, mutex, file, nested, todo>>

\* update_snapshot: the copy is made under pool_mutex ...
CopyPool(t) ==
    /\ pc[t] = "copy" /\ MayLock(t)
    /\ copy' = [copy EXCEPT ![t] = pool]
    /\ Goto(t, "install")
    /\ UNCHANGED <<disk, pool, snapshot, mutex, file, nested, todo>>

\* ... and installed under snapshot_mutex; the operation then returns.
InstallSnapshot(t) ==
    /\ pc[t] = "install"
    /\ snapshot' = copy[t]
    /\ copy' = [copy EXCEPT ![t] = EmptyPool]
    /\ Return(t)
    /\ UNCHANGED <<disk, pool, todo>>

\* get_programs_for_file: a file that has an entry is answered at once, even
\* when the entry is empty; for any other, get_program is called with
\* pool_mutex held.
GetProgramsForFileNew(t, f) ==
    /\ Idle(t) /\ mutex = NoThread
    /\ f \notin DOMAIN pool.program_indices
    /\ mutex' = t
    /\ nested' = [nested EXCEPT ![t] = TRUE]
    /\ file' = [file EXCEPT ![t] = f]
    /\ Goto(t, "get")
    /\ UNCHANGED <<disk, pool, snapshot, todo, copy>>

\* re_parse_programs: has_program asks the snapshot, without pool_mutex.
ReParsePrograms(t, f) ==
    /\ Idle(t)
    /\ file' = [file EXCEPT ![t] = f]
    /\ Goto(t, IF f \in DOMAIN snapshot.program_indices THEN "reparse" ELSE "get")
    /\ UNCHANGED <<disk, pool, snapshot, mutex, nested, todo, copy>>

\* The file may have lost its programs since has_program looked.
ReParseBegin(t) ==
    /\ pc[t] = "reparse" /\ mutex = NoThread
    /\ mutex' = t
    /\ pool' = [pool EXCEPT !.program_indices = WithEntry(@, file[t])]
    /\ todo' = [todo EXCEPT ![t] = WithEntry(pool.program_indices, file[t])[file[t]]]
    /\ Goto(t, "reparsing")
    /\ UNCHANGED <<disk, snapshot, file, nested, copy>>

ReParseOne(t) ==
    /\ pc[t] = "reparsing"
    /\ \E k \in todo[t] :
          LET main == pool.programs[k].main IN
          /\ todo' = [todo EXCEPT ![t] = @ \ {k}]
          /\ IF Parses(main)
             THEN pool' = ReplaceProgram(pool, k, Parse(main))
             ELSE UNCHANGED pool
    /\ UNCHANGED <<disk, snapshot, mutex, pc, file, nested, copy>>

ReParseDone(t) ==
    /\ pc[t] = "reparsing" /\ todo[t] = {}
    /\ mutex' = NoThread
    /\ Goto(t, "copy")
    /\ UNCHANGED <<disk, pool, snapshot, file, nested, todo, copy>>

\* open_file ignores a file that no program has.
OpenFile(t, f) ==
    /\ Idle(t) /\ mutex = NoThread
    /\ f \in DOMAIN pool.program_indices
    /\ pool' = [pool EXCEPT !.open_files = @ \cup {f}]
    /\ Goto(t, "copy")
    /\ UNCHANGED <<disk, snapshot, mutex, file, nested, todo, copy>>

\* close_file ignores a file that is not open, and returns without publishing
\* a snapshot when no program has the file.
CloseFile(t, f) ==
    /\ Idle(t) /\ mutex = NoThread
    /\ f \in pool.open_files
    /\ pool' = [pool EXCEPT !.open_files = @ \ {f}]
    /\ IF f \in DOMAIN pool.program_indices
       THEN /\ mutex' = t
            /\ file' = [file EXCEPT ![t] = f]
            /\ todo' = [todo EXCEPT ![t] = pool.program_indices[f]]
            /\ Goto(t, "closing")
       ELSE UNCHANGED <<mutex, file, todo, pc>>
    /\ UNCHANGED <<disk, snapshot, nested, copy>>

\* Mutant: the positions are visited from the least to the greatest.
CloseOneAscending(t) ==
    /\ pc[t] = "closing"
    /\ \E k \in todo[t] :
          /\ \A j \in todo[t] : k <= j
          /\ todo' = [todo EXCEPT ![t] = @ \ {k}]
          /\ pool' = IF pool.programs[k].sources \cap pool.open_files = {}
                     THEN RemoveProgram(pool, k) ELSE pool
    /\ UNCHANGED <<disk, snapshot, mutex, pc, file, nested, copy>>

\* The positions are visited from the greatest to the least.
CloseOne(t) ==
    /\ pc[t] = "closing"
    /\ \E k \in todo[t] :
          /\ \A j \in todo[t] : j <= k
          /\ todo' = [todo EXCEPT ![t] = @ \ {k}]
          /\ pool' = IF pool.programs[k].sources \cap pool.open_files = {}
                     THEN RemoveProgram(pool, k) ELSE pool
    /\ UNCHANGED <<disk, snapshot, mutex, pc, file, nested, copy>>

CloseDone(t) ==
    /\ pc[t] = "closing" /\ todo[t] = {}
    /\ mutex' = NoThread
    /\ Goto(t, "copy")
    /\ UNCHANGED <<disk, pool, snapshot, file, nested, todo, copy>>

\* clean() keeps unsaved_changes.
Clean(t) ==
    /\ Idle(t) /\ mutex = NoThread
    /\ pool' = [EmptyPool EXCEPT !.unsaved_changes = pool.unsaved_changes]
    /\ Goto(t, "copy")
    /\ UNCHANGED <<disk, snapshot, mutex, file, nested, todo, copy>>

\* External: an editor, a build or a checkout writes or deletes a file.
WriteDisk(f, c) ==
    /\ <<f, c>> \in Edits
    /\ disk' = [disk EXCEPT ![f] = c]
    /\ UNCHANGED <<pool, snapshot, mutex, pc, file, nested, todo, copy>>

--------------------------------------------------------------------------------
Init ==
    /\ disk \in Disks
    /\ pool = EmptyPool
    /\ snapshot = EmptyPool
    /\ mutex = NoThread
    /\ pc = [t \in Threads |-> "idle"]
    /\ file = [t \in Threads |-> NoFile]
    /\ nested = [t \in Threads |-> FALSE]
    /\ todo = [t \in Threads |-> {}]
    /\ copy = [t \in Threads |-> EmptyPool]

\* The steps that start a call, for each of its arguments.
Call(t) ==
    \/ \E f \in Files :
          \/ \E c \in Contents : SetUnsavedFileContents(t, f, c)
          \/ RemoveUnsavedFileContents(t, f)
          \/ GetProgram(t, f)
          \/ GetProgramsForFileNew(t, f)
          \/ ReParsePrograms(t, f)
          \/ OpenFile(t, f)
          \/ CloseFile(t, f)
    \/ Clean(t)

\* The steps that continue a call.
Step(t) ==
    \/ GetFound(t) \/ GetParseFails(t) \/ GetCreate(t)
    \/ SubsumeOne(t) \/ SubsumeDone(t)
    \/ ReParseBegin(t) \/ ReParseOne(t) \/ ReParseDone(t)
    \/ CloseOne(t) \/ CloseDone(t)
    \/ CopyPool(t) \/ InstallSnapshot(t)

Next ==
    \/ \E t \in Threads : Call(t) \/ Step(t)
    \/ \E f \in Files, c \in Contents : WriteDisk(f, c)

Spec == Init /\ [][Next]_vars

--------------------------------------------------------------------------------
(* Properties. *)

PoolState ==
    [programs : Seq(Program),
     program_indices : UNION {[D -> SUBSET (1..MaxPrograms)] : D \in SUBSET Files},
     open_files : SUBSET Files,
     unsaved_changes : UNION {[D -> Contents] : D \in SUBSET Files}]

Labels == {"idle", "get", "subsume", "reparse", "reparsing", "closing",
           "copy", "install"}

TypeOK ==
    /\ disk \in [Files -> Contents]
    /\ pool \in PoolState
    /\ snapshot \in PoolState
    /\ mutex \in Threads \cup {NoThread}
    /\ pc \in [Threads -> Labels]
    /\ file \in [Threads -> Files \cup {NoFile}]
    /\ nested \in [Threads -> BOOLEAN]
    /\ todo \in [Threads -> SUBSET (1..MaxPrograms)]
    /\ copy \in [Threads -> PoolState]

\* A file's entry lists exactly the programs that the file is a source of.
IndexExact(p) ==
    /\ \A f \in DOMAIN p.program_indices :
          p.program_indices[f] = {k \in Positions(p) : f \in p.programs[k].sources}
    /\ \A k \in Positions(p) : p.programs[k].sources \subseteq DOMAIN p.program_indices

\* program_indices agrees with programs at every step of every operation,
\* although evictions, subsumptions and closes renumber the programs.
PoolIndexExact == IndexExact(pool)

\* A reader that jumps the queue never indexes out of bounds and only gets
\* programs that the file is a source of: whatever snapshot it sees is whole.
SnapshotIndexExact == IndexExact(snapshot)

\* The pool never holds more programs than its limit.
WithinLimit == Len(pool.programs) <= MaxPrograms

\* Two programs never have the same main file, however calls interleave.
MainsDistinct ==
    \A i, j \in Positions(pool) :
        pool.programs[i].main = pool.programs[j].main => i = j

\* Loops that hold positions across changes of the vector (re_parse_programs
\* and close_file) only hold positions at which there still is a program, and
\* that program still has the file the loop is about.
TodoValid ==
    \A t \in Threads : \A k \in todo[t] :
        /\ k \in Positions(pool)
        /\ file[t] \in pool.programs[k].sources

\* Programs enter and leave the pool only as a bounded cache of programs may
\* (ProgramCache): a file that some program has is never parsed again, a
\* program is only dropped when full, subsumed or all closed, and no thread
\* sees the pool in the middle of another's close.
Cache == INSTANCE ProgramCache WITH
    cache <- {pool.programs[k] : k \in Positions(pool)},
    open <- pool.open_files,
    closing <- \E t \in Threads : pc[t] = "closing"

ImplementsCache == Cache!CacheSpec

\* The snapshot is "of the current programs in the pool" (ProgramPool.h:48)
\* whenever no operation is in progress.
SnapshotCurrent ==
    (\A t \in Threads : Idle(t)) =>
        /\ snapshot.programs = pool.programs
        /\ snapshot.program_indices = pool.program_indices

\* A path with no programs has no entry (ProgramPool.cpp:130, :322), so that
\* get_programs_for_file creates a program for it (ProgramPool.h:126-129).
NoEmptyEntry ==
    (\A t \in Threads : Idle(t)) =>
        \A f \in DOMAIN pool.program_indices : pool.program_indices[f] # {}
================================================================================
