# Verification of Bash++

TLA+ models of the parts of Bash++ whose correctness depends on an order of events, on state that
survives an error, or on two threads or processes: the language server, the walk of the compiler
over the syntax tree, what names mean to it and to the server, the class hierarchy it builds, the
Bash code it writes for objects, and the shared containers of the standard library. TLC checks the
models on small instances; TLAPS proves the most important safety properties for every value of the
constants.

Paths such as `lsp/ProgramPool.cpp` are relative to the repository's `src/`, those that begin with
`stdlib/` or `wiki/` to its root. `PROJECT.json` has, for every definition that models code, the
lines it stands for.

To check something by hand:

    tlc -workers 2 -config LspSafety.cfg MCLspServer
    tlapm ProgramPoolProofs.tla

## 1. Inventory

Bash++ is a compiler from an object-oriented dialect of Bash to Bash, a language server on top of
the same front end, and a standard library written in Bash++.

| Component | State it keeps | Operations | What is hard | Modules |
|---|---|---|---|---|
| Program pool (`lsp/ProgramPool`) | `programs`, `program_indices`, `open_files`, `unsaved_changes`; a published snapshot; two mutexes | get, create, re-parse, open, close, remove, set and drop unsaved contents | two-step publication of the snapshot; positions that evictions renumber; checks made before the lock is taken | `ProgramPool`, `ProgramCache`, `ProgramPoolProofs`, `ProgramCacheProofs` |
| Thread pool (`lsp/ThreadPool`) | queue, `stop`, condition variable | enqueue, worker loop, cleanup, destructor | notification after unlock; cleanup called by a worker | `ThreadPool`, `ThreadPoolProofs` |
| Language server (`lsp/BashppServer`, `lsp/handlers`, `bpp-lsp.cpp`) | `exiting`, `shutdown_requested`, `processing_didChange`, debounce states, detached threads | the requests and notifications of the protocol | messages handled out of order; debounced changes that race each other, completions and closes; shutdown | `LspServer`, `LspServerProofs` |
| Tree walk and handlers (`AST/Listener`, `listener/`) | entity stack, flags and stacks of the context, error flag | enter and exit handlers of every node type | an error leaves a handler halfway; the stacks must still match the tree | `Handlers`, `Listener`, `ListenerProofs` |
| Includes (`listener/handlers/IncludeStatement.cpp`, `Program.cpp`) | `included_files`, a listener per file, one program | `@include`, `@include_once` | what an included file hands back to the one that includes it | `Listener` |
| Classes (`bpp_include/bpp_class`, handlers of definitions, `bpp_program`, `bpp_codegen`) | methods and members, shared between classes that inherit; vTables; functions written | define, inherit, override, finish | objects shared along the hierarchy are changed in place | `Classes`, `ClassesProofs` |
| Shared containers (`stdlib/SharedObject`, `SharedQueue`, `SharedStack`, `SharedArray`) | a file, its `flock`, `extended_lock` | lock, unlock, push, dequeue, pop, insert, clear, reads | processes that replace the locked file; methods that call methods | `SharedObject`, `SharedObjectProofs` |
| Entities and visibility (`bpp_entity`, `bpp.h`, `include/IntervalTree.h`) | the tree of scopes with their objects, the classes of the program, counts of what was visible, marks, references | open, close, add, find, adopt, mark | what is visible depends on counts taken when a scope is opened, and is asked again when everything has grown | `Symbols`, `SymbolsProofs` |
| Code buffers (`bpp_code_entity`, statements) | pre-code, code, post-code of each statement | add, flush | the order of what is written around a statement | what a line runs before and after itself in `References`; the buffers themselves are not modelled |
| Code generation (`bpp_codegen`, `templates.h`) | none; at run time, the variables of the shell | code for references, assignments, `@new`, `@delete`, copies, calls, ends of scopes; dispatch and casts | an object is a set of variables whose names are read from other variables, under the dynamic scope of Bash | `ObjectStore`, `References`; dispatch in `Classes` |
| Lexer and parser (`flexbison/`) | lexer modes, parser tables | parse | the stack of lexer modes | what trees come out in `Handlers!Shape`; the rest is not modelled |
| Symbol queries (`lsp/include/resolve_entity.cpp`, handlers of definition, references, rename) | none; reads a finished program | what is at a position, where it is defined and used | the compiler's answer must be found again, from a tree that has grown since | `Symbols`, `SymbolsProofs`; when the requests run in `LspServer` |
| Other containers (`stdlib/Queue`, `Stack`, `Array`) | a Bash array | the usual | indices | not modelled |
| Syntax tree, error messages, command line, protocol types, editor extension, build | – | – | plain data, wording, pure input and output | not modelled |

How they interact. The editor sends messages to the main thread of the server, which enqueues each
in the thread pool; a worker runs its handler, which calls the program pool; `didChange` leaves its
work to a detached thread of its own. The pool runs the compiler's front end (parser, listener,
entities, classes) under its mutex and keeps the resulting programs; queries read a snapshot of them
without it. The compiler runs the same walk once, over the main file, with a nested listener for each
include, and writes the program only if the listener of the main file knows of no error. What it
writes calls the standard library, whose shared containers meet other processes only in the file.
Queries on symbols walk the very entities the front end has built, after it has finished.

The correctness of each component comes down to:

- program pool: indices and programs agree in what anybody can read; the limit holds; no two programs
  of one file; a program goes only for a reason;
- thread pool: no task lost, repeated or overtaken; no worker sleeps while there is something to do;
  everybody returns after the stop;
- server: an answered shutdown ends well; no edit lost; the pool ends with the latest text;
  completions and `exit` make progress;
- walk: after any errors the context is that of the open nodes; a program with errors is not written;
- entities and queries: a name means what is left of it or up from it, and the server finds, renames and
  lists exactly what the compiler took it for;
- generated code: whatever path a reference takes, it reads and writes what a heap of objects says, and
  leaves nothing behind;
- classes: a call reaches the nearest definition, through the vTable or not; what is called is
  written; access is as declared;
- shared containers: the file is only touched under its lock; nothing is lost or taken twice; no
  lock is left behind.

## 2. The modules

### ProgramPool, ProgramCache

One action is one stretch of code between two points where another thread may run. `pool_mutex` is
`mutex`; the two steps of `update_snapshot` are the labels `copy` and `install`; `get` is the state
of `get_programs_for_file` between its look at the index and its creation of a program. `todo` holds
the positions that a loop (`re_parse_programs`, `close_file`, the removal of subsumed programs) has
still to visit, because that is where renumbering hurts. A parse happens with the mutex held and is
part of the action that uses it; its result is the closure of `Includes` over the files as they are
then. `disk` changes at any time (`Edits`) within `Disks`, the states of the files a run considers. A
vector of positions is a set. `Explored` bounds what one run enumerates: two threads on the two files
of `Disks` with two, or one thread on three files.

`ProgramCache` is what the pool promises (the comments of `ProgramPool.h`): a bounded cache without
positions, indices, locks or snapshots. `ImplementsCache` is the refinement, with the set of programs
for `cache`.

### ThreadPool

What runs under `queue_mutex` is one step; `notify_one` and `notify_all` come after it is released
and are steps of their own; a wait may end spuriously. The owner is the main thread; cleanup is
called by the exit notification, that is by a worker, or by the owner.

### LspServer

The editor appends to `sent`; `taken` says how much of it the main thread has read. A worker takes
one message and runs its handler in the steps between which others can interfere: the flag and the
generation (`handleDidChange.cpp:46`), the detached thread with its sleep, its check, its store, its
parse and the reset of the flag; the wait of a completion; the two halves of the shutdown; the check
and the call in the handlers of closed and watched files. A request reads one program: hover and
completions jump the queue of the pool and never change it, definition, symbols, references and
rename parse a file that has no program, open or not, and so change what later messages find. What
they then look up is not told apart. A text is the number of the message that
brought it, so that older and newer can be told apart.

What it takes for granted, so that the properties are about the server:

- `initialize`, which chooses the unit of positions, has been answered;
- the editor opens a document before it changes it, sends nothing after `exit`, and closes the
  stream only after that; URIs are valid and the texts can be parsed;
- the thread pool is a queue and the program pool holds one program per file, none of them evicted;
  a snapshot is current (`ProgramPool` is where these are studied);
- the lookup of the debounce state and the `fetch_add` on it are one step; a message about watched
  files names one file; there is at least one worker (`hardware_concurrency` may return 0).

### Handlers, Listener

`Handlers` says as data what each handler wants on top of the entity stack, whether it reports or
asserts that, what it pushes, when else it may report an error, and (`Shape`) which children the
grammar gives each node. `Listener` walks any tree these allow, node by node, so that every tree
within the bounds is covered and none is built. `Enter`, `FailToEnter`, `Exit`, `FailToExit` are the
four ways through `BaseListener::walk`: a `SyntaxError` from the enter handler skips the children
and the exit handler, one from the exit handler comes after the pops. An entity is its type. The
listeners of included files are a chain, the last one active; `ErrorsFrom` is the line with which an
included file sets the flag of the one that includes it.

`Rvalue` and `BashCommand` nodes have no handler and their children are taken as their parent's; raw
text in a class is not blank; `Shape` allows more than the grammar where that is simpler (any
command in a condition, lists for the parts of the header of an arithmetic `for`);
`can_take_primitive` is left out, because no handler reads it. What an assertion checks
(`bpp_assert`, an internal error of the compiler) is `Sound` for exit handlers and `Suits` for those
enter handlers that assert; `StackMatchesNodes` says that they never fail. Bounds (`Bounds`) limit
which nodes occur, how deep, in how many files and with how many errors.

### Classes

`meth` and `data` are heaps: a class holds indices, and `inherit` changes the shared objects in
place, as the code does with its shared pointers. The code keeps the methods and members of a class
in vectors; here they are sets, because every search in them is for a name that occurs once (which is
part of what is proved). `decl` and `extends` keep what the source said, and `Meanings` what follows from
it: for each class and name the class that declares it, whether it is virtual, its scope, and all the
declarations above. The properties compare what the compiler concluded with that. `emitted` and
`vTable` are what `add_class` writes; `calls` is which constructor or destructor another one calls.

### SharedObject

`flock` locks an inode; `sed -i` renames a new inode over the name. Each command that reads or
writes the file is a step; `sed -i.tmp` is three, because it reads the file, renames it to `.tmp` and
renames the new one into place: in between there is no file of that name (`path = 0`), and whoever opens
it creates one. `clear`, which redirects into the file, keeps the inode and `cleared` remembers what
it dropped. `at`, `slice` and `insert` call `size`, which locks and unlocks by itself, before they take
the lock (`SizeFirst`, `AfterSize`), so that others come in between; `insert` calls it once more with
the lock held (`InsertSize`), and then writes the lines back one by one. The only commands merged are the two
appends of an element, its value and its newline: nobody comes in between while the lock of the file is
held. Where it is not (a file that was replaced, or `insert` after it let go of its lock), elements
could also be joined into one line, which is not modelled; the properties that fail there fail without it. `Sessions` says which processes a run has, which methods each
calls and how often.

### ObjectStore, References

`ObjectStore` is what a program with objects means: a heap of objects with a value for every member,
pointers that hold addresses, and the statements that create, copy, assign and delete. `References`
runs beside it the Bash code that is generated for the same statement: an object is a set of shell
variables `a__m`, a reference such as `@p.link.in.x` becomes a `${!...}` with as many temporaries as it
has indirections (`resolve_reference`, `Before`, `After`), and `__new`, `__copy`, `__delete` and
`this_pointer_validation` are the functions of `templates.h`, with the variables `local` gives them
under dynamic scope. A variable's name is the sequence of the parts that `__` joins, because the code
makes names out of values and values out of names; this takes for granted that no identifier contains
`__`, which the compiler enforces. `mem` has one frame of variables per call; `pending` is what the
caller's line still has to unset when the call returns.

The random address of `@new` (`__new` draws until the variable is unset) is the first free one of
`NewNames`. Whatever the source could not say is not enumerated: assignments keep classes, an object
is deleted by its name or through a pointer, and not while one of its methods runs; reads of a null
pointer are undefined for both sides. `CopyFromThis`, `Shadowing` and the class of the local object
switch on what is known to go wrong (section 4).

### Symbols

The compiler's tree of scopes as the listener builds it over a program read from left to right, one
position per token that opens, closes or names something, and then the server, which asks the
finished tree. A scope keeps the number of objects its parent knew and of classes the program had
when it was opened (`inherit`); `get_object` and `get_class` compare an index with that count, as
`OwnedEntityList::find` does. `mark_entity` gives the interval tree its intervals, `references` is what
`add_reference` appends. Which token a position belongs to is an `occurrence`, with what the compiler
took it for, so that the server's answer can be compared with it: `LeftOrUp` is the rule of
`wiki/spec/entities.md`, `RenamesWhatMeansTheSame` compares the answer to a rename (and to the list of
references, which is the same set) with all tokens that mean that entity.

The handlers are those of functions, blocks, supershells, classes, methods, objects, references and
`@new`; loops and conditionals open and mark scopes as functions do. `AskedScopes` and `AskedTokens`
are where the server is asked: not in unmarked blocks and not at typed parameters, which go wrong.

## 3. The runs

| Run | Instance | What it shows |
|---|---|---|
| `pool` | two threads, two files, one including the other, limit 2, the including file may lose its include; and one thread, three files, limit 2, files change and vanish | indices are exact at every step of every loop (`PoolIndexExact`, `TodoValid`), published snapshots are whole (`SnapshotIndexExact`), and the pool implements `ProgramCache` (`ImplementsCache`): within its limit, one program per main file, programs go only for a reason |
| `threads` | three workers, four tasks | no lost wakeup, tasks accounted for and in order; tasks start, and after the stop every worker returns, so that none sleeps through it |
| `lsp_safety` | three messages of any kind, four about a document, or five around a shutdown, on two workers; five about two files on one | an answered shutdown is kept (`CleanExit`), no edit lost (`EditsNotLost`), once all is quiet and while the pool runs, every program was parsed from what the pool holds of its file (`ParsedIsCurrent`) |
| `lsp_progress` | two workers, three or four messages | completions are answered although they wait for a flag; after `exit` and the end of the stream the process ends |
| `lsp_reordered` | two workers, one file | violation, finding 1 |
| `shared` | two processes, three calls each, no method that replaces or rewrites the file; or one process, five calls of any method | access under the lock (`LockedAccess`), an extended lock excludes the others, nothing lost, every call returns |
| `shared_dequeued_twice` | two processes, three calls each | violation, finding 2 |
| `classes` | three classes with one declaration each, one class with three | dispatch through vTables and without, constructors of every level, functions written once, access |
| `listener` | every node type, six deep, one error; the nodes that set a context, eight deep, two errors, an include | all stacks match the open nodes after errors, no assertion fails, `local` where and only where it may be, an error after the last include stops the output |
| `listener_error_forgotten` | the context nodes, an include | violation, finding 3 |
| `references` | a class with an object and a pointer to its own class inside, a global object and pointer, a local object, room for one more of each, calls two deep | the generated code reads what a reference names (`ReadsNamed`), the variables are the heap (`MemoryIsHeap`), nothing stays behind (`NothingLeft`), methods run on the object named (`ThisIsNamed`) |
| `symbols` | every program of twelve tokens and four scopes over three identifiers | what the compiler finds is what is left or up (`LeftOrUp`), the server finds the same and renames exactly what means it (`RenamesWhatMeansTheSame`) |

Why the bounds are enough to be interesting. Two threads are what it takes to interleave any two
stretches of the pool; three files with a limit of two are what it takes to evict, subsume and
renumber. Two workers and two changes of a document already show every order of generations; the
fourth and fifth message add a close, a completion or the shutdown around them. Three classes are
the least in which an override skips a level. In `listener`, six levels reach every node type from the
program (the deepest are the conditions of branches and the headers of case patterns), eight reach a
class and its method inside of a method, and an index in a reference in a delete in a method; two errors and one include reach every order of
failure and recovery on either side of an include. In `references` the paths reach every combination
of levels that `Member` can come to (none, one, two, and again two through a temporary that was
itself made by two), and a third frame is what it takes for a variable to be shadowed by one that is
neither the caller's nor global. In `symbols`, three scopes besides the program hold a class, its
method and a supershell in it, or two nested supershells in a function, and twelve tokens leave room
to use a name after an inner scope was closed and its parent has grown. Each property fails on a variant of the model
with a plausible bug (the operators marked `Mutant`).

Fairness. `threads`: weak fairness of each worker and of the owner, who are runnable threads (a worker
that waits is only woken by a notification or spuriously, and spurious wakeups are not counted on).
`lsp_progress`: weak fairness of the main thread, of each worker and of each detached thread, whose
sleep ends; `FairClosingSpec` adds that the editor closes the stream after `exit`, without which
`ExitEnds` is false (see below). The messages of a session are bounded, so that a completion which
waits for the flag is not starved by new changes for ever. `shared`: weak fairness of each step
of a process within a call, strong fairness of `flock`, which the kernel grants to those who wait;
the steps include the `unlock` of a process that called `lock`, as its program must.

Symmetry is used in the threads (pool), in the workers and files (server) and in the identifiers
(symbols), and only with properties about states, except for `ImplementsCache`, which does not mention a thread.
`CHECK_DEADLOCK FALSE` is set where the system may end: a session over, all calls made, all
declarations made, the output written.

## 4. Findings and known divergences

Three runs keep a disagreement between the code and what the repository says of it (`PROJECT.json`
has the quotations):

1. `lsp_reordered`: a generation (`handleDidChange.cpp:46`) tells when a worker reached it, not which
   change is newer. Two workers can take two changes in the opposite order; the newer text then
   "has been superseded" and the older one stays.
2. `shared_dequeued_twice`: `dequeue` replaces the file with `sed -i` while others wait for the lock
   of the old inode; two processes take the same element.
3. `listener_error_forgotten`: an included file without errors sets the error flag of the including
   file back to false (`Program.cpp:56`): the program is written and the exit code is 0 although
   errors were reported.

Further configurations reproduce others; TLC finds each of these properties violated
(`LspCloses.cfg` and `ListenerClasses.cfg` have three each, which `tlc -continue` reports together):

| Configuration | Module | Property | What the code does |
|---|---|---|---|
| `ProgramPoolStaleSnapshot.cfg` | `MCProgramPool` | `SnapshotCurrent` | two threads install their copies in the opposite order of making them, and the older one stays published (`ProgramPool.cpp:97`) |
| `ProgramPoolEmptyEntry.cfg` | `MCProgramPool` | `NoEmptyEntry` | `program_indices[file_path]` makes an entry without programs for a file that was removed after the check (`ProgramPool.cpp:300`); such a file gets no program any more |
| `LspStaleCompletion.cfg` | `MCLspServer` | `CompletionSeesLatest` | one flag for all changes: the end of an earlier one lets a completion go on before a later one was parsed |
| `LspCloses.cfg` | `MCLspServer` | `FlagMeansPending` | a change with nothing to parse again returns before the flag is cleared (`handleDidChange.cpp:86`) |
| `LspCloses.cfg` | `MCLspServer` | `NewestStored` | with one worker, two changes that both passed the check (`handleDidChange.cpp:60`) store in the opposite order, and the older text stays |
| `LspCloses.cfg` | `MCLspServer` | `NoUnsavedAfterClose` | a change that still sleeps stores its text after the document was closed |
| `LspExitBlocked.cfg` | `MCLspServer` | `ExitEnds` | after `exit` the main thread is still blocked in its read |
| `SharedQueueBlank.cfg` | `MCSharedObject` | `FailsOnlyEmpty` | an empty element is taken for an empty queue (`SharedQueue:52`) |
| `SharedArrayPop.cfg` | `MCSharedObject` | `PopReleases` | `pop` of an empty array returns with the lock held (`SharedArray:84`) |
| `SharedArrayInsert.cfg` | `MCSharedObject` | `NothingLost` | `insert` calls `size`, which releases the lock in the middle (`SharedArray:107`) |
| `ClassesParentFirst.cfg` | `MCClasses` | `ParentFirst` | a class can name itself as its parent (`ClassDefinition.cpp:51`) |
| `ClassesOwnPrivate.cfg` | `MCClasses` | `OwnPrivate` | once a class is derived from, its private members are inaccessible to itself (`bpp_class.cpp:268`) |
| `ClassesToPrimitive.cfg` | `MCClasses` | `InheritsToPrimitive` | a custom `toPrimitive` is not inherited (`bpp_class.cpp:266`) |
| `ListenerClasses.cfg` | `MCListener` | `NoCodeInClasses` | `@delete` directly in a class body is compiled (`DeleteStatement.cpp:12`); `wiki/spec/entities.md:76` calls it an error |
| `ListenerClasses.cfg` | `MCListener` | `LocalWhenPossible` | a class in a method clears `in_method` and `in_class` at its end: what follows in the method is not declared `local` |
| `ListenerClasses.cfg` | `MCListener` | `ObjectsTakenDirectly` | the expectation of a delete or an assignment also holds for references deeper inside it, in an index for example |
| `ReferencesLocal.cfg` | `MCReferences` | `ReadsNamed` | the creation of a local object, written out in place, does not set the variable with the address of an object inside it (`bpp_codegen.cpp:343`): references through it yield nothing |
| `ReferencesShadow.cfg` | `MCReferences` | `MemoryIsHeap` | the address of an object is its name (`ObjectInstantiation.cpp:68`): a method of a local object that declares a local of the same name works on its own |
| `ReferencesCopyThis.cfg` | `MCReferences` | `CopiesEnd` | a copy from `*@this` passes the name `__this`, which the copying function follows to itself for ever |
| `ReferencesDeleted.cfg` | `MCReferences` | `DeletedPointerIsNull` | `@delete` leaves the pointer as it was; `wiki/spec/delete.md:23` says what it sets |
| `SymbolsNestedClass.cfg` | `MCSymbols` | `LeftOrUp` | in a program with a class in a function, the counts of visible classes hide some from its methods, and names are taken twice |
| `SymbolsBlock.cfg` | `MCSymbols` | `DefinedBefore` | a block is a scope and is not marked for the server (`Block.cpp:48`): a name declared in it resolves to nothing, or to a later object of the same name further out |
| `SymbolsParameter.cfg` | `MCSymbols` | `RenamesWhatMeansTheSame` | the reference from a typed parameter to its class is recorded at the `@` (`MethodDefinition.cpp:81`): a rename overwrites it and leaves the name |

Seen and not modelled: `&@obj.inner` is compiled to `${__this}__inner` (`bpp_datamember.cpp:23`), whatever
`obj` is.

## 5. The proofs

TLAPS checks these for every value of the constants that satisfies the named assumptions
(`PoolAssumption`, `ThreadPoolAssumption`, `LspAssumption`, `SharedAssumption`,
`ListenerAssumption`, `SymbolsAssumption`, `ClassesAssumption`) and what a theorem itself assumes (`UsedSafely`, `Plain`,
`~NestedClasses`, where the server is asked), which is said below.

`ProgramPoolProofs`. `TypeCorrect`, `IndexCorrect`, `SnapshotCorrect`, `LimitRespected`,
`OneProgramPerMain` and `LoopsSafe` all follow from one inductive invariant, `IInv`. Its parts are:
the types of the control variables; `Exclusive` (who is at a label inside the critical section owns
the mutex), `NestedInGet`, `FileKnown` and `TodoOwned` (only the owner of the mutex has positions
left to visit); `PoolsSound`, that the pool, the snapshot and every copy in flight are `Sound`
(indices exact, within the limit, main files distinct and among their own sources); and `TodoValid`.
None is inductive alone: that the index is exact after a removal needs the positions to be those of
distinct programs, and that a loop's positions stay valid while it renumbers needs `TodoOwned`
(nobody else keeps any) and the order in which it visits them. The lemmas say what each operation on
a pool as a value (append, remove at a position with the shift of the index, replace, erase of empty
entries) preserves.

`ProgramCacheProofs`. `PoolImplementsCache`: the initial state of the pool is one of the cache, and
every step of the pool maps to a step of `ProgramCache` or a stutter. The refinement mapping takes
the set of programs of the sequence. `MainsDistinct` makes positions and programs one to one, so that
removing a position is removing one element (`HeldRemoved`, `HeldReplaced`, `HeldCardinality`, the
last for the limit); `Exclusive` says that nobody else changes the pool while a loop closes files;
`TodoValid` that the loop closes what it was called for. Everything is taken from `IInv`.

`ThreadPoolProofs`. `NoLostWakeup` needs the type invariant (finite workers, for the cardinalities);
`NoSleepAfterStop` needs who may be about to notify; `Accounted` needs `Numbered`, that tasks are
numbered in the order of enqueue and queued ones come after started ones.

`LspServerProofs`. Four inductive invariants, each on top of the first.

- `Messages`: a worker's label belongs to a handler of its message (`Handling`), and no message is in
  two places, of the queue or of the workers (`Once`). A message is handled once.
- `Debounce`: a message not yet handled has no thread (`Unspawned`, which needs `Once`); the
  generations of a state are numbered up to the one it has now, some thread has that one, and a
  superseded thread has a lower one (`Generations`). `EditsKept` follows: the thread with the last
  generation is not superseded. That a state dropped by `DebounceStateMap::get` stays with the
  threads that have it is why the invariant is about all states there have been.
- `Refusing`: a message sent after a response to shutdown was seen was sent with `shutdown_requested`
  set (`ShutdownSeen`, which needs that the handler sets the flag before it answers), and so no
  handler of a request runs for one (`LateRefused`). `ExitClean` follows.
- `AllCurrent`: while the pool runs, a program that was parsed from something else than the pool now
  holds of its file is `Due`: a thread has stored a text and has yet to look at or parse the program,
  a worker is at the steps of a close or of a watched file, or a message about that file is still
  queued or unread. `ProgramsCurrent` says what that leaves when nothing is due. Which of two texts is
  the newer one is not part of it (finding 1): the programs are those of the text that was stored last.

`LspTypeCorrect` puts them together with the types of the documents. None of the theorems depends on
how many workers there are, which is the point: `SupersededIsOlder` (finding 1) does.

`SharedObjectProofs`. All but one assume `UsedSafely`: in each session either all processes only
lock, unlock, read (with `at` and `slice`), push and clear (`Plain`), or one process calls anything
and the others nothing (`OnlyOne`). These are the two uses in which the file cannot be replaced under
somebody who waits for it; finding 2 and `SharedArrayInsert.cfg` show what happens otherwise.
`LockIsReleased` assumes `Plain`. The invariant `SafeInv` has the types and the counts (`Base`), and
one part for either use. In `PlainInv` the file is the first inode for ever, and a process holds its
lock exactly when its label or its extended lock says so: whoever is past `flock` is alone, so that
lines are only appended or dropped as a whole. In `AloneInv` nobody else has an open descriptor, and
the labels say what is already copied, cut or about to be renamed, so that between the steps of
`sed`, also while there is no file, and in the middle of `insert`, line by line, the lines in the
file, in the copy and in `taken` together are still all there are (`ElementsKept`). That an element's
number stays within the bound is a matter of counting: `Spent` is the set of calls that can no longer
add anything, and no more was added than it has members.

`ListenerProofs`. For any set of node types, depth, number of files and errors. The tables are facts
of their own: `AllHandled` and `AllHeld` say of `Handler` and `Shape` what the walk needs (which node is
a part of which, what it asserts, what its parent pushes), and `ChildFits` that a child that the
grammar allows at the top of the stack meets what its handler asserts. `WalkInv` says that every
listener of the chain, the active one and those that wait for an include, is `Kept`:

- `Placed`: the stack of entities is what the open nodes pushed, in their order (`Matches`); each of
  them was met on top of what its handler wants (`Founded`), a block that has no entity on what it is
  the body of (`BlocksPlaced`), a class entity only in a class; the expectations of objects are those
  of the open deletes and assignments (`Expects`). Which entity an open node had below it is a matter of
  `Height`, the number of nodes up to it that push one, and the lemmas on heights are inductions over
  positions. `StacksMatch` follows: the exit handler finds its own entity, and no assertion fails.
- `Counted`: an error leaves marks behind but never takes one too many; `Exact`: without errors there
  are as many as open nodes. `ContextsMatch` follows.
- `Outermost` and `ClassMarked`: as long as no class stands in a definition, `in_class` is set for as
  long as the class is open. `LocalsExact` follows; `LocalWhenPossible` (section 4) is what is false
  without the restriction.

One lemma per way through `BaseListener::walk` shows that it keeps a listener in order; a failed entry
is the difficult one, because the parent has moved on to its next slot while nothing was pushed.

`ErrorsStop` has an invariant of its own: `IsChain` and `ErrorKnown`, that while the walk goes on the
active listener knows of any error since the last include began. Every step of the walk replaces the
last listener by one with the same flag or with the flag set; the end of an included file hands the
flag over. Dropping "since the last include began" gives `ErrorsAreFatal`, which is false (finding 3).

`SymbolsProofs`. What a scope sees is defined by recursive functions over the tree of scopes
(`Enclosing`, `Holder`, `number_of_known_objects`, the search of `get_object`). `Upwards`, an induction over
the numbers of scopes by well-foundedness, shows that each is determined by its equation, and hence
what it is after a scope was opened, closed or adopted, or an object was added. The invariant says, of
every scope on the stack (`Accounted`): its list has exactly the objects declared in it and in closed
supershells that it adopted; the count it took of its parent's objects is no less than the parent has,
because nothing is added to a scope while one in it is open; all it knows are no more than there are;
no two objects in sight have the same name. While classes are only defined in the program, also
(`Classed`) every open scope's count of classes covers all but the class that is being defined, and no
object in sight has the name of a class. `ObjectsFound` needs the first part only and so holds wherever
classes are defined; `FoundLeftOrUp`, which is `LeftOrUp`, assumes `~NestedClasses`, and
`SymbolsNestedClass.cfg` shows why.

`RenamesAll` is about closed scopes as well, of which `Accounted` says nothing: a scope's parent goes on
growing once the scope is closed, and the counts it took hide more and more of it. What stays true is
said of the tokens instead (`RInv`):

- `Spans`: a scope that was opened later begins later; a token is inside the scope it was read in and
  in front of every younger one that is open; what a mark covers was read in the marked scope or in one
  opened after it. Hence the innermost mark around a token is that of its scope (`ActiveScope`).
  Blocks have no mark, so the theorem assumes that the server is not asked in them.
- `Looked`: the search for a token's name from its scope still ends at the object that was found
  when the token was read. It stays so because a list only gets an object whose name nothing was found
  by from there (`Unfound`): a declaration is refused otherwise, and what a closed supershell hands to
  its parent has names that were free around it (`AdoptedUnfound`). `FoundStaysFound` is the induction
  up the tree.
- `Noted`: a token of a class means a class of its name, the only one, at a place in `owned_classes`
  that its scope's count does not hide.
- `Referred`: the positions of tokens are distinct, each but a typed parameter's is a reference to what
  the token means, and no entity has a reference at another's token. A typed parameter has its reference
  at the `@`, so the theorem assumes that the server is not asked about those.

It holds wherever classes are defined. A token is looked up when it is read (`LeftOrUp` is about
that), and `RInv` shows that the answer never changes. `DefinedLeft` is `DefinedBefore` under the same
restriction (and false in blocks, as `SymbolsBlock.cfg` shows): references are recorded from left to
right (`Begun`), so the first of an entity, which the server takes for its definition, is the leftmost.

`ClassesProofs`. For any number of classes, in hierarchies of any depth, with any names. Methods are
shared objects that every inheriting class may change, so no class can be judged alone: what an
object's fields must be depends on the class it was defined in and on whether anybody has inherited
it yet. `IInv` therefore speaks of a function `M` that gives every class and name its meaning. It is
determined by the declarations (`IsMeaning`, and `MeaningsIs` shows that it is `Meanings`), but a step
has only to say where it changes. The parts of the invariant:

- `Tree` and `Progress`: each class has a name of its own and a parent prepared before it; only finished
  classes and the one being defined declare anything.
- `Objects`: a method object says what `M` says of its name in the class it comes from (`Origin`:
  `add_method` sets the owner, and for the default `toPrimitive` only the last override), whichever
  classes hold it; a private one is inaccessible exactly when somebody has inherited it.
- `Held`: a class holds one object for each name that means something in it, that of the class its
  meaning comes from (`HoldsMethods`, `HoldsMembers`). The class being defined has no heirs, so its own
  objects are as they were declared (`Open`); what a parent shares is marked (`Hidden`).
- `Written`, `Tables`, `CallsUp`: what was written of finished classes agrees with `M`.

Why it is needed: that `add_method` finds an inherited method and overrides it, and not one of the class's
own, depends on the flag `inherited` of the object, which another class may set; `OverridesInherited`
shows from `Open` that for the class being defined it tells the two apart. `VirtualCallsNearest`,
`StaticCallsNearest`, `CalledIsWritten` and `AccessAsDeclared` then compare with `M`. For `AllLevelsRun`,
`CallLine` shows that the call in a constructor continues the line that the meaning lists, and
`RunOrderIs` solves the recursion that follows the calls; `LevelsShort` bounds its depth. `inherit` is
a recursive function over the objects, whose closed form is `InheritMethodsIs`. These inductions over
classes and objects use the well-foundedness of the numbers (`Upwards`).

Two members with the same name, a self-parented class and a class with an unknown parent are within
these theorems: they hold after errors too.

`LimitRespected`, `OneProgramPerMain` and `StopHeard` state properties that no run lists, because
`ImplementsCache` (for the first two) and `WorkersReturn` fail with them. `LockIsReleased` is what
`CallsReturn` needs of those who return; `ObjectsFound` is the part of `LeftOrUp` that is about objects;
`DefinedLeft` says where the property of `SymbolsBlock.cfg` is true.

Only model-checked:

- liveness (`TasksStart`, `WorkersReturn`, `CompletionsAnswered`, `ExitEnds`, `CallsReturn`), which is
  out of the prover's reach;
- what holds of `SharedObject` when the file is replaced while others wait;
- `References` and `ObjectStore`, which use recursive operators.

## 6. Not modelled, and why

- What the front end accepts token by token (tables of Flex and Bison) and the stack of lexer modes,
  the wording of generated Bash, code buffers, the mangling of names, messages, the protocol's types:
  data the properties do not look at.
- The adaptation of the debounce time: a sleep here ends at any time, which covers every value.
- A failing parse in `LspServer`, several files in one watched-files message, more than one program
  per file there.
- What the server does between the return of `main` and the end of the process with its detached
  threads: undefined behaviour; here every thread stops when the process ends.
- `SharedVar`, encryption, `remove` and destructors of the shared containers; dynamic linking of
  includes; the sequential containers, whose methods are a line or two each.
- In `References`: arrays and their indices, `@typeof`, local pointers, calls in pipelines and
  subshells (whose variables are copies), supershells before Bash 5.3.
- In `Symbols`: members, includes, several programs for one file, hover, lists of completions and of a
  document's symbols; pipelines, subshells, loops and conditionals as scopes.

## 7. Plan

Done in this order, most important first: `ProgramPool` with its abstraction and proofs,
`ThreadPool` with proofs, `LspServer`, `SharedObject`, `Classes`, `Listener`, `ObjectStore` and
`References`, `Symbols`, the proof of the refinement of `ProgramCache`, and the proofs of `LspServer`,
`SharedObject`, `Listener`, `Symbols` and `Classes`.

What could follow:

1. Members in `Symbols`: what `resolve_entity.cpp` finds behind a dot, through inheritance.
2. `CodeBuffers`: pre-code, code and post-code of nested statements, against the order in which a
   statement's parts must run; the code buffer of dynamic includes.
3. Failing parses and lists of watched files in `LspServer`; its composition with `ThreadPool`.
4. `Supershells`: the run-time protocol of `templates.h` with files and descriptors, nested.
5. `LexerModes`: the mode stack against the nesting of the text.
