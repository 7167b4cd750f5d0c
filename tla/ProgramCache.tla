----------------------------- MODULE ProgramCache -----------------------------
(***************************************************************************)
(* What the language server's program pool promises (ProgramPool.h:19-34,  *)
(* :148-171), without positions, indices, locks or snapshots: a bounded    *)
(* cache of parsed programs.                                               *)
(*                                                                         *)
(*   - a program is parsed only for a file that no cached program covers;  *)
(*   - a program is dropped only to make room in a full cache, because     *)
(*     another cached program covers its main file, or because a file was  *)
(*     closed and none of its files is open any more (or everything is     *)
(*     dropped at once);                                                   *)
(*   - while the close of a file is under way nothing else happens;        *)
(*   - a re-parse replaces a program by one with the same main file.       *)
(***************************************************************************)
EXTENDS Naturals, FiniteSets

CONSTANTS Files, MaxPrograms

VARIABLES cache,   \* the set of cached programs
          open,    \* the files known to be open
          closing  \* the close of a file is under way

CachedProgram == [main : Files, sources : SUBSET Files]

Covered(f) == \E p \in cache : f \in p.sources

Full == Cardinality(cache) >= MaxPrograms

CacheInit == cache = {} /\ open = {} /\ closing = FALSE

\* Parse a file that nothing covers, evicting one program when full.
Add(p) ==
    /\ p.main \in p.sources
    /\ ~Covered(p.main)
    /\ IF Full
       THEN \E q \in cache :
               /\ cache' = (cache \ {q}) \cup {p}
               /\ open' = (open \ q.sources) \cup {p.main}
       ELSE /\ cache' = cache \cup {p}
            /\ open' = open \cup {p.main}

Drop(p) ==
    /\ cache' = cache \ {p}
    /\ open' = open \ p.sources

\* Room was made for a program that could not be parsed.
Evict(p) == Full /\ Drop(p)

Subsume(p) ==
    /\ \E q \in cache \ {p} : p.main \in q.sources
    /\ Drop(p)

Replace(p, q) ==
    /\ q.main = p.main
    /\ cache' = (cache \ {p}) \cup {q}
    /\ UNCHANGED open

Open(f) == open' = open \cup {f} /\ UNCHANGED cache

DropAll == cache' = {} /\ open' = {}

Close(f) ==
    /\ open' = open \ {f}
    /\ closing' \in BOOLEAN
    /\ UNCHANGED cache

DropClosed(p) ==
    /\ p.sources \cap open = {}
    /\ Drop(p)
    /\ UNCHANGED closing

EndClose == closing' = FALSE /\ UNCHANGED <<cache, open>>

CacheNext ==
    \/ /\ ~closing
       /\ \/ /\ UNCHANGED closing
             /\ \/ \E p \in CachedProgram : Add(p)
                \/ \E p \in cache : Evict(p) \/ Subsume(p)
                \/ \E p \in cache, q \in CachedProgram : Replace(p, q)
                \/ \E f \in Files : Open(f)
                \/ DropAll
          \/ \E f \in Files : Close(f)
    \/ /\ closing
       /\ \/ \E p \in cache : DropClosed(p)
          \/ EndClose

CacheSpec == CacheInit /\ [][CacheNext]_<<cache, open, closing>>
================================================================================
