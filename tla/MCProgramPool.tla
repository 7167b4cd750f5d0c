---------------------------- MODULE MCProgramPool ----------------------------
(* Small instances of ProgramPool for TLC. *)
EXTENDS ProgramPool, FiniteSets, TLC

CONSTANTS top, lib, app,   \* files
          leaf, inc, bad    \* contents

\* inc is a text that includes lib; leaf includes nothing; both declare an
\* entity.  bad stands for a path with no file.
MCIncludes == (leaf :> {}) @@ (inc :> {lib}) @@ (bad :> {})
MCMarked == {leaf, inc}

ThreadSymmetry == Permutations(Threads)

Disk2 == (top :> inc) @@ (lib :> leaf) @@ (app :> bad)
Disk3 == (top :> inc) @@ (lib :> leaf) @@ (app :> inc)

OnlyDisk2 == {Disk2}
OnlyDisk3 == {Disk3}
EitherDisk == {Disk2, Disk3}

MCEdits == {<<top, leaf>>, <<app, leaf>>, <<lib, bad>>}

--------------------------------------------------------------------------------
\* What is explored: with all three files, which change on disk and in the
\* editor, one thread calls the pool; without the third (which does not come into
\* being), two threads call it at once, while files change in the editor only.

OneThread == Cardinality({t \in Threads : pc[t] # "idle"}) <= 1

TwoFiles ==
    /\ disk = Disk2
    /\ app \notin DOMAIN pool.unsaved_changes
    /\ \A t \in Threads : file[t] # app

Explored == IF disk[app] = Missing THEN TwoFiles' ELSE disk'[app] # Missing /\ OneThread'

ExploredSpec == Init /\ [][Next /\ Explored]_vars
==============================================================================
