----------------------------- MODULE MCLspServer -----------------------------
(* Instances of LspServer: the sessions that TLC explores. *)
EXTENDS LspServer, TLC

Session(kinds, messages, workers, files) ==
    [kinds |-> kinds, messages |-> messages, workers |-> workers, files |-> files]

EditKinds     == {"open", "change", "complete"}
StoreKinds    == {"open", "change", "close", "watched"}
CloseKinds    == {"open", "change", "close", "complete"}
ShutdownKinds == {"hover", "unknown", "shutdown", "exit"}
FileKinds     == {"definition", "references", "complete",
                  "open", "change", "save", "close", "watched"}
ExitKinds     == {"open", "change", "shutdown", "exit"}

\* Symmetric in the workers and the files.
Safety ==
    {Session(AllKinds, 3, Workers, {f}) : f \in Files} \cup
    {Session(FileKinds, 4, W, {f}) : W \in {Workers} \cup {{w} : w \in Workers}, f \in Files} \cup
    {Session(ShutdownKinds, 5, Workers, {f}) : f \in Files} \cup
    {Session(StoreKinds, 5, {w}, Files) : w \in Workers}

Progress ==
    {Session(EditKinds, 3, Workers, Files), Session(ExitKinds, 4, Workers, Files)}

Edits       == {Session(EditKinds, 4, Workers, Files)}
Closes      == {Session(CloseKinds, 3, Workers, Files)}
Exits       == {Session(ExitKinds, 3, Workers, Files)}

Symmetry == Permutations(Workers) \cup Permutations(Files)
================================================================================
