------------------------------- MODULE MCClasses -------------------------------
(* Small programs for Classes. *)
EXTENDS Classes

SomeMembers == {"m"}

\* Hierarchies of three classes, and one class with more in it.
DeepAndWide == {[classes |-> 3, members |-> 1], [classes |-> 1, members |-> 3]}
TwoClasses  == {[classes |-> 2, members |-> 1]}
================================================================================
