---------------------------- MODULE MCSharedObject ----------------------------
(* Instances of SharedObject: which methods the processes call. *)
EXTENDS SharedObject

AllOperations    == {"lock", "unlock", "read", "push", "clear",
                     "at", "slice", "dequeue", "pop", "array_pop", "insert"}
AppendOperations == {"lock", "unlock", "read", "at", "slice", "push", "clear"}
QueueOperations  == {"push", "dequeue"}
PopOperations    == {"push", "array_pop", "lock", "unlock"}
InsertOperations == {"push", "insert"}

Session(methods, n) == [operations |-> methods, calls |-> n]

\* All processes call the same methods.
Together(methods, n) == [p \in Processes |-> Session(methods, n)]

\* One process calls methods and the others do nothing.
Alone(methods, n) ==
    {[p \in Processes |-> IF p = q THEN Session(methods, n) ELSE Session({}, 0)] :
        q \in Processes}

\* Two processes that do not replace the file, or one that calls everything (but
\* lock after SharedArray's pop, which may find that pop has left the lock behind).
Sound ==
    {Together(AppendOperations, 3)}
        \cup Alone({"push", "dequeue", "pop", "insert", "lock", "unlock"}, 5)
        \cup Alone({"push", "dequeue", "pop", "insert", "array_pop"}, 5)

Queues  == {Together(QueueOperations, 3)}
Blanks  == Alone(QueueOperations, 2)
Pops    == Alone(PopOperations, 2)
Inserts == {Together(InsertOperations, 2)}
================================================================================
