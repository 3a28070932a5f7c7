------------------------------ MODULE TaskPool ------------------------------
(***************************************************************************)
(* What a thread pool promises the program that owns it, with no mutex and *)
(* no condition variable: the tasks it is given start in the order they    *)
(* were added, each once and on one worker, and the pool closes only when  *)
(* nothing is queued or running.                                           *)
(***************************************************************************)
EXTENDS Sequences

CONSTANTS Workers, Tasks, NoTask

VARIABLES
    given,      \* tasks the pool was given so far
    queue,      \* those that have not started, in order
    running,    \* the task each worker is running, or NoTask
    closed

vars == <<given, queue, running, closed>>

Init ==
    /\ given = {}
    /\ queue = <<>>
    /\ running = [w \in Workers |-> NoTask]
    /\ closed = FALSE

Add(t) ==
    /\ ~ closed
    /\ t \notin given
    /\ given' = given \cup {t}
    /\ queue' = Append(queue, t)
    /\ UNCHANGED <<running, closed>>

Start(w) ==
    /\ queue # <<>>
    /\ running[w] = NoTask
    /\ running' = [running EXCEPT ![w] = Head(queue)]
    /\ queue' = Tail(queue)
    /\ UNCHANGED <<given, closed>>

End(w) ==
    /\ running[w] # NoTask
    /\ running' = [running EXCEPT ![w] = NoTask]
    /\ UNCHANGED <<given, queue, closed>>

Close ==
    /\ queue = <<>>
    /\ \A w \in Workers : running[w] = NoTask
    /\ closed' = TRUE
    /\ UNCHANGED <<given, queue, running>>

Next ==
    \/ \E t \in Tasks : Add(t)
    \/ \E w \in Workers : Start(w) \/ End(w)
    \/ Close

Spec == Init /\ [][Next]_vars

=============================================================================
