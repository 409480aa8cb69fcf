------------------------------ MODULE TaskPool ------------------------------
(***************************************************************************)
(* What the thread pool promises to the accept loop: tasks begin in the    *)
(* order they were submitted, each once; every submitted task is begun and *)
(* ended, also when the pool is being destroyed; and the workers leave     *)
(* only when nothing is left to do.  There is no lock and nobody sleeps.   *)
(***************************************************************************)
EXTENDS Sequences

CONSTANTS Workers, Tasks, NoTask

VARIABLES
    pending,    \* submitted, not begun
    running,    \* worker -> its task
    closing,    \* the destructor has begun
    left        \* workers that have returned

vars == <<pending, running, closing, left>>

Init ==
    /\ pending = <<>>
    /\ running = [w \in Workers |-> NoTask]
    /\ closing = FALSE
    /\ left = {}

Submit(t) ==
    /\ ~closing
    /\ pending' = Append(pending, t)
    /\ UNCHANGED <<running, closing, left>>

Begin(w) ==
    /\ w \notin left
    /\ running[w] = NoTask
    /\ pending # <<>>
    /\ running' = [running EXCEPT ![w] = Head(pending)]
    /\ pending' = Tail(pending)
    /\ UNCHANGED <<closing, left>>

End(w) ==
    /\ running[w] # NoTask
    /\ running' = [running EXCEPT ![w] = NoTask]
    /\ UNCHANGED <<pending, closing, left>>

Close ==
    /\ closing' = TRUE
    /\ UNCHANGED <<pending, running, left>>

Leave(w) ==
    /\ closing
    /\ pending = <<>>
    /\ running[w] = NoTask
    /\ left' = left \cup {w}
    /\ UNCHANGED <<pending, running, closing>>

Next ==
    \/ \E t \in Tasks : Submit(t)
    \/ Close
    \/ \E w \in Workers : Begin(w) \/ End(w) \/ Leave(w)

Fairness ==
    /\ WF_vars(\E w \in Workers : Begin(w))
    /\ \A w \in Workers : WF_vars(End(w)) /\ WF_vars(Leave(w))

SafeSpec == Init /\ [][Next]_vars

Spec == SafeSpec /\ Fairness
=============================================================================
