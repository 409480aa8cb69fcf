----------------------------- MODULE ThreadPool -----------------------------
(***************************************************************************)
(* class ThreadPool (bkk_thread_pool.hpp, bkk_thread_pool.cpp): the        *)
(* workers' loop, submit() and the destructor, over one mutex and one      *)
(* condition variable.  handle_client is a task that ends; module          *)
(* UdsServer says what it does.  The condition variable may wake a thread  *)
(* for no reason.                                                          *)
(***************************************************************************)
EXTENDS Sequences, Naturals, FiniteSets

CONSTANTS
    Workers,    \* the threads the constructor starts
    Tasks,      \* bound: the tasks submitted, each once
    Nobody,     \* the holder of a free mutex
    NoTask

(* hardware_concurrency() may return 0; without a worker nothing submitted *)
(* is ever handled.                                                        *)
ASSUME WorkersAssumption == Workers # {} /\ IsFiniteSet(Workers)

ASSUME NamesAssumption ==
    /\ Nobody \notin Workers
    /\ NoTask \notin Tasks

VARIABLES
    queue,      \* task_queue
    mutex,      \* queue_mutex: its holder
    sleeping,   \* the workers blocked on cv
    stop,
    worker,     \* worker -> where it is in thread_function
    running,    \* worker -> its local task
    main,       \* where the owner of the pool is
    submitted   \* tasks given to submit() so far

vars == <<queue, mutex, sleeping, stop, worker, running, main, submitted>>

Init ==
    /\ queue = <<>>
    /\ mutex = Nobody
    /\ sleeping = {}
    /\ stop = FALSE
    /\ worker = [w \in Workers |-> "lock"]
    /\ running = [w \in Workers |-> NoTask]
    /\ main = "free"
    /\ submitted = {}

-----------------------------------------------------------------------------
(* thread_function *)

(* The predicate of cv.wait. *)
WorkToDo == stop \/ queue # <<>>

Goes(w, pc) == worker' = [worker EXCEPT ![w] = pc]

Lock(w) ==
    /\ worker[w] = "lock"
    /\ mutex = Nobody
    /\ mutex' = w
    /\ Goes(w, "test")
    /\ UNCHANGED <<queue, sleeping, stop, running, main, submitted>>

(* The predicate is tested with the mutex held ... *)
Test(w) ==
    /\ worker[w] = "test"
    /\ Goes(w, IF WorkToDo THEN "take" ELSE "block")
    /\ UNCHANGED <<queue, mutex, sleeping, stop, running, main, submitted>>

(* ... and a thread that found nothing releases it as it falls asleep.     *)
Block(w) ==
    /\ worker[w] = "block"
    /\ sleeping' = sleeping \cup {w}
    /\ mutex' = Nobody
    /\ Goes(w, "asleep")
    /\ UNCHANGED <<queue, stop, running, main, submitted>>

(* Mutant of Wake: cv.wait without the predicate, "if" for "while". *)
WakeUntested(w) ==
    /\ worker[w] = "asleep"
    /\ w \notin sleeping
    /\ mutex = Nobody
    /\ mutex' = w
    /\ Goes(w, "take")
    /\ UNCHANGED <<queue, sleeping, stop, running, main, submitted>>

(* A notified thread, or one that wakes up spuriously, goes for the mutex  *)
(* and tests again.                                                        *)
Wake(w) ==
    /\ worker[w] = "asleep"
    /\ w \notin sleeping
    /\ Goes(w, "lock")
    /\ UNCHANGED <<queue, mutex, sleeping, stop, running, main, submitted>>

WakeSpuriously(w) ==
    /\ w \in sleeping
    /\ sleeping' = sleeping \ {w}
    /\ UNCHANGED <<queue, mutex, stop, worker, running, main, submitted>>

(* Mutant of Take: the last task first. *)
TakeNewest(w) ==
    /\ worker[w] = "take"
    /\ queue # <<>>
    /\ running' = [running EXCEPT ![w] = queue[Len(queue)]]
    /\ queue' = SubSeq(queue, 1, Len(queue) - 1)
    /\ mutex' = Nobody
    /\ Goes(w, "handle")
    /\ UNCHANGED <<sleeping, stop, main, submitted>>

(* front, pop, unlock; handle_client runs without the mutex. *)
Take(w) ==
    /\ worker[w] = "take"
    /\ queue # <<>>
    /\ running' = [running EXCEPT ![w] = Head(queue)]
    /\ queue' = Tail(queue)
    /\ mutex' = Nobody
    /\ Goes(w, "handle")
    /\ UNCHANGED <<sleeping, stop, main, submitted>>

(* Mutants of Exit: a worker that returns with the mutex locked, and one   *)
(* that returns on stop whatever is queued.                                *)
ExitLocked(w) ==
    /\ worker[w] = "take"
    /\ stop /\ queue = <<>>
    /\ Goes(w, "exited")
    /\ UNCHANGED <<queue, mutex, sleeping, stop, running, main, submitted>>

ExitOnStop(w) ==
    /\ worker[w] = "take"
    /\ stop
    /\ mutex' = Nobody
    /\ Goes(w, "exited")
    /\ UNCHANGED <<queue, sleeping, stop, running, main, submitted>>

(* stop && task_queue.empty(): return. *)
Exit(w) ==
    /\ worker[w] = "take"
    /\ stop /\ queue = <<>>
    /\ mutex' = Nobody
    /\ Goes(w, "exited")
    /\ UNCHANGED <<queue, sleeping, stop, running, main, submitted>>

Finish(w) ==
    /\ worker[w] = "handle"
    /\ running' = [running EXCEPT ![w] = NoTask]
    /\ Goes(w, "lock")
    /\ UNCHANGED <<queue, mutex, sleeping, stop, main, submitted>>

-----------------------------------------------------------------------------
(* submit() and ~ThreadPool, both called by the thread that owns the pool. *)

(* Mutant of Push: the queue is extended without the mutex. *)
PushUnlocked(t) ==
    /\ main = "free"
    /\ t \notin submitted
    /\ queue' = Append(queue, t)
    /\ submitted' = submitted \cup {t}
    /\ main' = "notify"
    /\ UNCHANGED <<mutex, sleeping, stop, worker, running>>

Push(t) ==
    /\ main = "free"
    /\ t \notin submitted
    /\ mutex = Nobody
    /\ queue' = Append(queue, t)
    /\ submitted' = submitted \cup {t}
    /\ main' = "notify"
    /\ UNCHANGED <<mutex, sleeping, stop, worker, running>>

(* After the lock_guard's scope: wakes one sleeping thread, if there is one. *)
NotifyOne ==
    /\ main = "notify"
    /\ \/ sleeping = {} /\ UNCHANGED sleeping
       \/ \E w \in sleeping : sleeping' = sleeping \ {w}
    /\ main' = "free"
    /\ UNCHANGED <<queue, mutex, stop, worker, running, submitted>>

(* Mutant of SetStop: stop is set without the mutex. *)
SetStopUnlocked ==
    /\ main = "free"
    /\ stop' = TRUE
    /\ main' = "notifyAll"
    /\ UNCHANGED <<queue, mutex, sleeping, worker, running, submitted>>

SetStop ==
    /\ main = "free"
    /\ mutex = Nobody
    /\ stop' = TRUE
    /\ main' = "notifyAll"
    /\ UNCHANGED <<queue, mutex, sleeping, worker, running, submitted>>

(* Mutant of NotifyAll: notify_one. *)
NotifyOneOfAll ==
    /\ main = "notifyAll"
    /\ \/ sleeping = {} /\ UNCHANGED sleeping
       \/ \E w \in sleeping : sleeping' = sleeping \ {w}
    /\ main' = "join"
    /\ UNCHANGED <<queue, mutex, stop, worker, running, submitted>>

NotifyAll ==
    /\ main = "notifyAll"
    /\ sleeping' = {}
    /\ main' = "join"
    /\ UNCHANGED <<queue, mutex, stop, worker, running, submitted>>

JoinAll ==
    /\ main = "join"
    /\ \A w \in Workers : worker[w] = "exited"
    /\ main' = "destroyed"
    /\ UNCHANGED <<queue, mutex, sleeping, stop, worker, running, submitted>>

-----------------------------------------------------------------------------
Step(w) ==
    \/ Lock(w)
    \/ Test(w)
    \/ Block(w)
    \/ Wake(w)
    \/ Take(w)
    \/ Exit(w)
    \/ Finish(w)

Next ==
    \/ \E w \in Workers : Step(w) \/ WakeSpuriously(w)
    \/ \E t \in Tasks : Push(t)
    \/ NotifyOne
    \/ SetStop
    \/ NotifyAll
    \/ JoinAll

SafeSpec == Init /\ [][Next]_vars

(* Threads are scheduled, a mutex that keeps becoming free is granted in   *)
(* the end, a task ends.  Nothing makes the owner submit or destroy, but   *)
(* what it has begun it completes.                                         *)
Fairness ==
    /\ \A w \in Workers : WF_vars(Step(w)) /\ SF_vars(Lock(w))
    /\ WF_vars(NotifyOne)
    /\ WF_vars(NotifyAll)
    /\ WF_vars(JoinAll)

Spec == SafeSpec /\ Fairness

-----------------------------------------------------------------------------
(* A worker is between its lock and its wait, take or exit exactly while   *)
(* it holds the mutex.                                                     *)
HolderInv ==
    \A w \in Workers : worker[w] \in {"test", "block", "take"} <=> mutex = w

RunningInv == \A w \in Workers : running[w] # NoTask <=> worker[w] = "handle"

(* Values of the state; the mutex is held by the worker between its lock   *)
(* and its wait, take or exit, and a worker has a task while it handles.   *)
TypeOK ==
    /\ queue \in Seq(Tasks)
    /\ mutex \in Workers \cup {Nobody}
    /\ sleeping \subseteq Workers
    /\ stop \in BOOLEAN
    /\ worker \in [Workers -> {"lock", "test", "block", "asleep", "take",
                               "handle", "exited"}]
    /\ running \in [Workers -> Tasks \cup {NoTask}]
    /\ main \in {"free", "notify", "notifyAll", "join", "destroyed"}
    /\ submitted \subseteq Tasks
    /\ HolderInv
    /\ RunningInv

(* task_queue.front() is never called on an empty queue: between the test  *)
(* of the predicate and front(), no other worker takes the task that was   *)
(* seen (bkk_thread_pool.cpp:45-50).                                       *)
FrontExists ==
    \A w \in Workers : worker[w] = "take" => stop \/ queue # <<>>

OnTheWay ==
    {w \in Workers : \/ worker[w] \in {"lock", "test", "take"}
                     \/ worker[w] = "asleep" /\ w \notin sleeping}

(* cv.wait with its predicate, and the lock around every change of what    *)
(* the predicate reads, lose no wakeup: while one worker sleeps, there is  *)
(* for every queued task another one on its way to the queue (once the     *)
(* notification for the last push or for stop has been given).  It is not  *)
(* enough that some worker is awake: it may be in handle_client, whose     *)
(* recv() has no time limit.                                               *)
NoLostWakeup ==
    main \notin {"notify", "notifyAll"} /\ sleeping # {} =>
        Cardinality(OnTheWay) >= Len(queue)

(* Once notify_all has been called, nobody sleeps or is about to, so that  *)
(* join() cannot wait for a worker that nobody will wake.                  *)
NobodySleepsThroughStop ==
    main \in {"join", "destroyed"} =>
        /\ sleeping = {}
        /\ \A w \in Workers : worker[w] # "block"

(* ~ThreadPool returns only after every submitted task has been handled:   *)
(* stop alone does not end a worker (bkk_thread_pool.cpp:46).              *)
DrainedWhenDestroyed ==
    main = "destroyed" =>
        /\ queue = <<>>
        /\ \A w \in Workers : running[w] = NoTask

Abs == INSTANCE TaskPool WITH
    pending <- queue,
    closing <- stop,
    left    <- {w \in Workers : worker[w] = "exited"}

(* The loop, submit and the destructor implement the pool without locks,   *)
(* with its promise that every task is begun, and in the order submitted.  *)
ImplementsTaskPool == Abs!Spec

(* The destructor returns. *)
DestructorReturns == stop ~> main = "destroyed"
=============================================================================
