-------------------------- MODULE ThreadPoolProofs --------------------------
(***************************************************************************)
(* Proofs about ThreadPool for any number of workers and any set of tasks. *)
(* Everything rests on one inductive invariant, PoolInv: the type          *)
(* invariant, which says who holds the mutex, what the holder has seen     *)
(* under it, and what the owner has done.                                  *)
(***************************************************************************)
EXTENDS ThreadPool, FiniteSetTheorems, TLAPS

(* What a test of the predicate found stays true until the mutex is free.  *)
SeenInv ==
    \A w \in Workers :
        /\ worker[w] = "take" => WorkToDo
        /\ worker[w] = "block" => ~WorkToDo

SleepInv == \A w \in sleeping : worker[w] = "asleep"

(* stop is raised when the destructor has begun, workers leave only after  *)
(* that and leave nothing behind, and notify_all wakes them for good.      *)
StopInv ==
    /\ stop <=> main \in {"notifyAll", "join", "destroyed"}
    /\ \A w \in Workers : worker[w] = "exited" => stop /\ queue = <<>>
    /\ main \in {"join", "destroyed"} => sleeping = {}
    /\ main = "destroyed" => \A w \in Workers : worker[w] = "exited"

PoolInv ==
    /\ TypeOK
    /\ SeenInv
    /\ SleepInv
    /\ StopInv

-----------------------------------------------------------------------------
LEMMA InitPoolInv == Init => PoolInv
<1> SUFFICES ASSUME Init PROVE PoolInv
  OBVIOUS
<1>1. HolderInv /\ RunningInv
  BY NamesAssumption DEF Init, HolderInv, RunningInv
<1>2. TypeOK
  <2>1. queue \in Seq(Tasks)
    BY DEF Init
  <2>2. worker \in [Workers -> {"lock", "test", "block", "asleep", "take",
                               "handle", "exited"}]
    BY DEF Init
  <2>3. running \in [Workers -> Tasks \cup {NoTask}]
    BY DEF Init
  <2>4. QED
    BY <1>1, <2>1, <2>2, <2>3 DEF Init, TypeOK
<1>3. SeenInv /\ SleepInv
  BY DEF Init, SeenInv, SleepInv
<1>4. StopInv
  BY DEF Init, StopInv
<1>5. QED
  BY <1>2, <1>3, <1>4 DEF PoolInv

LEMMA LockInv ==
    ASSUME PoolInv, NEW w \in Workers, Lock(w)
    PROVE  PoolInv'
  BY NamesAssumption
  DEF Lock, Goes, PoolInv, TypeOK, HolderInv, SeenInv, SleepInv, RunningInv,
      StopInv, WorkToDo

LEMMA TestInv ==
    ASSUME PoolInv, NEW w \in Workers, Test(w)
    PROVE  PoolInv'
  BY NamesAssumption
  DEF Test, Goes, PoolInv, TypeOK, HolderInv, SeenInv, SleepInv, RunningInv,
      StopInv, WorkToDo

LEMMA BlockInv ==
    ASSUME PoolInv, NEW w \in Workers, Block(w)
    PROVE  PoolInv'
<1>1. ~stop
  BY DEF Block, PoolInv, SeenInv, WorkToDo
<1>2. QED
  BY <1>1, NamesAssumption
  DEF Block, Goes, PoolInv, TypeOK, HolderInv, SeenInv, SleepInv, RunningInv,
      StopInv, WorkToDo

LEMMA WakeInv ==
    ASSUME PoolInv, NEW w \in Workers, Wake(w) \/ WakeSpuriously(w)
    PROVE  PoolInv'
<1>1. CASE Wake(w)
  BY <1>1, NamesAssumption
  DEF Wake, Goes, PoolInv, TypeOK, HolderInv, SeenInv, SleepInv, RunningInv,
      StopInv, WorkToDo
<1>2. CASE WakeSpuriously(w)
  BY <1>2
  DEF WakeSpuriously, PoolInv, TypeOK, HolderInv, SeenInv, SleepInv,
      RunningInv, StopInv, WorkToDo
<1>3. QED
  BY <1>1, <1>2

LEMMA TakeInv ==
    ASSUME PoolInv, NEW w \in Workers, Take(w)
    PROVE  PoolInv'
<1>1. Head(queue) \in Tasks /\ Tail(queue) \in Seq(Tasks)
  BY DEF Take, PoolInv, TypeOK
<1>2. mutex = w /\ \A v \in Workers : worker[v] \in {"test", "block", "take"} => v = w
  BY DEF Take, PoolInv, TypeOK, HolderInv
<1>3. HolderInv' /\ SeenInv' /\ SleepInv'
  BY <1>2, NamesAssumption
  DEF Take, Goes, PoolInv, TypeOK, HolderInv, SeenInv, SleepInv, WorkToDo
<1>4. RunningInv'
  BY <1>1, NamesAssumption DEF Take, Goes, PoolInv, TypeOK, RunningInv
<1>5. TypeOK'
  BY <1>1, <1>3, <1>4 DEF Take, Goes, PoolInv, TypeOK
<1>6. StopInv'
  BY DEF Take, Goes, PoolInv, TypeOK, StopInv
<1>7. QED
  BY <1>3, <1>5, <1>6 DEF PoolInv

LEMMA ExitInv ==
    ASSUME PoolInv, NEW w \in Workers, Exit(w)
    PROVE  PoolInv'
  BY NamesAssumption
  DEF Exit, Goes, PoolInv, TypeOK, HolderInv, SeenInv, SleepInv, RunningInv,
      StopInv, WorkToDo

LEMMA FinishInv ==
    ASSUME PoolInv, NEW w \in Workers, Finish(w)
    PROVE  PoolInv'
  BY NamesAssumption
  DEF Finish, Goes, PoolInv, TypeOK, HolderInv, SeenInv, SleepInv, RunningInv,
      StopInv, WorkToDo

(* Nobody is between test and wait when the owner gets the mutex. *)
LEMMA PushInv ==
    ASSUME PoolInv, NEW t \in Tasks, Push(t)
    PROVE  PoolInv'
<1>1. Append(queue, t) \in Seq(Tasks) /\ Append(queue, t) # <<>>
  BY DEF PoolInv, TypeOK
<1>2. ~stop
  BY DEF Push, PoolInv, StopInv
<1>3. \A w \in Workers : worker[w] \notin {"test", "block", "take"}
  BY NamesAssumption DEF Push, PoolInv, TypeOK, HolderInv
<1>4. QED
  BY <1>1, <1>2, <1>3
  DEF Push, PoolInv, TypeOK, HolderInv, SeenInv, SleepInv, RunningInv, StopInv

LEMMA NotifyInv ==
    ASSUME PoolInv, NotifyOne \/ NotifyAll
    PROVE  PoolInv'
<1>1. CASE NotifyOne
  BY <1>1
  DEF NotifyOne, PoolInv, TypeOK, HolderInv, SeenInv, SleepInv, RunningInv,
      StopInv, WorkToDo
<1>2. CASE NotifyAll
  BY <1>2
  DEF NotifyAll, PoolInv, TypeOK, HolderInv, SeenInv, SleepInv, RunningInv,
      StopInv, WorkToDo
<1>3. QED
  BY <1>1, <1>2

LEMMA SetStopInv ==
    ASSUME PoolInv, SetStop
    PROVE  PoolInv'
<1>1. \A w \in Workers : worker[w] \notin {"test", "block", "take"}
  BY NamesAssumption DEF SetStop, PoolInv, TypeOK, HolderInv
<1>2. QED
  BY <1>1
  DEF SetStop, PoolInv, TypeOK, HolderInv, SeenInv, SleepInv, RunningInv, StopInv

LEMMA JoinInv ==
    ASSUME PoolInv, JoinAll
    PROVE  PoolInv'
  BY DEF JoinAll, PoolInv, TypeOK, HolderInv, SeenInv, SleepInv, RunningInv,
         StopInv, WorkToDo

LEMMA NextPoolInv == PoolInv /\ [Next]_vars => PoolInv'
<1> SUFFICES ASSUME PoolInv, [Next]_vars PROVE PoolInv'
  OBVIOUS
<1>1. ASSUME NEW w \in Workers, Step(w) PROVE PoolInv'
  BY <1>1, LockInv, TestInv, BlockInv, WakeInv, TakeInv, ExitInv, FinishInv
  DEF Step
<1>2. CASE \E w \in Workers : WakeSpuriously(w)
  BY <1>2, WakeInv
<1>3. CASE \E t \in Tasks : Push(t)
  BY <1>3, PushInv
<1>4. CASE NotifyOne \/ NotifyAll
  BY <1>4, NotifyInv
<1>5. CASE SetStop
  BY <1>5, SetStopInv
<1>6. CASE JoinAll
  BY <1>6, JoinInv
<1>7. CASE UNCHANGED vars
  BY <1>7 DEF vars, PoolInv, TypeOK, HolderInv, SeenInv, SleepInv, RunningInv,
              StopInv, WorkToDo
<1>8. QED
  BY <1>1, <1>2, <1>3, <1>4, <1>5, <1>6, <1>7 DEF Next

(* The inductive invariant holds of every execution: in particular the     *)
(* state has its types and the mutex excludes.                             *)
THEOREM PoolInvariant == SafeSpec => []PoolInv
  BY InitPoolInv, NextPoolInv, PTL DEF SafeSpec

THEOREM TypeCorrect == SafeSpec => []TypeOK
<1>1. PoolInv => TypeOK
  BY DEF PoolInv
<1>2. QED
  BY <1>1, PoolInvariant, PTL

(* front() is called only on a queue that has one, however many workers    *)
(* compete for the tasks.                                                  *)
THEOREM FrontNeverMissing == SafeSpec => []FrontExists
<1>1. PoolInv => FrontExists
  BY DEF PoolInv, SeenInv, FrontExists, WorkToDo
<1>2. QED
  BY <1>1, PoolInvariant, PTL

(* join() never waits for a worker that sleeps or is about to. *)
THEOREM StopReachesEveryone == SafeSpec => []NobodySleepsThroughStop
<1>1. PoolInv => NobodySleepsThroughStop
  BY DEF PoolInv, SeenInv, StopInv, NobodySleepsThroughStop, WorkToDo
<1>2. QED
  BY <1>1, PoolInvariant, PTL

(* The destructor leaves no task behind.  This needs a worker: the pool of *)
(* no workers is destroyed with its queue as it is.                        *)
THEOREM DestroyedMeansDrained == SafeSpec => []DrainedWhenDestroyed
<1>1. PoolInv => DrainedWhenDestroyed
  BY WorkersAssumption DEF PoolInv, TypeOK, StopInv, RunningInv, DrainedWhenDestroyed
<1>2. QED
  BY <1>1, PoolInvariant, PTL

-----------------------------------------------------------------------------
(* No lost wakeup.  CountInv is NoLostWakeup with what it becomes between  *)
(* push and notify_one: the notification still owed stands for one worker. *)
CountInv ==
    sleeping # {} =>
        /\ main = "free" => Cardinality(OnTheWay) >= Len(queue)
        /\ main = "notify" => Cardinality(OnTheWay) + 1 >= Len(queue)

LEMMA FiniteWorkers ==
    ASSUME NEW S, S \subseteq Workers
    PROVE  IsFiniteSet(S) /\ Cardinality(S) \in Nat
<1>1. IsFiniteSet(S)
  BY WorkersAssumption, FS_Subset
<1>2. QED
  BY <1>1, FS_CardinalityType

LEMMA OnTheWayFinite ==
    /\ IsFiniteSet(OnTheWay) /\ Cardinality(OnTheWay) \in Nat
    /\ IsFiniteSet(OnTheWay') /\ Cardinality(OnTheWay') \in Nat
<1>1. OnTheWay \subseteq Workers /\ OnTheWay' \subseteq Workers
  BY DEF OnTheWay
<1>2. QED
  BY <1>1, FiniteWorkers

(* A step that takes no worker off its way and adds no task is harmless. *)
LEMMA MoreOnTheWay ==
    ASSUME CountInv, OnTheWay \subseteq OnTheWay', queue' = queue, main' = main,
           sleeping' # {} => sleeping # {}, queue \in Seq(Tasks)
    PROVE  CountInv'
<1>1. Cardinality(OnTheWay) \in Nat /\ IsFiniteSet(OnTheWay')
      /\ Cardinality(OnTheWay') \in Nat
  BY OnTheWayFinite
<1>2. Cardinality(OnTheWay) <= Cardinality(OnTheWay')
  BY <1>1, FS_Subset
<1>3. QED
  BY <1>1, <1>2 DEF CountInv

(* With an empty queue nothing is claimed. *)
LEMMA NothingQueued ==
    ASSUME queue' = <<>>
    PROVE  CountInv'
<1>1. Cardinality(OnTheWay') \in Nat
  BY OnTheWayFinite
<1>2. QED
  BY <1>1 DEF CountInv

LEMMA TakeCount ==
    ASSUME PoolInv, CountInv, NEW w \in Workers, Take(w)
    PROVE  CountInv'
<1>1. queue \in Seq(Tasks) /\ Len(queue') = Len(queue) - 1 /\ Len(queue) \in Nat
  BY DEF Take, PoolInv, TypeOK
<1>2. w \in OnTheWay /\ OnTheWay' = OnTheWay \ {w}
  BY DEF Take, Goes, OnTheWay, PoolInv, TypeOK
<1>3. Cardinality(OnTheWay') = Cardinality(OnTheWay) - 1
  BY <1>2, OnTheWayFinite, FS_RemoveElement
<1>4. sleeping' = sleeping /\ main' = main
  BY DEF Take
<1>5. QED
  BY <1>1, <1>3, <1>4, OnTheWayFinite DEF CountInv

LEMMA PushCount ==
    ASSUME PoolInv, CountInv, NEW t \in Tasks, Push(t)
    PROVE  CountInv'
<1>1. queue \in Seq(Tasks) /\ Len(queue') = Len(queue) + 1 /\ Len(queue) \in Nat
  BY DEF Push, PoolInv, TypeOK
<1>2. OnTheWay' = OnTheWay /\ sleeping' = sleeping /\ main = "free" /\ main' = "notify"
  BY DEF Push, OnTheWay
<1>3. QED
  BY <1>1, <1>2, OnTheWayFinite DEF CountInv

(* notify_one turns a sleeping worker into one that is on its way. *)
LEMMA NotifyOneCount ==
    ASSUME PoolInv, CountInv, NotifyOne
    PROVE  CountInv'
<1>0. main = "notify" /\ main' = "free" /\ queue' = queue
      /\ queue \in Seq(Tasks) /\ Len(queue) \in Nat
  BY DEF NotifyOne, PoolInv, TypeOK
<1>1. CASE sleeping' = {}
  BY <1>1 DEF CountInv
<1>2. ASSUME NEW w \in sleeping, sleeping' = sleeping \ {w}
      PROVE  CountInv'
  <2>1. w \in Workers /\ w \notin OnTheWay /\ OnTheWay' = OnTheWay \cup {w}
    BY <1>2 DEF NotifyOne, PoolInv, TypeOK, SleepInv, OnTheWay
  <2>2. Cardinality(OnTheWay') = Cardinality(OnTheWay) + 1
    BY <2>1, OnTheWayFinite, FS_AddElement
  <2>3. Cardinality(OnTheWay) + 1 >= Len(queue)
    BY <1>0, <1>2 DEF CountInv
  <2>4. QED
    BY <1>0, <2>2, <2>3, OnTheWayFinite DEF CountInv
<1>3. QED
  <2>1. \/ sleeping = {} /\ UNCHANGED sleeping
        \/ \E w \in sleeping : sleeping' = sleeping \ {w}
    BY DEF NotifyOne
  <2>2. QED
    BY <2>1, <1>1, <1>2

LEMMA NextCountInv ==
    ASSUME PoolInv, CountInv, [Next]_vars
    PROVE  CountInv'
<1>0. queue \in Seq(Tasks)
  BY DEF PoolInv, TypeOK
<1>1. ASSUME NEW w \in Workers, Lock(w) \/ Wake(w) \/ WakeSpuriously(w) \/ Finish(w)
      PROVE  CountInv'
  <2>1. /\ queue' = queue /\ main' = main /\ sleeping' \subseteq sleeping
        /\ \A v \in Workers : v # w => worker'[v] = worker[v]
    BY <1>1 DEF Lock, Wake, WakeSpuriously, Finish, Goes, PoolInv, TypeOK
  <2>2. w \in OnTheWay'
    BY <1>1
    DEF Lock, Wake, WakeSpuriously, Finish, Goes, PoolInv, TypeOK, SleepInv, OnTheWay
  <2>3. OnTheWay \subseteq OnTheWay'
    BY <2>1, <2>2 DEF OnTheWay
  <2>4. QED
    BY <1>0, <2>1, <2>3, MoreOnTheWay
<1>2. ASSUME NEW w \in Workers, Test(w)
      PROVE  CountInv'
  <2>1. CASE WorkToDo
    <3>1. OnTheWay' = OnTheWay
      BY <1>2, <2>1 DEF Test, Goes, OnTheWay, PoolInv, TypeOK
    <3>2. QED
      BY <1>0, <1>2, <3>1, MoreOnTheWay DEF Test
  <2>2. CASE ~WorkToDo
    BY <1>2, <2>2, NothingQueued DEF Test, WorkToDo
  <2>3. QED
    BY <2>1, <2>2
<1>3. CASE \E w \in Workers : Block(w)
  BY <1>3, NothingQueued DEF Block, PoolInv, SeenInv, WorkToDo
<1>4. CASE \E w \in Workers : Take(w)
  BY <1>4, TakeCount
<1>5. CASE (\E w \in Workers : Exit(w)) \/ SetStop \/ NotifyAll \/ JoinAll
  <2>1. main' \notin {"free", "notify"}
    BY <1>5 DEF Exit, SetStop, NotifyAll, JoinAll, PoolInv, StopInv
  <2>2. QED
    BY <2>1 DEF CountInv
<1>6. CASE \E t \in Tasks : Push(t)
  BY <1>6, PushCount
<1>7. CASE NotifyOne
  BY <1>7, NotifyOneCount
<1>8. CASE UNCHANGED vars
  BY <1>8 DEF vars, CountInv, OnTheWay
<1>9. QED
  BY <1>1, <1>2, <1>3, <1>4, <1>5, <1>6, <1>7, <1>8 DEF Next, Step

(* No wakeup is lost, for any number of workers and any interleaving with  *)
(* spurious wakeups: a task waits beside a sleeping worker only if another *)
(* worker is on its way for it.                                            *)
THEOREM WakeupsSuffice == SafeSpec => []NoLostWakeup
<1>1. Init => CountInv
  BY DEF Init, CountInv
<1>2. PoolInv /\ CountInv /\ [Next]_vars => CountInv'
  BY NextCountInv
<1>3. PoolInv /\ CountInv => NoLostWakeup
  BY DEF PoolInv, TypeOK, StopInv, CountInv, NoLostWakeup
<1>4. QED
  BY <1>1, <1>2, <1>3, PoolInvariant, PTL DEF SafeSpec

-----------------------------------------------------------------------------
(* Refinement of the pool without locks, safety part: the fairness of      *)
(* TaskPool stays with the runs.                                           *)
LEMMA StepImplements ==
    ASSUME PoolInv, [Next]_vars
    PROVE  [Abs!Next]_(Abs!vars)
<1> DEFINE gone == {w \in Workers : worker[w] = "exited"}
<1>1. ASSUME NEW w \in Workers,
             Lock(w) \/ Test(w) \/ Block(w) \/ Wake(w) \/ WakeSpuriously(w)
      PROVE  UNCHANGED <<queue, running, stop, gone>>
  BY <1>1
  DEF Lock, Test, Block, Wake, WakeSpuriously, Goes, PoolInv, TypeOK
<1>2. ASSUME NEW w \in Workers, Take(w)
      PROVE  Abs!Begin(w)
  <2>1. gone' = gone /\ w \notin gone
    BY <1>2 DEF Take, Goes, PoolInv, TypeOK
  <2>2. running[w] = NoTask
    BY <1>2 DEF Take, PoolInv, TypeOK, RunningInv
  <2>3. QED
    BY <1>2, <2>1, <2>2 DEF Take, Abs!Begin
<1>3. ASSUME NEW w \in Workers, Exit(w)
      PROVE  Abs!Leave(w)
  <2>1. gone' = gone \cup {w}
    BY <1>3 DEF Exit, Goes, PoolInv, TypeOK
  <2>2. running[w] = NoTask
    BY <1>3 DEF Exit, PoolInv, TypeOK, RunningInv
  <2>3. QED
    BY <1>3, <2>1, <2>2 DEF Exit, Abs!Leave
<1>4. ASSUME NEW w \in Workers, Finish(w)
      PROVE  Abs!End(w)
  <2>1. gone' = gone
    BY <1>4 DEF Finish, Goes, PoolInv, TypeOK
  <2>2. running[w] # NoTask
    BY <1>4 DEF Finish, PoolInv, TypeOK, RunningInv
  <2>3. QED
    BY <1>4, <2>1, <2>2 DEF Finish, Abs!End
<1>5. ASSUME NEW t \in Tasks, Push(t)
      PROVE  Abs!Submit(t)
  BY <1>5 DEF Push, Abs!Submit, PoolInv, StopInv
<1>6. SetStop => Abs!Close
  BY DEF SetStop, Abs!Close
<1>7. NotifyOne \/ NotifyAll \/ JoinAll \/ UNCHANGED vars
      => UNCHANGED <<queue, running, stop, gone>>
  BY DEF NotifyOne, NotifyAll, JoinAll, vars
<1>8. QED
  BY <1>1, <1>2, <1>3, <1>4, <1>5, <1>6, <1>7 DEF Next, Step, Abs!Next, Abs!vars

(* The loop, submit and the destructor do nothing that the pool without    *)
(* locks could not: tasks begin in the order they were submitted, each     *)
(* once, and a worker leaves only when there is nothing left.              *)
THEOREM SafeRefinement == SafeSpec => Abs!SafeSpec
<1>1. Init => Abs!Init
  BY DEF Init, Abs!Init
<1>2. PoolInv /\ [Next]_vars => [Abs!Next]_(Abs!vars)
  BY StepImplements
<1>3. QED
  BY <1>1, <1>2, PoolInvariant, PTL DEF SafeSpec, Abs!SafeSpec
=============================================================================
