------------------------------ MODULE TtlCache ------------------------------
(***************************************************************************)
(* What the arrivals cache promises to its callers: one register per stop  *)
(* that holds the last entry stored and forgets it by itself the moment    *)
(* the entry is StalenessSeconds old.  There is no lock, no clean-up pass  *)
(* and no window between the parts of a store.                             *)
(***************************************************************************)
EXTENDS CacheOps

CONSTANTS
    Threads,    \* the callers
    Stops,      \* stop ids
    Answers     \* arrival lists

VARIABLES
    now,        \* the clock, in seconds
    live,       \* stop id -> entry, for the entries that are not expired
    lookup      \* result of each caller's last lookup

vars == <<now, live, lookup>>

Init ==
    /\ now = 0
    /\ live = EmptyCache
    /\ lookup = [t \in Threads |-> NoLookup]

(* Time passes; what becomes too old is gone. *)
Tick ==
    /\ now' = now + 1
    /\ live' = Swept(live, now + 1)
    /\ UNCHANGED lookup

(* A store takes effect at once.  Its timestamp was read earlier by the    *)
(* caller, so that the entry may be expired already.                       *)
Store(s, entry) ==
    /\ live' = Swept(Assign(live, s, entry), now)
    /\ UNCHANGED <<now, lookup>>

(* A lookup reports exactly the register. *)
Get(t, s) ==
    /\ lookup' = [lookup EXCEPT ![t] = Lookup(live, s, now)]
    /\ UNCHANGED <<now, live>>

(* t has no more use for the result of its lookup. *)
Drop(t) ==
    /\ lookup' = [lookup EXCEPT ![t] = NoLookup]
    /\ UNCHANGED <<now, live>>

(* The process that holds the cache is gone. *)
Lose ==
    /\ live' = EmptyCache
    /\ lookup' = [t \in Threads |-> NoLookup]
    /\ UNCHANGED now

Next ==
    \/ Tick
    \/ Lose
    \/ \E s \in Stops, a \in Answers, ts \in 0..now :
        Store(s, [arrivals |-> a, timestamp |-> ts])
    \/ \E t \in Threads, s \in Stops : Get(t, s)
    \/ \E t \in Threads : Drop(t)

Spec == Init /\ [][Next]_vars
=============================================================================
