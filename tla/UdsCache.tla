------------------------------ MODULE UdsCache ------------------------------
(***************************************************************************)
(* The arrivals cache as its threads execute it: struct UdsCache of        *)
(* bkk_cache.hpp with bkk_cache.cpp.  get_element is one critical section  *)
(* of cache_mutex.  put_element is two, with the lock released in between, *)
(* and its entry carries a timestamp that the caller read before the       *)
(* first.  One action is one critical section: cache and clock are read    *)
(* inside it, and nothing else touches the map.                            *)
(***************************************************************************)
EXTENDS CacheOps, FiniteSets

CONSTANTS
    Threads,        \* pool workers and detached refresh threads
    Stops,          \* stop ids as the requests spell them
    Answers,        \* arrival lists a successful fetch can return
    MaxCacheSize,   \* max_cache_size
    MaxTime         \* bound on the clock

ASSUME SizeAssumption == MaxCacheSize \in Nat \ {0}

ASSUME TimeAssumption == MaxTime \in Nat

VARIABLES
    now,        \* steady_clock, in seconds
    cache,      \* UdsCache::cache
    call,       \* where each thread is in put_element, and its arguments
    lookup,     \* what each thread's last get_element returned
    sweptAt     \* history: when a put_element last returned

vars == <<now, cache, call, lookup, sweptAt>>

Entries == [arrivals : Answers, timestamp : 0..MaxTime]

Idle == [pc |-> "idle"]

Calls ==
    {Idle}
    \cup [pc : {"assign"}, stop : Stops, entry : Entries]
    \cup [pc : {"sweep"}, stop : Stops]

Lookups ==
    {NoLookup, Miss}
    \cup [state : {"CACHE_HIT_FRESH", "CACHE_HIT_STALE"}, arrivals : Answers]

Init ==
    /\ now = 0
    /\ cache = EmptyCache
    /\ call = [t \in Threads |-> Idle]
    /\ lookup = [t \in Threads |-> NoLookup]
    /\ sweptAt = 0

Tick ==
    /\ now < MaxTime
    /\ now' = now + 1
    /\ UNCHANGED <<cache, call, lookup, sweptAt>>

(* Mutant of StampEntry: the entry carries the time at which it gets stale. *)
StampEntryWithDeadline(t, s, a) ==
    /\ call[t] = Idle
    /\ call' = [call EXCEPT ![t] =
                    [pc    |-> "assign",
                     stop  |-> s,
                     entry |-> [arrivals |-> a, timestamp |-> now + FreshnessSeconds]]]
    /\ UNCHANGED <<now, cache, lookup, sweptAt>>

(* The caller builds the entry, reading the clock, and enters put_element. *)
StampEntry(t, s, a) ==
    /\ call[t] = Idle
    /\ call' = [call EXCEPT ![t] = [pc    |-> "assign",
                                    stop  |-> s,
                                    entry |-> [arrivals |-> a, timestamp |-> now]]]
    /\ UNCHANGED <<now, cache, lookup, sweptAt>>

(* First critical section of put_element. *)
PutAssign(t) ==
    /\ call[t].pc = "assign"
    /\ cache' = Assign(cache, call[t].stop, call[t].entry)
    /\ call' = [call EXCEPT ![t] = [pc |-> "sweep", stop |-> call[t].stop]]
    /\ UNCHANGED <<now, lookup, sweptAt>>

(* remove_stale_entries, the second one; then put_element returns. *)
RemoveStaleEntries(t) ==
    /\ call[t].pc = "sweep"
    /\ cache' = Swept(cache, now)
    /\ call' = [call EXCEPT ![t] = Idle]
    /\ sweptAt' = now
    /\ UNCHANGED <<now, lookup>>

GetElement(t, s) ==
    /\ call[t] = Idle
    /\ lookup' = [lookup EXCEPT ![t] = Lookup(cache, s, now)]
    /\ UNCHANGED <<now, cache, call, sweptAt>>

Next ==
    \/ Tick
    \/ \E t \in Threads :
        \/ \E s \in Stops, a \in Answers : StampEntry(t, s, a)
        \/ PutAssign(t)
        \/ RemoveStaleEntries(t)
        \/ \E s \in Stops : GetElement(t, s)

Spec == Init /\ [][Next]_vars

-----------------------------------------------------------------------------

(* Types of the state: entries are stamped no later than the present; a    *)
(* hit comes with the arrivals of some put, and a miss with none.          *)
TypeOK ==
    /\ now \in 0..MaxTime
    /\ sweptAt \in 0..now
    /\ DOMAIN cache \subseteq Stops
    /\ cache \in [DOMAIN cache -> Entries]
    /\ call \in [Threads -> Calls]
    /\ lookup \in [Threads -> Lookups]
    /\ \A s \in DOMAIN cache : cache[s].timestamp <= now
    /\ \A t \in Threads : call[t].pc = "assign" => call[t].entry.timestamp <= now

(* An entry that had expired when put_element last returned is in the map  *)
(* only because another put_element has just assigned it and not yet swept *)
(* (bkk_cache.cpp:22, "Clean up stale entries after adding a new one").    *)
(* Without the lock between the two parts, this is all the clean-up gives: *)
(* the expired entries left behind are at most the puts in flight.         *)
GarbageIsInFlight ==
    \A s \in DOMAIN cache :
        Expired(cache[s], sweptAt) =>
            \E t \in Threads : call[t].pc = "sweep" /\ call[t].stop = s

(* The server's README, line 10: "-l <count>: max cache size".  Said of    *)
(* the states in which no put_element is under way, so that a cache that   *)
(* evicts at the end of a put would satisfy it.                            *)
CacheWithinMaxSize ==
    (\A t \in Threads : call[t] = Idle) => Cardinality(DOMAIN cache) <= MaxCacheSize

(* The clean-up is invisible: with two critical sections, late timestamps  *)
(* and any number of threads, lookups answer as if every stop had a        *)
(* register that expires on its own.                                       *)
Abs == INSTANCE TtlCache WITH live <- Swept(cache, now)

ImplementsTtlCache == Abs!Spec
=============================================================================
