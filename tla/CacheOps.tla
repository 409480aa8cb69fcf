------------------------------ MODULE CacheOps ------------------------------
(***************************************************************************)
(* The data of UdsCache (bkk_cache.hpp, bkk_cache.cpp) without its locking:*)
(* a map from stop id to [arrivals, timestamp] and what each critical      *)
(* section computes from it.  The modules that have the locking, or the    *)
(* threads around it, are built from these operators.                      *)
(***************************************************************************)
EXTENDS Integers, Functions

CONSTANTS
    FreshnessSeconds,   \* cache_freshness_seconds
    StalenessSeconds,   \* cache_staleness_seconds
    NoArrivals          \* what comes with a miss: *entry_out is not assigned

(* What parse_arguments guarantees of the values the constructor is given; *)
(* the defaults 10 and 20 satisfy it as well.                              *)
ASSUME WindowAssumption ==
    /\ FreshnessSeconds \in Nat \ {0}
    /\ StalenessSeconds \in Nat \ {0}
    /\ FreshnessSeconds <= StalenessSeconds

CacheStates == {"CACHE_HIT_FRESH", "CACHE_HIT_STALE", "CACHE_MISS"}

EmptyCache == [s \in {} |-> NoArrivals]

(* What a caller of get_element has in hand: nothing yet, or a miss. *)
NoLookup == [state |-> "none", arrivals |-> NoArrivals]
Miss == [state |-> "CACHE_MISS", arrivals |-> NoArrivals]

(* "now - entry.timestamp >= staleness": the entry is no longer usable. *)
Expired(entry, now) == now - entry.timestamp >= StalenessSeconds

Usable(cache, now) == {s \in DOMAIN cache : ~Expired(cache[s], now)}

(* Mutant of Lookup: whatever is in the map counts as a hit. *)
LookupWithoutExpiry(cache, s, now) ==
    IF s \notin DOMAIN cache
    THEN Miss
    ELSE [state    |-> IF now - cache[s].timestamp < FreshnessSeconds
                       THEN "CACHE_HIT_FRESH"
                       ELSE "CACHE_HIT_STALE",
          arrivals |-> cache[s].arrivals]

(* What get_element returns for s under the lock: its state and, on a hit, *)
(* the arrivals copied into *entry_out.                                    *)
Lookup(cache, s, now) ==
    IF s \notin Usable(cache, now)
    THEN Miss
    ELSE [state    |-> IF now - cache[s].timestamp < FreshnessSeconds
                       THEN "CACHE_HIT_FRESH"
                       ELSE "CACHE_HIT_STALE",
          arrivals |-> cache[s].arrivals]

(* cache[stop_id] = cache_entry *)
Assign(cache, s, entry) ==
    [r \in DOMAIN cache \cup {s} |-> IF r = s THEN entry ELSE cache[r]]

(* Mutant of Swept: > for >=. *)
SweptTooLate(cache, now) ==
    Restrict(cache, {s \in DOMAIN cache : now - cache[s].timestamp <= StalenessSeconds})

(* The loop of remove_stale_entries. *)
Swept(cache, now) == Restrict(cache, Usable(cache, now))
=============================================================================
