--------------------------- MODULE UdsCacheProofs ---------------------------
(***************************************************************************)
(* Proofs about UdsCache for any threads, stops, answers, windows and      *)
(* clock bound: the type invariant, the bound on what the clean-up leaves  *)
(* behind, and that the two-part put implements TtlCache.                  *)
(***************************************************************************)
EXTENDS UdsCache, CacheOpsProofs

-----------------------------------------------------------------------------
LEMMA InitTypeOK == Init => TypeOK
  BY TimeAssumption
  DEF Init, TypeOK, EmptyCache, Entries, Calls, Idle, Lookups

LEMMA TickTypeOK == TypeOK /\ Tick => TypeOK'
  BY TimeAssumption DEF TypeOK, Tick, Entries, Calls, Idle

LEMMA StampTypeOK ==
    ASSUME TypeOK, NEW t \in Threads, NEW s \in Stops, NEW a \in Answers,
           StampEntry(t, s, a)
    PROVE  TypeOK'
<1> DEFINE e == [arrivals |-> a, timestamp |-> now]
           k == [pc |-> "assign", stop |-> s, entry |-> e]
<1>1. e \in Entries /\ e.timestamp <= now
  BY TimeAssumption DEF TypeOK, Entries
<1>2. k \in Calls /\ k.entry = e
  BY <1>1 DEF Calls
<1>3. call' = [call EXCEPT ![t] = k]
  BY DEF StampEntry
<1>4. call' \in [Threads -> Calls]
  BY <1>2, <1>3 DEF TypeOK
<1>5. \A u \in Threads : call'[u].pc = "assign" => call'[u].entry.timestamp <= now
  BY <1>1, <1>2, <1>3 DEF TypeOK
<1>6. QED
  BY <1>4, <1>5 DEF TypeOK, StampEntry

(* A thread in the first half of a put carries an entry, one in the second *)
(* half only the stop.                                                     *)
LEMMA CallShape ==
    ASSUME TypeOK, NEW t \in Threads
    PROVE  /\ call[t].pc = "assign" => /\ call[t].stop \in Stops
                                       /\ call[t].entry \in Entries
                                       /\ call[t].entry.timestamp <= now
           /\ call[t].pc = "sweep" => call[t].stop \in Stops
<1>1. call[t] \in Calls
  BY DEF TypeOK
<1>2. QED
  BY <1>1 DEF TypeOK, Calls, Idle

LEMMA AssignTypeOK ==
    ASSUME TypeOK, NEW t \in Threads, PutAssign(t)
    PROVE  TypeOK'
<1> DEFINE s == call[t].stop
           e == call[t].entry
           k == [pc |-> "sweep", stop |-> s]
<1>1. s \in Stops /\ e \in Entries /\ e.timestamp <= now
  BY CallShape DEF PutAssign
<1>2. cache' = Assign(cache, s, e) /\ call' = [call EXCEPT ![t] = k]
  BY DEF PutAssign
<1>3. DOMAIN cache' \subseteq Stops
  BY <1>1, <1>2 DEF TypeOK, Assign
<1>4. cache' \in [DOMAIN cache' -> Entries]
  BY <1>1, <1>2 DEF TypeOK, Assign
<1>5. \A r \in DOMAIN cache' : cache'[r].timestamp <= now
  BY <1>1, <1>2 DEF TypeOK, Assign
<1>6. k \in Calls /\ k.pc # "assign"
  BY <1>1 DEF Calls
<1>7. call' \in [Threads -> Calls]
  BY <1>2, <1>6 DEF TypeOK
<1>8. \A u \in Threads : call'[u].pc = "assign" => call'[u].entry.timestamp <= now
  BY <1>2, <1>6 DEF TypeOK
<1>9. QED
  BY <1>3, <1>4, <1>5, <1>7, <1>8 DEF TypeOK, PutAssign

LEMMA SweepTypeOK ==
    ASSUME TypeOK, NEW t \in Threads, RemoveStaleEntries(t)
    PROVE  TypeOK'
<1>1. cache' = Swept(cache, now) /\ call' = [call EXCEPT ![t] = Idle]
  BY DEF RemoveStaleEntries
<1>2. DOMAIN Swept(cache, now) \subseteq DOMAIN cache
  BY SweptFacts
<1>2a. \A r \in DOMAIN Swept(cache, now) : Swept(cache, now)[r] = cache[r]
  BY SweptFacts
<1>3. cache' \in [DOMAIN cache' -> Entries]
  BY <1>1, <1>2 DEF TypeOK, Swept, Restrict
<1>4. \A r \in DOMAIN cache' : cache'[r].timestamp <= now
  <2>1. SUFFICES ASSUME NEW r \in DOMAIN Swept(cache, now)
                 PROVE  Swept(cache, now)[r].timestamp <= now
    BY <1>1
  <2>2. r \in DOMAIN cache /\ Swept(cache, now)[r] = cache[r]
    BY <1>2, <1>2a
  <2>3. QED
    BY <2>2 DEF TypeOK
<1>5. Idle \in Calls /\ Idle.pc # "assign"
  BY DEF Calls, Idle
<1>6. call' \in [Threads -> Calls]
  BY <1>1, <1>5 DEF TypeOK
<1>7. \A u \in Threads : call'[u].pc = "assign" => call'[u].entry.timestamp <= now
  BY <1>1, <1>5 DEF TypeOK
<1>8. QED
  BY <1>1, <1>2, <1>3, <1>4, <1>6, <1>7, TimeAssumption DEF TypeOK, RemoveStaleEntries

LEMMA LookupType ==
    ASSUME TypeOK, NEW s \in Stops
    PROVE  Lookup(cache, s, now) \in Lookups
<1>1. CASE s \notin Usable(cache, now)
  BY <1>1 DEF Lookup, Lookups
<1>2. CASE s \in Usable(cache, now)
  <2>1. cache[s] \in Entries
    BY <1>2 DEF Usable, TypeOK
  <2>2. cache[s].arrivals \in Answers
    BY <2>1 DEF Entries
  <2>3. QED
    BY <1>2, <2>2 DEF Lookup, Lookups
<1>3. QED
  BY <1>1, <1>2

LEMMA GetTypeOK ==
    ASSUME TypeOK, NEW t \in Threads, NEW s \in Stops, GetElement(t, s)
    PROVE  TypeOK'
<1>1. Lookup(cache, s, now) \in Lookups
  BY LookupType
<1>2. lookup' \in [Threads -> Lookups]
  BY <1>1 DEF GetElement, TypeOK
<1>3. QED
  BY <1>2 DEF TypeOK, GetElement

LEMMA NextTypeOK == TypeOK /\ [Next]_vars => TypeOK'
<1> SUFFICES ASSUME TypeOK, [Next]_vars PROVE TypeOK'
  OBVIOUS
<1>1. CASE Tick
  BY <1>1, TickTypeOK
<1>2. CASE \E t \in Threads, s \in Stops, a \in Answers : StampEntry(t, s, a)
  BY <1>2, StampTypeOK
<1>3. CASE \E t \in Threads : PutAssign(t)
  BY <1>3, AssignTypeOK
<1>4. CASE \E t \in Threads : RemoveStaleEntries(t)
  BY <1>4, SweepTypeOK
<1>5. CASE \E t \in Threads, s \in Stops : GetElement(t, s)
  BY <1>5, GetTypeOK
<1>6. CASE UNCHANGED vars
  BY <1>6 DEF TypeOK, vars
<1>7. QED
  BY <1>1, <1>2, <1>3, <1>4, <1>5, <1>6 DEF Next

(* The state always has its types: no entry is stamped in the future, and  *)
(* a put in flight carries what its half of put_element needs.             *)
THEOREM TypeCorrect == Spec => []TypeOK
<1>1. Init => TypeOK
  BY InitTypeOK
<1>2. TypeOK /\ [Next]_vars => TypeOK'
  BY NextTypeOK
<1>3. QED
  BY <1>1, <1>2, PTL DEF Spec

-----------------------------------------------------------------------------
LEMMA NextGarbage ==
    ASSUME TypeOK, GarbageIsInFlight, [Next]_vars
    PROVE  GarbageIsInFlight'
<1>1. CASE Tick \/ UNCHANGED vars
  BY <1>1 DEF GarbageIsInFlight, Tick, vars
<1>2. ASSUME NEW t \in Threads, NEW s \in Stops, NEW a \in Answers,
             StampEntry(t, s, a)
      PROVE  GarbageIsInFlight'
  <2>1. cache' = cache /\ sweptAt' = sweptAt
    BY <1>2 DEF StampEntry
  <2>2. call[t].pc # "sweep"
    BY <1>2 DEF StampEntry, Idle
  <2>3. \A u \in Threads : call[u].pc = "sweep" => call'[u] = call[u]
    BY <1>2, <2>2 DEF StampEntry, TypeOK
  <2>4. QED
    BY <2>1, <2>3 DEF GarbageIsInFlight
<1>3. ASSUME NEW t \in Threads, PutAssign(t)
      PROVE  GarbageIsInFlight'
  <2> DEFINE s == call[t].stop
  <2>1. /\ cache' = Assign(cache, s, call[t].entry)
        /\ sweptAt' = sweptAt
        /\ call'[t].pc = "sweep" /\ call'[t].stop = s
        /\ \A u \in Threads : call[u].pc = "sweep" => call'[u] = call[u]
    BY <1>3 DEF PutAssign, TypeOK
  <2>2. SUFFICES ASSUME NEW r \in DOMAIN cache', Expired(cache'[r], sweptAt)
                 PROVE  \E u \in Threads : call'[u].pc = "sweep" /\ call'[u].stop = r
    BY <2>1 DEF GarbageIsInFlight
  <2>3. CASE r = s
    BY <2>1, <2>3
  <2>4. CASE r # s
    <3>1. r \in DOMAIN cache /\ cache'[r] = cache[r]
      BY <2>1, <2>4 DEF Assign
    <3>2. QED
      BY <2>1, <2>2, <3>1 DEF GarbageIsInFlight
  <2>5. QED
    BY <2>3, <2>4
<1>4. ASSUME NEW t \in Threads, RemoveStaleEntries(t)
      PROVE  GarbageIsInFlight'
  <2>1. cache' = Swept(cache, now) /\ sweptAt' = now
    BY <1>4 DEF RemoveStaleEntries
  <2>2. \A r \in DOMAIN cache' : ~Expired(cache'[r], sweptAt')
    BY <2>1, SweptFacts
  <2>3. QED
    BY <2>2 DEF GarbageIsInFlight
<1>5. CASE \E t \in Threads, s \in Stops : GetElement(t, s)
  BY <1>5 DEF GarbageIsInFlight, GetElement
<1>6. QED
  BY <1>1, <1>2, <1>3, <1>4, <1>5 DEF Next

(* Whatever the number of threads, the expired entries a completed put     *)
(* leaves behind are those of puts between their two critical sections.    *)
THEOREM GarbageBounded == Spec => []GarbageIsInFlight
<1>1. Init => GarbageIsInFlight
  BY DEF Init, GarbageIsInFlight, EmptyCache
<1>2. TypeOK /\ GarbageIsInFlight /\ [Next]_vars => GarbageIsInFlight'
  BY NextGarbage
<1>3. QED
  BY <1>1, <1>2, TypeCorrect, PTL DEF Spec
-----------------------------------------------------------------------------
(* Refinement: what the sweeps remove is what TtlCache has forgotten.      *)

(* The operators of CacheOps that TtlCache is built from are the ones of   *)
(* this module.                                                            *)
LEMMA SameOps ==
    /\ Abs!EmptyCache = EmptyCache
    /\ \A c, n : Abs!Swept(c, n) = Swept(c, n)
    /\ \A c, s, e : Abs!Assign(c, s, e) = Assign(c, s, e)
    /\ \A c, s, n : Abs!Lookup(c, s, n) = Lookup(c, s, n)
<1>1. Abs!EmptyCache = EmptyCache
  BY DEF EmptyCache, Abs!EmptyCache
<1>2. \A e, n : Abs!Expired(e, n) = Expired(e, n)
  BY DEF Expired, Abs!Expired
<1>3. \A c, n : Abs!Usable(c, n) = Usable(c, n)
  BY <1>2 DEF Usable, Abs!Usable
<1>4. \A c, n : Abs!Swept(c, n) = Swept(c, n)
  BY <1>3 DEF Swept, Abs!Swept, Restrict, Abs!Restrict
<1>5. \A c, s, e : Abs!Assign(c, s, e) = Assign(c, s, e)
  BY DEF Assign, Abs!Assign
<1>6. \A c, s, n : Abs!Lookup(c, s, n) = Lookup(c, s, n)
  BY <1>3 DEF Lookup, Abs!Lookup, Miss, Abs!Miss
<1>7. QED
  BY <1>1, <1>4, <1>5, <1>6

LEMMA CacheIsStamped == TypeOK => Stamped(cache) /\ now \in Int
  BY TimeAssumption DEF TypeOK, Stamped, Entries

LEMMA StepRefines ==
    ASSUME TypeOK, [Next]_vars
    PROVE  [Abs!Next]_(Abs!vars)
<1>0. Stamped(cache) /\ now \in Int
  BY CacheIsStamped
<1>1. CASE Tick
  <2>1. now' = now + 1 /\ cache' = cache /\ lookup' = lookup
    BY <1>1 DEF Tick
  <2>2. Swept(Swept(cache, now), now + 1) = Swept(cache, now + 1)
    BY <1>0, SweptLater
  <2>3. Swept(cache, now)' = Swept(Swept(cache, now), now + 1)
    BY <2>1, <2>2
  <2>4. Abs!Tick
    BY <2>1, <2>3, SameOps DEF Abs!Tick
  <2>5. QED
    BY <2>4 DEF Abs!Next
<1>2. CASE \E t \in Threads, s \in Stops, a \in Answers : StampEntry(t, s, a)
  <2>1. now' = now /\ cache' = cache /\ lookup' = lookup
    BY <1>2 DEF StampEntry
  <2>2. Swept(cache, now)' = Swept(cache, now)
    BY <2>1
  <2>3. QED
    BY <2>1, <2>2 DEF Abs!vars
<1>3. ASSUME NEW t \in Threads, PutAssign(t)
      PROVE  [Abs!Next]_(Abs!vars)
  <2> DEFINE s == call[t].stop
             e == call[t].entry
  <2>1. s \in Stops /\ e \in Entries /\ e.timestamp <= now
    BY <1>3, CallShape DEF PutAssign
  <2>2. cache' = Assign(cache, s, e) /\ now' = now /\ lookup' = lookup
    BY <1>3 DEF PutAssign
  <2>3. Swept(cache, now)' = Swept(Assign(Swept(cache, now), s, e), now)
    BY <2>2, SweptAssign
  <2>4. /\ e.arrivals \in Answers
        /\ e.timestamp \in 0..now
        /\ e = [arrivals |-> e.arrivals, timestamp |-> e.timestamp]
    BY <2>1, <1>0, TimeAssumption DEF Entries
  <2>5. Abs!Store(s, [arrivals |-> e.arrivals, timestamp |-> e.timestamp])
    BY <2>2, <2>3, <2>4, SameOps DEF Abs!Store
  <2>6. QED
    BY <2>1, <2>4, <2>5 DEF Abs!Next
<1>4. CASE \E t \in Threads : RemoveStaleEntries(t)
  <2>1. cache' = Swept(cache, now) /\ now' = now /\ lookup' = lookup
    BY <1>4 DEF RemoveStaleEntries
  <2>2. Swept(Swept(cache, now), now) = Swept(cache, now)
    BY <1>0, SweptLater
  <2>3. Swept(cache, now)' = Swept(cache, now)
    BY <2>1, <2>2
  <2>4. QED
    BY <2>1, <2>3 DEF Abs!vars
<1>5. ASSUME NEW t \in Threads, NEW s \in Stops, GetElement(t, s)
      PROVE  [Abs!Next]_(Abs!vars)
  <2>1. /\ lookup' = [lookup EXCEPT ![t] = Lookup(cache, s, now)]
        /\ cache' = cache /\ now' = now
    BY <1>5 DEF GetElement
  <2>2. Lookup(cache, s, now) = Lookup(Swept(cache, now), s, now)
    BY LookupSwept
  <2>3. Swept(cache, now)' = Swept(cache, now)
    BY <2>1
  <2>4. Abs!Get(t, s)
    BY <2>1, <2>2, <2>3, SameOps DEF Abs!Get
  <2>5. QED
    BY <2>4 DEF Abs!Next
<1>6. CASE UNCHANGED vars
  <2>1. now' = now /\ cache' = cache /\ lookup' = lookup
    BY <1>6 DEF vars
  <2>2. QED
    BY <2>1 DEF Abs!vars
<1>7. QED
  BY <1>1, <1>2, <1>3, <1>4, <1>5, <1>6 DEF Next

(* The cache with its two-part puts, late timestamps and any number of     *)
(* threads implements one self-expiring register per stop.                 *)
THEOREM Refinement == Spec => ImplementsTtlCache
<1>1. Init => Abs!Init
  <2>1. Swept(EmptyCache, 0) = EmptyCache
    BY DEF Swept, Usable, Restrict, EmptyCache
  <2>2. QED
    BY <2>1, SameOps DEF Init, Abs!Init, NoLookup, Abs!NoLookup
<1>2. TypeOK /\ [Next]_vars => [Abs!Next]_(Abs!vars)
  BY StepRefines
<1>3. QED
  BY <1>1, <1>2, TypeCorrect, PTL DEF Spec, ImplementsTtlCache, Abs!Spec
=============================================================================
