--------------------------- MODULE CacheOpsProofs ---------------------------
(***************************************************************************)
(* What the operators on the cache's map do to each other, for any map,    *)
(* windows and times: the lemmas that let the sweeps of the code be        *)
(* invisible to TtlCache.                                                  *)
(***************************************************************************)
EXTENDS CacheOps, TLAPS

(* The clean-up keeps exactly the usable entries, unchanged. *)
LEMMA SweptFacts ==
    ASSUME NEW c, NEW n
    PROVE  /\ DOMAIN Swept(c, n) = {s \in DOMAIN c : ~Expired(c[s], n)}
           /\ \A s \in DOMAIN Swept(c, n) : Swept(c, n)[s] = c[s]
  BY DEF Swept, Usable, Restrict

(* Every entry has a time.                                                 *)
Stamped(c) == \A s \in DOMAIN c : c[s].timestamp \in Int

(* Sweeping now and again later is sweeping later: an entry never becomes  *)
(* usable again.                                                           *)
LEMMA SweptLater ==
    ASSUME NEW c, NEW n \in Int, NEW m \in Int, n <= m, Stamped(c)
    PROVE  Swept(Swept(c, n), m) = Swept(c, m)
<1> DEFINE d == Swept(c, n)
<1>1. DOMAIN d = {s \in DOMAIN c : ~Expired(c[s], n)}
      /\ \A s \in DOMAIN d : d[s] = c[s]
  BY SweptFacts
<1>2. \A s \in DOMAIN c : ~Expired(c[s], m) => ~Expired(c[s], n)
  BY WindowAssumption DEF Expired, Stamped
<1>3. Usable(d, m) = Usable(c, m)
  BY <1>1, <1>2 DEF Usable
<1>4. \A s \in Usable(d, m) : d[s] = c[s]
  BY <1>1 DEF Usable
<1>5. QED
  BY <1>3, <1>4 DEF Swept, Restrict

(* Whether expired entries are swept before an assignment does not show    *)
(* after it.                                                               *)
LEMMA SweptAssign ==
    ASSUME NEW c, NEW n, NEW s, NEW e
    PROVE  Swept(Assign(Swept(c, n), s, e), n) = Swept(Assign(c, s, e), n)
<1> DEFINE d  == Swept(c, n)
           c1 == Assign(c, s, e)
           d1 == Assign(d, s, e)
<1>1. DOMAIN d = {r \in DOMAIN c : ~Expired(c[r], n)}
      /\ \A r \in DOMAIN d : d[r] = c[r]
  BY SweptFacts
<1>2. DOMAIN c1 = DOMAIN c \cup {s} /\ DOMAIN d1 = DOMAIN d \cup {s}
  BY DEF Assign
<1>3. \A r \in DOMAIN d1 : r \in DOMAIN c1 /\ d1[r] = c1[r]
  BY <1>1, <1>2 DEF Assign
<1>4. \A r \in DOMAIN c1 : ~Expired(c1[r], n) => r \in DOMAIN d1
  BY <1>1, <1>2 DEF Assign
<1>5. Usable(d1, n) = Usable(c1, n)
  BY <1>3, <1>4 DEF Usable
<1>6. \A r \in Usable(d1, n) : d1[r] = c1[r]
  BY <1>3 DEF Usable
<1>7. QED
  BY <1>5, <1>6 DEF Swept, Restrict

(* A lookup does not see whether the map has been swept. *)
LEMMA LookupSwept ==
    ASSUME NEW c, NEW n, NEW s
    PROVE  Lookup(Swept(c, n), s, n) = Lookup(c, s, n)
<1> DEFINE d == Swept(c, n)
<1>1. DOMAIN d = {r \in DOMAIN c : ~Expired(c[r], n)}
      /\ \A r \in DOMAIN d : d[r] = c[r]
  BY SweptFacts
<1>2. Usable(d, n) = Usable(c, n)
  BY <1>1 DEF Usable
<1>3. s \in Usable(d, n) => d[s] = c[s]
  BY <1>1 DEF Usable
<1>4. QED
  BY <1>2, <1>3 DEF Lookup
=============================================================================
