---------------------------- MODULE BkkApiProofs ----------------------------
(***************************************************************************)
(* One fetch, for every request, every answer of the service and a         *)
(* response of any length.                                                 *)
(*                                                                         *)
(* The parser first: when its loop has come to stop time i, the arrivals   *)
(* are those of the stop times before i that have a time, each at its      *)
(* Place, and one more than are counted there is where the next one goes.  *)
(* Then the call around it: what it knows of the key, the stop and the     *)
(* parser's outcome at each point.                                         *)
(***************************************************************************)
EXTENDS BkkApi, FiniteSetTheorems, TLAPS

(* The cardinality of the parser's module is that of the library's.        *)
LEMMA SameCardinality == ASSUME NEW S PROVE Parser!Cardinality(S) = Cardinality(S)
  BY DEF Parser!Cardinality, Cardinality

LEMMA Truth ==
    ASSUME NEW b \in BOOLEAN, NEW e, NEW S, b <=> e \in S
    PROVE  b = (e \in S)
  OBVIOUS

LEMMA TruthOf ==
    ASSUME NEW b, NEW e, NEW S, b = (e \in S)
    PROVE  b \in BOOLEAN /\ (b <=> e \in S)
  <1>1. b \in BOOLEAN
    BY SMT
  <1>2. b <=> e \in S
    BY Zenon
  <1> QED
    BY <1>1, <1>2

-----------------------------------------------------------------------------
(* The places.                                                             *)

LEMMA PlaceBasics ==
    ASSUME NEW s, NEW n \in Nat
    PROVE  /\ IsFiniteSet({k \in 1..n : Parser!HasTime(s[k])})
           /\ Parser!Place(s, n) = Cardinality({k \in 1..n : Parser!HasTime(s[k])})
           /\ Parser!Place(s, n) \in Nat
  <1> DEFINE Timed == {k \in 1..n : Parser!HasTime(s[k])}
  <1>1. IsFiniteSet(1..n)
    BY FS_Interval
  <1>2. IsFiniteSet(Timed)
    BY <1>1, FS_Subset
  <1>3. Cardinality(Timed) \in Nat
    BY <1>2, FS_CardinalityType
  <1>4. Parser!Place(s, n) = Cardinality(Timed)
    BY SameCardinality DEF Parser!Place
  <1> QED
    BY <1>2, <1>3, <1>4

LEMMA PlaceZero == ASSUME NEW s PROVE Parser!Place(s, 0) = 0
  <1>1. {k \in 1..0 : Parser!HasTime(s[k])} = {}
    OBVIOUS
  <1>2. Parser!Place(s, 0) = Cardinality({k \in 1..0 : Parser!HasTime(s[k])})
    BY PlaceBasics
  <1> QED
    BY <1>1, <1>2, FS_EmptySet

(* A stop time with a time takes the next place, another one takes none.   *)
LEMMA PlaceNext ==
    ASSUME NEW s, NEW n \in Nat \ {0}
    PROVE  /\ Parser!HasTime(s[n]) => Parser!Place(s, n) = Parser!Place(s, n - 1) + 1
           /\ ~Parser!HasTime(s[n]) => Parser!Place(s, n) = Parser!Place(s, n - 1)
  <1> DEFINE Timed(m) == {k \in 1..m : Parser!HasTime(s[k])}
  <1>1. IsFiniteSet(Timed(n - 1)) /\ Parser!Place(s, n - 1) = Cardinality(Timed(n - 1))
    BY PlaceBasics
  <1>2. Parser!Place(s, n) = Cardinality(Timed(n))
    BY PlaceBasics
  <1>3. 1..n = 1..(n - 1) \cup {n}
    OBVIOUS
  <1>4. CASE Parser!HasTime(s[n])
    <2>1. Timed(n) = Timed(n - 1) \cup {n}
      BY <1>3, <1>4
    <2>2. n \notin Timed(n - 1)
      OBVIOUS
    <2> HIDE DEF Timed
    <2>3. Cardinality(Timed(n - 1) \cup {n}) = Cardinality(Timed(n - 1)) + 1
      BY <1>1, <2>2, FS_AddElement
    <2> QED
      BY <1>1, <1>2, <1>4, <2>1, <2>3
  <1>5. CASE ~Parser!HasTime(s[n])
    <2>1. Timed(n) = Timed(n - 1)
      BY <1>3, <1>5
    <2> HIDE DEF Timed
    <2> QED
      BY <1>1, <1>2, <1>5, <2>1
  <1> QED
    BY <1>4, <1>5

(* The places of the first n stop times are 1 to Place(n).                 *)
LEMMA PlaceRange ==
    ASSUME NEW s, NEW n \in Nat, NEW k \in 1..n, Parser!HasTime(s[k])
    PROVE  Parser!Place(s, k) \in 1..Parser!Place(s, n)
  <1> DEFINE Timed(m) == {j \in 1..m : Parser!HasTime(s[j])}
  <1>1. IsFiniteSet(Timed(n)) /\ Parser!Place(s, n) = Cardinality(Timed(n))
    BY PlaceBasics
  <1>2. Parser!Place(s, k) = Cardinality(Timed(k))
    BY PlaceBasics
  <1>3. Timed(k) \subseteq Timed(n)
    OBVIOUS
  <1>4. k \in Nat \ {0} /\ k - 1 \in Nat
    OBVIOUS
  <1> HIDE DEF Timed
  <1>5. Cardinality(Timed(k)) <= Cardinality(Timed(n))
    BY <1>1, <1>3, FS_Subset
  <1>6. Parser!Place(s, k) = Parser!Place(s, k - 1) + 1 /\ Parser!Place(s, k - 1) \in Nat
    BY <1>4, PlaceNext, PlaceBasics
  <1>7. Parser!Place(s, n) \in Nat
    BY PlaceBasics
  <1> QED
    BY <1>1, <1>2, <1>5, <1>6, <1>7

-----------------------------------------------------------------------------
(* Rounding to the nearest minute is off by half a minute at most, and by  *)
(* all of it only away from zero.                                          *)
LEMMA RoundedMinutes ==
    ASSUME NEW p \in Int, NEW m, m = Parser!Round(p, 60000)
    PROVE  /\ m \in Int
           /\ p >= 0 => -30000 < 60000 * m - p /\ 60000 * m - p <= 30000
           /\ p < 0 => -30000 <= 60000 * m - p /\ 60000 * m - p < 30000
  <1>1. ASSUME NEW a \in Int
        PROVE  /\ a \div 120000 \in Int
               /\ 120000 * (a \div 120000) <= a
               /\ a < 120000 * (a \div 120000) + 120000
    OBVIOUS
  <1>2. CASE p >= 0
    <2> DEFINE q == (2 * p + 60000) \div 120000
    <2>1. m = q
      BY <1>2 DEF Parser!Round
    <2>2. q \in Int /\ 120000 * q <= 2 * p + 60000 /\ 2 * p + 60000 < 120000 * q + 120000
      BY <1>1
    <2> HIDE DEF q
    <2> QED
      BY <1>2, <2>1, <2>2
  <1>3. CASE ~(p >= 0)
    <2> DEFINE q == (60000 - 2 * p) \div 120000
    <2>1. m = -q
      BY <1>3 DEF Parser!Round
    <2>2. q \in Int /\ 120000 * q <= 60000 - 2 * p /\ 60000 - 2 * p < 120000 * q + 120000
      BY <1>1
    <2> HIDE DEF q
    <2> QED
      BY <1>3, <2>1, <2>2
  <1> QED
    BY <1>2, <1>3

(* A member's item is its field, anything else's is missing, and nothing   *)
(* is found in what is missing.                                            *)
LEMMA ItemFound ==
    ASSUME NEW json, NEW name
    PROVE  /\ name \in Parser!Members(json) => Parser!Item(json, name) = json.fields[name]
           /\ name \notin Parser!Members(json) => Parser!Item(json, name) = Parser!Missing
           /\ Parser!Text(Parser!Item(Parser!Missing, name)) = ""
  BY DEF Parser!Members, Parser!Item, Parser!Missing, Parser!Text

(* The route ids the references have for a stop time are the one the code  *)
(* finds, if it finds one.                                                 *)
LEMMA RouteIdFound ==
    ASSUME NEW s
    PROVE  Parser!RouteIdsFor(s) = {Parser!RouteIdOf(s)} \ {""}
  <1> DEFINE trips == Parser!Item(Parser!References, "trips")
             trip == Parser!Text(Parser!Item(s, "tripId"))
             own == {u \in Parser!Members(trips) : u = trip}
             IdOf(t) == Parser!Text(Parser!Item(trips.fields[t], "routeId"))
  <1>1. Parser!RouteIdsFor(s) = {IdOf(t) : t \in own} \ {""}
    BY DEF Parser!RouteIdsFor
  <1>2. Parser!RouteIdOf(s) = Parser!Text(Parser!Item(Parser!Item(trips, trip), "routeId"))
    BY DEF Parser!RouteIdOf, Parser!TripOf
  <1>3. CASE trip \in Parser!Members(trips)
    <2>1. own = {trip}
      BY <1>3
    <2>2. Parser!RouteIdOf(s) = IdOf(trip)
      BY <1>2, <1>3, ItemFound
    <2> HIDE DEF own, IdOf
    <2>3. {IdOf(t) : t \in own} = {IdOf(trip)}
      BY <2>1
    <2> QED
      BY <1>1, <2>2, <2>3
  <1>4. CASE trip \notin Parser!Members(trips)
    <2>1. own = {}
      BY <1>4
    <2>2. Parser!RouteIdOf(s) = ""
      BY <1>2, <1>4, ItemFound
    <2> HIDE DEF own, IdOf
    <2> QED
      BY <1>1, <2>1, <2>2
  <1> QED
    BY <1>3, <1>4

(* So are the routes.                                                      *)
LEMMA RouteFound ==
    ASSUME NEW s
    PROVE  \/ Parser!RoutesFor(s) = {Parser!Route(Parser!RouteIdOf(s))}
           \/ Parser!RoutesFor(s) = {} /\ Parser!Route(Parser!RouteIdOf(s)) = Parser!Missing
  <1> DEFINE routes == Parser!Item(Parser!References, "routes")
             id == Parser!RouteIdOf(s)
             named == Parser!Members(routes) \cap Parser!RouteIdsFor(s)
  <1>1. Parser!RoutesFor(s) = {routes.fields[r] : r \in named}
    BY DEF Parser!RoutesFor
  <1>2. Parser!Route(id) = IF id = "" THEN Parser!Missing ELSE Parser!Item(routes, id)
    BY DEF Parser!Route
  <1>3. Parser!RouteIdsFor(s) = {id} \ {""}
    BY RouteIdFound
  <1>4. CASE id # "" /\ id \in Parser!Members(routes)
    <2>1. named = {id} /\ Parser!Route(id) = routes.fields[id]
      BY <1>2, <1>3, <1>4, ItemFound
    <2> HIDE DEF named
    <2> QED
      BY <1>1, <2>1
  <1>5. CASE id = "" \/ id \notin Parser!Members(routes)
    <2>1. named = {} /\ Parser!Route(id) = Parser!Missing
      BY <1>2, <1>3, <1>5, ItemFound
    <2> HIDE DEF named
    <2> QED
      BY <1>1, <2>1
  <1> QED
    BY <1>4, <1>5

(* The three parts of ArrivalsFitStopTimes, of the arrival made from a     *)
(* stop time.                                                              *)
LEMMA LineFits == ASSUME NEW s PROVE Parser!LineIsNamed(Parser!ArrivalOf(s), s)
  <1> DEFINE id == Parser!RouteIdOf(s)
             NameOf(r) == Parser!Text(Parser!Item(r, "shortName"))
             name == NameOf(Parser!Route(id))
  <1>1. Parser!ArrivalOf(s).line = Parser!Line(s)
    BY DEF Parser!ArrivalOf
  <1>2. Parser!NamesFor(s) = {NameOf(r) : r \in Parser!RoutesFor(s)} \ {""}
    BY DEF Parser!NamesFor
  <1>3. NameOf(Parser!Missing) = ""
    BY ItemFound
  <1>4. Parser!NamesFor(s) = {name} \ {""}
    <2>1. CASE Parser!RoutesFor(s) = {Parser!Route(id)}
      <3> HIDE DEF NameOf
      <3> QED
        BY <1>2, <2>1
    <2>2. CASE Parser!RoutesFor(s) = {} /\ Parser!Route(id) = Parser!Missing
      <3> HIDE DEF NameOf
      <3> QED
        BY <1>2, <1>3, <2>2
    <2> QED
      BY <2>1, <2>2, RouteFound
  <1>5. Parser!RouteIdsFor(s) = {id} \ {""}
    BY RouteIdFound
  <1>6. Parser!Line(s) = CASE name # "" -> name
                           [] name = "" /\ id # "" -> id
                           [] OTHER -> "n.a."
    BY DEF Parser!Line
  <1> HIDE DEF id, name
  <1>7. CASE name # ""
    BY <1>1, <1>4, <1>6, <1>7 DEF Parser!LineIsNamed
  <1>8. CASE name = "" /\ id # ""
    BY <1>1, <1>4, <1>5, <1>6, <1>8 DEF Parser!LineIsNamed
  <1>9. CASE name = "" /\ id = ""
    BY <1>1, <1>4, <1>5, <1>6, <1>9 DEF Parser!LineIsNamed
  <1> QED
    BY <1>7, <1>8, <1>9

LEMMA VehicleFits == ASSUME NEW s PROVE Parser!VehicleShownAsSent(Parser!ArrivalOf(s), s)
  <1> DEFINE TypeOf(r) == Parser!Text(Parser!Item(r, "type"))
             text == TypeOf(Parser!Route(Parser!RouteIdOf(s)))
             sent == {TypeOf(r) : r \in Parser!RoutesFor(s)} \cap Parser!KnownTypes
  <1>1. Parser!ArrivalOf(s).vehicle_type = Parser!VehicleType(text)
    BY DEF Parser!ArrivalOf
  <1>2. ASSUME NEW t
        PROVE  Parser!VehicleName(Parser!VehicleType(t))
                 = IF t \in Parser!KnownTypes THEN t ELSE "UNKNOWN"
    BY DEF Parser!VehicleName, Parser!VehicleType, Parser!SameTypes, Parser!KnownTypes
  <1>3. TypeOf(Parser!Missing) = "" /\ "" \notin Parser!KnownTypes
    BY ItemFound DEF Parser!KnownTypes, Parser!SameTypes
  <1>4. sent = {text} \cap Parser!KnownTypes
    <2>1. CASE Parser!RoutesFor(s) = {Parser!Route(Parser!RouteIdOf(s))}
      <3> HIDE DEF TypeOf
      <3> QED
        BY <2>1
    <2>2. CASE /\ Parser!RoutesFor(s) = {}
               /\ Parser!Route(Parser!RouteIdOf(s)) = Parser!Missing
      <3> HIDE DEF TypeOf
      <3> QED
        BY <1>3, <2>2
    <2> QED
      BY <2>1, <2>2, RouteFound
  <1>5. Parser!VehicleShownAsSent(Parser!ArrivalOf(s), s)
          <=> Parser!VehicleName(Parser!ArrivalOf(s).vehicle_type)
                \in (IF sent = {} THEN {"UNKNOWN"} ELSE sent)
    BY DEF Parser!VehicleShownAsSent
  <1>6. Parser!VehicleName(Parser!ArrivalOf(s).vehicle_type)
          = IF text \in Parser!KnownTypes THEN text ELSE "UNKNOWN"
    BY <1>1, <1>2
  <1> HIDE DEF text, sent
  <1> QED
    BY <1>4, <1>5, <1>6

LEMMA MinutesFit ==
    ASSUME body \in Bodies, NEW s, Parser!Departure(s) \in Int
    PROVE  Parser!MinutesFromCurrentTime(Parser!ArrivalOf(s))
  <1> DEFINE p == 1000 * Parser!Departure(s) - Parser!Clock
  <1>1. Parser!ApiTime = Parser!Clock /\ Parser!Clock \in Int
    BY BodiesAssumption DEF Parser!ApiTime, Parser!Clock, Parser!TellsServiceTime
  <1>2. p \in Int /\ Parser!Departure(s) * 1000 - Parser!ApiTime = p
    BY <1>1
  <1>3. /\ Parser!ArrivalOf(s).departs_in_min = Parser!Round(p, 60000)
        /\ 1000 * Parser!ArrivalOf(s).timestamp - Parser!Clock = p
    BY <1>2 DEF Parser!ArrivalOf, Parser!Minutes
  <1> HIDE DEF p
  <1> DEFINE m == Parser!Round(p, 60000)
  <1>4. /\ m \in Int
        /\ p >= 0 => -30000 < 60000 * m - p /\ 60000 * m - p <= 30000
        /\ p < 0 => -30000 <= 60000 * m - p /\ 60000 * m - p < 30000
    BY <1>2, RoundedMinutes
  <1> HIDE DEF m
  <1>5. Parser!ArrivalOf(s).departs_in_min = m
    BY <1>3 DEF m
  <1> QED
    BY <1>3, <1>4, <1>5 DEF Parser!MinutesFromCurrentTime

(* What a stop time gives depends on the body alone.                       *)
LEMMA SameBody ==
    ASSUME body' = body
    PROVE  /\ Parser!StopTimes' = Parser!StopTimes
           /\ Parser!Verdict' = Parser!Verdict
           /\ \A s : Parser!ArrivalOf(s)' = Parser!ArrivalOf(s)
  <1>1. Parser!StopTimes' = Parser!StopTimes
    BY DEF Parser!StopTimes
  <1>2. Parser!Verdict' = Parser!Verdict
    BY <1>1 DEF Parser!Verdict, Parser!Data, Parser!Entry
  <1>3. Parser!References' = Parser!References /\ Parser!ApiTime' = Parser!ApiTime
    BY DEF Parser!References, Parser!Data, Parser!ApiTime
  <1>4. ASSUME NEW s PROVE Parser!ArrivalOf(s)' = Parser!ArrivalOf(s)
    <2>1. \A t : Parser!TripOf(t)' = Parser!TripOf(t) /\ Parser!Route(t)' = Parser!Route(t)
      BY <1>3 DEF Parser!TripOf, Parser!Route
    <2>2. Parser!RouteIdOf(s)' = Parser!RouteIdOf(s)
      BY <2>1 DEF Parser!RouteIdOf
    <2>3. Parser!Line(s)' = Parser!Line(s) /\ Parser!Destination(s)' = Parser!Destination(s)
      BY <2>1, <2>2 DEF Parser!Line, Parser!Destination
    <2>4. Parser!Minutes(Parser!Departure(s))' = Parser!Minutes(Parser!Departure(s))
      BY <1>3 DEF Parser!Minutes
    <2> QED
      BY <2>1, <2>2, <2>3, <2>4 DEF Parser!ArrivalOf
  <1> QED
    BY <1>1, <1>2, <1>4

-----------------------------------------------------------------------------
(* The parser's invariant.  Items are the stop times of a body that has    *)
(* some; Made is what they may give.                                       *)

HasItems == Parser!StopTimes.type = "array"

Items == Parser!StopTimes.items

Timed == {n \in 1..Len(Items) : Parser!HasTime(Items[n])}

Made == {Parser!ArrivalOf(Items[n]) : n \in Timed}

ParserInv ==
    /\ body \in Bodies
    /\ Parser!TypeOK
    /\ pc \in {"start", "check"} => i = 1
    /\ pc \in {"loop", "threw"} => HasItems
    /\ IF HasItems THEN i <= Len(Items) + 1 /\ arrivals \in Seq(Made)
                   ELSE i = 1 /\ arrivals = <<>>
    /\ EveryTimedStopTimeOnce
    /\ StatusTellsArrivals

(* What the call knows before, at and after the parse.                     *)
CallInv ==
    /\ req \in Requests
    /\ at \in {"begin", "transfer", "parse", "returned"}
    /\ asked \in {None} \cup {UpstreamStop(r.stop) : r \in Requests}
    /\ handle = (at = "transfer")
    /\ result \in {"none", "MissingApiKey", "CurlInitFailed", "CurlPerformFailed",
                   "InvalidApiKey", "HttpError", "ArrivalsParseFailed",
                   "UnexpectedException", "Ok"}
    /\ result # "none" <=> at = "returned"
    /\ at \in {"begin", "transfer"} => pc = "start"
    /\ at = "transfer" => req.key # "empty" /\ asked = UpstreamStop(req.stop)
    /\ at = "parse" => req.key = "valid" /\ asked = UpstreamStop(req.stop)
    /\ OutcomeIsExpected
    /\ NothingLeftBehind

Inv == ParserInv /\ CallInv

LEMMA SameItems ==
    ASSUME body' = body
    PROVE  HasItems' = HasItems /\ Items' = Items /\ Timed' = Timed /\ Made' = Made
  <1>1. HasItems' = HasItems /\ Items' = Items
    BY SameBody DEF HasItems, Items
  <1>2. Timed' = Timed
    BY <1>1 DEF Timed
  <1>3. Made' = Made
    BY <1>1, <1>2, SameBody DEF Made
  <1> QED
    BY <1>1, <1>2, <1>3

LEMMA ItemsAreListed ==
    ASSUME body \in Bodies, HasItems
    PROVE  /\ Items \in Seq({Items[n] : n \in DOMAIN Items})
           /\ Len(Items) \in Nat /\ DOMAIN Items = 1..Len(Items)
           /\ \A n \in Timed : Parser!Departure(Items[n]) \in Int
           /\ 1..Len(Items) \subseteq Counts
  <1>1. Items = Parser!StopTimesIn(body).items /\ Parser!StopTimesIn(body).type = "array"
    BY DEF HasItems, Items, Parser!StopTimes
  <1>2. /\ Items \in Seq({Items[n] : n \in DOMAIN Items})
        /\ \A n \in DOMAIN Items : Parser!HasTime(Items[n]) => Parser!Departure(Items[n]) \in Int
    BY <1>1, BodiesAssumption DEF Parser!WellFormed
  <1>3. Len(Items) \in Nat /\ DOMAIN Items = 1..Len(Items)
    BY <1>2
  <1>4. 1..Len(Items) \subseteq Counts
    BY <1>1, ResultsAssumption
  <1> QED
    BY <1>2, <1>3, <1>4 DEF Timed

(* A usable frame has stop times. *)
LEMMA UsableHasItems == ASSUME Parser!Verdict = "Usable" PROVE HasItems
  BY DEF Parser!Verdict, HasItems

LEMMA ParserTypes ==
    ASSUME ParserInv
    PROVE  /\ i \in Nat \ {0} /\ skipped \in Nat /\ Len(arrivals) \in Nat
           /\ Len(arrivals) + skipped = i - 1
           /\ pc \in {"start", "check", "loop", "threw", "done"}
           /\ tree \in BOOLEAN
           /\ tree <=> pc \in {"check", "loop", "threw"}
           /\ status \in Parser!ParseStatuses \cup {"none"}
           /\ status # "none" <=> pc = "done"
           /\ Len(arrivals) = 0 <=> arrivals = <<>>
  <1>1. /\ i \in Nat \ {0} /\ skipped \in Nat /\ Len(arrivals) + skipped = i - 1
        /\ pc \in {"start", "check", "loop", "threw", "done"}
        /\ tree = (pc \in {"check", "loop", "threw"})
        /\ status \in Parser!ParseStatuses \cup {"none"}
        /\ status # "none" <=> pc = "done"
    BY DEF ParserInv, Parser!TypeOK
  <1>2. tree \in BOOLEAN /\ (tree <=> pc \in {"check", "loop", "threw"})
    BY <1>1, TruthOf
  <1>3. Len(arrivals) \in Nat /\ (Len(arrivals) = 0 <=> arrivals = <<>>)
    <2>1. CASE HasItems
      <3>1. arrivals \in Seq(Made)
        BY <2>1 DEF ParserInv
      <3> QED
        BY <3>1
    <2>2. CASE ~HasItems
      BY <2>2 DEF ParserInv
    <2> QED
      BY <2>1, <2>2
  <1> QED
    BY <1>1, <1>2, <1>3

(* The parser's type invariant from its parts. *)
LEMMA ParserTypeOK ==
    ASSUME pc' \in {"start", "check", "loop", "threw", "done"},
           tree' \in BOOLEAN, tree' <=> pc' \in {"check", "loop", "threw"},
           i' \in Nat \ {0}, skipped' \in Nat, Len(arrivals') + skipped' = i' - 1,
           status' \in Parser!ParseStatuses \cup {"none"},
           status' # "none" <=> pc' = "done"
    PROVE  Parser!TypeOK'
  <1>1. tree' = (pc' \in {"check", "loop", "threw"})
    BY Truth
  <1> QED
    BY <1>1 DEF Parser!TypeOK

(* The steps that leave the arrivals alone. *)
LEMMA SamePart ==
    ASSUME ParserInv, UNCHANGED <<body, i, arrivals>>
    PROVE  /\ body' \in Bodies
           /\ IF HasItems' THEN i' <= Len(Items') + 1 /\ arrivals' \in Seq(Made')
                           ELSE i' = 1 /\ arrivals' = <<>>
           /\ EveryTimedStopTimeOnce'
  <1>1. EveryTimedStopTimeOnce'
    BY SameBody DEF ParserInv, EveryTimedStopTimeOnce, Parser!EveryTimedStopTimeOnce
  <1> QED
    BY <1>1, SameItems DEF ParserInv

LEMMA ParserInit == ASSUME Parser!Init PROVE ParserInv
  <1>1. Parser!TypeOK
    <2>1. tree = (pc \in {"check", "loop", "threw"})
      BY Truth DEF Parser!Init
    <2>2. Len(arrivals) + skipped = i - 1
      BY DEF Parser!Init
    <2> QED
      BY <2>1, <2>2 DEF Parser!Init, Parser!TypeOK
  <1>2. EveryTimedStopTimeOnce
    <2>1. Parser!Place(Parser!StopTimes.items, 0) = 0
      BY PlaceZero
    <2> QED
      BY <2>1 DEF Parser!Init, EveryTimedStopTimeOnce, Parser!EveryTimedStopTimeOnce
  <1>3. HasItems => i <= Len(Items) + 1 /\ arrivals \in Seq(Made)
    BY ItemsAreListed DEF Parser!Init
  <1> QED
    BY <1>1, <1>2, <1>3 DEF ParserInv, Parser!Init, StatusTellsArrivals,
       Parser!StatusTellsArrivals

(* The returns: nothing but the status is new. *)
LEMMA ParserReturn ==
    ASSUME ParserInv, NEW result1 \in Parser!ParseStatuses,
           body' = body, i' = i, skipped' = skipped, arrivals' = arrivals,
           status' = result1, tree' = FALSE, pc' = "done",
           result1 \in Parser!Successes <=> arrivals # <<>>,
           result1 = "Success" => Len(arrivals) = Len(Items),
           result1 = "SuccessWithWarnings" => Len(arrivals) < Len(Items)
    PROVE  ParserInv'
  <1>1. Parser!TypeOK'
    <2>1. Len(arrivals') + skipped' = i' - 1 /\ i' \in Nat \ {0} /\ skipped' \in Nat
      BY ParserTypes
    <2>2. status' # "none" /\ status' \in Parser!ParseStatuses \cup {"none"}
      BY DEF Parser!ParseStatuses
    <2> QED
      BY <2>1, <2>2, ParserTypeOK
  <1>2. StatusTellsArrivals'
    <2>1. Items' = Items /\ Parser!StopTimes' = Parser!StopTimes
      BY SameItems, SameBody
    <2> QED
      BY <2>1 DEF StatusTellsArrivals, Parser!StatusTellsArrivals, Parser!Successes, Items
  <1> QED
    BY <1>1, <1>2, SamePart DEF ParserInv

LEMMA NoArrivals == ASSUME ParserInv, pc \in {"start", "check"} PROVE i = 1 /\ arrivals = <<>>
  BY ParserTypes DEF ParserInv

LEMMA ParseStep == ASSUME ParserInv, Parser!Parse PROVE ParserInv'
  <1>1. Parser!TypeOK'
    <2>1. Len(arrivals') + skipped' = i' - 1 /\ i' \in Nat \ {0} /\ skipped' \in Nat
      BY ParserTypes DEF Parser!Parse
    <2>2. /\ status' \in Parser!ParseStatuses \cup {"none"} /\ status' = "none"
          /\ tree' = TRUE /\ pc' = "check"
      BY ParserTypes DEF Parser!Parse
    <2> QED
      BY <2>1, <2>2, ParserTypeOK
  <1>2. i' = 1
    BY NoArrivals DEF Parser!Parse
  <1> QED
    BY <1>1, <1>2, SamePart DEF ParserInv, Parser!Parse, StatusTellsArrivals,
       Parser!StatusTellsArrivals

LEMMA ParseFailsStep == ASSUME ParserInv, Parser!ParseFails PROVE ParserInv'
  <1> DEFINE res == "InvalidJson"
  <1>1. res \in Parser!ParseStatuses /\ res \notin Parser!Successes
    BY DEF Parser!ParseStatuses, Parser!Successes
  <1>2. arrivals = <<>>
    BY NoArrivals DEF Parser!ParseFails
  <1>3. /\ body' = body /\ i' = i /\ skipped' = skipped /\ arrivals' = arrivals
        /\ status' = res /\ tree' = FALSE /\ pc' = "done"
    BY DEF Parser!ParseFails, Parser!Return
  <1>4. res # "Success" /\ res # "SuccessWithWarnings"
    OBVIOUS
  <1> HIDE DEF res
  <1> QED
    BY <1>1, <1>2, <1>3, <1>4, ParserReturn

LEMMA RejectStep == ASSUME ParserInv, Parser!Reject PROVE ParserInv'
  <1> DEFINE res == Parser!Verdict
  <1>1. /\ res \in Parser!ParseStatuses /\ res \notin Parser!Successes
        /\ res # "Success" /\ res # "SuccessWithWarnings"
    BY DEF Parser!Reject, Parser!Verdict, Parser!ParseStatuses, Parser!Successes
  <1>2. arrivals = <<>>
    BY NoArrivals DEF Parser!Reject
  <1>3. /\ body' = body /\ i' = i /\ skipped' = skipped /\ arrivals' = arrivals
        /\ status' = res /\ tree' = FALSE /\ pc' = "done"
    BY DEF Parser!Reject, Parser!Return
  <1> HIDE DEF res
  <1> QED
    BY <1>1, <1>2, <1>3, ParserReturn

LEMMA AcceptStep == ASSUME ParserInv, Parser!Accept PROVE ParserInv'
  <1>1. Parser!TypeOK'
    <2>1. Len(arrivals') + skipped' = i' - 1 /\ i' \in Nat \ {0} /\ skipped' \in Nat
      BY ParserTypes DEF Parser!Accept
    <2>2. /\ status' \in Parser!ParseStatuses \cup {"none"} /\ status' = "none"
          /\ tree' = TRUE /\ pc' = "loop"
      BY ParserTypes DEF Parser!Accept
    <2> QED
      BY <2>1, <2>2, ParserTypeOK
  <1>2. HasItems'
    BY SameItems, UsableHasItems DEF Parser!Accept
  <1> QED
    BY <1>1, <1>2, SamePart DEF ParserInv, Parser!Accept, StatusTellsArrivals,
       Parser!StatusTellsArrivals

LEMMA ThrowStep == ASSUME ParserInv, Parser!Throw PROVE ParserInv'
  <1>1. Parser!TypeOK'
    <2>1. Len(arrivals') + skipped' = i' - 1 /\ i' \in Nat \ {0} /\ skipped' \in Nat
      BY ParserTypes DEF Parser!Throw
    <2>2. /\ status' \in Parser!ParseStatuses \cup {"none"} /\ status' = "none"
          /\ tree' = TRUE /\ pc' = "threw"
      BY ParserTypes DEF Parser!Throw, Parser!InLoop
    <2> QED
      BY <2>1, <2>2, ParserTypeOK
  <1>2. HasItems'
    BY SameItems DEF Parser!Throw, Parser!InLoop, ParserInv
  <1> QED
    BY <1>1, <1>2, SamePart DEF ParserInv, Parser!Throw, StatusTellsArrivals,
       Parser!StatusTellsArrivals

LEMMA FinishStep == ASSUME ParserInv, Parser!Finish PROVE ParserInv'
  <1> DEFINE res == status'
  <1>1. /\ body' = body /\ i' = i /\ skipped' = skipped /\ arrivals' = arrivals
        /\ status' = res /\ tree' = FALSE /\ pc' = "done"
    BY DEF Parser!Finish, Parser!Return
  <1>2. HasItems /\ i <= Len(Items) + 1 /\ ~(i <= Len(Items)) /\ Len(Items) \in Nat
    BY ItemsAreListed DEF ParserInv, Parser!Finish, Parser!InLoop, Items
  <1>3. Len(arrivals) + skipped = Len(Items) /\ skipped \in Nat /\ Len(arrivals) \in Nat
    BY <1>2, ParserTypes
  <1>4. \/ res = "NoValidStopTimes" /\ arrivals = <<>>
        \/ res = "SuccessWithWarnings" /\ arrivals # <<>> /\ skipped > 0
        \/ res = "Success" /\ arrivals # <<>> /\ skipped = 0
    BY <1>3 DEF Parser!Finish, Parser!Return
  <1>5. res \in Parser!ParseStatuses /\ (res \in Parser!Successes <=> arrivals # <<>>)
    BY <1>4 DEF Parser!ParseStatuses, Parser!Successes
  <1>6. /\ res = "Success" => Len(arrivals) = Len(Items)
        /\ res = "SuccessWithWarnings" => Len(arrivals) < Len(Items)
    BY <1>3, <1>4
  <1> HIDE DEF res
  <1> QED
    BY <1>1, <1>5, <1>6, ParserReturn

(* A stop time without a time takes no place. *)
LEMMA SkipStep == ASSUME ParserInv, Parser!SkipStopTime PROVE ParserInv'
  <1>1. /\ pc = "loop" /\ i <= Len(Items) /\ ~Parser!HasTime(Items[i])
        /\ skipped' = skipped + 1 /\ i' = i + 1
        /\ body' = body /\ pc' = pc /\ tree' = tree /\ arrivals' = arrivals /\ status' = status
    BY DEF Parser!SkipStopTime, Parser!InLoop, Items
  <1>2. HasItems /\ Len(Items) \in Nat
    BY <1>1, ItemsAreListed DEF ParserInv
  <1>3. Parser!TypeOK'
    <2>1. Len(arrivals') + skipped' = i' - 1 /\ i' \in Nat \ {0} /\ skipped' \in Nat
      BY <1>1, ParserTypes
    <2>2. /\ pc' = "loop" /\ tree' = TRUE
          /\ status' \in Parser!ParseStatuses \cup {"none"} /\ status' = "none"
      BY <1>1, ParserTypes
    <2> QED
      BY <2>1, <2>2, ParserTypeOK
  <1>4. EveryTimedStopTimeOnce'
    <2>1. i \in Nat \ {0} /\ i' - 1 = i
      BY <1>1, ParserTypes
    <2>2. Parser!Place(Items, i) = Parser!Place(Items, i - 1)
      BY <1>1, <2>1, PlaceNext
    <2>3. \A n \in 1..i : Parser!HasTime(Items[n]) => n \in 1..(i - 1)
      BY <1>1, <2>1
    <2> QED
      BY <1>1, <2>1, <2>2, <2>3, SameBody
      DEF ParserInv, EveryTimedStopTimeOnce, Parser!EveryTimedStopTimeOnce, Items
  <1>5. HasItems' /\ i' <= Len(Items') + 1 /\ arrivals' \in Seq(Made')
    BY <1>1, <1>2, SameItems, ParserTypes DEF ParserInv
  <1> QED
    BY <1>1, <1>3, <1>4, <1>5 DEF ParserInv, StatusTellsArrivals, Parser!StatusTellsArrivals

(* The others keep theirs, and the arrival of one with a time takes the next. *)
LEMMA PushStep == ASSUME ParserInv, Parser!PushArrival PROVE ParserInv'
  <1>1. /\ pc = "loop" /\ i <= Len(Items) /\ Parser!HasTime(Items[i])
        /\ arrivals' = Append(arrivals, Parser!ArrivalOf(Items[i])) /\ i' = i + 1
        /\ body' = body /\ pc' = pc /\ tree' = tree /\ skipped' = skipped /\ status' = status
    BY DEF Parser!PushArrival, Parser!InLoop, Items
  <1>2. HasItems /\ Len(Items) \in Nat
    BY <1>1, ItemsAreListed DEF ParserInv
  <1>3. /\ i \in Nat \ {0} /\ i - 1 \in Nat /\ i' - 1 = i
        /\ skipped \in Nat /\ Len(arrivals) \in Nat /\ Len(arrivals) + skipped = i - 1
    BY <1>1, ParserTypes
  <1>4. arrivals \in Seq(Made) /\ Parser!ArrivalOf(Items[i]) \in Made
    BY <1>1, <1>2, <1>3 DEF ParserInv, Made, Timed
  <1>5. /\ arrivals' \in Seq(Made) /\ Len(arrivals') = Len(arrivals) + 1
        /\ arrivals'[Len(arrivals) + 1] = Parser!ArrivalOf(Items[i])
        /\ \A n \in 1..Len(arrivals) : arrivals'[n] = arrivals[n]
    <2> DEFINE new == Parser!ArrivalOf(Items[i])
    <2>1. arrivals' = Append(arrivals, new) /\ new \in Made
      BY <1>1, <1>4
    <2> HIDE DEF new
    <2>2. arrivals' \in Seq(Made) /\ Len(arrivals') = Len(arrivals) + 1
      BY <1>4, <2>1
    <2>3. arrivals'[Len(arrivals) + 1] = new
      BY <1>4, <2>1
    <2>4. \A n \in 1..Len(arrivals) : arrivals'[n] = arrivals[n]
      BY <1>4, <2>1
    <2> QED
      BY <2>2, <2>3, <2>4 DEF new
  <1>6. Parser!TypeOK'
    <2>1. Len(arrivals') = Len(arrivals) + 1 /\ skipped' = skipped /\ i' = i + 1
      BY <1>1, <1>5
    <2>2. Len(arrivals') + skipped' = i' - 1 /\ i' \in Nat \ {0} /\ skipped' \in Nat
      BY <1>3, <2>1
    <2>3. /\ pc' = "loop" /\ tree' = TRUE
          /\ status' \in Parser!ParseStatuses \cup {"none"} /\ status' = "none"
      BY <1>1, ParserTypes
    <2> QED
      BY <2>2, <2>3, ParserTypeOK
  <1>7. EveryTimedStopTimeOnce'
    <2>1. /\ Len(arrivals) = Parser!Place(Items, i - 1)
          /\ \A n \in 1..(i - 1) : Parser!HasTime(Items[n]) =>
                 arrivals[Parser!Place(Items, n)] = Parser!ArrivalOf(Items[n])
      BY DEF ParserInv, EveryTimedStopTimeOnce, Parser!EveryTimedStopTimeOnce, Items
    <2>2. Parser!Place(Items, i) = Len(arrivals) + 1
      BY <1>1, <1>3, <2>1, PlaceNext
    <2>3. ASSUME NEW n \in 1..i, Parser!HasTime(Items[n])
          PROVE  arrivals'[Parser!Place(Items, n)] = Parser!ArrivalOf(Items[n])
      <3>1. CASE n = i
        BY <1>5, <2>2, <3>1
      <3>2. CASE n # i
        <4>1. n \in 1..(i - 1)
          BY <1>3, <3>2
        <4>2. Parser!Place(Items, n) \in 1..Len(arrivals)
          BY <1>3, <2>1, <2>3, <4>1, PlaceRange
        <4> QED
          BY <1>5, <2>1, <2>3, <4>1, <4>2
      <3> QED
        BY <3>1, <3>2
    <2>4. Len(arrivals') = Parser!Place(Items, i' - 1)
      BY <1>3, <1>5, <2>2
    <2>5. Parser!StopTimes' = Parser!StopTimes /\ \A s : Parser!ArrivalOf(s)' = Parser!ArrivalOf(s)
      BY <1>1, SameBody
    <2> QED
      BY <1>3, <2>3, <2>4, <2>5
      DEF EveryTimedStopTimeOnce, Parser!EveryTimedStopTimeOnce, Items
  <1>8. HasItems' /\ i' <= Len(Items') + 1 /\ arrivals' \in Seq(Made')
    BY <1>1, <1>2, <1>3, <1>5, SameItems
  <1> QED
    BY <1>1, <1>6, <1>7, <1>8 DEF ParserInv, StatusTellsArrivals, Parser!StatusTellsArrivals

LEMMA ParserNext == ASSUME ParserInv, Parser!Next PROVE ParserInv'
  BY ParseStep, ParseFailsStep, RejectStep, AcceptStep, SkipStep, PushStep, ThrowStep, FinishStep
  DEF Parser!Next

LEMMA ParserStays == ASSUME ParserInv, UNCHANGED parserVars PROVE ParserInv'
  <1>1. /\ body' = body /\ i' = i /\ skipped' = skipped /\ arrivals' = arrivals
        /\ status' = status /\ tree' = tree /\ pc' = pc
    BY DEF parserVars
  <1>2. Parser!TypeOK'
    <2>1. Parser!TypeOK
      BY DEF ParserInv
    <2> QED
      BY <1>1, <2>1 DEF Parser!TypeOK
  <1>3. StatusTellsArrivals' /\ HasItems' = HasItems
    BY <1>1, SameBody, SameItems DEF ParserInv, StatusTellsArrivals,
       Parser!StatusTellsArrivals, Parser!Successes
  <1> QED
    BY <1>1, <1>2, <1>3, SamePart DEF ParserInv

-----------------------------------------------------------------------------
(* The call.                                                               *)

LEMMA CallInit == ASSUME Init PROVE CallInv
  <1>1. handle = (at = "transfer")
    BY DEF Init
  <1> QED
    BY <1>1 DEF Init, Parser!Init, CallInv, OutcomeIsExpected, NothingLeftBehind

(* A return before the parse, with a failure that goes with the key.       *)
LEMMA ReturnsEarly ==
    ASSUME CallInv, ParserInv, at \in {"begin", "transfer"}, NEW res, Return(res),
           res \in Failures \cup {"MissingApiKey", "InvalidApiKey"},
           res \in {"MissingApiKey", "CurlInitFailed", "CurlPerformFailed",
                   "InvalidApiKey", "HttpError", "UnexpectedException"},
           req.key = "empty" => res \in {"MissingApiKey", "UnexpectedException"},
           res = "MissingApiKey" => req.key = "empty",
           res = "InvalidApiKey" => req.key = "rejected"
    PROVE  CallInv'
  <1>1. /\ at' = "returned" /\ result' = res /\ handle' = FALSE
        /\ req' = req /\ asked' = asked /\ tree' = tree /\ arrivals' = arrivals
    BY DEF Return, parserVars
  <1>2. req \in Requests /\ req.key \in {"valid", "rejected", "empty"}
    BY RequestsAssumption DEF CallInv
  <1>3. ~tree /\ arrivals = <<>>
    <2>1. pc = "start"
      BY DEF CallInv
    <2> QED
      BY <2>1, NoArrivals, ParserTypes
  <1>4. [status |-> res, arrivals |-> NothingFetched] \in FetchResults(req)
    <2>1. CASE req.key = "empty"
      BY <2>1 DEF FetchResults
    <2>2. CASE req.key = "rejected"
      BY <2>2 DEF FetchResults
    <2>3. CASE req.key = "valid"
      BY <2>3 DEF FetchResults
    <2> QED
      BY <1>2, <2>1, <2>2, <2>3
  <1>5. OutcomeIsExpected'
    <2>1. result' # "Ok" /\ PassedOn' = NothingFetched
      BY <1>1 DEF PassedOn
    <2> QED
      BY <1>1, <1>4, <2>1 DEF OutcomeIsExpected
  <1>6. NothingLeftBehind'
    BY <1>1, <1>3 DEF NothingLeftBehind
  <1>7. handle' = (at' = "transfer") /\ result' # "none"
    BY <1>1
  <1> QED
    BY <1>1, <1>2, <1>5, <1>6, <1>7 DEF CallInv

LEMMA EarlyNext ==
    ASSUME CallInv, ParserInv, BuildThrows \/ NoKey \/ CurlInitFails \/ TransferFails \/ Refused
    PROVE  CallInv'
  <1>1. CASE BuildThrows
    BY <1>1, ReturnsEarly, ResultsAssumption DEF BuildThrows
  <1>2. CASE NoKey
    BY <1>2, ReturnsEarly DEF NoKey
  <1>3. CASE CurlInitFails
    BY <1>3, ReturnsEarly, ResultsAssumption DEF CurlInitFails
  <1>4. CASE TransferFails
    <2>1. req.key # "empty"
      BY <1>4 DEF TransferFails, CallInv
    <2> QED
      BY <1>4, <2>1, ReturnsEarly, ResultsAssumption DEF TransferFails
  <1>5. CASE Refused
    <2>1. req.key \in {"valid", "rejected"}
      BY <1>5, RequestsAssumption DEF Refused, CallInv
    <2>2. CASE Return("InvalidApiKey") /\ 401 \in Replies
      <3>1. req.key = "rejected"
        BY <2>1, <2>2 DEF Replies
      <3> QED
        BY <1>5, <2>2, <3>1, ReturnsEarly DEF Refused
    <2>3. CASE Return("HttpError")
      BY <1>5, <2>1, <2>3, ReturnsEarly, ResultsAssumption DEF Refused
    <2> QED
      BY <1>5, <2>2, <2>3 DEF Refused
  <1> QED
    BY <1>1, <1>2, <1>3, <1>4, <1>5

LEMMA TransferNext ==
    ASSUME CallInv, StartTransfer \/ Answered
    PROVE  CallInv'
  <1>1. CASE StartTransfer
    <2>1. handle' = (at' = "transfer") /\ pc' = pc
      BY <1>1 DEF StartTransfer, parserVars
    <2> QED
      BY <1>1, <2>1 DEF StartTransfer, CallInv, OutcomeIsExpected, NothingLeftBehind
  <1>2. CASE Answered
    <2>1. req.key = "valid"
      <3>1. req.key \in {"valid", "rejected"}
        BY <1>2, RequestsAssumption DEF Answered, CallInv
      <3> QED
        BY <1>2, <3>1 DEF Answered, Replies
    <2>2. handle' = (at' = "transfer")
      BY <1>2 DEF Answered
    <2> QED
      BY <1>2, <2>1, <2>2 DEF Answered, CallInv, OutcomeIsExpected, NothingLeftBehind
  <1> QED
    BY <1>1, <1>2

(* The return with the parser's outcome, and the one with its exception.   *)
LEMMA ReturnsLate ==
    ASSUME CallInv, ParserInv, ParseReturns \/ ParseThrows
    PROVE  CallInv'
  <1> DEFINE res == result'
  <1>1. /\ at = "parse" /\ at' = "returned" /\ handle' = FALSE
        /\ req' = req /\ asked' = asked /\ tree' = tree /\ arrivals' = arrivals
    BY DEF ParseReturns, ParseThrows, Return, parserVars
  <1>2. \/ pc = "done" /\ status \in Parser!Successes /\ res = "Ok"
        \/ pc = "done" /\ status \notin Parser!Successes /\ res = "ArrivalsParseFailed"
        \/ pc = "threw" /\ res = "UnexpectedException"
    BY DEF ParseReturns, ParseThrows, Return
  <1>3. pc = "done" => ~tree /\ (status \in Parser!Successes <=> arrivals # <<>>)
    BY ParserTypes DEF ParserInv, StatusTellsArrivals, Parser!StatusTellsArrivals
  <1>4. req.key = "valid" /\ asked = UpstreamStop(req.stop)
    BY <1>1 DEF CallInv
  <1>5. OutcomeIsExpected'
    <2>1. CASE res = "Ok"
      <3>1. arrivals # <<>>
        BY <1>2, <1>3, <2>1
      <3>2. Len(arrivals) \in 1..Len(Items) /\ HasItems
        <4>1. HasItems /\ i <= Len(Items) + 1 /\ Len(Items) \in Nat
          BY <3>1, ItemsAreListed DEF ParserInv
        <4>2. /\ Len(arrivals) \in Nat /\ skipped \in Nat /\ Len(arrivals) # 0
              /\ Len(arrivals) + skipped = i - 1
          BY <3>1, ParserTypes
        <4>3. i \in Nat
          BY ParserTypes
        <4> QED
          BY <4>1, <4>2, <4>3
      <3>3. Len(arrivals) \in Counts
        BY <3>2, ItemsAreListed DEF ParserInv
      <3>4. PassedOn' = [stop |-> asked, count |-> Len(arrivals)]
        BY <1>1, <2>1 DEF PassedOn
      <3>5. [status |-> "Ok", arrivals |-> [stop |-> asked, count |-> Len(arrivals)]]
                \in FetchResults(req)
        BY <1>4, <3>3 DEF FetchResults
      <3> QED
        BY <1>1, <2>1, <3>4, <3>5 DEF OutcomeIsExpected
    <2>2. CASE res # "Ok"
      <3>1. res \in Failures
        BY <1>2, <2>2, ResultsAssumption
      <3>2. [status |-> res, arrivals |-> NothingFetched] \in FetchResults(req)
        BY <1>4, <3>1 DEF FetchResults
      <3>3. PassedOn' = NothingFetched
        BY <2>2 DEF PassedOn
      <3> QED
        BY <1>1, <3>2, <3>3 DEF OutcomeIsExpected
    <2> QED
      BY <2>1, <2>2
  <1>6. NothingLeftBehind'
    BY <1>1, <1>2, <1>3 DEF NothingLeftBehind
  <1>7. /\ handle' = (at' = "transfer") /\ result' # "none"
        /\ result' \in {"ArrivalsParseFailed", "UnexpectedException", "Ok"}
    BY <1>1, <1>2
  <1> HIDE DEF res
  <1> QED
    BY <1>1, <1>5, <1>6, <1>7 DEF CallInv

LEMMA CallStays ==
    ASSUME CallInv, UNCHANGED apiVars, at = "parse" \/ UNCHANGED parserVars
    PROVE  CallInv'
  <1>1. req' = req /\ at' = at /\ asked' = asked /\ handle' = handle /\ result' = result
    BY DEF apiVars
  <1>2. CASE at = "parse"
    BY <1>1, <1>2 DEF CallInv, OutcomeIsExpected, NothingLeftBehind
  <1>3. CASE UNCHANGED parserVars
    <2>1. tree' = tree /\ arrivals' = arrivals /\ pc' = pc
      BY <1>3 DEF parserVars
    <2>2. PassedOn' = PassedOn
      BY <1>1, <2>1 DEF PassedOn
    <2>3. OutcomeIsExpected' /\ NothingLeftBehind'
      BY <1>1, <2>1, <2>2 DEF CallInv, OutcomeIsExpected, NothingLeftBehind
    <2> QED
      BY <1>1, <2>1, <2>3 DEF CallInv
  <1> QED
    BY <1>2, <1>3

LEMMA InvInit == Init => Inv
  BY ParserInit, CallInit DEF Init, Inv

LEMMA InvNext == Inv /\ [Next]_vars => Inv'
  <1> SUFFICES ASSUME CallInv, ParserInv, [Next]_vars
               PROVE  Inv'
    BY DEF Inv
  <1>1. CASE BuildThrows \/ NoKey \/ CurlInitFails \/ TransferFails \/ Refused
    <2>1. UNCHANGED parserVars
      BY <1>1 DEF BuildThrows, NoKey, CurlInitFails, TransferFails, Refused, Return
    <2> QED
      BY <1>1, <2>1, EarlyNext, ParserStays DEF Inv
  <1>2. CASE StartTransfer \/ Answered
    <2>1. UNCHANGED parserVars
      BY <1>2 DEF StartTransfer, Answered
    <2> QED
      BY <1>2, <2>1, TransferNext, ParserStays DEF Inv
  <1>3. CASE ParserStep
    BY <1>3, CallStays, ParserNext DEF ParserStep, Inv
  <1>4. CASE ParseReturns \/ ParseThrows
    <2>1. UNCHANGED parserVars
      BY <1>4 DEF ParseReturns, ParseThrows, Return
    <2> QED
      BY <1>4, <2>1, ReturnsLate, ParserStays DEF Inv
  <1>5. CASE UNCHANGED vars
    <2>1. UNCHANGED apiVars /\ UNCHANGED parserVars
      BY <1>5 DEF vars
    <2> QED
      BY <2>1, CallStays, ParserStays DEF Inv
  <1> QED
    BY <1>1, <1>2, <1>3, <1>4, <1>5 DEF Next

LEMMA Invariance == Spec => []Inv
  BY InvInit, InvNext, PTL DEF Spec

-----------------------------------------------------------------------------
(* Types, also of the parser: a cJSON tree exists exactly where the code   *)
(* reads it or an exception has left it.                                   *)
THEOREM TypeCorrect == Spec => []TypeOK
  <1>1. Inv => TypeOK
    <2>1. CallInv => handle \in BOOLEAN
      BY DEF CallInv
    <2> QED
      BY <2>1 DEF Inv, CallInv, ParserInv, TypeOK
  <1> QED
    BY <1>1, Invariance, PTL

(* Whatever the key, the network and the body, get_arrivals_for_station    *)
(* returns one of the outcomes that UdsServer takes for granted.           *)
THEOREM Outcome == Spec => []OutcomeIsExpected
  <1>1. Inv => OutcomeIsExpected
    BY DEF Inv, CallInv
  <1> QED
    BY <1>1, Invariance, PTL

(* It leaves no curl handle behind, and a cJSON tree or the arrivals of a  *)
(* failure only by way of an exception.                                    *)
THEOREM Released == Spec => []NothingLeftBehind
  <1>1. Inv => NothingLeftBehind
    BY DEF Inv, CallInv
  <1> QED
    BY <1>1, Invariance, PTL

(* Each stop time with a time gives one arrival, in the service's order.   *)
THEOREM TimedOnce == Spec => []EveryTimedStopTimeOnce
  <1>1. Inv => EveryTimedStopTimeOnce
    BY DEF Inv, ParserInv
  <1> QED
    BY <1>1, Invariance, PTL

(* A success comes with arrivals, and tells whether all could be used.     *)
THEOREM StatusTells == Spec => []StatusTellsArrivals
  <1>1. Inv => StatusTellsArrivals
    BY DEF Inv, ParserInv
  <1> QED
    BY <1>1, Invariance, PTL

(* Line, vehicle type and minutes are those of the arrival's stop time:    *)
(* an arrival is at the place of the stop time it was made from, and what  *)
(* is made from a stop time fits it.                                       *)
THEOREM ArrivalsFit == Spec => []ArrivalsFitStopTimes
  <1>1. ASSUME Inv PROVE ArrivalsFitStopTimes
    <2> SUFFICES ASSUME NEW n \in 1..(i - 1), Parser!HasTime(Items[n])
                 PROVE  LET arrival == arrivals[Parser!Place(Items, n)]
                        IN  /\ Parser!LineIsNamed(arrival, Items[n])
                            /\ Parser!VehicleShownAsSent(arrival, Items[n])
                            /\ Parser!MinutesFromCurrentTime(arrival)
      BY DEF ArrivalsFitStopTimes, Parser!ArrivalsFitStopTimes, Items
    <2>1. ParserInv
      BY <1>1 DEF Inv
    <2>2. arrivals[Parser!Place(Items, n)] = Parser!ArrivalOf(Items[n])
      BY <2>1 DEF ParserInv, EveryTimedStopTimeOnce, Parser!EveryTimedStopTimeOnce, Items
    <2>3. n \in Timed /\ HasItems /\ body \in Bodies
      <3>1. i # 1 /\ i \in Nat \ {0}
        BY <2>1, ParserTypes
      <3>2. HasItems /\ i <= Len(Items) + 1 /\ body \in Bodies
        BY <2>1, <3>1 DEF ParserInv
      <3>3. Len(Items) \in Nat
        BY <3>2, ItemsAreListed
      <3>4. n \in 1..Len(Items)
        BY <3>1, <3>2, <3>3
      <3> QED
        BY <3>2, <3>4 DEF Timed
    <2>4. Parser!Departure(Items[n]) \in Int
      BY <2>3, ItemsAreListed
    <2> DEFINE s == Items[n]
    <2>5. Parser!Departure(s) \in Int /\ arrivals[Parser!Place(Items, n)] = Parser!ArrivalOf(s)
      BY <2>2, <2>4
    <2> HIDE DEF s
    <2>6. /\ Parser!LineIsNamed(Parser!ArrivalOf(s), s)
          /\ Parser!VehicleShownAsSent(Parser!ArrivalOf(s), s)
          /\ Parser!MinutesFromCurrentTime(Parser!ArrivalOf(s))
      BY <2>3, <2>5, LineFits, VehicleFits, MinutesFit
    <2> QED
      BY <2>5, <2>6 DEF s
  <1> QED
    BY <1>1, Invariance, PTL
=============================================================================
