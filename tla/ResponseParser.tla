--------------------------- MODULE ResponseParser ---------------------------
(***************************************************************************)
(* parse_arrivals_response: the checks of a response's frame, then one     *)
(* arrival per usable stop time.  A body is the tree cJSON_Parse makes of  *)
(* it.  Texts are symbols, times whole numbers; the text departure_time is *)
(* in ParseRace, the cutting of texts by strncpy is left out.              *)
(***************************************************************************)
EXTENDS Integers, Sequences, FiniteSets

CONSTANTS
    Bodies,         \* what the service may send, trees and NotJson
    ServiceTime     \* the service's clock when it answers, in ms

VARIABLES
    body,           \* response_body
    pc,
    tree,           \* is there a cJSON tree to delete?
    i,              \* the stop time under way, from 1
    skipped,        \* skipped_stop_times
    arrivals,       \* *output_arrivals
    status          \* the result, "none" before the end

vars == <<body, pc, tree, i, skipped, arrivals, status>>

NotJson == [type |-> "invalid"]
Missing == [type |-> "missing"]

(* cJSON_GetObjectItemCaseSensitive *)
Item(json, name) ==
    IF json.type = "object" /\ name \in DOMAIN json.fields THEN json.fields[name] ELSE Missing

(* A string item's valuestring, and "" for anything else. *)
Text(json) == IF json.type = "string" THEN json.text ELSE ""

IsNumber(json) == json.type = "number"

Data == Item(body, "data")
Entry == Item(Data, "entry")
References == Item(Data, "references")

StopTimesIn(json) == Item(Item(Item(json, "data"), "entry"), "stopTimes")
StopTimes == StopTimesIn(body)

-----------------------------------------------------------------------------
(* From a stop time to an arrival.                                         *)

TripOf(stopTime) == Item(Item(References, "trips"), Text(Item(stopTime, "tripId")))

RouteIdOf(stopTime) == Text(Item(TripOf(stopTime), "routeId"))

Route(id) == IF id = "" THEN Missing ELSE Item(Item(References, "routes"), id)

SameTypes == {"BUS", "TRAM", "TROLLEYBUS", "RAIL", "FERRY", "CABLE_CAR", "FUNICULAR",
              "GONDOLA", "COACH", "BICYCLE", "CAR", "WALK", "LOCAL", "TRANSIT"}

(* The service's name of a vehicle type to the enumerator ... *)
VehicleType(text) ==
    CASE text = "SUBWAY"           -> "METRO"
      [] text = "SUBURBAN_RAILWAY" -> "SUBURB_RAIL"
      [] text \in SameTypes        -> text
      [] OTHER                     -> "UNKNOWN"

(* ... and vehicle_type_to_string, by which the client prints it. *)
VehicleName(type) ==
    CASE type = "METRO"       -> "SUBWAY"
      [] type = "SUBURB_RAIL" -> "SUBURBAN_RAILWAY"
      [] type \in SameTypes   -> type
      [] OTHER                -> "UNKNOWN"

Line(stopTime) ==
    LET name == Text(Item(Route(RouteIdOf(stopTime)), "shortName"))
    IN  CASE name # "" -> name
          [] name = "" /\ RouteIdOf(stopTime) # "" -> RouteIdOf(stopTime)
          [] OTHER -> "n.a."

Destination(stopTime) ==
    LET trip == IF Text(Item(stopTime, "tripId")) = "" THEN Missing ELSE TripOf(stopTime)
    IN  IF Item(trip, "tripHeadsign").type = "string"
        THEN Text(Item(trip, "tripHeadsign"))
        ELSE "?"

HasTime(stopTime) ==
    /\ stopTime.type = "object"
    /\ \/ IsNumber(Item(stopTime, "predictedArrivalTime"))
       \/ IsNumber(Item(stopTime, "arrivalTime"))

Departure(stopTime) ==
    IF IsNumber(Item(stopTime, "predictedArrivalTime"))
    THEN Item(stopTime, "predictedArrivalTime").number
    ELSE Item(stopTime, "arrivalTime").number

(* apiTime_s, in ms *)
ApiTime == IF IsNumber(Item(body, "currentTime")) THEN Item(body, "currentTime").number ELSE 0

(* Mutant of Round: floor(x + 1/2), halves up. *)
RoundHalvesUp(p, q) == (2 * p + q) \div (2 * q)

(* std::round(p / q), halves away from zero *)
Round(p, q) == IF p >= 0 THEN (2 * p + q) \div (2 * q) ELSE -((q - 2 * p) \div (2 * q))

Minutes(departure) == Round(departure * 1000 - ApiTime, 60000)

ArrivalOf(stopTime) ==
    [line           |-> Line(stopTime),
     vehicle_type   |-> VehicleType(Text(Item(Route(RouteIdOf(stopTime)), "type"))),
     destination    |-> Destination(stopTime),
     departs_in_min |-> Minutes(Departure(stopTime)),
     timestamp      |-> Departure(stopTime)]

(* What cJSON vouches for: an array is a list, a number is a number (here  *)
(* a whole one).                                                           *)
WellFormed(json) ==
    StopTimesIn(json).type = "array" =>
        LET items == StopTimesIn(json).items
        IN  /\ items \in Seq({items[n] : n \in DOMAIN items})
            /\ \A n \in DOMAIN items : HasTime(items[n]) => Departure(items[n]) \in Int

(* A service that tells the time in its response tells its own.            *)
TellsServiceTime(json) ==
    LET told == Item(json, "currentTime")
    IN  IsNumber(told) => told.number = ServiceTime

-----------------------------------------------------------------------------
Init ==
    /\ body \in Bodies
    /\ pc = "start"
    /\ tree = FALSE
    /\ i = 1
    /\ skipped = 0
    /\ arrivals = <<>>
    /\ status = "none"

(* Every return deletes the tree, if there is one. *)
Return(result) ==
    /\ status' = result
    /\ tree' = FALSE
    /\ pc' = "done"
    /\ UNCHANGED <<body, i, skipped, arrivals>>

Parse ==
    /\ pc = "start"
    /\ body # NotJson
    /\ tree' = TRUE
    /\ pc' = "check"
    /\ UNCHANGED <<body, i, skipped, arrivals, status>>

ParseFails ==
    /\ pc = "start"
    /\ body = NotJson
    /\ Return("InvalidJson")

(* The checks of the frame, in the order of the code. *)
Verdict ==
    IF body.type # "object" THEN "RootNotObject"
    ELSE IF Data.type # "object" THEN "MissingDataObject"
    ELSE IF Entry.type # "object" THEN "MissingEntryObject"
    ELSE IF StopTimes.type # "array" THEN "StopTimesNotArray"
    ELSE IF StopTimes.items = <<>> THEN "EmptyStopTimes"
    ELSE "Usable"

Reject ==
    /\ pc = "check"
    /\ Verdict # "Usable"
    /\ Return(Verdict)

Accept ==
    /\ pc = "check"
    /\ Verdict = "Usable"
    /\ pc' = "loop"
    /\ UNCHANGED <<body, tree, i, skipped, arrivals, status>>

InLoop == pc = "loop" /\ i <= Len(StopTimes.items)

(* Mutant of SkipStopTime: break for continue. *)
SkipEndsLoop ==
    /\ InLoop
    /\ ~HasTime(StopTimes.items[i])
    /\ skipped' = skipped + 1
    /\ i' = Len(StopTimes.items) + 1
    /\ UNCHANGED <<body, pc, tree, arrivals, status>>

SkipStopTime ==
    /\ InLoop
    /\ ~HasTime(StopTimes.items[i])
    /\ skipped' = skipped + 1
    /\ i' = i + 1
    /\ UNCHANGED <<body, pc, tree, arrivals, status>>

PushArrival ==
    /\ InLoop
    /\ HasTime(StopTimes.items[i])
    /\ arrivals' = Append(arrivals, ArrivalOf(StopTimes.items[i]))
    /\ i' = i + 1
    /\ UNCHANGED <<body, pc, tree, skipped, status>>

(* std::bad_alloc leaves the loop and the function: the tree stays behind, *)
(* the arrivals so far as well.                                            *)
Throw ==
    /\ InLoop
    /\ pc' = "threw"
    /\ UNCHANGED <<body, tree, i, skipped, arrivals, status>>

(* Mutant of Finish: no arrivals is a success with warnings. *)
FinishWithoutTest ==
    /\ pc = "loop"
    /\ ~InLoop
    /\ Return(IF skipped > 0 THEN "SuccessWithWarnings" ELSE "Success")

Finish ==
    /\ pc = "loop"
    /\ ~InLoop
    /\ Return(CASE arrivals = <<>>                -> "NoValidStopTimes"
                [] arrivals # <<>> /\ skipped > 0 -> "SuccessWithWarnings"
                [] arrivals # <<>> /\ skipped = 0 -> "Success")

Next == Parse \/ ParseFails \/ Reject \/ Accept \/ SkipStopTime \/ PushArrival \/ Throw \/ Finish

Spec == Init /\ [][Next]_vars

-----------------------------------------------------------------------------
ParseStatuses == {"Success", "SuccessWithWarnings", "InvalidJson", "RootNotObject",
                  "MissingDataObject", "MissingEntryObject", "StopTimesNotArray",
                  "EmptyStopTimes", "NoValidStopTimes"}

Successes == {"Success", "SuccessWithWarnings"}

(* Types; and a tree exists exactly where the code reads it or an          *)
(* exception left it.  No return leaks it, none deletes it early.          *)
TypeOK ==
    /\ pc \in {"start", "check", "loop", "threw", "done"}
    /\ tree = (pc \in {"check", "loop", "threw"})
    /\ i \in Nat \ {0}
    /\ skipped \in Nat
    /\ Len(arrivals) + skipped = i - 1
    /\ status \in ParseStatuses \cup {"none"}
    /\ status # "none" <=> pc = "done"

(* The place of the arrival that the n-th of some stop times gives: how     *)
(* many of them have a time, up to and with it.                            *)
Place(stopTimes, n) == Cardinality({k \in 1..n : HasTime(stopTimes[k])})

(* Each stop time with a time gives one arrival, in the service's order;   *)
(* an unusable one in between shifts, drops or repeats nothing.            *)
EveryTimedStopTimeOnce ==
    /\ Len(arrivals) = Place(StopTimes.items, i - 1)
    /\ \A n \in 1..(i - 1) :
           HasTime(StopTimes.items[n]) =>
               arrivals[Place(StopTimes.items, n)] = ArrivalOf(StopTimes.items[n])

(* get_arrivals_for_station takes a success for a non-empty list, and      *)
(* handle_client caches it without looking: both success statuses, and     *)
(* only they, come with arrivals; without warnings every stop time is one. *)
StatusTellsArrivals ==
    pc = "done" =>
        /\ status \in Successes <=> arrivals # <<>>
        /\ status = "Success" => Len(arrivals) = Len(StopTimes.items)
        /\ status = "SuccessWithWarnings" => Len(arrivals) < Len(StopTimes.items)

(* What the references say of a stop time, read from their side: the ids   *)
(* its own trip names, and the routes that go by one of them.              *)
Members(json) == IF json.type = "object" THEN DOMAIN json.fields ELSE {}

RouteIdsFor(stopTime) ==
    LET trips == Item(References, "trips")
    IN  {Text(Item(trips.fields[t], "routeId")) :
            t \in {u \in Members(trips) : u = Text(Item(stopTime, "tripId"))}} \ {""}

RoutesFor(stopTime) ==
    LET routes == Item(References, "routes")
    IN  {routes.fields[r] : r \in Members(routes) \cap RouteIdsFor(stopTime)}

NamesFor(stopTime) == {Text(Item(r, "shortName")) : r \in RoutesFor(stopTime)} \ {""}

(* An arrival's line is the name of a route its own trip runs on; the      *)
(* route's id only where the references have no name for it; "n.a." only   *)
(* where they do not tell the route either.                                *)
LineIsNamed(arrival, stopTime) ==
    \/ arrival.line \in NamesFor(stopTime)
    \/ NamesFor(stopTime) = {} /\ arrival.line \in RouteIdsFor(stopTime)
    \/ NamesFor(stopTime) = {} /\ RouteIdsFor(stopTime) = {} /\ arrival.line = "n.a."

KnownTypes == SameTypes \cup {"SUBWAY", "SUBURBAN_RAILWAY"}

(* What the client prints is the service's own name of the vehicle type of *)
(* such a route, through the enumeration and back; UNKNOWN only where the  *)
(* references tell none that the code knows.                               *)
VehicleShownAsSent(arrival, stopTime) ==
    LET sent == {Text(Item(r, "type")) : r \in RoutesFor(stopTime)} \cap KnownTypes
    IN  VehicleName(arrival.vehicle_type) \in IF sent = {} THEN {"UNKNOWN"} ELSE sent

(* The clock the minutes count from: the service's, or 1970 if its         *)
(* response does not tell the time.                                        *)
Clock == IF IsNumber(Item(body, "currentTime")) THEN ServiceTime ELSE 0

(* The minutes are to the nearest minute from that clock, for departures   *)
(* ahead and just gone; half a minute counts as one, either way.           *)
MinutesFromCurrentTime(arrival) ==
    LET ahead == 1000 * arrival.timestamp - Clock
        off == 60000 * arrival.departs_in_min - ahead
    IN  /\ ahead >= 0 => -30000 < off /\ off <= 30000
        /\ ahead < 0 => -30000 <= off /\ off < 30000

(* The three, for each arrival and the stop time it was made from.         *)
ArrivalsFitStopTimes ==
    \A n \in 1..(i - 1) :
        HasTime(StopTimes.items[n]) =>
            LET arrival == arrivals[Place(StopTimes.items, n)]
            IN  /\ LineIsNamed(arrival, StopTimes.items[n])
                /\ VehicleShownAsSent(arrival, StopTimes.items[n])
                /\ MinutesFromCurrentTime(arrival)
=============================================================================
