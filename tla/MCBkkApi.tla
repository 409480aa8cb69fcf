------------------------------ MODULE MCBkkApi ------------------------------
(***************************************************************************)
(* Bodies: every way the frame may be broken, and frames with up to three  *)
(* stop times of the kinds the code tells apart, for each state of the     *)
(* references.                                                             *)
(***************************************************************************)
EXTENDS BkkApi

MissingItem == [type |-> "missing"]
Str(s) == [type |-> "string", text |-> s]
Num(n) == [type |-> "number", number |-> n]
Arr(s) == [type |-> "array", items |-> s]
Obj(f) == [type |-> "object", fields |-> f]

Now == 240000

StopTimeKinds == {
    Str("no object"),
    Obj([tripId |-> Str("T1")]),
    Obj([tripId |-> Str("T1"), arrivalTime |-> Num(330)]),
    Obj([tripId |-> Str("T2"), arrivalTime |-> Str("late"), predictedArrivalTime |-> Num(210)]),
    Obj([arrivalTime |-> Num(400), predictedArrivalTime |-> Num(209)])}

Trips == Obj([T1 |-> Obj([routeId |-> Str("R1"), tripHeadsign |-> Str("Kelenfold")]),
              T2 |-> Obj([routeId |-> Str("R2")])])

Routes == Obj([R1 |-> Obj([shortName |-> Str("M4"), type |-> Str("SUBWAY")]),
               R2 |-> Obj([shortName |-> Str(""), type |-> Str("TRAM")])])

ReferenceKinds == {MissingItem, Obj([trips |-> Trips]), Obj([trips |-> Trips, routes |-> Routes])}

Response(time, entry, references) ==
    Obj([currentTime |-> time, data |-> Obj([entry |-> entry, references |-> references])])

UpTo(n) == UNION {[1..k -> StopTimeKinds] : k \in 0..n}

Frames == {[type |-> "invalid"], Str("root"), Obj([currentTime |-> Num(Now)]),
           Obj([data |-> Str("none")]), Obj([data |-> Obj([references |-> Trips])]),
           Response(Num(Now), Obj([stopTimes |-> Str("none")]), MissingItem)}

SomeBodies(n) == Frames \cup
    {Response(time, Obj([stopTimes |-> Arr(s)]), references) :
        time \in {Num(Now), Str("now")}, s \in UpTo(n), references \in ReferenceKinds}

BodiesOfThree == SomeBodies(3)

AllRequests == [stop : [prefixed : BOOLEAN, id : {"F02615"}],
                key  : {"valid", "rejected", "empty"}]

AllFailures == {"CurlInitFailed", "CurlPerformFailed", "HttpError",
                "ArrivalsParseFailed", "UnexpectedException"}
=============================================================================
