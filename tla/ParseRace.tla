------------------------------ MODULE ParseRace -----------------------------
(***************************************************************************)
(* Threads that parse at the same time, and the two static objects that    *)
(* parse_arrivals_response reads without a lock: the struct tm behind      *)
(* std::localtime's pointer and the error position behind                  *)
(* cJSON_GetErrorPtr.  localtime (external) writes its fields together,    *)
(* under the C library's lock; put_time reads hour and minute one by one.  *)
(***************************************************************************)
EXTENDS Naturals

CONSTANTS
    Threads,        \* workers and refresh threads
    Hours, Minutes,
    None            \* no error, no such time

Times == [hour : Hours, minute : Minutes]

Midnight == [hour |-> 0, minute |-> 0]

VARIABLES
    tm,             \* localtime's static object
    error,          \* cJSON's: the thread whose body it points into, or None
    parser,         \* thread -> pc and locals
    tmSince,        \* history: the times converted since a thread's own
    errorSince      \* history: what was put into error since a thread's own

vars == <<tm, error, parser, tmSince, errorSince>>

Init ==
    /\ tm \in Times
    /\ error = None
    /\ parser \in [Threads -> [pc : {"idle"}, departure : {tm}, text : {tm}, near : {None}]]
    /\ tmSince = [t \in Threads |-> {}]
    /\ errorSince = [t \in Threads |-> {}]

Goes(t, from, to) ==
    /\ parser[t].pc = from
    /\ parser' = [parser EXCEPT ![t].pc = to]

(* What t writes is later than everybody else's last write. *)
Noted(since, t, value) ==
    [u \in Threads |-> IF u = t THEN {} ELSE since[u] \cup {value}]

SetError(t, value) ==
    /\ error' = value
    /\ errorSince' = Noted(errorSince, t, value)
    /\ UNCHANGED <<tm, tmSince>>

(* cJSON_Parse begins by forgetting the last error ... *)
Parse(t) == Goes(t, "idle", "parse") /\ SetError(t, None)

(* ... and ends by noting a new one, or not. *)
ParseFails(t) == Goes(t, "parse", "report") /\ SetError(t, t)

ParseSucceeds(t) == Goes(t, "parse", "loop") /\ UNCHANGED <<tm, error, tmSince, errorSince>>

(* cJSON_GetErrorPtr; the text it points to goes to cerr. *)
ReportError(t) ==
    /\ parser[t].pc = "report"
    /\ parser' = [parser EXCEPT ![t].pc = "reported", ![t].near = error]
    /\ UNCHANGED <<tm, error, tmSince, errorSince>>

(* The next stop time: std::localtime(&time_t_val) *)
Convert(t, time) ==
    /\ parser[t].pc = "loop"
    /\ parser' = [parser EXCEPT ![t].pc = "hour", ![t].departure = time]
    /\ tm' = time
    /\ tmSince' = Noted(tmSince, t, time)
    /\ UNCHANGED <<error, errorSince>>

(* A time beyond the calendar: a null pointer, and "00:00". *)
ConvertFails(t) ==
    /\ parser[t].pc = "loop"
    /\ parser' = [parser EXCEPT ![t].pc = "shown", ![t].departure = None, ![t].text = Midnight]
    /\ UNCHANGED <<tm, error, tmSince, errorSince>>

ReadHour(t) ==
    /\ parser[t].pc = "hour"
    /\ parser' = [parser EXCEPT ![t].pc = "minute", ![t].text.hour = tm.hour]
    /\ UNCHANGED <<tm, error, tmSince, errorSince>>

ReadMinute(t) ==
    /\ parser[t].pc = "minute"
    /\ parser' = [parser EXCEPT ![t].pc = "shown", ![t].text.minute = tm.minute]
    /\ UNCHANGED <<tm, error, tmSince, errorSince>>

Push(t) == Goes(t, "shown", "loop") /\ UNCHANGED <<tm, error, tmSince, errorSince>>

Return(t) ==
    /\ Goes(t, "reported", "idle") \/ Goes(t, "loop", "idle")
    /\ UNCHANGED <<tm, error, tmSince, errorSince>>

Next ==
    \E t \in Threads :
        \/ Parse(t) \/ ParseFails(t) \/ ReportError(t) \/ ParseSucceeds(t)
        \/ \E time \in Times : Convert(t, time)
        \/ ConvertFails(t) \/ ReadHour(t) \/ ReadMinute(t) \/ Push(t) \/ Return(t)

Spec == Init /\ [][Next]_vars

-----------------------------------------------------------------------------
TypeOK ==
    /\ tm \in Times
    /\ error \in Threads \cup {None}
    /\ parser \in [Threads -> [pc        : {"idle", "parse", "report", "reported",
                                            "loop", "hour", "minute", "shown"},
                               departure : Times \cup {None},
                               text      : [hour : Hours \cup {0}, minute : Minutes \cup {0}],
                               near      : Threads \cup {None}]]
    /\ tmSince \in [Threads -> SUBSET Times]
    /\ errorSince \in [Threads -> SUBSET (Threads \cup {None})]

(* A departure time that is not the arrival's own was spoiled by           *)
(* conversions of other threads between this one's and the end of its      *)
(* reading: a thread left alone shows the right time, and even the wrong   *)
(* hour and minute are those of some arrival.                              *)
ShownTimeExplained ==
    \A t \in Threads : parser[t].pc = "shown" /\ parser[t].departure # None =>
        \E hours, minutes \in tmSince[t] \cup {parser[t].departure} :
            parser[t].text = [hour |-> hours.hour, minute |-> minutes.minute]

(* The same of the text reported for a body that is no JSON: it is this    *)
(* thread's own unless another parse began or failed after it.             *)
ReportExplained ==
    \A t \in Threads : parser[t].pc = "reported" =>
        parser[t].near \in errorSince[t] \cup {t}

(* The comment "Format departure time as HH:MM"                            *)
(* (bkk_response_parser.cpp:221): the text is the departure time, on which *)
(* departs_in_min and timestamp of the same arrival agree.                 *)
ShowsDepartureTime ==
    \A t \in Threads :
        parser[t].pc = "shown" /\ parser[t].departure # None =>
            parser[t].text = parser[t].departure
=============================================================================
