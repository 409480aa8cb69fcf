--------------------------- MODULE ParseRaceProofs --------------------------
(***************************************************************************)
(* For any number of parsing threads: the types, and what a thread may     *)
(* show or report.  Between its own localtime and the end of its reading   *)
(* the static object holds the thread's own time or one that was converted *)
(* since, and the hour already read was one of these.                      *)
(***************************************************************************)
EXTENDS ParseRace, TLAPS

Rest == <<tm, error, tmSince, errorSince>>

(* A parser's program counter and locals, as in TypeOK. *)
Locals == [pc        : {"idle", "parse", "report", "reported", "loop", "hour", "minute", "shown"},
           departure : Times \cup {None},
           text      : [hour : Hours \cup {0}, minute : Minutes \cup {0}],
           near      : Threads \cup {None}]

(* Steps that change nothing but the thread's own locals. *)
Local(t) ==
    \/ ParseSucceeds(t) \/ ReportError(t) \/ ConvertFails(t)
    \/ ReadHour(t) \/ ReadMinute(t) \/ Push(t) \/ Return(t)

LEMMA Steps ==
    ASSUME [Next]_vars
    PROVE  \/ \E t \in Threads : Parse(t) \/ ParseFails(t) \/ Local(t)
           \/ \E t \in Threads : \E time \in Times : Convert(t, time)
           \/ UNCHANGED vars
  BY DEF Next, Local

LEMMA LocalKeeps == \A t : Local(t) => UNCHANGED Rest
  BY DEF Local, ParseSucceeds, ReportError, ConvertFails, ReadHour, ReadMinute, Push, Return, Rest

LEMMA TypeInit == Init => TypeOK
  <1> SUFFICES ASSUME Init  PROVE TypeOK
    OBVIOUS
  <1>1. tm \in [hour : Hours \cup {0}, minute : Minutes \cup {0}]
    BY DEF Init, Times
  <1> QED  BY <1>1 DEF Init, TypeOK

LEMMA GoesType ==
    ASSUME TypeOK, NEW t \in Threads, NEW from, NEW to \in {"parse", "report", "loop", "idle"},
           Goes(t, from, to)
    PROVE  parser' \in [Threads -> Locals]
  <1>1. parser \in [Threads -> Locals]
    BY DEF TypeOK, Locals
  <1>2. [parser[t] EXCEPT !.pc = to] \in Locals
    BY <1>1 DEF Locals
  <1>3. parser' = [parser EXCEPT ![t] = [parser[t] EXCEPT !.pc = to]]
    BY DEF Goes
  <1> QED  BY <1>1, <1>2, <1>3

LEMMA ErrorType ==
    ASSUME TypeOK, NEW t \in Threads, NEW value \in Threads \cup {None}, SetError(t, value)
    PROVE  /\ error' \in Threads \cup {None}
           /\ errorSince' \in [Threads -> SUBSET (Threads \cup {None})]
  BY DEF TypeOK, SetError, Noted

LEMMA TypeNext == TypeOK /\ [Next]_vars => TypeOK'
  <1> SUFFICES ASSUME TypeOK, [Next]_vars  PROVE TypeOK'
    OBVIOUS
  <1>1. ASSUME NEW t \in Threads, Parse(t)  PROVE TypeOK'
    BY <1>1, GoesType, ErrorType DEF Parse, SetError, TypeOK, Locals
  <1>2. ASSUME NEW t \in Threads, ParseFails(t)  PROVE TypeOK'
    BY <1>2, GoesType, ErrorType DEF ParseFails, SetError, TypeOK, Locals
  <1>3. ASSUME NEW t \in Threads, NEW time \in Times, Convert(t, time)  PROVE TypeOK'
    <2>1. tm' \in Times /\ tmSince' \in [Threads -> SUBSET Times]
      BY <1>3 DEF Convert, Noted, TypeOK
    <2>2. parser' = [parser EXCEPT ![t] = [parser[t] EXCEPT !.pc = "hour", !.departure = time]]
      BY <1>3 DEF Convert
    <2>3. [parser[t] EXCEPT !.pc = "hour", !.departure = time] \in Locals
      <3>1. parser[t] \in Locals
        BY DEF TypeOK, Locals
      <3> QED  BY <3>1 DEF Locals
    <2>4. parser' \in [Threads -> Locals]
      BY <2>2, <2>3 DEF TypeOK, Locals
    <2> QED  BY <1>3, <2>1, <2>4 DEF Convert, TypeOK, Locals
  <1>4. ASSUME NEW t \in Threads, ParseSucceeds(t) \/ ReportError(t) \/ Push(t) \/ Return(t)
        PROVE  TypeOK'
    BY <1>4 DEF ParseSucceeds, ReportError, Push, Return, Goes, TypeOK
  <1>5. ASSUME NEW t \in Threads, ConvertFails(t)  PROVE TypeOK'
    <2> DEFINE new == [parser[t] EXCEPT !.pc = "shown", !.departure = None, !.text = Midnight]
    <2>1. parser' = [parser EXCEPT ![t] = new]
      BY <1>5 DEF ConvertFails
    <2>2. new \in Locals
      <3>1. parser[t] \in Locals
        BY DEF TypeOK, Locals
      <3>2. Midnight \in [hour : Hours \cup {0}, minute : Minutes \cup {0}]
        BY DEF Midnight
      <3> QED  BY <3>1, <3>2 DEF Locals
    <2>3. parser' \in [Threads -> Locals]
      BY <2>1, <2>2 DEF TypeOK, Locals
    <2> QED  BY <1>5, <2>3 DEF ConvertFails, TypeOK, Locals
  <1>6. ASSUME NEW t \in Threads, ReadHour(t) \/ ReadMinute(t)  PROVE TypeOK'
    BY <1>6 DEF ReadHour, ReadMinute, TypeOK, Times
  <1>7. CASE UNCHANGED vars
    BY <1>7 DEF vars, TypeOK
  <1> QED  BY <1>1, <1>2, <1>3, <1>4, <1>5, <1>6, <1>7, Steps DEF Local

(* Types of the statics and of each parser's locals. *)
THEOREM TypeCorrect == Spec => []TypeOK
  BY TypeInit, TypeNext, PTL DEF Spec

-----------------------------------------------------------------------------
(* The thread's own time, and those converted since. *)
Own(t) == tmSince[t] \cup {parser[t].departure}

TimeInv ==
    \A t \in Threads :
        /\ parser[t].pc \in {"hour", "minute"} => tm \in Own(t)
        /\ parser[t].pc = "minute" => \E time \in Own(t) : parser[t].text.hour = time.hour
        /\ parser[t].pc = "shown" /\ parser[t].departure # None =>
            \E hours, minutes \in Own(t) :
                parser[t].text = [hour |-> hours.hour, minute |-> minutes.minute]

LEMMA TimeInit == Init => TimeInv
  BY DEF Init, TimeInv

(* A step of another thread adds to what may be shown, and to nothing else *)
(* of this one.                                                            *)
LEMMA OthersKeepTime ==
    ASSUME TypeOK, TimeInv, NEW u \in Threads, parser'[u] = parser[u],
           \/ tm' = tm /\ tmSince'[u] = tmSince[u]
           \/ tmSince'[u] = tmSince[u] \cup {tm'}
    PROVE  /\ parser'[u].pc \in {"hour", "minute"} => tm' \in Own(u)'
           /\ parser'[u].pc = "minute" => \E time \in Own(u)' : parser'[u].text.hour = time.hour
           /\ parser'[u].pc = "shown" /\ parser'[u].departure # None =>
                \E hours, minutes \in Own(u)' :
                    parser'[u].text = [hour |-> hours.hour, minute |-> minutes.minute]
  <1>1. Own(u) \subseteq Own(u)' /\ (tm \in Own(u) => tm' \in Own(u)')
    BY DEF Own
  <1> QED  BY <1>1 DEF TimeInv

LEMMA TimeNext == TypeOK /\ TimeInv /\ [Next]_vars => TimeInv'
  <1> SUFFICES ASSUME TypeOK, TimeInv, [Next]_vars  PROVE TimeInv'
    OBVIOUS
  <1> DEFINE Keeps(u) ==
        /\ parser'[u].pc \in {"hour", "minute"} => tm' \in Own(u)'
        /\ parser'[u].pc = "minute" => \E time \in Own(u)' : parser'[u].text.hour = time.hour
        /\ parser'[u].pc = "shown" /\ parser'[u].departure # None =>
            \E hours, minutes \in Own(u)' :
                parser'[u].text = [hour |-> hours.hour, minute |-> minutes.minute]
  <1> SUFFICES ASSUME NEW u \in Threads  PROVE Keeps(u)
    BY DEF TimeInv
  <1>1. ASSUME NEW t \in Threads, NEW time \in Times, Convert(t, time)  PROVE Keeps(u)
    <2>1. CASE u = t
      BY <1>1, <2>1 DEF Convert, TypeOK, Own
    <2>2. CASE u # t
      <3>1. parser'[u] = parser[u] /\ tmSince'[u] = tmSince[u] \cup {tm'}
        BY <1>1, <2>2 DEF Convert, Noted, TypeOK
      <3> QED  BY <3>1, OthersKeepTime
    <2> QED  BY <2>1, <2>2
  <1>2. ASSUME NEW t \in Threads, Parse(t) \/ ParseFails(t)  PROVE Keeps(u)
    <2>1. tm' = tm /\ tmSince' = tmSince
      BY <1>2 DEF Parse, ParseFails, SetError
    <2>2. CASE u = t
      BY <1>2, <2>2 DEF Parse, ParseFails, Goes, TypeOK
    <2>3. CASE u # t
      <3>1. parser'[u] = parser[u]
        BY <1>2, <2>3 DEF Parse, ParseFails, Goes, TypeOK
      <3> QED  BY <2>1, <3>1, OthersKeepTime
    <2> QED  BY <2>2, <2>3
  <1>3. ASSUME NEW t \in Threads, Local(t)  PROVE Keeps(u)
    <2>1. tm' = tm /\ tmSince' = tmSince
      BY <1>3, LocalKeeps DEF Rest
    <2>2. CASE u # t
      <3>1. parser'[u] = parser[u]
        BY <1>3, <2>2 DEF Local, ParseSucceeds, ReportError, ConvertFails, ReadHour, ReadMinute,
                          Push, Return, Goes, TypeOK
      <3> QED  BY <2>1, <3>1, OthersKeepTime
    <2>3. CASE u = t /\ ReadHour(t)
      <3>1. /\ parser[t].pc = "hour" /\ parser'[t].pc = "minute"
            /\ parser'[t].departure = parser[t].departure
            /\ parser'[t].text.hour = tm.hour
        BY <2>3 DEF ReadHour, TypeOK
      <3>2. tm \in Own(t) /\ Own(t)' = Own(t)
        BY <2>1, <3>1 DEF TimeInv, Own
      <3> QED  BY <2>1, <2>3, <3>1, <3>2
    <2>4. CASE u = t /\ ReadMinute(t)
      <3>1. /\ parser[t].pc = "minute" /\ parser'[t].pc = "shown"
            /\ parser'[t].departure = parser[t].departure
            /\ parser'[t].text = [parser[t].text EXCEPT !.minute = tm.minute]
        BY <2>4 DEF ReadMinute, TypeOK
      <3>2. tm \in Own(t) /\ Own(t)' = Own(t)
        BY <2>1, <3>1 DEF TimeInv, Own
      <3>3. PICK time \in Own(t) : parser[t].text.hour = time.hour
        BY <3>1 DEF TimeInv
      <3>4. parser[t].text \in [hour : Hours \cup {0}, minute : Minutes \cup {0}]
        BY DEF TypeOK
      <3>5. parser'[t].text = [hour |-> time.hour, minute |-> tm.minute]
        BY <3>1, <3>3, <3>4
      <3> QED  BY <2>4, <3>1, <3>2, <3>5
    <2>5. CASE u = t /\ ~ReadHour(t) /\ ~ReadMinute(t)
      <3>1. \/ parser'[t].pc \notin {"hour", "minute", "shown"}
            \/ parser'[t].departure = None /\ parser'[t].pc = "shown"
        BY <1>3, <2>5 DEF Local, ParseSucceeds, ReportError, ConvertFails, Push, Return, Goes, TypeOK
      <3> QED  BY <2>5, <3>1
    <2> QED  BY <2>2, <2>3, <2>4, <2>5
  <1>4. CASE UNCHANGED vars
    BY <1>4, OthersKeepTime DEF vars
  <1> QED  BY <1>1, <1>2, <1>3, <1>4, Steps

(* A wrong departure time is made of times that other threads converted    *)
(* between this one's localtime and the end of its reading.                *)
THEOREM ShownTime == Spec => []ShownTimeExplained
  <1>1. TimeInv => ShownTimeExplained
    BY DEF TimeInv, ShownTimeExplained, Own
  <1> QED  BY <1>1, TimeInit, TimeNext, TypeCorrect, PTL DEF Spec

-----------------------------------------------------------------------------
ErrorInv ==
    \A t \in Threads :
        /\ parser[t].pc = "report" => error \in errorSince[t] \cup {t}
        /\ parser[t].pc = "reported" => parser[t].near \in errorSince[t] \cup {t}

LEMMA OthersKeepError ==
    ASSUME ErrorInv, NEW u \in Threads, parser'[u] = parser[u],
           \/ error' = error /\ errorSince'[u] = errorSince[u]
           \/ errorSince'[u] = errorSince[u] \cup {error'}
    PROVE  /\ parser'[u].pc = "report" => error' \in errorSince'[u] \cup {u}
           /\ parser'[u].pc = "reported" => parser'[u].near \in errorSince'[u] \cup {u}
  BY DEF ErrorInv

LEMMA ErrorNext == TypeOK /\ ErrorInv /\ [Next]_vars => ErrorInv'
  <1> SUFFICES ASSUME TypeOK, ErrorInv, [Next]_vars  PROVE ErrorInv'
    OBVIOUS
  <1> DEFINE Keeps(u) ==
        /\ parser'[u].pc = "report" => error' \in errorSince'[u] \cup {u}
        /\ parser'[u].pc = "reported" => parser'[u].near \in errorSince'[u] \cup {u}
  <1> SUFFICES ASSUME NEW u \in Threads  PROVE Keeps(u)
    BY DEF ErrorInv
  <1>1. ASSUME NEW t \in Threads, Parse(t) \/ ParseFails(t)  PROVE Keeps(u)
    <2>1. CASE u = t
      BY <1>1, <2>1 DEF Parse, ParseFails, Goes, SetError, TypeOK
    <2>2. CASE u # t
      <3>1. parser'[u] = parser[u] /\ errorSince'[u] = errorSince[u] \cup {error'}
        BY <1>1, <2>2 DEF Parse, ParseFails, Goes, SetError, Noted, TypeOK
      <3> QED  BY <3>1, OthersKeepError
    <2> QED  BY <2>1, <2>2
  <1>2. ASSUME NEW t \in Threads, NEW time \in Times, Convert(t, time)  PROVE Keeps(u)
    <2>1. CASE u = t
      BY <1>2, <2>1 DEF Convert, TypeOK
    <2>2. CASE u # t
      <3>1. parser'[u] = parser[u] /\ error' = error /\ errorSince' = errorSince
        BY <1>2, <2>2 DEF Convert, TypeOK
      <3> QED  BY <3>1, OthersKeepError
    <2> QED  BY <2>1, <2>2
  <1>3. ASSUME NEW t \in Threads, Local(t)  PROVE Keeps(u)
    <2>1. error' = error /\ errorSince' = errorSince
      BY <1>3, LocalKeeps DEF Rest
    <2>2. CASE u # t
      <3>1. parser'[u] = parser[u]
        BY <1>3, <2>2 DEF Local, ParseSucceeds, ReportError, ConvertFails, ReadHour, ReadMinute,
                          Push, Return, Goes, TypeOK
      <3> QED  BY <2>1, <3>1, OthersKeepError
    <2>3. CASE u = t /\ ReportError(t)
      <3>1. parser[t].pc = "report" /\ parser'[t].pc = "reported" /\ parser'[t].near = error
        BY <2>3 DEF ReportError, TypeOK
      <3> QED  BY <2>1, <2>3, <3>1 DEF ErrorInv
    <2>4. CASE u = t /\ ~ReportError(t)
      <3>1. parser'[t].pc \notin {"report", "reported"}
        BY <1>3, <2>4 DEF Local, ParseSucceeds, ConvertFails, ReadHour, ReadMinute,
                          Push, Return, Goes, TypeOK
      <3> QED  BY <2>4, <3>1
    <2> QED  BY <2>2, <2>3, <2>4
  <1>4. CASE UNCHANGED vars
    BY <1>4, OthersKeepError DEF vars
  <1> QED  BY <1>1, <1>2, <1>3, <1>4, Steps

(* The error text reported is this thread's own unless another parse began *)
(* or failed in between.                                                   *)
THEOREM Report == Spec => []ReportExplained
  <1>1. Init => ErrorInv
    BY DEF Init, ErrorInv
  <1>2. ErrorInv => ReportExplained
    BY DEF ErrorInv, ReportExplained
  <1> QED  BY <1>1, <1>2, ErrorNext, TypeCorrect, PTL DEF Spec
=============================================================================
