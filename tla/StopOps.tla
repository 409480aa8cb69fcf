------------------------------ MODULE StopOps -------------------------------
(***************************************************************************)
(* The table of stops, a constant of the program, and the searches of      *)
(* bkk_stop_utils.c that return one stop of it.  Indices are the code's,   *)
(* from 0.  A name comes with what strstr finds in it.                     *)
(***************************************************************************)
EXTENDS Integers, Sequences

CONSTANTS
    Ids, Names, Substrings,
    StopList,       \* bkk_stop_list, with BKK_STOP_COUNT initialisers
    Null

(* bkk_stop_t, the coordinates left out *)
Stop == [id : Ids, name : Names, contains : SUBSET Substrings]

BKK_STOP_COUNT == Len(StopList)

Indices == 0 .. BKK_STOP_COUNT - 1

StopAt(n) == StopList[n + 1]

(* The table has no id twice; 6137 stops share 2563 names. *)
ASSUME StopListAssumption ==
    /\ StopList \in Seq(Stop) /\ StopList # <<>>
    /\ \A m, n \in Indices : StopAt(m).id = StopAt(n).id => m = n
    /\ Null \notin Stop \cup Ids \cup Names \cup Substrings

NotFound == [stat |-> "BKK_STOP_NOT_FOUND", stop |-> Null]

First(S) == CHOOSE n \in S : \A m \in S : n <= m

FirstOf(S) ==
    IF S = {} THEN NotFound ELSE [stat |-> "BKK_STOP_FOUND", stop |-> StopAt(First(S))]

(* A null pointer equals no id and no name. *)
find_stop_by_id(stop_id) == FirstOf({n \in Indices : StopAt(n).id = stop_id})

find_stop_by_name(stop_name) == FirstOf({n \in Indices : StopAt(n).name = stop_name})

(* Mutant of find_stop_by_index: off by one. *)
find_next_stop_by_index(index) ==
    IF index + 1 \in Indices THEN [stat |-> "BKK_STOP_FOUND", stop |-> StopAt(index + 1)] ELSE NotFound

(* size_t has no negative values. *)
find_stop_by_index(index) ==
    IF index \in Indices THEN [stat |-> "BKK_STOP_FOUND", stop |-> StopAt(index)] ELSE NotFound

(* What find_stops_by_name_substring (StopSearch) looks for. *)
Matches(substring) == {n \in Indices : substring \in StopAt(n).contains}
=============================================================================
