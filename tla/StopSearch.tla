----------------------------- MODULE StopSearch -----------------------------
(***************************************************************************)
(* find_stops_by_name_substring: one pass over the table to count, an      *)
(* allocation of that size, and a second pass that fills it by position.   *)
(* The second pass has no bound of its own: it is safe because it agrees   *)
(* with the first.  The one caller passes no null pointer.                 *)
(***************************************************************************)
EXTENDS StopOps, FiniteSets

VARIABLES
    substring,
    pc,
    i,
    count,
    indices,    \* the allocated array as far as it is filled; idx is its length
    out         \* the result, *indices_out and *count_out

vars == <<substring, pc, i, count, indices, out>>

None == [stat |-> "none", indices |-> Null, count |-> 0]

NothingFound == [stat |-> "BKK_STOP_NOT_FOUND", indices |-> Null, count |-> 0]

Init ==
    /\ substring \in Substrings \cup {Null}
    /\ pc = "count"
    /\ i = 0
    /\ count = 0
    /\ indices = <<>>
    /\ out = None

Return(result) ==
    /\ pc' = "returned"
    /\ out' = result
    /\ UNCHANGED <<substring, i, count, indices>>

(* Mutant of Count: the second pass's test is another one (a stop whose    *)
(* name was met before is not counted).                                    *)
CountNames ==
    /\ pc = "count"
    /\ i < BKK_STOP_COUNT
    /\ count' = IF i \in Matches(substring) /\ \A n \in Indices : n < i => StopAt(n).name # StopAt(i).name
                THEN count + 1 ELSE count
    /\ i' = i + 1
    /\ UNCHANGED <<substring, pc, indices, out>>

Count ==
    /\ pc = "count"
    /\ i < BKK_STOP_COUNT
    /\ count' = IF i \in Matches(substring) THEN count + 1 ELSE count
    /\ i' = i + 1
    /\ UNCHANGED <<substring, pc, indices, out>>

NoMatch ==
    /\ pc = "count"
    /\ i = BKK_STOP_COUNT
    /\ count = 0
    /\ Return(NothingFound)

MallocFails ==
    /\ pc = "count"
    /\ i = BKK_STOP_COUNT
    /\ count # 0
    /\ Return(NothingFound)

Malloc ==
    /\ pc = "count"
    /\ i = BKK_STOP_COUNT
    /\ count # 0
    /\ pc' = "collect"
    /\ i' = 0
    /\ UNCHANGED <<substring, count, indices, out>>

Collect ==
    /\ pc = "collect"
    /\ i < BKK_STOP_COUNT
    /\ indices' = IF i \in Matches(substring) THEN Append(indices, i) ELSE indices
    /\ i' = i + 1
    /\ UNCHANGED <<substring, pc, count, out>>

Finish ==
    /\ pc = "collect"
    /\ i = BKK_STOP_COUNT
    /\ Return([stat |-> "BKK_STOP_FOUND", indices |-> indices, count |-> count])

Next ==
    \/ Count \/ NoMatch
    \/ MallocFails \/ Malloc \/ Collect \/ Finish

Spec == Init /\ [][Next]_vars

-----------------------------------------------------------------------------
(* Types; and the answer's parts agree: the callers loop over count and    *)
(* free the array whatever the status was.                                 *)
TypeOK ==
    /\ substring \in Substrings \cup {Null}
    /\ pc \in {"count", "collect", "returned"}
    /\ i \in 0..BKK_STOP_COUNT
    /\ count \in Nat
    /\ indices \in Seq(Indices)
    /\ out.stat \in {"none", "BKK_STOP_NOT_FOUND", "BKK_STOP_FOUND"}
    /\ out.stat # "BKK_STOP_FOUND" => out.indices = Null /\ out.count = 0

(* indices[idx++] stays inside malloc(count * sizeof(size_t)). *)
WithinAllocation == Len(indices) <= count

(* What is returned as found: each matching stop once, in the order of     *)
(* the table, with nothing of the array left unwritten; and each index     *)
(* leads through find_stop_by_index to a stop that find_stop_by_id finds   *)
(* by its id and find_stop_by_name by its name or an earlier namesake.     *)
FoundAreTheMatches ==
    out.stat = "BKK_STOP_FOUND" =>
        /\ out.count = Len(out.indices) /\ out.count > 0
        /\ {out.indices[n] : n \in 1..out.count} = Matches(substring)
        /\ \A m, n \in 1..out.count : m < n => out.indices[m] < out.indices[n]
        /\ \A n \in 1..out.count :
            LET found == find_stop_by_index(out.indices[n])
            IN  /\ found.stat = "BKK_STOP_FOUND"
                /\ substring \in found.stop.contains
                /\ find_stop_by_id(found.stop.id) = found
                /\ find_stop_by_name(found.stop.name).stop.name = found.stop.name
=============================================================================
