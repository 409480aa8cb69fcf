---------------------------- MODULE MCUdsServer ----------------------------
EXTENDS UdsServer, TLC

(* Two spellings of one stop, and another stop. *)
PlainStop == [prefixed |-> FALSE, id |-> "F02615"]
PrefixedStop == [prefixed |-> TRUE, id |-> "F02615"]
OtherStop == [prefixed |-> FALSE, id |-> "F02932"]
OneStop == {PlainStop}
TwoStops == {PlainStop, OtherStop}
ThreeSpellings == {PlainStop, PrefixedStop, OtherStop}

Symmetry == Permutations(Clients) \cup Permutations(Workers) \cup Permutations(Refreshers)
=============================================================================
