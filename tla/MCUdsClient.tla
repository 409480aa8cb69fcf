---------------------------- MODULE MCUdsClient -----------------------------
EXTENDS UdsClient

(* Two stops of one name, and one that no search finds. *)
Table == <<[id |-> "F02615", name |-> "Oak square", contains |-> {"oak"}],
           [id |-> "002133", name |-> "Airport",    contains |-> {}],
           [id |-> "F02616", name |-> "Oak square", contains |-> {"oak"}]>>
=============================================================================
