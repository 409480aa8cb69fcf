----------------------------- MODULE MCUdsCache -----------------------------
(* Instances of UdsCache for TLC, and the mutants of its definitions. *)
EXTENDS UdsCache, TLC

Symmetry == Permutations(Threads) \cup Permutations(Stops) \cup Permutations(Answers)
=============================================================================
