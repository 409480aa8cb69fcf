----------------------------- MODULE MCParseRace ----------------------------
EXTENDS ParseRace, TLC

Symmetry == Permutations(Threads)
=============================================================================
