---------------------------- MODULE MCStateStore ----------------------------
(* A small store for TLC. The two keys are interchangeable, and so are the  *)
(* two values and the hashes.                                               *)
EXTENDS StateStore, TLC

Symmetry == Permutations(Keys) \cup Permutations(Values) \cup Permutations(Hashes)
=============================================================================
