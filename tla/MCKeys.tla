-------------------------------- MODULE MCKeys --------------------------------
(* Keys, for TLC. *)
EXTENDS Keys, TLC

Symmetry == Permutations(Proc) \cup Permutations(LockFile)
=============================================================================
