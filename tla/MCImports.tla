------------------------------ MODULE MCImports ------------------------------
(* Imports, for TLC: two exports that share a record, and one that no      *)
(* dialect claims.                                                         *)
EXTENDS Imports, TLC

CONSTANTS march, april, notes, r1, r2, r3

Overlapping ==
  [e \in Export |-> CASE e = march -> {r1, r2} [] e = april -> {r2, r3} [] OTHER -> {}]

Symmetry == Permutations(Proc)
=============================================================================
