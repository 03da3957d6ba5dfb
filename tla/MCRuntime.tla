------------------------------ MODULE MCRuntime -----------------------------
(* Runtime on small instances: processes and receipts are interchangeable. *)
EXTENDS Runtime, TLC

Names == Permutations(Actor) \cup Permutations(Receipt)
=============================================================================
