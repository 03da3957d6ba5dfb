------------------------------ MODULE MCBackup ------------------------------
(* Backup on small instances: processes are interchangeable. *)
EXTENDS Backup, TLC

Processes == Permutations(Proc)
=============================================================================
