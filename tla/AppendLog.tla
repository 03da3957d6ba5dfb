------------------------------ MODULE AppendLog ------------------------------
(***************************************************************************)
(* What the sealed log promises, with no files in it: a table from the     *)
(* name of an event (the hash of its body, ledger.digest) to the one       *)
(* observation of it that was kept (its timestamp and its `aside').        *)
(*                                                                         *)
(* An event is written once.  Appending a body the log already holds is a  *)
(* no-op and keeps the first observation, nothing is ever overwritten and  *)
(* nothing is ever removed.  SealedLog (the files) and Store (the receipt  *)
(* path) are both shown to implement this.                                 *)
(***************************************************************************)
CONSTANTS
  Name,     \* the names of events: one per body
  Obs,      \* what may be observed beside the body
  None      \* no file under this name; not in Obs

VARIABLE log

Init == log = [n \in Name |-> None]

\* ledger.append when the file is not there; when it is, the step is a stutter.
Append(n, o) ==
  /\ log[n] = None
  /\ log' = [log EXCEPT ![n] = o]

Next == \E n \in Name, o \in Obs : Append(n, o)

Spec == Init /\ [][Next]_log
=============================================================================
