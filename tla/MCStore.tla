------------------------------- MODULE MCStore -------------------------------
(***************************************************************************)
(* The receipt path on small instances.  Three ways to run the system are   *)
(* explored, each from initial states of its own: handlers of the event     *)
(* loop alone; the same under a clock that steps back; and one of them      *)
(* beside a thread or a second process, with rows written to the cache      *)
(* alone.                                                                   *)
(*                                                                         *)
(* Actors of one kind are interchangeable, and so are values, which nothing *)
(* orders.                                                                  *)
(***************************************************************************)
EXTENDS Store, TLC

CONSTANTS
  MaxTogether,            \* bounds appends and databases of the first usage
  MaxStampFew, MaxGenFew  \* bounds of the second and third usage

VARIABLE usage  \* which of the three a behaviour is about; never changes

InOrder == \A t \in stamps : \A u \in Stamp : u < t => u \in stamps
Requeued == \E r \in rows : r.body.kind = "requeue"

NoThread == \A p \in Pool : pc[p] = "idle"
LoopAlone == NoThread /\ InOrder /\ ~Requeued
Few ==
  /\ \A t \in stamps : t <= MaxStampFew
  /\ gen <= MaxGenFew
FewTogether == Cardinality(stamps) + gen <= MaxTogether
OneTask == Cardinality({p \in Loop : pc[p] # "idle"}) <= 1

Within ==
  \/ usage = "loop alone" /\ LoopAlone /\ FewTogether
  \/ usage = "clock steps" /\ NoThread /\ Few /\ ~Requeued
  \/ usage = "beside a thread" /\ OneTask /\ InOrder /\ Few

MCInit == Init /\ usage \in {"loop alone", "clock steps", "beside a thread"}
MCNext == Next /\ UNCHANGED usage /\ Within'
MCSpec == MCInit /\ [][MCNext]_<<vars, usage>>

(***************************************************************************)
(* What is shown is what the rows project to, as long as all that writes is *)
(* a handler of the event loop, which runs from its commit to its           *)
(* projection without another in between (worker, web.app).                 *)
(***************************************************************************)
LoopIsFresh == usage = "loop alone" => ProjectionIsFresh

(***************************************************************************)
(* The last edit to a field survives, as long as the clock does not step    *)
(* back (project, store.now).                                               *)
(***************************************************************************)
LoopKeepsTheLastEdit == usage = "loop alone" => LastEditWinsUnlessRepeated

Symmetry == Permutations(Loop) \cup Permutations(Pool) \cup Permutations(Value)
=============================================================================
