------------------------------- MODULE MCFeeds -------------------------------
(***************************************************************************)
(* Feeds on small instances.  Two ways to use the system are explored, each *)
(* from initial states of its own: all it can record, by commands that      *)
(* follow each other; and one transaction, by commands that overlap, over   *)
(* one database less.  The union of the two is small where everything at    *)
(* once is not.                                                             *)
(***************************************************************************)
EXTENDS Feeds, FiniteSets, TLC

VARIABLE usage  \* which of the two a behaviour is about; never changes

AnyRaw == CHOOSE w \in Raw : TRUE

InTurn == Cardinality({p \in Proc : pc[p] # "idle"}) <= 1
\* A kill that is not also how a command may end.
Killed == \E p \in Proc : Crash(p) /\ ~Commit(p) /\ ~WriteProjection(p)
OneTransaction ==
  \A p \in Proc : \A e \in task[p].todo : e.subject.kind = "txn" /\ e.said.raw = AnyRaw

Within ==
  \/ usage = "in turn" /\ InTurn' /\ ~Killed
  \/ usage = "at once" /\ OneTransaction' /\ gen' < MaxGen

MCInit == Init /\ usage \in {"in turn", "at once"}
MCNext == Next /\ UNCHANGED usage /\ Within
MCSpec == MCInit /\ [][MCNext]_<<vars, usage>>

Symmetry == Permutations(Content) \cup Permutations(Proc)
=============================================================================
