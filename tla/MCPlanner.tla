------------------------------ MODULE MCPlanner ------------------------------
(***************************************************************************)
(* The planner on small instances.  Two ways to use it are explored, each  *)
(* from an initial state of its own: long histories of a store that is     *)
(* never locked, with no sync in the evening; and shorter ones with both.  *)
(***************************************************************************)
EXTENDS Planner

CONSTANTS LastDayFew, MaxWindowsFew  \* bounds of the second usage

VARIABLE usage  \* which of the two a behaviour is about; never changes

Unlocked == ~evening /\ known = sealed /\ (open \/ sealed = NoPolls)
Few == today <= LastDayFew /\ Cardinality(sealed.done) <= MaxWindowsFew

Within ==
  \/ usage = "unlocked" /\ Unlocked
  \/ usage = "anyhow" /\ Few

MCInit == Init /\ usage \in {"unlocked", "anyhow"}
MCNext == Next /\ UNCHANGED usage /\ Within'
MCSpec == MCInit /\ [][MCNext]_<<vars, usage>>
=============================================================================
