------------------------------- MODULE Planner -------------------------------
(***************************************************************************)
(* Which days to ask the bank for.  plan_window keeps no cursor: what was  *)
(* asked for, and how often today, is read back from the poll events every *)
(* time.  A sync plans, asks, and records the answer, whatever it was.     *)
(*                                                                         *)
(* A window stands for the days from its first to the day before its last; *)
(* --since with a day to come asks for one that ends before it begins.     *)
(* A poll's event names a day of its own, by UTC; in the evening that is   *)
(* tomorrow.  Sealing a poll and keeping its row are one step here: Feeds  *)
(* and Imports take them apart.                                            *)
(***************************************************************************)
EXTENDS Integers, FiniteSets

CONSTANTS
  Span,       \* MAX_SPAN_DAYS
  Overlap,    \* OVERLAP_DAYS
  Backfill,   \* BACKFILL_DAYS
  Budget,     \* MAX_CALLS_DAY
  Proc,       \* processes that sync
  FirstDay,   \* the day the history begins
  LastDay,    \* bounds the days
  Ahead,      \* bounds how far ahead of today a --since is
  MaxCalls,   \* bounds the polls recorded of one day
  MaxWindows, \* bounds the windows answered
  Faults,     \* what may happen beside nightly syncs, a subset of AllFaults
  None

AllFaults == {"outage", "since", "backfill", "lock", "evening"}

ASSUME PlannerAssumption ==
  /\ Span \in Nat \ {0}
  /\ Overlap \in Nat
  /\ Backfill \in Nat
  /\ Budget \in Nat \ {0}
  /\ FirstDay \in Int
  /\ LastDay \in Int
  /\ FirstDay <= LastDay
  /\ Ahead \in Nat
  /\ MaxCalls \in Nat
  /\ MaxWindows \in Nat
  /\ IsFiniteSet(Proc)
  /\ Faults \subseteq AllFaults
  /\ None \notin [from: Int, to: Int]

Today == FirstDay..LastDay
Day == (FirstDay - Span)..(LastDay + 1 + Ahead)
Window == [from: Day, to: Day]
Days(w) == w.from .. (w.to - 1)
\* base.Window refuses what is wider, and nothing else.
Fits(w) == w.to - w.from <= Span
Forward(w) == w.from < w.to

Asked(C) == UNION {Days(w) : w \in C}

Least(S) == CHOOSE x \in S : \A y \in S : x <= y
Greatest(S) == CHOOSE x \in S : \A y \in S : y <= x
Lower(a, b) == IF a < b THEN a ELSE b
Higher(a, b) == IF a < b THEN b ELSE a

-----------------------------------------------------------------------------
(* plan_window, of the windows C that were answered. *)

\* The oldest day the bank answers for, if the window is to end at e.
FloorFor(e) == e - Span

Widest(today) == [from |-> FloorFor(today + 1), to |-> today + 1]

\* Mutant: windows are not merged.
Reach_First(C) == Least({w.to : w \in {v \in C : \A u \in C : v.from <= u.from}})

\* The first in sorted order.
First(C) ==
  CHOOSE w \in C : \A u \in C : w.from < u.from \/ (w.from = u.from /\ w.to <= u.to)

\* Where the first run of windows that touch ends.  The loop does not take up
\* a window that begins after it, nor any later one.
Reach(C) ==
  Least({w.to : w \in {v \in C : /\ First(C).to <= v.to
                                 /\ \A u \in C : u.from <= v.to => u.to <= v.to}})

\* Mutant: that the hole is not over already is not checked.
Gap_Unchecked(C, today) ==
  LET from == Higher(Reach(C), FloorFor(today))
      later == {w.from : w \in {v \in C : v.from > Reach(C) /\ v.from > from}}
  IN  IF later = {} THEN None ELSE [from |-> from, to |-> Lower(Least(later), today)]

\* _first_gap.
Gap(C, today) ==
  LET from == Higher(Reach(C), FloorFor(today))
      later == {w.from : w \in {v \in C : v.from > Reach(C) /\ v.from > from}}
  IN  IF later = {} \/ from >= today THEN None
      ELSE [from |-> from, to |-> Lower(Least(later), today)]

Earliest(C) == Least({w.from : w \in C})

\* The part before the first window that is still to be asked for.
Before(C, today) ==
  LET from == Higher(Higher(FloorFor(Earliest(C)), today - Backfill), FloorFor(today + 1))
  IN  IF Earliest(C) > today - Backfill /\ from < Earliest(C)
        THEN [from |-> from, to |-> Earliest(C)]
        ELSE None

\* The days from the watermark on.
Tail(C, today) ==
  LET start == Lower(Greatest({w.to : w \in C}), today) - Overlap
  IN  [from |-> Higher(start, FloorFor(today + 1)), to |-> today + 1]

\* Mutant: the tail is asked for first.
PlanWindow_TailFirst(C, calls, today) ==
  IF calls >= Budget THEN None
  ELSE IF C = {} THEN Widest(today)
  ELSE IF today \notin Asked(C) THEN Tail(C, today)
  ELSE IF Gap(C, today) # None THEN Gap(C, today)
  ELSE Tail(C, today)

\* Mutant: the budget may be met and then one more.
PlanWindow_OneMore(C, calls, today) ==
  IF calls > Budget THEN None
  ELSE IF C = {} THEN Widest(today)
  ELSE IF Gap(C, today) # None THEN Gap(C, today)
  ELSE IF Before(C, today) # None THEN Before(C, today)
  ELSE Tail(C, today)

PlanWindow(C, calls, today) ==
  IF calls >= Budget THEN None
  ELSE IF C = {} THEN Widest(today)
  ELSE IF Gap(C, today) # None THEN Gap(C, today)
  ELSE IF Before(C, today) # None THEN Before(C, today)
  ELSE Tail(C, today)

-----------------------------------------------------------------------------
VARIABLES
  today,      \* the local calendar day
  evening,    \* by UTC it is tomorrow already
  sealed,     \* the poll events in the log
  known,      \* the poll rows in the cache
  open,       \* there is a cache
  pc, task,   \* what each sync waits for an answer to
  spent,      \* history: planned requests of this day, by an open store
  blind       \* history: some request of this day is not in the count planned
              \* from: made in the evening, or without the cache there is now

log == <<sealed, known>>
day == <<today, evening>>
history == <<spent, blind>>
vars == <<today, evening, sealed, known, open, pc, task, spent, blind>>

\* What is read of the polls: the windows answered, and how many polls name
\* this day and the next one.
Polls == [done: SUBSET Window, now: Nat, next: Nat]
NoPolls == [done |-> {}, now |-> 0, next |-> 0]

Idle == [window |-> None, on |-> None, live |-> FALSE]
Task == [window: Window, on: FirstDay..(LastDay + 1), live: BOOLEAN]

TypeOK ==
  /\ today \in Today
  /\ evening \in BOOLEAN
  /\ sealed \in Polls
  /\ known \in Polls
  /\ open \in BOOLEAN
  /\ pc \in [Proc -> {"idle", "asking"}]
  /\ task \in [Proc -> Task \cup {Idle}]
  /\ \A p \in Proc : pc[p] = "asking" => task[p] \in Task
  /\ spent \in Nat
  /\ blind \in BOOLEAN

Init ==
  /\ today = FirstDay
  /\ evening = FALSE
  /\ sealed = NoPolls
  /\ known = NoPolls
  /\ open = FALSE
  /\ pc = [p \in Proc |-> "idle"]
  /\ task = [p \in Proc |-> Idle]
  /\ spent = 0
  /\ blind = FALSE

-----------------------------------------------------------------------------
(* cli.cmd_feeds_sync. *)

Ask(p, w) ==
  /\ pc[p] = "idle"
  /\ pc' = [pc EXCEPT ![p] = "asking"]
  /\ task' = [task EXCEPT ![p] = [window |-> w, live |-> open,
                                  on |-> IF evening THEN today + 1 ELSE today]]
  /\ UNCHANGED <<day, log, open>>

\* The nightly sync.  Without a cache it is planned from no history.
Sync(p) ==
  LET seen == IF open THEN known ELSE NoPolls
      w == PlanWindow(seen.done, seen.now, today)
  IN  /\ w # None
      /\ Ask(p, w)
      /\ spent' = IF open THEN spent + 1 ELSE spent
      /\ blind' = (blind \/ evening \/ ~open)

\* --since.  A window that is too wide raises; one that begins in the future
\* does not.
SyncSince(p) ==
  /\ "since" \in Faults
  /\ \E from \in (today - Span)..(today + Ahead) : Ask(p, [from |-> from, to |-> today])
  /\ UNCHANGED history

\* --backfill.
SyncBackfill(p) ==
  /\ "backfill" \in Faults
  /\ Ask(p, PlanWindow({}, 0, today))
  /\ UNCHANGED history

\* The polls P and one more.
Counted(P, t, answered) ==
  [done |-> IF answered THEN P.done \cup {t.window} ELSE P.done,
   now |-> IF t.on = today THEN P.now + 1 ELSE P.now,
   next |-> IF t.on = today + 1 THEN P.next + 1 ELSE P.next]

\* The poll ends, ok or partial, or with an error, and is recorded.
Answer(p) ==
  /\ pc[p] = "asking"
  /\ sealed.now < MaxCalls /\ sealed.next < MaxCalls
  /\ Cardinality(sealed.done) < MaxWindows
  /\ \E answered \in BOOLEAN :
       /\ sealed' = Counted(sealed, task[p], answered)
       /\ known' = IF task[p].live THEN Counted(known, task[p], answered) ELSE known
  /\ blind' = (blind \/ ~task[p].live)
  /\ pc' = [pc EXCEPT ![p] = "idle"]
  /\ task' = [task EXCEPT ![p] = Idle]
  /\ UNCHANGED <<day, open, spent>>

-----------------------------------------------------------------------------
\* The connections there are lead to no cache any more.
Detached ==
  [p \in Proc |-> [window |-> task[p].window, on |-> task[p].on, live |-> FALSE]]

\* keys.lock.
Lock ==
  /\ "lock" \in Faults
  /\ open
  /\ open' = FALSE
  /\ known' = NoPolls
  /\ task' = Detached
  /\ UNCHANGED <<day, sealed, pc, history>>

\* cli.cmd_unlock: the log is replayed into a new cache.
Unlock ==
  /\ open' = TRUE
  /\ known' = sealed
  /\ task' = Detached
  /\ UNCHANGED <<day, sealed, pc, history>>

\* Four hours before midnight, in New York.
Dusk ==
  /\ "evening" \in Faults
  /\ ~evening
  /\ evening' = TRUE
  /\ UNCHANGED <<today, log, open, pc, task, history>>

NextDayOf(P) == [P EXCEPT !.now = P.next, !.next = 0]

\* Midnight.  Without the fault "outage", some sync was answered lately.
Midnight ==
  /\ today < LastDay
  /\ "outage" \in Faults \/ \E w \in sealed.done : w.to > today + 1 - Span
  /\ today' = today + 1
  /\ evening' = FALSE
  /\ sealed' = NextDayOf(sealed)
  /\ known' = NextDayOf(known)
  /\ spent' = 0
  /\ blind' = FALSE
  /\ UNCHANGED <<open, pc, task>>

Next ==
  \/ \E p \in Proc : Sync(p) \/ SyncSince(p) \/ SyncBackfill(p) \/ Answer(p)
  \/ Lock
  \/ Unlock
  \/ Dusk
  \/ Midnight

Spec == Init /\ [][Next]_vars

-----------------------------------------------------------------------------
\* The days the cache says the bank was not asked for, though it was for
\* earlier and for later ones.
Holes ==
  {d \in Earliest(known.done) .. (Greatest({w.to : w \in known.done}) - 1) :
     d \notin Asked(known.done)}

\* A hole aged past what the bank answers for.
Lost == known.done # {} /\ \E d \in Holes : d < FloorFor(today)

\* The first window of all was a --since with a day to come: the loop begins
\* where that one ends, and what begins where it began is beyond the reach.
Backward == known.done # {} /\ First(known.done).to < First(known.done).from

Planned == PlanWindow(known.done, known.now, today)

(***************************************************************************)
(* Whatever is in the history, windows of --since that end before they     *)
(* begin too, the window planned is one day or more, and none asked for,   *)
(* however, is wider than the protocol allows (base.Window raises).        *)
(***************************************************************************)
WindowsFit ==
  /\ \A p \in Proc : pc[p] = "asking" => Fits(task[p].window)
  /\ \A w \in sealed.done : Fits(w)
  /\ Planned # None => Forward(Planned) /\ Fits(Planned)

(***************************************************************************)
(* A hole is "returned before the tail" (_first_gap): the window planned   *)
(* has the first hole in it, of those before today.                        *)
(***************************************************************************)
HolesFirstUnlessLost ==
  open /\ known.done # {} /\ Planned # None /\ ~Lost /\ ~Backward =>
    \A d \in Holes : d < today /\ (\A e \in Holes : d <= e) => d \in Days(Planned)

(***************************************************************************)
(* "The tail will still be there tomorrow" (_first_gap): a sync asks for   *)
(* some day not asked for yet, or for the newest.                          *)
(***************************************************************************)
Learns == open /\ Planned # None => today \in Days(Planned) \/ Days(Planned) \ Asked(known.done) # {}
LearnsUnlessLost == Lost \/ Backward \/ Learns

(***************************************************************************)
(* Twenty requests a day (plan_window), and as many more as syncs run at   *)
(* once, while the count can see them all.                                 *)
(***************************************************************************)
BudgetKept == ~blind => spent < Budget + Cardinality(Proc)
=============================================================================
