---------------------------- MODULE PlannerProofs ----------------------------
(***************************************************************************)
(* What plan_window asks for, for any span, overlap, budget and history:   *)
(* no window the protocol refuses, the first hole first, and no sync in    *)
(* vain, unless a hole was lost or the history begins backwards.           *)
(***************************************************************************)
EXTENDS Planner, WellFoundedInduction, FiniteSetTheorems, TLAPS

-----------------------------------------------------------------------------
(* Days are bounded, so that sets of them have a first and a last one. *)

LEMMA LeastOf ==
  ASSUME NEW S \in SUBSET Day, S # {}
  PROVE  Least(S) \in S /\ \A y \in S : Least(S) <= y
<1> DEFINE low == FirstDay - Span
           T == {x - low : x \in S}
<1>1. low \in Int /\ \A x \in S : x \in Int /\ low <= x
  BY PlannerAssumption DEF Day
<1>2. T \subseteq Nat /\ T # {}
  BY <1>1
<1>3. PICK m \in T : \A y \in T : ~ (<<y, m>> \in OpToRel(<, Nat))
  <2> HIDE DEF T
  <2> QED BY <1>2, NatLessThanWellFounded, WFMin
<1>4. \A y \in T : ~(y < m)
  BY <1>2, <1>3 DEF OpToRel
<1>5. PICK x \in S : m = x - low
  OBVIOUS
<1>6. \A y \in S : x <= y
  BY <1>1, <1>4, <1>5
<1> QED
  BY <1>6 DEF Least

LEMMA GreatestOf ==
  ASSUME NEW S \in SUBSET Day, S # {}
  PROVE  Greatest(S) \in S /\ \A y \in S : y <= Greatest(S)
<1> DEFINE high == LastDay + 1 + Ahead
           T == {high - x : x \in S}
<1>1. high \in Int /\ \A x \in S : x \in Int /\ x <= high
  BY PlannerAssumption DEF Day
<1>2. T \subseteq Nat /\ T # {}
  BY <1>1
<1>3. PICK m \in T : \A y \in T : ~ (<<y, m>> \in OpToRel(<, Nat))
  <2> HIDE DEF T
  <2> QED BY <1>2, NatLessThanWellFounded, WFMin
<1>4. \A y \in T : ~(y < m)
  BY <1>2, <1>3 DEF OpToRel
<1>5. PICK x \in S : m = high - x
  OBVIOUS
<1>6. \A y \in S : y <= x
  <2> SUFFICES ASSUME NEW y \in S PROVE y <= x
    OBVIOUS
  <2>1. ~(high - y < high - x)
    BY <1>4, <1>5
  <2> QED
    BY <1>1, <2>1
<1> QED
  BY <1>6 DEF Greatest

-----------------------------------------------------------------------------
(* The windows that were answered. *)

History(C) == C \in SUBSET Window /\ C # {} /\ \A w \in C : Fits(w)

LEMMA WindowDays ==
  ASSUME NEW w \in Window
  PROVE  /\ w.from \in Day /\ w.to \in Day /\ w.from \in Int /\ w.to \in Int
         /\ Days(w) = {d \in Int : w.from <= d /\ d < w.to}
BY PlannerAssumption DEF Window, Day, Days

LEMMA EarliestOf ==
  ASSUME NEW C, History(C)
  PROVE  Earliest(C) \in Day /\ \A w \in C : Earliest(C) <= w.from
<1> DEFINE S == {w.from : w \in C}
<1>1. S \in SUBSET Day /\ S # {}
  BY WindowDays DEF History
<1> QED
  BY <1>1, LeastOf DEF Earliest

LEMMA WatermarkOf ==
  ASSUME NEW C, History(C)
  PROVE  /\ Greatest({w.to : w \in C}) \in Day
         /\ \A v \in C : v.to <= Greatest({w.to : w \in C})
         /\ \E v \in C : v.to = Greatest({w.to : w \in C})
<1> DEFINE S == {w.to : w \in C}
<1>1. S \in SUBSET Day /\ S # {}
  BY WindowDays DEF History
<1> QED
  BY <1>1, GreatestOf

LEMMA FirstOf ==
  ASSUME NEW C, History(C)
  PROVE  First(C) \in C /\ First(C) \in Window /\ First(C).from = Earliest(C)
<1> DEFINE S == {w.from : w \in C}
           T == {w.to : w \in {v \in C : v.from = Least(S)}}
<1>1. \A w \in C : w \in Window /\ w.from \in Day /\ w.to \in Day /\ w.from \in Int /\ w.to \in Int
  BY WindowDays DEF History
<1>2. Least(S) \in S /\ \A y \in S : Least(S) <= y
  <2>1. S \in SUBSET Day /\ S # {}
    BY <1>1 DEF History
  <2> QED
    BY <2>1, LeastOf
<1>3. Least(T) \in T /\ \A y \in T : Least(T) <= y
  <2>1. T \in SUBSET Day /\ T # {}
    BY <1>1, <1>2
  <2> QED
    BY <2>1, LeastOf
<1>3a. \A u \in C : Least(S) <= u.from
  BY <1>2
<1>4. PICK m \in C : m.from = Least(S) /\ m.to = Least(T)
  BY <1>3
<1>5. \A u \in C : m.from < u.from \/ (m.from = u.from /\ m.to <= u.to)
  <2> SUFFICES ASSUME NEW u \in C, ~(m.from < u.from) PROVE m.from = u.from /\ m.to <= u.to
    OBVIOUS
  <2>0. ~(m.from < u.from)
    OBVIOUS
  <2>1. m.from = u.from
    <3>1. m.from <= u.from /\ m.from \in Int /\ u.from \in Int
      BY <1>3a, <1>1, <1>4
    <3> QED
      BY <2>0, <3>1
  <2> QED
    BY <1>3, <1>4, <2>1
<1>6. First(C) \in C /\ \A u \in C : First(C).from < u.from \/ (First(C).from = u.from /\ First(C).to <= u.to)
  BY <1>5 DEF First
<1>7. First(C).from = Least(S)
  <2>1. First(C).from <= m.from /\ m.from <= First(C).from
    BY <1>3a, <1>1, <1>4, <1>6
  <2> QED
    BY <1>1, <1>4, <1>6, <2>1
<1> QED
  BY <1>1, <1>6, <1>7 DEF Earliest

\* What begins no later than the reach ends there or before, and nothing less
\* has this property, from the end of the first window on.
Closed(C, e) == \A u \in C : u.from <= e => u.to <= e

LEMMA ReachOf ==
  ASSUME NEW C, History(C)
  PROVE  /\ Reach(C) \in Day
         /\ Closed(C, Reach(C))
         /\ \E w \in C : w.to = Reach(C)
         /\ First(C).to <= Reach(C)
         /\ \A w \in C : First(C).to <= w.to /\ Closed(C, w.to) => Reach(C) <= w.to
<1> DEFINE E == {w.to : w \in {v \in C : /\ First(C).to <= v.to
                                         /\ \A u \in C : u.from <= v.to => u.to <= v.to}}
<1>1. E \in SUBSET Day
  BY WindowDays DEF History
<1>2. E # {}
  <2>1. PICK w \in C : \A v \in C : v.to <= w.to
    BY WatermarkOf
  <2>2. First(C).to <= w.to
    BY <2>1, FirstOf
  <2> QED
    BY <2>1, <2>2
<1>3. Reach(C) \in E /\ \A y \in E : Reach(C) <= y
  BY <1>1, <1>2, LeastOf DEF Reach
<1> QED
  BY <1>1, <1>3 DEF Closed

\* The day after the reach was not asked for, every one before it was.
LEMMA ReachNotAsked ==
  ASSUME NEW C, History(C)
  PROVE  Reach(C) \notin Asked(C)
<1>1. ASSUME NEW w \in C, Reach(C) \in Days(w) PROVE FALSE
  <2>1. w \in Window
    BY DEF History
  <2> QED
    BY <1>1, <2>1, WindowDays, ReachOf DEF Closed
<1> QED
  BY <1>1 DEF Asked

LEMMA BeforeReachAsked ==
  ASSUME NEW C, History(C), NEW d \in Int, Earliest(C) <= d, d < Reach(C)
  PROVE  d \in Asked(C)
<1> SUFFICES ASSUME d \notin Asked(C) PROVE FALSE
  OBVIOUS
<1> DEFINE S == {w \in C : w.from <= d}
<1>1. \A w \in C : w \in Window
  BY DEF History
<1>2. \A w \in S : w.to <= d
  BY <1>1, WindowDays DEF Asked
<1>3. History(S)
  <2>1. {w.from : w \in C} \in SUBSET Day /\ {w.from : w \in C} # {}
    BY <1>1, WindowDays DEF History
  <2>2. \E w \in C : w.from = Earliest(C)
    BY <2>1, LeastOf DEF Earliest
  <2> QED
    BY <2>2 DEF History
<1>4. PICK m \in S : \A w \in S : w.to <= m.to
  BY <1>3, WatermarkOf
<1>5. Closed(C, m.to)
  <2> SUFFICES ASSUME NEW u \in C, u.from <= m.to PROVE u.to <= m.to
    BY DEF Closed
  <2>1. u.from <= d
    BY <1>1, <1>2, WindowDays
  <2> QED
    BY <2>1, <1>4
<1>6. Reach(C) <= m.to
  <2>1. First(C) \in S
    BY FirstOf
  <2> QED
    BY <1>4, <1>5, <2>1, ReachOf
<1> QED
  BY <1>1, <1>2, <1>6, ReachOf, WindowDays DEF Day

-----------------------------------------------------------------------------
(* What is planned. *)

\* A hole, of the windows C: Holes is this of the windows known.
HoleIn(C, d) ==
  /\ d \in Int /\ Earliest(C) <= d /\ d < Greatest({w.to : w \in C})
  /\ d \notin Asked(C)

\* The first window, in order, ends no earlier than it begins.
InOrder(C) == First(C).from <= First(C).to

LEMMA ReachIsHole ==
  ASSUME NEW C, History(C), InOrder(C), Reach(C) < Greatest({w.to : w \in C})
  PROVE  HoleIn(C, Reach(C))
<1>1. /\ Earliest(C) \in Int /\ Reach(C) \in Int
      /\ First(C).from \in Int /\ First(C).to \in Int
  BY EarliestOf, ReachOf, FirstOf, WindowDays DEF Day
<1>2. Earliest(C) <= Reach(C)
  BY <1>1, FirstOf, ReachOf DEF InOrder
<1> QED
  BY <1>1, <1>2, ReachNotAsked DEF HoleIn

\* Beyond a hole a window begins after the reach, and the reach is the first hole.
LEMMA FirstHole ==
  ASSUME NEW C, History(C), InOrder(C), NEW d, HoleIn(C, d)
  PROVE  /\ Reach(C) <= d
         /\ \E v \in C : d < v.from
         /\ HoleIn(C, Reach(C))
<1>1. \A w \in C : w \in Window
  BY DEF History
<1>2. Reach(C) \in Int /\ d \in Int
  BY ReachOf DEF Day, HoleIn
<1>3. Reach(C) <= d
  BY <1>2, BeforeReachAsked DEF HoleIn
<1>4. PICK v \in C : d < v.to
  BY WatermarkOf DEF HoleIn
<1>5. d < v.from
  <2>1. v \in Window /\ d \notin Days(v)
    BY <1>1 DEF HoleIn, Asked
  <2> QED
    BY <1>2, <1>4, <2>1, WindowDays
<1>6. Reach(C) < Greatest({w.to : w \in C})
  <2>1. Greatest({w.to : w \in C}) \in Int
    BY WatermarkOf DEF Day
  <2> QED
    BY <1>2, <1>3, <2>1 DEF HoleIn
<1> QED
  BY <1>3, <1>5, <1>6, ReachIsHole

\* _first_gap: from the reach or from the floor, whichever is later, to a
\* window that begins after it.
LEMMA GapIs ==
  ASSUME NEW C, History(C), NEW t \in Today, Gap(C, t) # None
  PROVE  /\ Gap(C, t) \in Window /\ Fits(Gap(C, t))
         /\ Forward(Gap(C, t))
         /\ Gap(C, t).from = Higher(Reach(C), FloorFor(t))
         /\ \E v \in C : Reach(C) < v.from
         /\ \A v \in C : Reach(C) < v.from => v.from <= Gap(C, t).from \/ Gap(C, t).to <= v.from
<1> DEFINE from == Higher(Reach(C), FloorFor(t))
           L == {w.from : w \in {v \in C : v.from > Reach(C) /\ v.from > from}}
<1>1. L # {} /\ ~(from >= t) /\ Gap(C, t) = [from |-> from, to |-> Lower(Least(L), t)]
  BY DEF Gap
<1>2. \A w \in C : w \in Window /\ w.from \in Day /\ w.from \in Int
  BY WindowDays DEF History
<1>3. L \in SUBSET Day
  BY <1>2
<1>4. Least(L) \in L /\ \A y \in L : Least(L) <= y
  BY <1>1, <1>3, LeastOf
<1>5. t \in Int /\ FloorFor(t) \in Int /\ FloorFor(t) = t - Span /\ Reach(C) \in Day /\ Reach(C) \in Int
  BY PlannerAssumption, ReachOf DEF Today, FloorFor, Day
<1>6. /\ from \in Int /\ Reach(C) <= from /\ t - Span <= from
      /\ from < t /\ (from = Reach(C) \/ from = t - Span)
  BY <1>1, <1>5 DEF Higher
<1>7. Least(L) \in Int /\ from < Least(L) /\ Least(L) \in Day
  BY <1>2, <1>3, <1>4
<1>8. from \in Day
  BY <1>5, <1>6, PlannerAssumption DEF Day, Today
<1>9. /\ Lower(Least(L), t) \in Int /\ from < Lower(Least(L), t)
      /\ Lower(Least(L), t) <= t /\ Lower(Least(L), t) <= Least(L)
  BY <1>5, <1>6, <1>7 DEF Lower
<1>10. Lower(Least(L), t) \in Day
  <2> t \in Day
    BY PlannerAssumption DEF Day, Today
  <2> QED
    BY <1>7 DEF Lower
<1>11. Gap(C, t).from = from /\ Gap(C, t).to = Lower(Least(L), t)
  BY <1>1
<1>12. Gap(C, t) \in Window
  BY <1>1, <1>8, <1>10 DEF Window
<1>13. Fits(Gap(C, t))
  BY <1>5, <1>6, <1>9, <1>11, PlannerAssumption DEF Fits
<1>14. \E v \in C : Reach(C) < v.from
  BY <1>1, <1>2, <1>5
<1>15. Forward(Gap(C, t))
  BY <1>9, <1>11 DEF Forward
<1>16. ASSUME NEW v \in C, Reach(C) < v.from, ~(v.from <= from) PROVE Lower(Least(L), t) <= v.from
  <2>1. v.from \in L
    BY <1>2, <1>5, <1>6, <1>16
  <2> QED
    BY <1>2, <1>4, <1>7, <1>9, <2>1
<1> HIDE DEF from, L
<1> QED
  BY <1>6, <1>9, <1>11, <1>12, <1>13, <1>14, <1>15, <1>16 DEF from

LEMMA BeforeIs ==
  ASSUME NEW C, History(C), NEW t \in Today, Before(C, t) # None
  PROVE  /\ Before(C, t) \in Window /\ Fits(Before(C, t))
         /\ Before(C, t).from < Earliest(C) /\ Forward(Before(C, t))
<1> DEFINE from == Higher(Higher(FloorFor(Earliest(C)), t - Backfill), FloorFor(t + 1))
<1>1. from < Earliest(C) /\ Before(C, t) = [from |-> from, to |-> Earliest(C)]
  BY DEF Before
<1>2. Earliest(C) \in Day /\ Earliest(C) \in Int /\ t \in Int
  BY EarliestOf, PlannerAssumption DEF Day, Today
<1>3. from \in Int /\ Earliest(C) - Span <= from /\ t + 1 - Span <= from
  BY <1>2, PlannerAssumption DEF Higher, FloorFor
<1>4. from \in Day
  BY <1>1, <1>2, <1>3, PlannerAssumption DEF Day, Today
<1> HIDE DEF from
<1> QED
  BY <1>1, <1>2, <1>3, <1>4, PlannerAssumption DEF Window, Fits, Forward

LEMMA TailIs ==
  ASSUME NEW C, History(C), NEW t \in Today
  PROVE  /\ Tail(C, t) \in Window /\ Fits(Tail(C, t)) /\ Forward(Tail(C, t))
         /\ t \in Days(Tail(C, t))
<1> DEFINE last == Greatest({w.to : w \in C})
           from == Higher(Lower(last, t) - Overlap, FloorFor(t + 1))
<1>1. Tail(C, t) = [from |-> from, to |-> t + 1]
  BY DEF Tail
<1>2. last \in Int /\ t \in Int
  BY WatermarkOf, PlannerAssumption DEF Day, Today
<1>3. from \in Int /\ t + 1 - Span <= from /\ from <= t
  BY <1>2, PlannerAssumption DEF Higher, Lower, FloorFor
<1>4. from \in Day /\ t + 1 \in Day
  BY <1>2, <1>3, PlannerAssumption DEF Day, Today
<1> HIDE DEF from
<1> QED
  BY <1>1, <1>2, <1>3, <1>4, PlannerAssumption DEF Window, Fits, Forward, Days

LEMMA WidestIs ==
  ASSUME NEW t \in Today
  PROVE  Widest(t) \in Window /\ Fits(Widest(t)) /\ Forward(Widest(t)) /\ t \in Days(Widest(t))
<1>1. t \in Int /\ t + 1 - Span \in Day /\ t + 1 \in Day
  BY PlannerAssumption DEF Day, Today
<1> QED
  BY <1>1, PlannerAssumption DEF Widest, FloorFor, Window, Fits, Forward, Days

\* Whatever the history, a window planned is one the bank answers, for one day
\* or more.
LEMMA PlanFits ==
  ASSUME NEW C \in SUBSET Window, \A w \in C : Fits(w), NEW n, NEW t \in Today,
         PlanWindow(C, n, t) # None
  PROVE  /\ PlanWindow(C, n, t) \in Window /\ Fits(PlanWindow(C, n, t))
         /\ Forward(PlanWindow(C, n, t))
<1>1. CASE C = {}
  BY <1>1, WidestIs DEF PlanWindow
<1>2. CASE C # {}
  <2>1. History(C)
    BY <1>2 DEF History
  <2> QED
    BY <1>2, <2>1, GapIs, BeforeIs, TailIs DEF PlanWindow
<1> QED
  BY <1>1, <1>2

LEMMA LessIsADay ==
  ASSUME NEW w \in Window, Forward(w)
  PROVE  w.from \in Days(w)
BY WindowDays DEF Forward

\* A hole the bank answers for no more.
LostIn(C, t) == \E d : HoleIn(C, d) /\ d < FloorFor(t)

LEMMA GapIsNew ==
  ASSUME NEW C, History(C), InOrder(C), NEW t \in Today, Gap(C, t) # None, ~LostIn(C, t)
  PROVE  Gap(C, t).from \notin Asked(C)
<1>1. /\ Reach(C) \in Int /\ FloorFor(t) \in Int /\ Greatest({w.to : w \in C}) \in Int
      /\ Gap(C, t).from = Higher(Reach(C), FloorFor(t))
  BY ReachOf, WatermarkOf, GapIs, PlannerAssumption DEF FloorFor, Day, Today
<1>2. CASE Reach(C) < Greatest({w.to : w \in C})
  <2>1. ~(Reach(C) < FloorFor(t))
    BY <1>2, ReachIsHole DEF LostIn
  <2>2. Gap(C, t).from = Reach(C)
    BY <1>1, <2>1 DEF Higher
  <2> QED
    BY <2>2, ReachNotAsked
<1>3. CASE ~(Reach(C) < Greatest({w.to : w \in C}))
  <2>1. Gap(C, t).from \in Int /\ Greatest({w.to : w \in C}) <= Gap(C, t).from
    BY <1>1, <1>3 DEF Higher
  <2>2. ASSUME NEW w \in C, Gap(C, t).from \in Days(w) PROVE FALSE
    <3>1. w \in Window /\ w.to <= Greatest({u.to : u \in C})
      BY WatermarkOf DEF History
    <3> QED
      BY <1>1, <2>1, <2>2, <3>1, WindowDays
  <2> QED
    BY <2>2 DEF Asked
<1> QED
  BY <1>2, <1>3

LEMMA PlanLearns ==
  ASSUME NEW C \in SUBSET Window, \A w \in C : Fits(w), NEW n, NEW t \in Today,
         PlanWindow(C, n, t) # None, C # {} => ~LostIn(C, t) /\ InOrder(C)
  PROVE  \/ t \in Days(PlanWindow(C, n, t))
         \/ Days(PlanWindow(C, n, t)) \ Asked(C) # {}
<1>1. CASE C = {}
  BY <1>1, WidestIs DEF PlanWindow
<1>2. CASE C # {}
  <2>1. History(C)
    BY <1>2 DEF History
  <2>2. CASE PlanWindow(C, n, t) = Gap(C, t) /\ Gap(C, t) # None
    BY <1>2, <2>1, <2>2, GapIs, GapIsNew, LessIsADay
  <2>3. CASE PlanWindow(C, n, t) = Before(C, t) /\ Before(C, t) # None
    <3> DEFINE d == Before(C, t).from
    <3>1. d \in Days(Before(C, t)) /\ d < Earliest(C)
      BY <2>1, <2>3, BeforeIs, LessIsADay
    <3>2. ASSUME NEW w \in C, d \in Days(w) PROVE FALSE
      <4>1. w \in Window /\ Earliest(C) <= w.from /\ Earliest(C) \in Int
        BY <2>1, EarliestOf DEF History, Day
      <4> QED
        BY <3>1, <3>2, <4>1, WindowDays
    <3> QED
      BY <2>3, <3>1, <3>2 DEF Asked
  <2>4. CASE PlanWindow(C, n, t) = Tail(C, t)
    BY <2>1, <2>4, TailIs
  <2> QED
    BY <1>2, <2>2, <2>3, <2>4 DEF PlanWindow
<1> QED
  BY <1>1, <1>2

LEMMA PlanTakesFirstHole ==
  ASSUME NEW C, History(C), InOrder(C), NEW n, NEW t \in Today, PlanWindow(C, n, t) # None,
         ~LostIn(C, t), NEW d, HoleIn(C, d), d < t, \A e : HoleIn(C, e) => d <= e
  PROVE  d \in Days(PlanWindow(C, n, t))
<1>1. PICK v \in C : d < v.from
  BY FirstHole
<1>2. d = Reach(C) /\ d \in Int /\ t \in Int
  <2>1. Reach(C) <= d /\ d <= Reach(C)
    BY FirstHole
  <2>2. d \in Int /\ Reach(C) \in Int /\ t \in Int
    BY ReachOf, PlannerAssumption DEF HoleIn, Day, Today
  <2> QED
    BY <2>1, <2>2
<1>3. FloorFor(t) <= d /\ FloorFor(t) \in Int
  <2>1. FloorFor(t) \in Int
    BY <1>2, PlannerAssumption DEF FloorFor
  <2> QED
    BY <1>2, <2>1 DEF LostIn
<1>4. Higher(Reach(C), FloorFor(t)) = d
  BY <1>2, <1>3 DEF Higher
<1>5. v.from \in Int
  BY WindowDays DEF History
<1>6. Gap(C, t) # None
  <2> DEFINE L == {w.from : w \in {u \in C : u.from > Reach(C) /\ u.from > d}}
  <2>1. L # {}
    BY <1>1, <1>2, <1>5
  <2>2. ~(d >= t)
    BY <1>2
  <2>3. Gap(C, t) = [from |-> d, to |-> Lower(Least(L), t)]
    BY <1>4, <2>1, <2>2 DEF Gap
  <2>4. L \in SUBSET Day
    BY WindowDays DEF History
  <2>5. Least(L) \in L /\ \A x \in L : x \in Int
    <3>1. Least(L) \in L
      BY <2>1, <2>4, LeastOf
    <3>2. \A x \in L : x \in Int
      BY WindowDays DEF History
    <3> QED
      BY <3>1, <3>2
  <2>6. Lower(Least(L), t) \in Int
    BY <1>2, <2>5 DEF Lower
  <2> QED
    BY <1>2, <2>3, <2>6, PlannerAssumption
<1>7. PlanWindow(C, n, t) = Gap(C, t)
  BY <1>6 DEF PlanWindow, History
<1> QED
  BY <1>4, <1>6, <1>7, GapIs, LessIsADay

-----------------------------------------------------------------------------
(* The runs. *)

\* What the log and the cache hold are windows that fit.
Recorded == \A w \in sealed.done \cup known.done : Fits(w)

Sealed ==
  /\ \A p \in Proc : pc[p] = "asking" => Fits(task[p].window)
  /\ \A w \in sealed.done : Fits(w)

Inv == TypeOK /\ Sealed /\ Recorded

LEMMA CountedOk ==
  ASSUME NEW P \in Polls, NEW t \in Task, NEW b \in BOOLEAN, today \in Today,
         Fits(t.window), \A w \in P.done : Fits(w)
  PROVE  Counted(P, t, b) \in Polls /\ \A w \in Counted(P, t, b).done : Fits(w)
BY DEF Polls, Task, Counted

\* A window planned, or told, is asked for.
LEMMA AskOk ==
  ASSUME Inv, NEW p \in Proc, NEW w \in Window, Fits(w), Ask(p, w), spent' \in Nat, blind' \in BOOLEAN
  PROVE  Inv'
<1>1. (IF evening THEN today + 1 ELSE today) \in FirstDay..(LastDay + 1)
  BY PlannerAssumption DEF Inv, TypeOK, Today
<1>2. [window |-> w, live |-> open, on |-> IF evening THEN today + 1 ELSE today] \in Task
  BY <1>1 DEF Inv, TypeOK, Task
<1>3. TypeOK'
  BY <1>2 DEF Inv, TypeOK, Ask, day, log
<1>4. Sealed'
  BY DEF Inv, Sealed, TypeOK, Ask, log
<1>5. Recorded'
  BY DEF Inv, Recorded, Ask, log
<1> QED
  BY <1>3, <1>4, <1>5 DEF Inv

LEMMA InitInv == Init => Inv
<1> SUFFICES ASSUME Init PROVE Inv
  OBVIOUS
<1>1. NoPolls \in Polls
  BY DEF NoPolls, Polls
<1>2. FirstDay \in Today
  BY PlannerAssumption DEF Today
<1> QED
  BY <1>1, <1>2 DEF Init, Inv, TypeOK, Sealed, Recorded, NoPolls

LEMMA NextInv == Inv /\ [Next]_vars => Inv'
<1> SUFFICES ASSUME Inv, [Next]_vars PROVE Inv'
  OBVIOUS
<1>1. ASSUME NEW p \in Proc, Sync(p) PROVE Inv'
  <2> DEFINE seen == IF open THEN known ELSE NoPolls
             w == PlanWindow(seen.done, seen.now, today)
  <2>1. w # None /\ Ask(p, w) /\ spent' \in Nat /\ blind' \in BOOLEAN
    BY <1>1 DEF Sync, Inv, TypeOK
  <2>2. seen.done \in SUBSET Window /\ \A x \in seen.done : Fits(x)
    BY DEF Inv, TypeOK, Recorded, NoPolls, Polls
  <2>3. w \in Window /\ Fits(w)
    <3> HIDE DEF seen
    <3> QED BY <2>1, <2>2, PlanFits DEF Inv, TypeOK
  <2> QED
    BY <2>1, <2>3, AskOk
<1>2. ASSUME NEW p \in Proc, SyncSince(p) PROVE Inv'
  <2>1. PICK from \in (today - Span)..(today + Ahead) : Ask(p, [from |-> from, to |-> today])
    BY <1>2 DEF SyncSince
  <2>2. today \in Int /\ FirstDay <= today /\ today <= LastDay
    BY PlannerAssumption DEF Inv, TypeOK, Today
  <2>3. from \in Day /\ today \in Day /\ today - from <= Span
    BY <2>2, PlannerAssumption DEF Day
  <2>4. [from |-> from, to |-> today] \in Window /\ Fits([from |-> from, to |-> today])
    BY <2>3 DEF Window, Fits
  <2> QED
    BY <1>2, <2>1, <2>4, AskOk DEF SyncSince, history, Inv, TypeOK
<1>3. ASSUME NEW p \in Proc, SyncBackfill(p) PROVE Inv'
  <2>1. PlanWindow({}, 0, today) = Widest(today)
    BY PlannerAssumption DEF PlanWindow
  <2> QED
    BY <1>3, <2>1, WidestIs, AskOk DEF SyncBackfill, history, Inv, TypeOK
<1>4. ASSUME NEW p \in Proc, Answer(p) PROVE Inv'
  <2>1. task[p] \in Task /\ Fits(task[p].window)
    BY <1>4 DEF Answer, Inv, TypeOK, Sealed
  <2>2. PICK b \in BOOLEAN :
          /\ sealed' = Counted(sealed, task[p], b)
          /\ known' = IF task[p].live THEN Counted(known, task[p], b) ELSE known
    BY <1>4 DEF Answer
  <2>3. /\ sealed' \in Polls /\ known' \in Polls
        /\ \A w \in sealed'.done \cup known'.done : Fits(w)
    BY <2>1, <2>2, CountedOk DEF Inv, TypeOK, Recorded
  <2>4. TypeOK'
    BY <1>4, <2>1, <2>3 DEF Answer, Inv, TypeOK, day, Task
  <2>5. Sealed' /\ Recorded'
    BY <1>4, <2>3 DEF Answer, Inv, TypeOK, Sealed, Recorded
  <2> QED
    BY <2>4, <2>5 DEF Inv
<1>5. CASE Lock \/ Unlock
  <2>1. NoPolls \in Polls /\ NoPolls.done = {}
    BY DEF NoPolls, Polls
  <2>2. /\ open' \in BOOLEAN /\ known' \in Polls /\ sealed' = sealed
        /\ known'.done \subseteq sealed.done
        /\ task' = Detached
        /\ UNCHANGED <<today, evening, pc, spent, blind>>
    BY <1>5, <2>1 DEF Lock, Unlock, Inv, TypeOK, day, history
  <2>3. /\ Detached \in [Proc -> Task \cup {Idle}]
        /\ \A p \in Proc : pc[p] = "asking" =>
             Detached[p] \in Task /\ Detached[p].window = task[p].window
    <3>1. ASSUME NEW t \in Task
          PROVE  [window |-> t.window, on |-> t.on, live |-> FALSE] \in Task
      BY DEF Task
    <3>2. [window |-> Idle.window, on |-> Idle.on, live |-> FALSE] = Idle
      BY DEF Idle
    <3>3. ASSUME NEW p \in Proc PROVE Detached[p] \in Task \cup {Idle}
      BY <3>1, <3>2 DEF Detached, Inv, TypeOK
    <3>4. ASSUME NEW p \in Proc, pc[p] = "asking"
          PROVE  Detached[p] \in Task /\ Detached[p].window = task[p].window
      BY <3>1, <3>4 DEF Detached, Inv, TypeOK
    <3> QED
      BY <3>3, <3>4 DEF Detached
  <2>4. TypeOK'
    BY <2>2, <2>3 DEF Inv, TypeOK
  <2>5. Sealed' /\ Recorded'
    BY <2>2, <2>3 DEF Inv, Sealed, Recorded
  <2> QED
    BY <2>4, <2>5 DEF Inv
<1>6. CASE Dusk
  BY <1>6 DEF Dusk, Inv, TypeOK, Sealed, Recorded, log, history
<1>7. CASE Midnight
  <2>1. ASSUME NEW P \in Polls PROVE NextDayOf(P) \in Polls /\ NextDayOf(P).done = P.done
    BY DEF NextDayOf, Polls
  <2>2. today' \in Today
    BY <1>7, PlannerAssumption DEF Midnight, Inv, TypeOK, Today
  <2>3. /\ sealed' \in Polls /\ known' \in Polls
        /\ sealed'.done = sealed.done /\ known'.done = known.done
    BY <1>7, <2>1 DEF Midnight, Inv, TypeOK
  <2> QED
    BY <1>7, <2>2, <2>3 DEF Midnight, Inv, TypeOK, Sealed, Recorded
<1>8. CASE UNCHANGED vars
  BY <1>8 DEF vars, Inv, TypeOK, Sealed, Recorded
<1> QED
  BY <1>1, <1>2, <1>3, <1>4, <1>5, <1>6, <1>7, <1>8 DEF Next

LEMMA Invariant == Spec => []Inv
BY InitInv, NextInv, PTL DEF Spec

(***************************************************************************)
(* Types are kept (Planner), for any number of days and syncs.             *)
(***************************************************************************)
THEOREM TypeCorrect == Spec => []TypeOK
BY Invariant, PTL DEF Inv

(***************************************************************************)
(* plan_window asks for nothing base.Window refuses, and for one day or    *)
(* more, whatever is in the history: windows of --since that end before    *)
(* they begin too (MAX_SPAN_DAYS).                                         *)
(***************************************************************************)
THEOREM WindowsAlwaysFit == Spec => []WindowsFit
<1>1. Inv => WindowsFit
  <2> SUFFICES ASSUME Inv, Planned # None PROVE Forward(Planned) /\ Fits(Planned)
    BY DEF WindowsFit, Inv, Sealed
  <2>1. known.done \in SUBSET Window /\ (\A w \in known.done : Fits(w)) /\ today \in Today
    BY DEF Inv, TypeOK, Polls, Recorded
  <2> QED
    BY <2>1, PlanFits DEF Planned
<1> QED
  BY <1>1, Invariant, PTL

(***************************************************************************)
(* No sync is in vain unless a hole aged past the floor (_first_gap): it   *)
(* asks for a day not asked for yet or for the newest.                     *)
(***************************************************************************)
THEOREM SyncsLearn == Spec => []LearnsUnlessLost
<1>1. Inv => LearnsUnlessLost
  <2> SUFFICES ASSUME Inv, ~Lost, ~Backward, open, Planned # None
               PROVE  today \in Days(Planned) \/ Days(Planned) \ Asked(known.done) # {}
    BY DEF LearnsUnlessLost, Learns
  <2>1. known.done \in SUBSET Window /\ (\A w \in known.done : Fits(w)) /\ today \in Today
    BY DEF Inv, TypeOK, Polls, Recorded
  <2>2. known.done # {} => ~LostIn(known.done, today)
    <3> SUFFICES ASSUME known.done # {}, NEW d, HoleIn(known.done, d), d < FloorFor(today)
                 PROVE  FALSE
      BY DEF LostIn
    <3>1. History(known.done)
      BY <2>1 DEF History
    <3>2. d \in Holes
      BY <3>1, EarliestOf, WatermarkOf DEF Holes, HoleIn, Day
    <3> QED
      BY <3>2 DEF Lost
  <2>3. known.done # {} => InOrder(known.done)
    <3> SUFFICES ASSUME known.done # {} PROVE InOrder(known.done)
      OBVIOUS
    <3>1. First(known.done) \in Window
      BY <2>1, FirstOf DEF History
    <3> QED
      BY <3>1, WindowDays DEF Backward, InOrder
  <2> QED
    BY <2>1, <2>2, <2>3, PlanLearns DEF Planned
<1> QED
  BY <1>1, Invariant, PTL

(***************************************************************************)
(* A hole is asked for before the days after it (_first_gap), unless one   *)
(* was lost.                                                               *)
(***************************************************************************)
THEOREM HolesComeFirst == Spec => []HolesFirstUnlessLost
<1>1. Inv => HolesFirstUnlessLost
  <2> SUFFICES ASSUME Inv, open, known.done # {}, Planned # None, ~Lost, ~Backward,
                      NEW d \in Holes, d < today, \A e \in Holes : d <= e
               PROVE  d \in Days(Planned)
    BY DEF HolesFirstUnlessLost
  <2>1. History(known.done) /\ today \in Today
    BY DEF History, Inv, TypeOK, Polls, Recorded
  <2>2. \A e : HoleIn(known.done, e) <=> e \in Holes
    BY <2>1, EarliestOf, WatermarkOf DEF Holes, HoleIn, Day
  <2>3. ~LostIn(known.done, today)
    BY <2>2 DEF LostIn, Lost
  <2>4. InOrder(known.done)
    <3>1. First(known.done) \in Window
      BY <2>1, FirstOf
    <3> QED
      BY <3>1, WindowDays DEF Backward, InOrder
  <2> QED
    BY <2>1, <2>2, <2>3, <2>4, PlanTakesFirstHole DEF Planned
<1> QED
  BY <1>1, Invariant, PTL

-----------------------------------------------------------------------------
(* The budget.  The request that was planned is in the count when its      *)
(* answer is, and among those in flight until then.                        *)

InFlight == {p \in Proc : pc[p] = "asking" /\ task[p].on = today}

Counts ==
  ~blind =>
    /\ spent < Budget + Cardinality(Proc)
    /\ spent <= sealed.now + Cardinality(InFlight)
    /\ open => spent <= known.now + Cardinality(InFlight)

LEMMA InFlightIs ==
  /\ IsFiniteSet(InFlight)
  /\ Cardinality(InFlight) \in Nat /\ Cardinality(Proc) \in Nat
  /\ \A S \in SUBSET Proc : IsFiniteSet(S) /\ Cardinality(S) \in Nat /\ Cardinality(S) <= Cardinality(Proc)
<1>1. ASSUME NEW S \in SUBSET Proc PROVE IsFiniteSet(S) /\ Cardinality(S) \in Nat /\ Cardinality(S) <= Cardinality(Proc)
  BY PlannerAssumption, FS_Subset, FS_CardinalityType
<1>2. InFlight \in SUBSET Proc
  BY DEF InFlight
<1> QED
  BY <1>1, <1>2, PlannerAssumption, FS_CardinalityType

LEMMA CountTypes == ASSUME Inv PROVE /\ spent \in Nat /\ blind \in BOOLEAN /\ today \in Int
                                     /\ \A P \in {sealed, known} : P \in Polls /\ P.now \in Nat
                                     /\ Budget \in Nat /\ Budget > 0
BY PlannerAssumption DEF Inv, TypeOK, Polls, Today

\* What is planned is planned below the budget.
LEMMA PlannedBelow == ASSUME NEW C, NEW n \in Nat, NEW t, PlanWindow(C, n, t) # None PROVE n < Budget
BY PlannerAssumption DEF PlanWindow

LEMMA SyncCounts ==
  ASSUME Inv, Counts, NEW p \in Proc, Sync(p)
  PROVE  Counts'
<1> SUFFICES ASSUME ~blind' PROVE /\ spent' < Budget + Cardinality(Proc)
                                  /\ spent' <= sealed'.now + Cardinality(InFlight')
                                  /\ spent' <= known'.now + Cardinality(InFlight')
  BY DEF Counts
<1>1. ~blind /\ ~evening /\ open /\ spent' = spent + 1
  BY DEF Sync
<1>2. PlanWindow(known.done, known.now, today) # None
  BY <1>1 DEF Sync
<1>3. /\ pc[p] = "idle" /\ UNCHANGED <<today, sealed, known>>
      /\ pc' = [pc EXCEPT ![p] = "asking"]
      /\ \E w : task' = [task EXCEPT ![p] = [window |-> w, live |-> open, on |-> today]]
  BY <1>1 DEF Sync, Ask, day, log
<1>4. pc' [p] = "asking" /\ task'[p].on = today /\ \A q \in Proc \ {p} : pc'[q] = pc[q] /\ task'[q] = task[q]
  BY <1>3 DEF Inv, TypeOK
<1>5. p \notin InFlight /\ InFlight' = InFlight \cup {p}
  BY <1>3, <1>4 DEF InFlight
<1>6. Cardinality(InFlight') = Cardinality(InFlight) + 1 /\ Cardinality(InFlight') <= Cardinality(Proc)
  <2>1. InFlight \cup {p} \in SUBSET Proc
    BY DEF InFlight
  <2> QED
    BY <1>5, <2>1, InFlightIs, FS_AddElement
<1>7. spent <= sealed.now + Cardinality(InFlight) /\ spent <= known.now + Cardinality(InFlight)
  BY <1>1 DEF Counts
<1>8. known.now < Budget
  BY <1>2, CountTypes, PlannedBelow
<1> QED
  BY <1>1, <1>3, <1>6, <1>7, <1>8, CountTypes, InFlightIs

LEMMA AnswerCounts ==
  ASSUME Inv, Counts, NEW p \in Proc, Answer(p)
  PROVE  Counts'
<1> SUFFICES ASSUME ~blind' PROVE /\ spent' < Budget + Cardinality(Proc)
                                  /\ spent' <= sealed'.now + Cardinality(InFlight')
                                  /\ open' => spent' <= known'.now + Cardinality(InFlight')
  BY DEF Counts
<1>1. ~blind /\ task[p].live /\ UNCHANGED <<today, open, spent>>
  BY DEF Answer, day
<1>2. /\ pc[p] = "asking" /\ pc' = [pc EXCEPT ![p] = "idle"] /\ task' = [task EXCEPT ![p] = Idle]
      /\ \E b \in BOOLEAN : sealed' = Counted(sealed, task[p], b) /\ known' = Counted(known, task[p], b)
  BY <1>1 DEF Answer
<1>3. /\ sealed'.now = IF task[p].on = today THEN sealed.now + 1 ELSE sealed.now
      /\ known'.now = IF task[p].on = today THEN known.now + 1 ELSE known.now
  BY <1>2 DEF Counted
<1>4. pc'[p] = "idle" /\ \A q \in Proc \ {p} : pc'[q] = pc[q] /\ task'[q] = task[q]
  BY <1>2 DEF Inv, TypeOK
<1>5. InFlight' = InFlight \ {p} /\ (p \in InFlight <=> task[p].on = today)
  BY <1>1, <1>2, <1>4 DEF InFlight
<1>6. Cardinality(InFlight') = IF task[p].on = today THEN Cardinality(InFlight) - 1 ELSE Cardinality(InFlight)
  BY <1>5, InFlightIs, FS_RemoveElement
<1> QED
  BY <1>1, <1>3, <1>6, CountTypes, InFlightIs DEF Counts

LEMMA StepCounts ==
  ASSUME Inv, Counts, [Next]_vars
  PROVE  Counts'
<1>1. ASSUME NEW p \in Proc, SyncSince(p) \/ SyncBackfill(p) PROVE Counts'
  <2>1. UNCHANGED <<today, sealed, known, open, spent, blind>>
    BY <1>1 DEF SyncSince, SyncBackfill, Ask, day, log, history
  <2>2. PICK w : Ask(p, w)
    BY <1>1 DEF SyncSince, SyncBackfill
  <2>3. pc[p] = "idle" /\ \A q \in Proc \ {p} : pc'[q] = pc[q] /\ task'[q] = task[q]
    BY <2>2 DEF Ask, Inv, TypeOK
  <2>4. InFlight \subseteq InFlight' /\ InFlight' \in SUBSET Proc
    BY <2>1, <2>3 DEF InFlight
  <2>5. Cardinality(InFlight) <= Cardinality(InFlight') /\ Cardinality(InFlight') \in Nat
    BY <2>4, InFlightIs, FS_Subset
  <2> QED
    BY <2>1, <2>5, CountTypes, InFlightIs DEF Counts
<1>2. CASE Lock \/ Unlock
  <2>1. UNCHANGED <<today, sealed, pc, spent, blind>> /\ task' = Detached
    BY <1>2 DEF Lock, Unlock, day, history
  <2>2. InFlight' = InFlight
    BY <2>1 DEF InFlight, Detached
  <2>3. open' => known' = sealed
    BY <1>2 DEF Lock, Unlock
  <2> QED
    BY <2>1, <2>2, <2>3 DEF Counts
<1>3. CASE Dusk
  <2>1. UNCHANGED <<today, sealed, known, open, pc, task, spent, blind>>
    BY <1>3 DEF Dusk, log, history
  <2> QED
    BY <2>1 DEF Counts, InFlight
<1>4. CASE Midnight
  <2>1. spent' = 0 /\ sealed' = NextDayOf(sealed) /\ known' = NextDayOf(known)
    BY <1>4 DEF Midnight
  <2>2. sealed'.now \in Nat /\ known'.now \in Nat
    BY <2>1, CountTypes DEF NextDayOf, Polls
  <2>3. Cardinality(InFlight') \in Nat
    <3>1. InFlight' \in SUBSET Proc
      BY DEF InFlight
    <3> QED
      BY <3>1, InFlightIs
  <2> QED
    BY <2>1, <2>2, <2>3, CountTypes, InFlightIs DEF Counts
<1>5. CASE UNCHANGED vars
  BY <1>5 DEF vars, Counts, InFlight
<1> QED
  BY <1>1, <1>2, <1>3, <1>4, <1>5, SyncCounts, AnswerCounts DEF Next

(***************************************************************************)
(* Twenty requests a day (plan_window): however many syncs run at once,    *)
(* and are planned from a count that lacks what the others are about to    *)
(* record, the requests of a day exceed the budget by less than there are  *)
(* of them, unless some request of the day is not in the count at all.     *)
(***************************************************************************)
THEOREM BudgetIsKept == Spec => []BudgetKept
<1>1. Init => Inv /\ Counts
  <2>1. Init => Counts
    <3> SUFFICES ASSUME Init PROVE Counts
      OBVIOUS
    <3>1. Inv
      BY InitInv
    <3> QED
      BY <3>1, InFlightIs, CountTypes DEF Init, Counts, NoPolls
  <2> QED
    BY <2>1, InitInv
<1>2. Inv /\ Counts /\ [Next]_vars => (Inv /\ Counts)'
  BY NextInv, StepCounts
<1>3. Counts => BudgetKept
  BY DEF Counts, BudgetKept
<1> QED
  BY <1>1, <1>2, <1>3, PTL DEF Spec
=============================================================================
