----------------------------- MODULE FeedsProofs -----------------------------
(***************************************************************************)
(* What the recording, the replay and the projection of the bank's answers *)
(* guarantee for any transactions, balances, contents, payloads, processes *)
(* and databases, under every fault.                                       *)
(***************************************************************************)
EXTENDS Feeds, WellFoundedInduction, TLAPS

-----------------------------------------------------------------------------
(* Types. *)

Pc == {"idle", "poll", "append", "commit", "replay", "read", "edits", "write"}
Put == [event: Event, at: Stamp]

LEMMA EventParts ==
  ASSUME NEW e \in Event
  PROVE  /\ e.subject \in Subject /\ e.said.content \in Content
         /\ e.said.content # None
BY FeedsAssumption DEF Event, Subject, Said, Typed

LEMMA SubjectKinds ==
  /\ \A s \in Subject : s.kind \in {"txn", "account", "edit"}
  /\ Observed \subseteq Subject /\ Corrected \subseteq Subject
BY DEF Subject, Observed, Corrected

LEMMA ObservedIsEvent == ASSUME NEW s \in Observed, NEW v \in Said PROVE [subject |-> s, said |-> v] \in Event
BY DEF Event

LEMMA CorrectedIsEvent == ASSUME NEW s \in Corrected, NEW v \in Typed PROVE [subject |-> s, said |-> v] \in Event
BY DEF Event

LEMMA StampType == /\ Stamp \subseteq Nat \ {0} /\ None \notin Stamp
                   /\ \A n \in 0..MaxStamp : n < MaxStamp => n + 1 \in Stamp /\ n + 1 \in 0..MaxStamp
BY FeedsAssumption DEF Stamp

LEMMA NoLogType == NoLog \in Log
BY DEF NoLog, Log

LEMMA IdleType == /\ Idle \notin Task
                  /\ Idle.kind = "none" /\ Idle.gen = 0 /\ ~Idle.conn /\ Idle.todo = {}
                  /\ Idle.put = {} /\ Idle.snap = NoLog /\ Idle.seen = {}
BY DEF Idle, Task

\* The locals of a process, whether it runs or not.
LEMMA TaskFields ==
  ASSUME NEW t \in Task \cup {Idle}
  PROVE  /\ t.conn \in BOOLEAN /\ t.gen \in Nat /\ t.gen <= MaxGen /\ t.todo \in SUBSET Event
         /\ t.put \in SUBSET Put /\ t.snap \in Log /\ t.seen \in SUBSET Row
<1>1. CASE t \in Task
  BY <1>1, FeedsAssumption DEF Task, Put
<1>2. CASE t = Idle
  BY <1>2, FeedsAssumption, NoLogType DEF Idle
<1> QED
  BY <1>1, <1>2

LEMMA NewTask ==
  ASSUME NEW k \in {"sync", "edit", "rebuild", "unlock"}, NEW c \in BOOLEAN, NEW g \in 0..MaxGen
  PROVE  /\ \A T \in SUBSET Event : [Idle EXCEPT !.kind = k, !.conn = c, !.gen = g, !.todo = T] \in Task
         /\ [Idle EXCEPT !.kind = k, !.conn = c, !.gen = g] \in Task
         /\ \A S \in Log : [Idle EXCEPT !.kind = k, !.conn = c, !.gen = g, !.snap = S] \in Task
BY NoLogType DEF Idle, Task

LEMMA TaskUpdates ==
  ASSUME NEW t \in Task
  PROVE  /\ \A e \in Event, x \in Put :
              [t EXCEPT !.todo = t.todo \ {e}, !.put = t.put \cup {x}] \in Task
         /\ \A S \in SUBSET Row : [t EXCEPT !.seen = S] \in Task
         /\ [t EXCEPT !.snap = NoLog] \in Task
BY NoLogType DEF Task, Put

\* The locals of a process are a task's exactly while it runs.
Running == \A p \in Proc : IF pc[p] = "idle" THEN task[p] = Idle ELSE task[p] \in Task

TInv == TypeOK /\ Running

LEMMA InsertedType ==
  ASSUME NEW R \in SUBSET Row, NEW put \in SUBSET Put, NEW tx \in Nat
  PROVE  Inserted(R, put, tx) \in SUBSET Row
BY DEF Inserted, Row, Put

LEMMA ReplayedType ==
  ASSUME NEW R \in SUBSET Row, NEW snap \in Log, NEW tx \in Nat
  PROVE  Replayed(R, snap, tx) \in SUBSET Row
<1> DEFINE put == {[event |-> e, at |-> snap[e]] : e \in FirstOf(snap)}
<1>1. put \in SUBSET Put
  BY DEF FirstOf, Put, Log
<1> HIDE DEF put
<1>2. Inserted(R, put, tx) \in SUBSET Row
  BY <1>1, InsertedType
<1> QED
  BY <1>2 DEF Replayed, put

LEMMA ClaimType ==
  ASSUME NEW R \in SUBSET Row, NEW s
  PROVE  Claim(R, s) \in Content \cup {None}
<1> DEFINE about == {r \in R : r.event.subject = s}
           newest == CHOOSE r \in about : \A q \in about : ~Newer(q, r)
<1>1. CASE \E r \in about : \A q \in about : ~Newer(q, r)
  <2>1. newest \in about
    BY <1>1
  <2>2. newest.event \in Event
    BY <2>1 DEF Row
  <2>3. newest.event.said.content \in Content
    BY <2>2, EventParts
  <2> QED
    BY <1>1, <2>3 DEF Claim
<1>2. CASE ~ \E r \in about : \A q \in about : ~Newer(q, r)
  BY <1>2 DEF Claim
<1> QED
  BY <1>1, <1>2

LEMMA ProjectType ==
  ASSUME NEW R \in SUBSET Row
  PROVE  Project(R) \in [Subject -> Content \cup {None}]
BY ClaimType DEF Project

LEMMA NothingType == Nothing \in [Subject -> Content \cup {None}]
BY DEF Nothing

LEMMA InitTInv == Init => TInv
<1> SUFFICES ASSUME Init PROVE TInv
  OBVIOUS
<1>1. 0 \in 0..MaxStamp /\ 0 \in 0..MaxGen
  BY FeedsAssumption
<1> QED
  BY <1>1, NoLogType, NothingType DEF Init, TInv, TypeOK, Running

\* A process that begins, goes on, or ends.
LEMMA StartType ==
  ASSUME TInv, NEW p \in Proc, NEW t \in Task, NEW next \in Pc \ {"idle"}, Start(p, t, next)
  PROVE  pc' \in [Proc -> Pc] /\ task' \in [Proc -> Task \cup {Idle}] /\ Running'
BY DEF TInv, TypeOK, Running, Start, Pc

LEMMA FinishType ==
  ASSUME TInv, NEW p \in Proc, Finish(p)
  PROVE  pc' \in [Proc -> Pc] /\ task' \in [Proc -> Task \cup {Idle}] /\ Running'
BY DEF TInv, TypeOK, Running, Finish, Pc

LEMMA GotoType ==
  ASSUME TInv, NEW p \in Proc, NEW t \in Task, NEW next \in Pc \ {"idle"}, Goto(p, next),
         task' = [task EXCEPT ![p] = t]
  PROVE  pc' \in [Proc -> Pc] /\ task' \in [Proc -> Task \cup {Idle}] /\ Running'
BY DEF TInv, TypeOK, Running, Goto, Pc

LEMMA GotoOnlyType ==
  ASSUME TInv, NEW p \in Proc, pc[p] # "idle", NEW next \in Pc \ {"idle"}, Goto(p, next), UNCHANGED task
  PROVE  pc' \in [Proc -> Pc] /\ task' \in [Proc -> Task \cup {Idle}] /\ Running'
BY DEF TInv, TypeOK, Running, Goto, Pc

LEMMA AtWork == ASSUME TInv, NEW p \in Proc, pc[p] # "idle" PROVE task[p] \in Task
BY DEF TInv, Running

LEMMA NewDatabaseType ==
  ASSUME TInv, NewDatabase
  PROVE  /\ gen' \in 0..MaxGen /\ rows' \subseteq Row /\ commits' \in Nat
         /\ holder' \in Proc \cup {None} /\ shown' \in [Subject -> Content \cup {None}] /\ stale' \in BOOLEAN
<1>1. gen' \in 0..MaxGen
  BY FeedsAssumption DEF NewDatabase, TInv, TypeOK
<1> QED
  BY <1>1, NothingType DEF NewDatabase

LEMMA AppendType ==
  ASSUME TInv, NEW p \in Proc, Append(p)
  PROVE  TInv'
<1>1. task[p] \in Task
  BY AtWork DEF Append
<1>2. PICK e \in NextUp(p) :
        /\ log' = IF log[e] = None THEN [log EXCEPT ![e] = clock'] ELSE log
        /\ task' = [task EXCEPT ![p] = [task[p] EXCEPT !.todo = task[p].todo \ {e},
                                          !.put = task[p].put \cup {[event |-> e, at |-> clock']}]]
        /\ Goto(p, IF task[p].todo = {e} THEN "commit" ELSE "append")
        /\ drift' \in {drift, drift \cup {e.subject}}
        /\ claim' = [claim EXCEPT ![e.subject] = e.said.content]
        /\ repeated' \in {repeated, repeated \ {e.subject}, repeated \cup {e.subject}}
  BY DEF Append, TInv, TypeOK
<1>3. e \in Event /\ e.subject \in Subject /\ e.said.content \in Content
  BY <1>1, EventParts DEF NextUp, Task
<1>4. clock' \in Stamp /\ clock' \in 0..MaxStamp
  BY StampType DEF Append, TInv, TypeOK
<1>5. [event |-> e, at |-> clock'] \in Put
  BY <1>3, <1>4 DEF Put
<1>6. /\ pc' \in [Proc -> Pc] /\ task' \in [Proc -> Task \cup {Idle}] /\ Running'
  <2> DEFINE t == [task[p] EXCEPT !.todo = task[p].todo \ {e},
                                  !.put = task[p].put \cup {[event |-> e, at |-> clock']}]
             next == IF task[p].todo = {e} THEN "commit" ELSE "append"
  <2>1. t \in Task
    BY <1>1, <1>3, <1>5, TaskUpdates
  <2>2. next \in Pc \ {"idle"}
    BY DEF Pc
  <2>3. task' = [task EXCEPT ![p] = t] /\ Goto(p, next)
    BY <1>2
  <2> HIDE DEF t, next
  <2> QED
    BY <2>1, <2>2, <2>3, GotoType
<1>7. log' \in Log
  BY <1>2, <1>3, <1>4 DEF Log, TInv, TypeOK
<1>8. claim' \in [Subject -> Content \cup {None}] /\ drift' \subseteq Subject /\ repeated' \subseteq Subject
  BY <1>2, <1>3 DEF TInv, TypeOK
<1> QED
  BY <1>4, <1>6, <1>7, <1>8 DEF TInv, TypeOK, Pc, Append, database

LEMMA CommitType ==
  ASSUME TInv, NEW p \in Proc, Commit(p)
  PROVE  TInv'
<1>1. pc[p] # "idle" /\ task[p] \in Task
  BY AtWork DEF Commit
<1>2. rows' \subseteq Row /\ commits' \in Nat /\ holder' \in Proc \cup {None}
  <2>1. commits + 1 \in Nat /\ task[p].put \in SUBSET Put
    BY <1>1, TaskFields DEF TInv, TypeOK
  <2> QED
    BY <2>1, InsertedType DEF Commit, TInv, TypeOK
<1>3. pc' \in [Proc -> Pc] /\ task' \in [Proc -> Task \cup {Idle}] /\ Running'
  <2>1. CASE task[p].conn
    BY <1>1, <2>1, GotoOnlyType DEF Commit, Pc
  <2>2. CASE ~task[p].conn
    BY <2>2, FinishType DEF Commit
  <2> QED
    BY <2>1, <2>2
<1> QED
  BY <1>2, <1>3 DEF TInv, TypeOK, Pc, Commit, history

LEMMA ReplayType ==
  ASSUME TInv, NEW p \in Proc, Replay(p)
  PROVE  TInv'
<1>1. pc[p] # "idle" /\ task[p] \in Task
  BY AtWork DEF Replay
<1>2. rows' \subseteq Row /\ commits' \in Nat /\ shown' \in [Subject -> Content \cup {None}]
  <2>1. commits + 1 \in Nat /\ task[p].snap \in Log
    BY <1>1, TaskFields DEF TInv, TypeOK
  <2> QED
    BY <2>1, ReplayedType, NothingType DEF Replay, TInv, TypeOK
<1>3. pc' \in [Proc -> Pc] /\ task' \in [Proc -> Task \cup {Idle}] /\ Running'
  <2>1. [task[p] EXCEPT !.snap = NoLog] \in Task
    BY <1>1, TaskUpdates
  <2>2. task' = [task EXCEPT ![p] = [task[p] EXCEPT !.snap = NoLog]]
    BY DEF Replay, TInv, TypeOK
  <2> QED
    BY <2>1, <2>2, GotoType DEF Replay, Pc
<1> QED
  BY <1>2, <1>3 DEF TInv, TypeOK, Pc, Replay, history

LEMMA ReadType ==
  ASSUME TInv, NEW p \in Proc, ReadRecords(p) \/ ReadEdits(p)
  PROVE  TInv'
<1>1. pc[p] # "idle" /\ task[p] \in Task
  BY AtWork DEF ReadRecords, ReadEdits
<1>2. \A k : RowsOf(k) \in SUBSET Row
  BY DEF RowsOf, TInv, TypeOK
<1>3. task[p].seen \in SUBSET Row
  BY <1>1, TaskFields
<1>4. \E S \in SUBSET Row : task' = [task EXCEPT ![p] = [task[p] EXCEPT !.seen = S]]
  <2>1. CASE ReadRecords(p)
    <3> DEFINE S == IF Current(p) THEN RowsOf("txn") ELSE {}
    <3>1. S \in SUBSET Row
      BY <1>2
    <3>2. task' = [task EXCEPT ![p] = [task[p] EXCEPT !.seen = S]]
      BY <2>1 DEF ReadRecords, TInv, TypeOK
    <3> QED
      BY <3>1, <3>2
  <2>2. CASE ReadEdits(p)
    <3> DEFINE S == IF Current(p) THEN task[p].seen \cup RowsOf("edit") ELSE {}
    <3>1. S \in SUBSET Row
      BY <1>2, <1>3
    <3>2. task' = [task EXCEPT ![p] = [task[p] EXCEPT !.seen = S]]
      BY <2>2 DEF ReadEdits, TInv, TypeOK
    <3> QED
      BY <3>1, <3>2
  <2> QED
    BY <2>1, <2>2
<1>5. PICK S \in SUBSET Row : task' = [task EXCEPT ![p] = [task[p] EXCEPT !.seen = S]]
  BY <1>4
<1>6. PICK next \in Pc \ {"idle"} : Goto(p, next)
  BY DEF ReadRecords, ReadEdits, Pc
<1>7. [task[p] EXCEPT !.seen = S] \in Task
  BY <1>1, TaskUpdates
<1>8. pc' \in [Proc -> Pc] /\ task' \in [Proc -> Task \cup {Idle}] /\ Running'
  BY <1>5, <1>6, <1>7, GotoType
<1> QED
  BY <1>8 DEF TInv, TypeOK, Pc, ReadRecords, ReadEdits, database, history

LEMMA WriteProjectionType ==
  ASSUME TInv, NEW p \in Proc, WriteProjection(p)
  PROVE  TInv'
<1>1. pc' \in [Proc -> Pc] /\ task' \in [Proc -> Task \cup {Idle}] /\ Running'
  BY FinishType DEF WriteProjection
<1>2. task[p].seen \cup RowsOf("account") \in SUBSET Row
  <2>1. task[p] \in Task
    BY AtWork DEF WriteProjection
  <2> QED
    BY <2>1, TaskFields DEF RowsOf, TInv, TypeOK
<1>3. shown' \in [Subject -> Content \cup {None}]
  BY <1>2, ProjectType DEF WriteProjection, TInv, TypeOK
<1>4. stale' \in BOOLEAN
  BY DEF WriteProjection, TInv, TypeOK
<1> QED
  BY <1>1, <1>3, <1>4 DEF TInv, TypeOK, Pc, WriteProjection

LEMMA CrashType ==
  ASSUME TInv, NEW p \in Proc, Crash(p)
  PROVE  TInv'
<1>1. pc' \in [Proc -> Pc] /\ task' \in [Proc -> Task \cup {Idle}] /\ Running'
  BY FinishType DEF Crash
<1>2. {x.event.subject : x \in task[p].put} \subseteq Subject
  <2>1. task[p] \in Task
    BY AtWork DEF Crash
  <2> QED
    BY <2>1, TaskFields, EventParts DEF Put
<1>3. drift' \subseteq Subject /\ stale' \in BOOLEAN /\ holder' \in Proc \cup {None}
  BY <1>2 DEF Crash, TInv, TypeOK
<1> QED
  BY <1>1, <1>3 DEF TInv, TypeOK, Pc, Crash, database

LEMMA BeginType ==
  ASSUME TInv, NEW p \in Proc, Sync(p) \/ CorrectFeed(p) \/ Rebuild(p) \/ Unlock(p)
  PROVE  TInv'
<1> USE DEF Pc
<1>1. gen \in 0..MaxGen /\ open \in BOOLEAN /\ log \in Log
  BY DEF TInv, TypeOK
<1>2. CASE Sync(p)
  <2>0. PICK S \in SUBSET Observed : \E said \in [S -> Said] :
          Start(p, [Idle EXCEPT !.kind = "sync", !.conn = open, !.gen = gen,
                                !.todo = {[subject |-> s, said |-> said[s]] : s \in S}], "poll")
    BY <1>2 DEF Sync
  <2>1. PICK said \in [S -> Said] :
          Start(p, [Idle EXCEPT !.kind = "sync", !.conn = open, !.gen = gen,
                                !.todo = {[subject |-> s, said |-> said[s]] : s \in S}], "poll")
    BY <2>0
  <2> DEFINE T == {[subject |-> s, said |-> said[s]] : s \in S}
  <2>2. T \in SUBSET Event
    BY ObservedIsEvent
  <2> HIDE DEF T
  <2>3. [Idle EXCEPT !.kind = "sync", !.conn = open, !.gen = gen, !.todo = T] \in Task
    BY <1>1, <2>2, NewTask
  <2>4. pc' \in [Proc -> Pc] /\ task' \in [Proc -> Task \cup {Idle}] /\ Running'
    BY <2>1, <2>3, StartType DEF T
  <2> QED
    BY <1>2, <2>4 DEF TInv, TypeOK, Sync, database, history
<1>3. CASE CorrectFeed(p)
  <2>1. PICK s \in Corrected, v \in Typed :
          Start(p, [Idle EXCEPT !.kind = "edit", !.conn = TRUE, !.gen = gen,
                                !.todo = {[subject |-> s, said |-> v]}], "append")
    BY <1>3 DEF CorrectFeed
  <2> DEFINE T == {[subject |-> s, said |-> v]}
  <2>2. T \in SUBSET Event
    BY CorrectedIsEvent
  <2> HIDE DEF T
  <2>3. [Idle EXCEPT !.kind = "edit", !.conn = TRUE, !.gen = gen, !.todo = T] \in Task
    BY <1>1, <2>2, NewTask
  <2>4. pc' \in [Proc -> Pc] /\ task' \in [Proc -> Task \cup {Idle}] /\ Running'
    BY <2>1, <2>3, StartType DEF T
  <2> QED
    BY <1>3, <2>4 DEF TInv, TypeOK, CorrectFeed, database, history
<1>4. CASE Rebuild(p)
  <2>1. [Idle EXCEPT !.kind = "rebuild", !.conn = TRUE, !.gen = gen] \in Task
    BY <1>1, NewTask
  <2>2. pc' \in [Proc -> Pc] /\ task' \in [Proc -> Task \cup {Idle}] /\ Running'
    BY <1>4, <2>1, StartType DEF Rebuild
  <2> QED
    BY <1>4, <2>2, NothingType DEF TInv, TypeOK, Rebuild, history
<1>5. CASE Unlock(p)
  <2>1. gen' \in 0..MaxGen
    BY <1>5, NewDatabaseType DEF Unlock
  <2>2. [Idle EXCEPT !.kind = "unlock", !.conn = TRUE, !.gen = gen', !.snap = log] \in Task
    BY <1>1, <2>1, NewTask
  <2>3. pc' \in [Proc -> Pc] /\ task' \in [Proc -> Task \cup {Idle}] /\ Running'
    BY <1>5, <2>2, StartType DEF Unlock
  <2>4. /\ rows' \subseteq Row /\ commits' \in Nat
        /\ holder' \in Proc \cup {None} /\ shown' \in [Subject -> Content \cup {None}] /\ stale' \in BOOLEAN
    BY <1>5, NewDatabaseType DEF Unlock
  <2> QED
    BY <1>5, <2>1, <2>3, <2>4 DEF TInv, TypeOK, Unlock
<1> QED
  BY <1>2, <1>3, <1>4, <1>5

LEMMA StepTInv == TInv /\ [Next]_vars => TInv'
<1> SUFFICES ASSUME TInv, [Next]_vars PROVE TInv'
  OBVIOUS
<1>1. ASSUME NEW p \in Proc, Poll(p) PROVE TInv'
  <2>1. PICK next \in {"commit", "append"} : Goto(p, next)
    BY <1>1 DEF Poll
  <2>2. pc' \in [Proc -> Pc] /\ task' \in [Proc -> Task \cup {Idle}] /\ Running'
    BY <1>1, <2>1, GotoOnlyType DEF Poll, Pc
  <2> QED
    BY <1>1, <2>2 DEF TInv, TypeOK, Pc, Poll, database, history
<1>2. CASE Lock
  <2>1. /\ gen' \in 0..MaxGen /\ rows' \subseteq Row /\ commits' \in Nat
        /\ holder' \in Proc \cup {None} /\ shown' \in [Subject -> Content \cup {None}] /\ stale' \in BOOLEAN
    BY <1>2, NewDatabaseType DEF Lock
  <2> QED
    BY <1>2, <2>1 DEF TInv, TypeOK, Lock, Running
<1>3. CASE UNCHANGED vars
  BY <1>3 DEF vars, TInv, TypeOK, Running
<1> QED
  BY <1>1, <1>2, <1>3, BeginType, AppendType, CommitType, ReplayType, ReadType,
     WriteProjectionType, CrashType DEF Next

(***************************************************************************)
(* Every variable keeps its type, for any transactions, accounts, contents *)
(* and processes: what is projected is content somebody sealed, whatever   *)
(* rows a process had read.                                                *)
(***************************************************************************)
THEOREM TypeCorrect == Spec => []TInv
BY InitTInv, StepTInv, PTL DEF Spec

-----------------------------------------------------------------------------
(* Events, rows and stamps. *)

LEMMA SameKeyIs ==
  /\ \A e : SameKey(e, e)
  /\ \A e, d : SameKey(e, d) => SameKey(d, e) /\ e.subject = d.subject
  /\ \A e, d, f : SameKey(e, d) /\ SameKey(d, f) => SameKey(e, f)
BY DEF SameKey

LEMMA InIs ==
  /\ \A R, S, e : R \subseteq S /\ In(R, e) => In(S, e)
  /\ \A R, e, d : In(R, e) /\ SameKey(e, d) => In(R, d)
BY SameKeyIs DEF In

\* What _insert_unique leaves: what there was, a row for everything put, and
\* nothing else.
LEMMA InsertedIs ==
  ASSUME NEW R, NEW put, NEW tx
  PROVE  /\ R \subseteq Inserted(R, put, tx)
         /\ \A x \in put : In(Inserted(R, put, tx), x.event)
         /\ \A r \in Inserted(R, put, tx) : r \in R \/ \E x \in put :
              ~In(R, x.event) /\ r = [event |-> x.event, at |-> x.at, tx |-> tx]
<1> DEFINE row(x) == [event |-> x.event, at |-> x.at, tx |-> tx]
           new == {row(x) : x \in {y \in put : ~In(R, y.event)}}
<1>1. Inserted(R, put, tx) = R \cup new
  BY DEF Inserted
<1>2. ASSUME NEW x \in put PROVE In(R \cup new, x.event)
  <2>1. CASE In(R, x.event)
    BY <2>1, InIs
  <2>2. CASE ~In(R, x.event)
    <3>1. row(x) \in new /\ row(x).event = x.event
      BY <2>2
    <3> HIDE DEF new, row
    <3> QED
      BY <3>1, SameKeyIs DEF In
  <2> QED
    BY <2>1, <2>2
<1> QED
  BY <1>1, <1>2

\* Of the events that are one row some event was the first.
LEMMA FirstExists ==
  ASSUME NEW snap \in Log, NEW e \in Event, snap[e] # None
  PROVE  \E f \in FirstOf(snap) : SameKey(f, e)
<1> DEFINE D == {d \in Event : SameKey(d, e) /\ snap[d] # None}
           T == {snap[d] : d \in D}
<1>1. \A d \in D : snap[d] \in Nat
  BY StampType DEF Log
<1>2. T \subseteq Nat /\ T # {}
  BY <1>1, SameKeyIs
<1>3. PICK m \in T : \A y \in T : ~ (<<y, m>> \in OpToRel(<, Nat))
  <2> HIDE DEF T
  <2> QED BY <1>2, NatLessThanWellFounded, WFMin
<1>4. \A y \in T : ~(y < m)
  BY <1>2, <1>3 DEF OpToRel
<1>5. PICK f \in D : m = snap[f]
  OBVIOUS
<1>6. ASSUME NEW d \in Event, SameKey(d, f), snap[d] # None PROVE snap[f] <= snap[d]
  <2>1. d \in D
    BY <1>5, <1>6, SameKeyIs
  <2> QED
    BY <1>1, <1>4, <1>5, <2>1
<1> QED
  BY <1>5, <1>6 DEF FirstOf

LEMMA ReplayedIs ==
  ASSUME NEW R, NEW snap \in Log, NEW tx
  PROVE  /\ R \subseteq Replayed(R, snap, tx)
         /\ \A e \in Event : snap[e] # None => In(Replayed(R, snap, tx), e)
         /\ \A r \in Replayed(R, snap, tx) : r \in R \/ \E e \in FirstOf(snap) :
              ~In(R, e) /\ r = [event |-> e, at |-> snap[e], tx |-> tx]
<1> DEFINE put == {[event |-> e, at |-> snap[e]] : e \in FirstOf(snap)}
<1>1. Replayed(R, snap, tx) = Inserted(R, put, tx)
  BY DEF Replayed
<1>2. ASSUME NEW e \in Event, snap[e] # None PROVE In(Inserted(R, put, tx), e)
  <2>1. PICK f \in FirstOf(snap) : SameKey(f, e)
    BY <1>2, FirstExists
  <2>2. [event |-> f, at |-> snap[f]] \in put
    OBVIOUS
  <2>3. In(Inserted(R, put, tx), f)
    <3> HIDE DEF put
    <3> QED BY <2>2, InsertedIs
  <2> QED
    BY <2>1, <2>3, InIs
<1>3. ASSUME NEW r \in Inserted(R, put, tx), r \notin R
      PROVE  \E e \in FirstOf(snap) : ~In(R, e) /\ r = [event |-> e, at |-> snap[e], tx |-> tx]
  <2>1. PICK x \in put : ~In(R, x.event) /\ r = [event |-> x.event, at |-> x.at, tx |-> tx]
    <3> HIDE DEF put
    <3> QED BY <1>3, InsertedIs
  <2>2. PICK e \in FirstOf(snap) : x = [event |-> e, at |-> snap[e]]
    OBVIOUS
  <2>3. x.event = e /\ x.at = snap[e]
    BY <2>2
  <2> QED
    BY <2>1, <2>3
<1>4. R \subseteq Inserted(R, put, tx)
  BY InsertedIs
<1> HIDE DEF put
<1> QED
  BY <1>1, <1>2, <1>3, <1>4

(***************************************************************************)
(* What an unlock read is in the cache when it has replayed it, whatever   *)
(* was inserted while it read (record_poll, replay.run): the first event   *)
(* of every row has the least stamp, and its row is there or is made.      *)
(***************************************************************************)
THEOREM UnlockMissesNothing == Spec => UnlockPicksUpEverything
<1> DEFINE Picks == \A p \in Proc : Replay(p) /\ Current(p) =>
                      \A e \in Event : task[p].snap[e] # None => In(rows', e)
<1>1. TInv /\ [Next]_vars => [Picks]_vars
  <2> SUFFICES ASSUME TInv, NEW p \in Proc, Replay(p), Current(p), NEW e \in Event, task[p].snap[e] # None
               PROVE  In(rows', e)
    BY DEF Picks
  <2>1. task[p].snap \in Log
    BY AtWork, TaskFields DEF Replay
  <2>2. rows' = Replayed(rows, task[p].snap, commits + 1)
    BY DEF Replay
  <2> QED
    BY <2>1, <2>2, ReplayedIs
<1> QED
  BY <1>1, TypeCorrect, PTL DEF Spec, UnlockPicksUpEverything

-----------------------------------------------------------------------------
(* The stamps in the log are of one event each, and increase. *)

LogInv ==
  /\ \A e \in Event : log[e] # None => log[e] <= clock
  /\ \A e, d \in Event : log[e] # None /\ log[e] = log[d] => e = d

\* An event that would be the same row is in the log.
Known(e) == \E d \in Event : SameKey(d, e) /\ log[d] # None

LEMMA LogType == ASSUME TInv, NEW e \in Event, log[e] # None PROVE log[e] \in Nat
BY StampType DEF TInv, TypeOK, Log

LEMMA SealedIs ==
  ASSUME TInv, LogInv, clock < MaxStamp, clock' = clock + 1, NEW e \in Event,
         log' = IF log[e] = None THEN [log EXCEPT ![e] = clock'] ELSE log
  PROVE  /\ \A d \in Event : log[d] # None => log'[d] = log[d]
         /\ \A d \in Event : log'[d] # None /\ log[d] = None => d = e
         /\ log[e] = None => log'[e] = clock'
         /\ log'[e] # None /\ clock' # None /\ clock' \in Nat /\ clock \in Nat
<1>1. clock' \in Nat /\ clock' # None /\ clock \in Nat
  BY StampType DEF TInv, TypeOK
<1>2. log \in [Event -> Stamp \cup {None}]
  BY DEF TInv, TypeOK, Log
<1> QED
  BY <1>1, <1>2

LEMMA SealedLogInv ==
  ASSUME TInv, LogInv, clock < MaxStamp, clock' = clock + 1, NEW e \in Event,
         log' = IF log[e] = None THEN [log EXCEPT ![e] = clock'] ELSE log
  PROVE  LogInv'
<1>1. \A d \in Event : log'[d] # None => \/ log[d] # None /\ log'[d] = log[d] /\ log[d] \in Nat /\ log[d] <= clock
                                         \/ log[d] = None /\ d = e /\ log'[d] = clock'
  BY SealedIs, LogType DEF LogInv
<1>2. clock \in Nat
  BY SealedIs
<1> QED
  BY <1>1, <1>2 DEF LogInv

\* An event sealed later takes nobody's place, and is first if it is new.
LEMMA SealedFirst ==
  ASSUME TInv, LogInv, clock < MaxStamp, clock' = clock + 1, NEW e \in Event,
         log' = IF log[e] = None THEN [log EXCEPT ![e] = clock'] ELSE log
  PROVE  /\ FirstOf(log) \subseteq FirstOf(log')
         /\ ~Known(e) => e \in FirstOf(log') /\ log'[e] = clock'
         /\ \A f \in FirstOf(log') : f \in FirstOf(log) \/ (f = e /\ ~Known(e))
<1>1. \A d \in Event : log'[d] # None => \/ log[d] # None /\ log'[d] = log[d] /\ log[d] \in Nat /\ log[d] <= clock
                                         \/ log[d] = None /\ d = e /\ log'[d] = clock'
  BY SealedIs, LogType DEF LogInv
<1>2. /\ clock \in Nat /\ log'[e] # None
      /\ \A d \in Event : log[d] # None => log'[d] = log[d]
  BY SealedIs
<1>3. ASSUME NEW f \in FirstOf(log) PROVE f \in FirstOf(log')
  <2>1. f \in Event /\ log[f] # None /\ log'[f] = log[f] /\ log[f] \in Nat /\ log[f] <= clock
    BY <1>2, LogType DEF FirstOf, LogInv
  <2>2. ASSUME NEW d \in Event, SameKey(d, f), log'[d] # None PROVE log'[f] <= log'[d]
    <3>1. CASE log[d] # None
      BY <1>1, <2>1, <2>2, <3>1 DEF FirstOf
    <3>2. CASE log[d] = None
      BY <1>1, <1>2, <2>1, <2>2, <3>2
    <3> QED
      BY <3>1, <3>2
  <2> QED
    BY <2>1, <2>2 DEF FirstOf
<1>4. ASSUME ~Known(e) PROVE e \in FirstOf(log') /\ log'[e] = clock'
  <2>1. log[e] = None /\ log'[e] = clock'
    BY <1>1, <1>2, <1>4, SameKeyIs DEF Known
  <2>2. \A d \in Event : SameKey(d, e) /\ log'[d] # None => d = e
    BY <1>1, <1>4 DEF Known
  <2> QED
    BY <1>2, <2>1, <2>2 DEF FirstOf
<1>5. ASSUME NEW f \in FirstOf(log'), f \notin FirstOf(log) PROVE f = e /\ ~Known(e)
  <2>1. f \in Event /\ log'[f] # None /\ \A d \in Event : SameKey(d, f) /\ log'[d] # None => log'[f] <= log'[d]
    BY DEF FirstOf
  <2>2. ASSUME log[f] # None PROVE FALSE
    <3>1. \A d \in Event : SameKey(d, f) /\ log[d] # None => log[f] <= log[d]
      BY <1>2, <2>1, <2>2
    <3> QED
      BY <1>5, <2>1, <2>2, <3>1 DEF FirstOf
  <2>3. f = e /\ log'[f] = clock'
    BY <1>1, <2>1, <2>2
  <2>4. ASSUME NEW d \in Event, SameKey(d, e), log[d] # None PROVE FALSE
    <3>1. log'[d] = log[d] /\ log[d] \in Nat /\ log[d] <= clock
      BY <1>2, <2>4, LogType DEF LogInv
    <3>2. clock' <= log'[d]
      BY <2>1, <2>3, <2>4, <3>1
    <3> QED
      BY <1>2, <3>1, <3>2
  <2> QED
    BY <2>3, <2>4 DEF Known
<1> QED
  BY <1>3, <1>4, <1>5

-----------------------------------------------------------------------------
(* The processes: what those that have the database are about to insert,   *)
(* and what their unlocks read.                                            *)

Held(p) == IF Current(p) /\ pc[p] \in {"append", "commit"} THEN task[p].put ELSE {}
Reads(p) ==
  IF Current(p) /\ pc[p] = "replay" THEN {e \in Event : task[p].snap[e] # None} ELSE {}
Projecting(p) == Current(p) /\ pc[p] \in {"read", "edits", "write"}

Pending == UNION {Held(p) : p \in Proc}
Reading == UNION {Reads(p) : p \in Proc}

\* What was in the log when somebody read it.
Prefix(snap) ==
  /\ \A e \in Event : snap[e] # None => log[e] = snap[e]
  /\ \A e, d \in Event : snap[e] # None /\ snap[d] = None /\ log[d] # None => log[e] < log[d]

ProcInv(p) ==
  /\ task[p].gen <= gen
  /\ Current(p) => open
  /\ pc[p] = "poll" => task[p].put = {}
  /\ pc[p] = "replay" => Prefix(task[p].snap)

ProcsInv == \A p \in Proc : ProcInv(p)

BaseInv == TInv /\ LogInv /\ ProcsInv

LEMMA OthersStay ==
  ASSUME TInv, NEW p \in Proc, NEW q \in Proc \ {p},
         \/ Sync(p) \/ CorrectFeed(p) \/ Poll(p) \/ Append(p) \/ Commit(p)
         \/ ReadRecords(p) \/ ReadEdits(p) \/ WriteProjection(p) \/ Rebuild(p)
         \/ Unlock(p) \/ Replay(p) \/ Crash(p)
  PROVE  pc'[q] = pc[q] /\ task'[q] = task[q]
<1>1. pc \in [Proc -> Pc] /\ task \in [Proc -> Task \cup {Idle}]
  BY DEF TInv, TypeOK, Pc
<1>2. ASSUME NEW x, pc' = [pc EXCEPT ![p] = x] PROVE pc'[q] = pc[q]
  BY <1>1, <1>2
<1>3. ASSUME NEW x, task' = [task EXCEPT ![p] = x] PROVE task'[q] = task[q]
  BY <1>1, <1>3
<1>4. CASE Sync(p)
  BY <1>2, <1>3, <1>4 DEF Sync, Start
<1>5. CASE CorrectFeed(p)
  BY <1>2, <1>3, <1>5 DEF CorrectFeed, Start
<1>6. CASE Poll(p)
  BY <1>2, <1>3, <1>6 DEF Poll, Goto
<1>7. CASE Append(p)
  BY <1>1, <1>7 DEF Append, Goto
<1>8. CASE Commit(p)
  BY <1>1, <1>8 DEF Commit, Goto, Finish
<1>9. CASE ReadRecords(p)
  BY <1>1, <1>9 DEF ReadRecords, Goto
<1>10. CASE ReadEdits(p)
  BY <1>1, <1>10 DEF ReadEdits, Goto
<1>11. CASE WriteProjection(p)
  BY <1>1, <1>11 DEF WriteProjection, Finish
<1>12. CASE Rebuild(p)
  BY <1>1, <1>12 DEF Rebuild, Start
<1>13. CASE Unlock(p)
  BY <1>1, <1>13 DEF Unlock, Start
<1>14. CASE Replay(p)
  BY <1>1, <1>14 DEF Replay, Goto
<1>15. CASE Crash(p)
  BY <1>1, <1>15 DEF Crash, Finish
<1> QED
  BY <1>4, <1>5, <1>6, <1>7, <1>8, <1>9, <1>10, <1>11, <1>12, <1>13, <1>14, <1>15

\* A process that does nothing keeps what it has, if the database stays.
LEMMA StayingKeeps ==
  ASSUME NEW q \in Proc, pc'[q] = pc[q], task'[q] = task[q], gen' = gen
  PROVE  /\ Held(q)' = Held(q) /\ Reads(q)' = Reads(q)
         /\ Projecting(q)' <=> Projecting(q)
         /\ Current(q)' <=> Current(q)
BY DEF Held, Reads, Projecting, Current

\* Nobody has a database that is new, but for who made it.
LEMMA NobodyHasANewOne ==
  ASSUME BaseInv, gen' = gen + 1, NEW q \in Proc, task'[q] = task[q]
  PROVE  ~Current(q)' /\ Held(q)' = {} /\ Reads(q)' = {} /\ ~Projecting(q)'
<1>1. task[q].gen <= gen /\ gen \in Nat /\ task[q].gen \in Nat
  BY TaskFields DEF BaseInv, ProcsInv, ProcInv, TInv, TypeOK
<1>2. ~Current(q)'
  BY <1>1 DEF Current
<1> QED
  BY <1>2 DEF Held, Reads, Projecting

\* Where a process is, and what it has there, after each of its steps.
LEMMA Begun ==
  ASSUME TInv, NEW p \in Proc, Sync(p) \/ CorrectFeed(p) \/ Rebuild(p)
  PROVE  /\ pc[p] = "idle" /\ pc'[p] \in {"poll", "append", "read"}
         /\ task'[p].put = {} /\ task'[p].gen = gen /\ (task'[p].conn => open)
         /\ Rebuild(p) => task'[p].conn /\ pc'[p] = "read"
         /\ UNCHANGED <<log, clock, open, gen, rows, drift, claim, repeated, stale>>
         /\ ~Rebuild(p) => UNCHANGED shown
<1>1. pc \in [Proc -> Pc] /\ task \in [Proc -> Task \cup {Idle}]
  BY DEF TInv, TypeOK, Pc
<1>2. CASE Sync(p)
  <2>1. PICK T : Start(p, [Idle EXCEPT !.kind = "sync", !.conn = open, !.gen = gen, !.todo = T], "poll")
    BY <1>2 DEF Sync
  <2>2. task'[p] = [Idle EXCEPT !.kind = "sync", !.conn = open, !.gen = gen, !.todo = T]
    BY <1>1, <2>1 DEF Start
  <2>3. task'[p].put = {} /\ task'[p].gen = gen /\ (task'[p].conn => open)
    BY <2>2 DEF Idle
  <2>4. ~Rebuild(p)
    BY <1>1, <2>1 DEF Rebuild, Start
  <2> QED
    BY <1>1, <1>2, <2>1, <2>3, <2>4 DEF Start, Sync, database, history
<1>3. CASE CorrectFeed(p)
  <2>1. PICK T : Start(p, [Idle EXCEPT !.kind = "edit", !.conn = TRUE, !.gen = gen, !.todo = T], "append")
    BY <1>3 DEF CorrectFeed
  <2>2. task'[p] = [Idle EXCEPT !.kind = "edit", !.conn = TRUE, !.gen = gen, !.todo = T]
    BY <1>1, <2>1 DEF Start
  <2>3. task'[p].put = {} /\ task'[p].gen = gen
    BY <2>2 DEF Idle
  <2>4. ~Rebuild(p)
    BY <1>1, <2>1 DEF Rebuild, Start
  <2> QED
    BY <1>1, <1>3, <2>1, <2>3, <2>4 DEF Start, CorrectFeed, database, history
<1>4. CASE Rebuild(p)
  <2>1. Start(p, [Idle EXCEPT !.kind = "rebuild", !.conn = TRUE, !.gen = gen], "read")
    BY <1>4 DEF Rebuild
  <2>2. task'[p] = [Idle EXCEPT !.kind = "rebuild", !.conn = TRUE, !.gen = gen]
    BY <1>1, <2>1 DEF Start
  <2>3. task'[p].put = {} /\ task'[p].gen = gen /\ task'[p].conn
    BY <2>2 DEF Idle
  <2> QED
    BY <1>1, <1>4, <2>1, <2>3 DEF Start, Rebuild, history
<1> QED
  BY <1>2, <1>3, <1>4

LEMMA Unlocked ==
  ASSUME TInv, NEW p \in Proc, Unlock(p)
  PROVE  /\ pc'[p] = "replay" /\ task'[p].put = {} /\ task'[p].gen = gen'
         /\ task'[p].conn /\ task'[p].snap = log
         /\ gen' = gen + 1 /\ open' /\ rows' = {} /\ drift' = {} /\ shown' = Nothing
         /\ UNCHANGED <<log, clock, claim, repeated>>
<1>1. pc \in [Proc -> Pc] /\ task \in [Proc -> Task \cup {Idle}]
  BY DEF TInv, TypeOK, Pc
<1>2. task'[p] = [Idle EXCEPT !.kind = "unlock", !.conn = TRUE, !.gen = gen', !.snap = log] /\ pc'[p] = "replay"
  BY <1>1 DEF Unlock, Start
<1>3. task'[p].put = {} /\ task'[p].gen = gen' /\ task'[p].conn /\ task'[p].snap = log
  BY <1>2 DEF Idle
<1> QED
  BY <1>2, <1>3 DEF Unlock, NewDatabase

\* A process that went on keeps its connection.
LEMMA WentOn ==
  ASSUME TInv, NEW p \in Proc,
         Poll(p) \/ Append(p) \/ Commit(p) \/ ReadRecords(p) \/ ReadEdits(p) \/ WriteProjection(p)
           \/ Replay(p) \/ Crash(p)
  PROVE  /\ pc[p] # "idle" /\ gen' = gen /\ open' = open
         /\ pc'[p] # "idle" => task'[p].gen = task[p].gen /\ task'[p].conn = task[p].conn
         /\ pc'[p] = "idle" => task'[p] = Idle
         /\ pc'[p] \notin {"poll", "replay"}
         /\ ~Append(p) => UNCHANGED <<log, clock, claim, repeated>>
         /\ ~Commit(p) /\ ~Replay(p) => UNCHANGED rows
         /\ ~Append(p) /\ ~Crash(p) => UNCHANGED drift
         /\ ~WriteProjection(p) /\ ~Crash(p) => UNCHANGED stale
         /\ ~WriteProjection(p) /\ ~Replay(p) => UNCHANGED shown
<1>1. pc \in [Proc -> Pc] /\ task \in [Proc -> Task \cup {Idle}]
  BY DEF TInv, TypeOK, Pc
<1>2. CASE Poll(p)
  BY <1>1, <1>2 DEF Poll, Goto, database, history
<1>3. CASE Append(p)
  <2>1. task[p] \in Task
    BY <1>3, AtWork DEF Append
  <2>2. PICK e : task' = [task EXCEPT ![p] = [task[p] EXCEPT !.todo = task[p].todo \ {e},
                                              !.put = task[p].put \cup {[event |-> e, at |-> clock']}]]
                 /\ Goto(p, IF task[p].todo = {e} THEN "commit" ELSE "append")
    BY <1>1, <1>3 DEF Append
  <2>3. task'[p] = [task[p] EXCEPT !.todo = task[p].todo \ {e},
                                   !.put = task[p].put \cup {[event |-> e, at |-> clock']}]
    BY <1>1, <2>2
  <2>4. task'[p].gen = task[p].gen /\ task'[p].conn = task[p].conn
    BY <2>1, <2>3 DEF Task
  <2>5. pc'[p] \in {"commit", "append"}
    BY <1>1, <2>2 DEF Goto
  <2>6. pc[p] = "append" /\ UNCHANGED <<gen, open, rows, stale, shown>>
    BY <1>3 DEF Append, database
  <2>7. ~Commit(p) /\ ~Replay(p) /\ ~WriteProjection(p)
    BY <2>6 DEF Commit, Replay, WriteProjection
  <2> QED
    BY <1>3, <2>4, <2>5, <2>6, <2>7
<1>4. CASE Commit(p)
  BY <1>1, <1>4 DEF Commit, Goto, Finish, history
<1>5. CASE ReadRecords(p)
  <2>1. task[p] \in Task
    BY <1>5, AtWork DEF ReadRecords
  <2>2. task'[p].gen = task[p].gen /\ task'[p].conn = task[p].conn
    BY <1>1, <1>5, <2>1 DEF ReadRecords, Task
  <2> QED
    BY <1>1, <1>5, <2>2 DEF ReadRecords, Goto, database, history
<1>6. CASE ReadEdits(p)
  <2>1. task[p] \in Task
    BY <1>6, AtWork DEF ReadEdits
  <2>2. task'[p].gen = task[p].gen /\ task'[p].conn = task[p].conn
    BY <1>1, <1>6, <2>1 DEF ReadEdits, Task
  <2> QED
    BY <1>1, <1>6, <2>2 DEF ReadEdits, Goto, database, history
<1>7. CASE WriteProjection(p)
  BY <1>1, <1>7 DEF WriteProjection, Finish
<1>8. CASE Replay(p)
  <2>1. task[p] \in Task
    BY <1>8, AtWork DEF Replay
  <2>2. task'[p].gen = task[p].gen /\ task'[p].conn = task[p].conn
    BY <1>1, <1>8, <2>1 DEF Replay, Task
  <2> QED
    BY <1>1, <1>8, <2>2 DEF Replay, Goto, history
<1>9. CASE Crash(p)
  BY <1>1, <1>9 DEF Crash, Finish, database
<1> QED
  BY <1>2, <1>3, <1>4, <1>5, <1>6, <1>7, <1>8, <1>9

\* What an append does, of the event it is about.
Appends(p, e) ==
  /\ log' = IF log[e] = None THEN [log EXCEPT ![e] = clock'] ELSE log
  /\ task'[p].put = task[p].put \cup {[event |-> e, at |-> clock']}
  /\ drift' = IF (~Known(e) /\ ~Current(p)) \/ (Known(e) /\ ~In(rows, e))
                THEN drift \cup {e.subject} ELSE drift
  /\ claim' = [claim EXCEPT ![e.subject] = e.said.content]
  /\ repeated' = IF ~Known(e) THEN repeated \ {e.subject}
                 ELSE IF claim[e.subject] # e.said.content THEN repeated \cup {e.subject}
                 ELSE repeated

LEMMA Appended ==
  ASSUME TInv, NEW p \in Proc, Append(p)
  PROVE  /\ \E e \in Event : Appends(p, e)
         /\ clock < MaxStamp /\ clock' = clock + 1
         /\ pc[p] = "append" /\ pc'[p] \in {"append", "commit"}
         /\ UNCHANGED <<rows, gen, open, shown, stale>>
         /\ Current(p)' <=> Current(p)
<1>1. pc \in [Proc -> Pc] /\ task \in [Proc -> Task \cup {Idle}]
  BY DEF TInv, TypeOK, Pc
<1>2. task[p] \in Task
  BY AtWork DEF Append
<1>3. PICK e \in NextUp(p) :
        /\ log' = IF log[e] = None THEN [log EXCEPT ![e] = clock'] ELSE log
        /\ task' = [task EXCEPT ![p].todo = @ \ {e},
                                ![p].put = @ \cup {[event |-> e, at |-> clock']}]
        /\ Goto(p, IF task[p].todo = {e} THEN "commit" ELSE "append")
        /\ drift' = IF (~Known(e) /\ ~Current(p)) \/ (Known(e) /\ ~In(rows, e))
                      THEN drift \cup {e.subject} ELSE drift
        /\ claim' = [claim EXCEPT ![e.subject] = e.said.content]
        /\ repeated' = IF ~Known(e) THEN repeated \ {e.subject}
                       ELSE IF claim[e.subject] # e.said.content THEN repeated \cup {e.subject}
                       ELSE repeated
  BY Zenon DEF Append, Known
<1>4. e \in Event
  BY <1>2 DEF NextUp, Task
<1>5. task'[p] = [task[p] EXCEPT !.todo = task[p].todo \ {e},
                                 !.put = task[p].put \cup {[event |-> e, at |-> clock']}]
  BY <1>1, <1>3
<1>6. /\ task'[p].put = task[p].put \cup {[event |-> e, at |-> clock']}
      /\ task'[p].gen = task[p].gen /\ task'[p].conn = task[p].conn
  BY <1>2, <1>5 DEF Task
<1>7. Appends(p, e)
  BY <1>3, <1>6 DEF Appends
<1>8. pc'[p] \in {"append", "commit"}
  BY <1>1, <1>3 DEF Goto
<1>9. clock < MaxStamp /\ clock' = clock + 1 /\ pc[p] = "append" /\ UNCHANGED <<rows, gen, open, shown, stale>>
  BY DEF Append, database
<1>10. Current(p)' <=> Current(p)
  BY <1>6, <1>9 DEF Current
<1> QED
  BY <1>4, <1>7, <1>8, <1>9, <1>10

LEMMA WentOnCurrent ==
  ASSUME TInv, NEW p \in Proc,
         Poll(p) \/ Append(p) \/ Commit(p) \/ ReadRecords(p) \/ ReadEdits(p) \/ WriteProjection(p)
           \/ Replay(p) \/ Crash(p)
  PROVE  /\ Current(p)' => Current(p) /\ pc'[p] # "idle"
         /\ pc'[p] # "idle" => (Current(p)' <=> Current(p))
BY WentOn, IdleType DEF Current

LEMMA StepBaseInv ==
  ASSUME BaseInv, [Next]_vars
  PROVE  BaseInv'
<1> USE DEF BaseInv
<1>1. TInv'
  BY StepTInv
<1>2. CASE UNCHANGED vars
  BY <1>1, <1>2 DEF vars, LogInv, ProcsInv, ProcInv, Prefix, Current
<1>3. CASE Lock
  <2>1. gen' = gen + 1 /\ UNCHANGED <<log, clock, task, pc>>
    BY <1>3 DEF Lock, NewDatabase
  <2>2. LogInv'
    BY <2>1 DEF LogInv
  <2>3. ASSUME NEW q \in Proc PROVE ProcInv(q)'
    <3>1. ~Current(q)'
      BY <2>1, NobodyHasANewOne
    <3>2. task[q].gen \in Nat /\ gen \in Nat
      BY TaskFields DEF TInv, TypeOK
    <3> QED
      BY <2>1, <3>1, <3>2 DEF ProcsInv, ProcInv, Prefix
  <2> QED
    BY <1>1, <2>2, <2>3 DEF ProcsInv
<1>4. ASSUME NEW p \in Proc, Sync(p) \/ CorrectFeed(p) \/ Rebuild(p) PROVE BaseInv'
  <2>1. UNCHANGED <<log, clock, open, gen>>
    BY <1>4, Begun
  <2>2. LogInv'
    BY <2>1 DEF LogInv
  <2>3. ASSUME NEW q \in Proc \ {p} PROVE ProcInv(q)'
    BY <1>4, <2>1, <2>3, OthersStay, StayingKeeps DEF ProcsInv, ProcInv, Prefix
  <2>4. ProcInv(p)'
    BY <1>4, Begun DEF ProcInv, Current, TInv, TypeOK
  <2> QED
    BY <1>1, <2>2, <2>3, <2>4 DEF ProcsInv
<1>5. ASSUME NEW p \in Proc, Unlock(p) PROVE BaseInv'
  <2>1. gen' = gen + 1 /\ open' /\ UNCHANGED <<log, clock>>
    BY <1>5, Unlocked
  <2>2. LogInv'
    BY <2>1 DEF LogInv
  <2>3. ASSUME NEW q \in Proc \ {p} PROVE ProcInv(q)'
    <3>1. pc'[q] = pc[q] /\ task'[q] = task[q]
      BY <1>5, OthersStay
    <3>2. ~Current(q)'
      BY <2>1, <3>1, NobodyHasANewOne
    <3>3. task[q].gen \in Nat /\ gen \in Nat
      BY TaskFields DEF TInv, TypeOK
    <3> QED
      BY <2>1, <3>1, <3>2, <3>3 DEF ProcsInv, ProcInv, Prefix
  <2>4. ProcInv(p)'
    <3>1. task'[p].gen = gen' /\ gen' \in Nat /\ pc'[p] = "replay" /\ task'[p].snap = log /\ log' = log
      BY <1>1, <1>5, Unlocked DEF TInv, TypeOK
    <3> QED
      BY <2>1, <3>1 DEF ProcInv, Prefix
  <2> QED
    BY <1>1, <2>2, <2>3, <2>4 DEF ProcsInv
<1>6. ASSUME NEW p \in Proc, Append(p) PROVE BaseInv'
  <2>1. /\ clock < MaxStamp /\ clock' = clock + 1
        /\ pc'[p] \in {"append", "commit"} /\ gen' = gen /\ open' = open
    BY <1>6, Appended
  <2>2. PICK e \in Event : log' = IF log[e] = None THEN [log EXCEPT ![e] = clock'] ELSE log
    BY <1>6, Appended DEF Appends
  <2>3. LogInv'
    BY <2>1, <2>2, SealedLogInv
  <2>4. ASSUME NEW snap, Prefix(snap)
        PROVE  /\ \A f \in Event : snap[f] # None => log'[f] = snap[f]
               /\ \A f, d \in Event : snap[f] # None /\ snap[d] = None /\ log'[d] # None => log'[f] < log'[d]
    <3>1. ASSUME NEW f \in Event, snap[f] # None PROVE log'[f] = snap[f] /\ log'[f] = log[f] /\ log[f] # None
      <4>1. log[f] = snap[f]
        BY <2>4, <3>1 DEF Prefix
      <4> QED
        BY <2>1, <2>2, <3>1, <4>1, SealedIs
    <3>2. ASSUME NEW f \in Event, NEW d \in Event, snap[f] # None, snap[d] = None, log'[d] # None
          PROVE  log'[f] < log'[d]
      <4>1. CASE log[d] # None
        <5>1. log[f] < log[d]
          BY <2>4, <3>2, <4>1 DEF Prefix
        <5> QED
          BY <2>1, <2>2, <3>1, <3>2, <4>1, <5>1, SealedIs
      <4>2. CASE log[d] = None
        <5>1. log'[d] = clock'
          BY <2>1, <2>2, <3>2, <4>2, SealedIs
        <5>2. log[f] # None /\ log'[f] = log[f]
          BY <3>1, <3>2
        <5>3. log[f] \in Nat /\ log[f] <= clock /\ clock \in Nat
          BY <2>1, <2>2, <5>2, LogType, SealedIs DEF LogInv
        <5> QED
          BY <2>1, <5>1, <5>2, <5>3
      <4> QED
        BY <4>1, <4>2
    <3> QED
      BY <3>1, <3>2
  <2>5. ASSUME NEW q \in Proc \ {p} PROVE ProcInv(q)'
    <3>1. pc'[q] = pc[q] /\ task'[q] = task[q]
      BY <1>6, OthersStay
    <3>2. ProcInv(q) /\ (Current(q)' <=> Current(q))
      BY <2>1, <3>1, StayingKeeps DEF ProcsInv
    <3>3. ASSUME pc[q] = "replay" PROVE Prefix(task[q].snap)
      BY <3>2, <3>3 DEF ProcInv
    <3>4. pc'[q] = "replay" => Prefix(task[q].snap)'
      BY <2>4, <3>1, <3>3 DEF Prefix
    <3> QED
      BY <2>1, <3>1, <3>2, <3>4 DEF ProcInv
  <2>6. ProcInv(p)'
    <3>1. task'[p].gen = task[p].gen
      BY <1>6, <2>1, WentOn
    <3> QED
      BY <1>6, <2>1, <3>1, Appended DEF ProcsInv, ProcInv
  <2> QED
    BY <1>1, <2>3, <2>5, <2>6 DEF ProcsInv
<1>7. ASSUME NEW p \in Proc,
             Poll(p) \/ Commit(p) \/ ReadRecords(p) \/ ReadEdits(p) \/ WriteProjection(p) \/ Replay(p) \/ Crash(p)
      PROVE  BaseInv'
  <2>1. ~Append(p)
    <3>1. clock' = clock /\ clock # clock + 1
      BY <1>7 DEF Poll, Commit, ReadRecords, ReadEdits, WriteProjection, Replay, Crash, TInv, TypeOK
    <3> QED
      BY <3>1 DEF Append
  <2>2. UNCHANGED <<log, clock, open, gen>>
    BY <1>7, <2>1, WentOn
  <2>3. LogInv'
    BY <2>2 DEF LogInv
  <2>4. ASSUME NEW q \in Proc \ {p} PROVE ProcInv(q)'
    BY <1>7, <2>2, <2>4, OthersStay, StayingKeeps DEF ProcsInv, ProcInv, Prefix
  <2>5. ProcInv(p)'
    <3>1. pc'[p] \notin {"poll", "replay"} /\ task'[p].gen \in {task[p].gen, 0}
      BY <1>7, WentOn, IdleType
    <3>2. Current(p)' => open'
      BY <1>7, <2>2, WentOnCurrent DEF ProcsInv, ProcInv
    <3>3. gen \in Nat
      BY DEF TInv, TypeOK
    <3> QED
      BY <2>2, <3>1, <3>2, <3>3 DEF ProcsInv, ProcInv
  <2> QED
    BY <1>1, <2>3, <2>4, <2>5 DEF ProcsInv
<1> QED
  BY <1>2, <1>3, <1>4, <1>5, <1>6, <1>7 DEF Next

LEMMA InitBaseInv == Init => BaseInv
<1> SUFFICES ASSUME Init PROVE BaseInv
  OBVIOUS
<1>1. LogInv
  BY DEF Init, LogInv, NoLog
<1>2. ASSUME NEW p \in Proc PROVE ProcInv(p)
  BY IdleType DEF Init, ProcInv, Current
<1> QED
  BY <1>1, <1>2, InitTInv DEF BaseInv, ProcsInv

-----------------------------------------------------------------------------
(* The rows of a subject outside drift are the first of its events in the  *)
(* log, with the stamps they have there, but for those that a process is   *)
(* about to insert or to replay.                                           *)

RowsAreFirst ==
  \A r \in rows : r.event.subject \notin drift => r.event \in FirstOf(log) /\ r.at = log[r.event]

OneRow ==
  \A r, q \in rows : r.event.subject \notin drift /\ SameKey(r.event, q.event) => r = q

PendingIsFirst ==
  \A x \in Pending : x.event.subject \notin drift =>
    In(rows, x.event) \/ (x.event \in FirstOf(log) /\ x.at = log[x.event])

Covered ==
  open => \A e \in Event : log[e] # None /\ e.subject \notin drift =>
    \/ In(rows, e)
    \/ \E x \in Pending : SameKey(x.event, e)
    \/ e \in Reading

CacheInv == RowsAreFirst /\ OneRow /\ PendingIsFirst /\ Covered

\* What one process does changes its own part.
LEMMA PartsStep ==
  ASSUME NEW p \in Proc, \A q \in Proc \ {p} : Held(q)' = Held(q) /\ Reads(q)' = Reads(q)
  PROVE  /\ \A x \in Pending' : x \in Pending \/ x \in Held(p)'
         /\ \A x \in Pending : x \in Pending' \/ x \in Held(p)
         /\ \A x \in Reading : x \in Reading' \/ x \in Reads(p)
         /\ \A x \in Held(p) : x \in Pending
         /\ \A x \in Held(p)' : x \in Pending'
         /\ \A x \in Reads(p)' : x \in Reading'
BY DEF Pending, Reading

LEMMA PendingType == ASSUME TInv, NEW x \in Pending PROVE x.event \in Event /\ x.event.subject \in Subject
<1>1. PICK p \in Proc : x \in task[p].put
  BY DEF Pending, Held
<1>2. x \in Put
  BY <1>1, TaskFields DEF TInv, TypeOK
<1> QED
  BY <1>2, EventParts DEF Put

LEMMA RowType == ASSUME TInv, NEW r \in rows
                 PROVE  r.event \in Event /\ r.event.subject \in Subject /\ r.at \in Nat /\ r.tx \in Nat
                        /\ r = [event |-> r.event, at |-> r.at, tx |-> r.tx]
BY EventParts, StampType DEF TInv, TypeOK, Row

\* Nothing happened to the log, the rows and what is about to be in them.
LEMMA QuietCache ==
  ASSUME CacheInv, UNCHANGED <<log, rows, drift, open>>, Pending' = Pending, Reading \subseteq Reading'
  PROVE  CacheInv'
BY DEF CacheInv, RowsAreFirst, OneRow, PendingIsFirst, Covered

LEMMA QuietStep ==
  ASSUME CacheInv, NEW p \in Proc, UNCHANGED <<log, rows, drift, open>>,
         \A q \in Proc \ {p} : Held(q)' = Held(q) /\ Reads(q)' = Reads(q),
         Held(p) = {}, Held(p)' = {}, Reads(p) = {}
  PROVE  CacheInv'
BY PartsStep, QuietCache

\* Rows that are inserted are the first of their events, and of no key that is there.
LEMMA InsertingKeeps ==
  ASSUME TInv, LogInv, CacheInv, UNCHANGED <<log, drift>>,
         rows \subseteq rows', NEW tx,
         \A r \in rows' : r \in rows \/
           (/\ r.tx = tx /\ ~In(rows, r.event)
            /\ r = [event |-> r.event, at |-> r.at, tx |-> r.tx]
            /\ r.event \in Event
            /\ r.event.subject \notin drift => r.event \in FirstOf(log) /\ r.at = log[r.event])
  PROVE  RowsAreFirst' /\ OneRow'
<1>1. RowsAreFirst'
  BY DEF CacheInv, RowsAreFirst
<1>2. ASSUME NEW r \in rows', NEW q \in rows', r.event.subject \notin drift, SameKey(r.event, q.event)
      PROVE  r = q
  <2>1. q.event.subject \notin drift
    BY <1>2, SameKeyIs
  <2>2. r \in rows => (q \in rows \/ ~In(rows, q.event))
    OBVIOUS
  <2>3. CASE r \in rows /\ q \in rows
    BY <1>2, <2>3 DEF CacheInv, OneRow
  <2>4. CASE r \in rows /\ q \notin rows
    BY <1>2, <2>4, SameKeyIs DEF In
  <2>5. CASE r \notin rows /\ q \in rows
    BY <1>2, <2>5, SameKeyIs DEF In
  <2>6. CASE r \notin rows /\ q \notin rows
    <3>1. /\ r.event \in FirstOf(log) /\ r.at = log[r.event]
          /\ q.event \in FirstOf(log) /\ q.at = log[q.event]
          /\ r.tx = tx /\ q.tx = tx
          /\ r = [event |-> r.event, at |-> r.at, tx |-> r.tx]
          /\ q = [event |-> q.event, at |-> q.at, tx |-> q.tx]
      BY <1>2, <2>1, <2>6
    <3>2. log[r.event] <= log[q.event] /\ log[q.event] <= log[r.event]
      BY <1>2, <3>1, SameKeyIs DEF FirstOf
    <3>3. r.event \in Event /\ q.event \in Event /\ log[r.event] # None /\ log[q.event] # None
      BY <3>1 DEF FirstOf
    <3>4. log[r.event] = log[q.event]
      BY <3>2, <3>3, LogType
    <3>5. r.event = q.event
      BY <3>3, <3>4 DEF LogInv
    <3> QED
      BY <3>1, <3>5
  <2> QED
    BY <2>3, <2>4, <2>5, <2>6
<1> QED
  BY <1>1, <1>2 DEF OneRow

LEMMA AppendCache ==
  ASSUME BaseInv, CacheInv, NEW p \in Proc, Append(p)
  PROVE  CacheInv'
<1> USE DEF BaseInv
<1>1. /\ clock < MaxStamp /\ clock' = clock + 1
      /\ pc[p] = "append" /\ pc'[p] \in {"append", "commit"}
      /\ UNCHANGED <<rows, gen, open>>
      /\ (Current(p)' <=> Current(p))
  BY Appended
<1>2. PICK e \in Event : Appends(p, e)
  BY Appended
<1> DEFINE x == [event |-> e, at |-> clock']
<1>3. log' = IF log[e] = None THEN [log EXCEPT ![e] = clock'] ELSE log
  BY <1>2 DEF Appends
<1>4. /\ \A d \in Event : log[d] # None => log'[d] = log[d]
      /\ \A d \in Event : log'[d] # None /\ log[d] = None => d = e
  BY <1>1, <1>3, SealedIs
<1>5. /\ FirstOf(log) \subseteq FirstOf(log')
      /\ ~Known(e) => e \in FirstOf(log') /\ log'[e] = clock'
  BY <1>1, <1>3, SealedFirst
<1>6. \A f \in FirstOf(log) : f \in Event /\ log[f] # None /\ log'[f] = log[f]
  BY <1>4 DEF FirstOf
<1>7. /\ drift \subseteq drift'
      /\ e.subject \notin drift' => (Known(e) => In(rows, e)) /\ (~Known(e) => Current(p))
  BY <1>2 DEF Appends
<1>8. \A q \in Proc \ {p} : Held(q)' = Held(q) /\ Reads(q)' = Reads(q)
  BY <1>1, OthersStay, StayingKeeps
<1>9. Held(p) = (IF Current(p) THEN task[p].put ELSE {}) /\ Held(p)' = (IF Current(p) THEN task[p].put \cup {x} ELSE {})
  BY <1>1, <1>2 DEF Held, Appends
<1>10. Reads(p) = {}
  BY <1>1 DEF Reads
<1>11. RowsAreFirst'
  BY <1>1, <1>5, <1>6, <1>7 DEF CacheInv, RowsAreFirst
<1>12. OneRow'
  BY <1>1, <1>7 DEF CacheInv, OneRow
<1>13. PendingIsFirst'
  <2> SUFFICES ASSUME NEW y \in Pending', y.event.subject \notin drift'
               PROVE  In(rows, y.event) \/ (y.event \in FirstOf(log') /\ y.at = log'[y.event])
    BY <1>1 DEF PendingIsFirst
  <2>1. y \in Pending \/ y = x
    BY <1>8, <1>9, PartsStep
  <2>2. CASE y \in Pending
    BY <1>5, <1>6, <1>7, <2>2 DEF CacheInv, PendingIsFirst
  <2>3. CASE y = x
    <3>1. y.event = e /\ y.at = clock'
      BY <2>3
    <3> QED
      BY <1>5, <1>7, <3>1
  <2> QED
    BY <2>1, <2>2, <2>3
<1>14. Covered'
  <2> SUFFICES ASSUME open, NEW d \in Event, log'[d] # None, d.subject \notin drift'
               PROVE  In(rows, d) \/ (\E y \in Pending' : SameKey(y.event, d)) \/ d \in Reading'
    BY <1>1 DEF Covered
  <2>1. \A y \in Pending : y \in Pending'
    BY <1>8, <1>9, PartsStep
  <2>2. Reading \subseteq Reading'
    BY <1>8, <1>10, PartsStep
  <2>3. CASE log[d] # None
    BY <1>7, <2>1, <2>2, <2>3 DEF CacheInv, Covered
  <2>4. CASE log[d] = None
    <3>1. d = e
      BY <1>4, <2>4
    <3>2. CASE In(rows, e)
      BY <3>1, <3>2
    <3>3. CASE Current(p)
      <4>1. x \in Pending' /\ x.event = e
        BY <1>8, <1>9, <3>3, PartsStep
      <4> HIDE DEF x
      <4> QED
        BY <3>1, <4>1, SameKeyIs
    <3> QED
      BY <1>7, <3>1, <3>2, <3>3
  <2> QED
    BY <2>3, <2>4
<1> QED
  BY <1>11, <1>12, <1>13, <1>14 DEF CacheInv

LEMMA CommitCache ==
  ASSUME BaseInv, CacheInv, NEW p \in Proc, Commit(p), Current(p)
  PROVE  CacheInv'
<1> USE DEF BaseInv
<1>1. /\ rows' = Inserted(rows, task[p].put, commits + 1)
      /\ UNCHANGED <<log, open, gen, drift>> /\ pc[p] = "commit" /\ task' = task /\ pc'[p] = "read"
  BY DEF Commit, Current, Goto, history, TInv, TypeOK
<1>2. \A q \in Proc \ {p} : Held(q)' = Held(q) /\ Reads(q)' = Reads(q)
  BY <1>1, OthersStay, StayingKeeps
<1>3. Held(p) = task[p].put /\ Held(p)' = {} /\ Reads(p) = {}
  BY <1>1 DEF Held, Reads
<1>4. /\ rows \subseteq rows'
      /\ \A x \in task[p].put : In(rows', x.event)
      /\ \A r \in rows' : r \in rows \/ \E x \in task[p].put :
           ~In(rows, x.event) /\ r = [event |-> x.event, at |-> x.at, tx |-> commits + 1]
  BY <1>1, InsertedIs
<1>5. ASSUME NEW r \in rows', r \notin rows
      PROVE  /\ r.tx = commits + 1 /\ ~In(rows, r.event)
             /\ r = [event |-> r.event, at |-> r.at, tx |-> r.tx]
             /\ r.event \in Event
             /\ r.event.subject \notin drift => r.event \in FirstOf(log) /\ r.at = log[r.event]
  <2>1. PICK x \in task[p].put : ~In(rows, x.event) /\ r = [event |-> x.event, at |-> x.at, tx |-> commits + 1]
    BY <1>4, <1>5
  <2>2. r.event = x.event /\ r.at = x.at /\ r.tx = commits + 1
    BY <2>1
  <2>3. x \in Pending
    BY <1>2, <1>3, PartsStep
  <2>4. x.event \in Event
    BY <2>3, PendingType
  <2>5. x.event.subject \notin drift => x.event \in FirstOf(log) /\ x.at = log[x.event]
    BY <2>1, <2>3 DEF CacheInv, PendingIsFirst
  <2> QED
    BY <2>1, <2>2, <2>4, <2>5
<1>6. RowsAreFirst' /\ OneRow'
  BY <1>1, <1>4, <1>5, InsertingKeeps
<1>7. PendingIsFirst'
  BY <1>1, <1>2, <1>3, <1>4, PartsStep, InIs DEF CacheInv, PendingIsFirst
<1>8. Covered'
  <2> SUFFICES ASSUME open, NEW d \in Event, log[d] # None, d.subject \notin drift
               PROVE  In(rows', d) \/ (\E y \in Pending' : SameKey(y.event, d)) \/ d \in Reading'
    BY <1>1 DEF Covered
  <2>1. In(rows, d) \/ (\E y \in Pending : SameKey(y.event, d)) \/ d \in Reading
    BY DEF CacheInv, Covered
  <2>2. CASE In(rows, d)
    BY <1>4, <2>2, InIs
  <2>3. ASSUME NEW y \in Pending, SameKey(y.event, d)
        PROVE  In(rows', d) \/ (\E z \in Pending' : SameKey(z.event, d))
    BY <1>2, <1>3, <1>4, <2>3, PartsStep, InIs
  <2>4. CASE d \in Reading
    BY <1>2, <1>3, <2>4, PartsStep
  <2> QED
    BY <2>1, <2>2, <2>3, <2>4
<1> QED
  BY <1>6, <1>7, <1>8 DEF CacheInv

LEMMA ReplayCache ==
  ASSUME BaseInv, CacheInv, NEW p \in Proc, Replay(p), Current(p)
  PROVE  CacheInv'
<1> USE DEF BaseInv
<1> DEFINE snap == task[p].snap
<1>1. /\ rows' = Replayed(rows, snap, commits + 1)
      /\ UNCHANGED <<log, open, gen, drift>> /\ pc[p] = "replay" /\ pc'[p] = "read"
  BY DEF Replay, Goto, history, TInv, TypeOK
<1>2. \A q \in Proc \ {p} : Held(q)' = Held(q) /\ Reads(q)' = Reads(q)
  BY <1>1, OthersStay, StayingKeeps
<1>3. Held(p) = {} /\ Held(p)' = {} /\ Reads(p) = {e \in Event : snap[e] # None}
  BY <1>1 DEF Held, Reads
<1>4. snap \in Log /\ Prefix(snap)
  BY <1>1, AtWork, TaskFields DEF ProcsInv, ProcInv
<1> HIDE DEF snap
<1>5. /\ rows \subseteq rows'
      /\ \A e \in Event : snap[e] # None => In(rows', e)
      /\ \A r \in rows' : r \in rows \/ \E e \in FirstOf(snap) :
           ~In(rows, e) /\ r = [event |-> e, at |-> snap[e], tx |-> commits + 1]
  <2> DEFINE tx == commits + 1
  <2> HIDE DEF tx
  <2>1. rows \subseteq Replayed(rows, snap, tx)
    BY <1>4, ReplayedIs
  <2>2. \A e \in Event : snap[e] # None => In(Replayed(rows, snap, tx), e)
    BY <1>4, ReplayedIs
  <2>3. ASSUME NEW r \in Replayed(rows, snap, tx), r \notin rows
        PROVE  \E e \in FirstOf(snap) : ~In(rows, e) /\ r = [event |-> e, at |-> snap[e], tx |-> tx]
    BY <1>4, <2>3, ReplayedIs
  <2> QED
    BY <1>1, <2>1, <2>2, <2>3 DEF tx
<1>6. ASSUME NEW e \in FirstOf(snap) PROVE e \in FirstOf(log) /\ snap[e] = log[e]
  <2>1. e \in Event /\ snap[e] # None /\ log[e] = snap[e]
    BY <1>4 DEF FirstOf, Prefix
  <2>2. ASSUME NEW d \in Event, SameKey(d, e), log[d] # None PROVE log[e] <= log[d]
    <3>1. CASE snap[d] = None
      <4>1. log[e] < log[d]
        BY <1>4, <2>1, <2>2, <3>1 DEF Prefix
      <4> QED
        BY <2>1, <2>2, <4>1, LogType
    <3>2. CASE snap[d] # None
      BY <1>4, <2>1, <2>2, <3>2 DEF Prefix, FirstOf
    <3> QED
      BY <3>1, <3>2
  <2> QED
    BY <2>1, <2>2 DEF FirstOf
<1>7. ASSUME NEW r \in rows', r \notin rows
      PROVE  /\ r.tx = commits + 1 /\ ~In(rows, r.event)
             /\ r = [event |-> r.event, at |-> r.at, tx |-> r.tx]
             /\ r.event \in Event
             /\ r.event.subject \notin drift => r.event \in FirstOf(log) /\ r.at = log[r.event]
  <2>1. PICK e \in FirstOf(snap) : ~In(rows, e) /\ r = [event |-> e, at |-> snap[e], tx |-> commits + 1]
    BY <1>5, <1>7
  <2>2. r.event = e /\ r.at = snap[e] /\ r.tx = commits + 1
    BY <2>1
  <2>3. e \in Event
    BY DEF FirstOf
  <2> QED
    BY <1>6, <2>1, <2>2, <2>3
<1>8. RowsAreFirst' /\ OneRow'
  BY <1>1, <1>5, <1>7, InsertingKeeps
<1>9. PendingIsFirst'
  BY <1>1, <1>2, <1>3, <1>5, PartsStep, InIs DEF CacheInv, PendingIsFirst
<1>10. Covered'
  <2> SUFFICES ASSUME open, NEW d \in Event, log[d] # None, d.subject \notin drift
               PROVE  In(rows', d) \/ (\E y \in Pending' : SameKey(y.event, d)) \/ d \in Reading'
    BY <1>1 DEF Covered
  <2>1. In(rows, d) \/ (\E y \in Pending : SameKey(y.event, d)) \/ d \in Reading
    BY DEF CacheInv, Covered
  <2>2. CASE In(rows, d)
    BY <1>5, <2>2, InIs
  <2>3. CASE \E y \in Pending : SameKey(y.event, d)
    BY <1>2, <1>3, <2>3, PartsStep
  <2>4. CASE d \in Reading
    BY <1>2, <1>3, <1>5, <2>4, PartsStep
  <2> QED
    BY <2>1, <2>2, <2>3, <2>4
<1> QED
  BY <1>8, <1>9, <1>10 DEF CacheInv

\* Drift is what a transaction rolled back would have inserted.
LEMMA CrashCache ==
  ASSUME BaseInv, CacheInv, NEW p \in Proc, Crash(p), Current(p)
  PROVE  CacheInv'
<1> USE DEF BaseInv
<1>1. UNCHANGED <<log, rows, open, gen>> /\ pc'[p] = "idle" /\ task'[p] = Idle
  BY DEF Crash, Finish, database, TInv, TypeOK
<1>2. \A q \in Proc \ {p} : Held(q)' = Held(q) /\ Reads(q)' = Reads(q)
  BY <1>1, OthersStay, StayingKeeps
<1>3. Held(p)' = {}
  BY <1>1 DEF Held
<1>4. drift' = IF pc[p] = "replay" THEN Subject
               ELSE IF pc[p] \in {"append", "commit"} THEN drift \cup {x.event.subject : x \in task[p].put}
               ELSE drift
  BY DEF Crash
<1>5. drift \subseteq drift'
  BY <1>4 DEF TInv, TypeOK
<1>6. RowsAreFirst' /\ OneRow'
  BY <1>1, <1>5 DEF CacheInv, RowsAreFirst, OneRow
<1>7. PendingIsFirst'
  BY <1>1, <1>2, <1>3, <1>5, PartsStep DEF CacheInv, PendingIsFirst
<1>8. Covered'
  <2> SUFFICES ASSUME open, NEW d \in Event, log[d] # None, d.subject \notin drift'
               PROVE  In(rows, d) \/ (\E y \in Pending' : SameKey(y.event, d)) \/ d \in Reading'
    BY <1>1 DEF Covered
  <2>1. In(rows, d) \/ (\E y \in Pending : SameKey(y.event, d)) \/ d \in Reading
    BY <1>5 DEF CacheInv, Covered
  <2>2. ASSUME NEW y \in Pending, SameKey(y.event, d) PROVE y \in Pending'
    <3>1. y \in Held(p) => y.event.subject \in drift'
      BY <1>4 DEF Held
    <3> QED
      BY <1>2, <2>2, <3>1, PartsStep, SameKeyIs
  <2>3. CASE d \in Reading
    <3>1. Reads(p) = {}
      BY <1>4, EventParts DEF Reads
    <3> QED
      BY <1>2, <2>3, <3>1, PartsStep
  <2> QED
    BY <2>1, <2>2, <2>3
<1> QED
  BY <1>6, <1>7, <1>8 DEF CacheInv

\* A new database has nothing yet, and one that is opened is about to have
\* everything.
LEMMA NewCache ==
  ASSUME BaseInv, CacheInv, Lock \/ \E p \in Proc : Unlock(p)
  PROVE  CacheInv'
<1> USE DEF BaseInv
<1>1. rows' = {} /\ gen' = gen + 1 /\ log' = log
  BY DEF Lock, Unlock, NewDatabase
<1>2. CASE Lock
  <2>1. ASSUME NEW q \in Proc PROVE Held(q)' = {} /\ task' = task /\ ~open'
    BY <1>1, <1>2, NobodyHasANewOne DEF Lock
  <2>2. Pending' = {} /\ ~open'
    BY <1>2, <2>1 DEF Pending, Lock
  <2> QED
    BY <1>1, <2>2 DEF CacheInv, RowsAreFirst, OneRow, PendingIsFirst, Covered
<1>3. ASSUME NEW p \in Proc, Unlock(p) PROVE CacheInv'
  <2>1. \A q \in Proc \ {p} : Held(q)' = {}
    BY <1>1, <1>3, OthersStay, NobodyHasANewOne
  <2>2. pc'[p] = "replay" /\ task'[p].gen = gen' /\ task'[p].conn /\ task'[p].snap = log
    BY <1>3, Unlocked
  <2>3. Held(p)' = {} /\ Reads(p)' = {e \in Event : log[e] # None}
    BY <2>2 DEF Held, Reads, Current
  <2>4. Pending' = {} /\ Reads(p)' \subseteq Reading'
    BY <2>1, <2>3 DEF Pending, Reading
  <2> QED
    BY <1>1, <2>3, <2>4 DEF CacheInv, RowsAreFirst, OneRow, PendingIsFirst, Covered
<1> QED
  BY <1>2, <1>3

LEMMA StepCacheInv ==
  ASSUME BaseInv, CacheInv, [Next]_vars
  PROVE  CacheInv'
<1> USE DEF BaseInv
<1>1. CASE UNCHANGED vars
  <2>1. Pending' = Pending /\ Reading' = Reading
    BY <1>1 DEF vars, Pending, Reading, Held, Reads, Current
  <2> QED
    BY <1>1, <2>1, QuietCache DEF vars
<1>2. ASSUME NEW p \in Proc, Sync(p) \/ CorrectFeed(p) \/ Rebuild(p) PROVE CacheInv'
  <2>1. UNCHANGED <<log, open, gen, rows, drift>> /\ pc[p] = "idle" /\ task'[p].put = {} /\ pc'[p] # "replay"
    BY <1>2, Begun
  <2>2. \A q \in Proc \ {p} : Held(q)' = Held(q) /\ Reads(q)' = Reads(q)
    BY <1>2, <2>1, OthersStay, StayingKeeps
  <2>3. Held(p) = {} /\ Held(p)' = {} /\ Reads(p) = {}
    BY <2>1 DEF Held, Reads
  <2> QED
    BY <2>1, <2>2, <2>3, QuietStep
<1>3. ASSUME NEW p \in Proc,
             \/ Poll(p) \/ ReadRecords(p) \/ ReadEdits(p) \/ WriteProjection(p)
             \/ (Commit(p) \/ Replay(p) \/ Crash(p)) /\ ~Current(p)
      PROVE  CacheInv'
  <2>1. UNCHANGED <<log, open, gen, rows, drift>>
    BY <1>3 DEF Poll, ReadRecords, ReadEdits, WriteProjection, Commit, Replay, Crash, database, history
  <2>2. \A q \in Proc \ {p} : Held(q)' = Held(q) /\ Reads(q)' = Reads(q)
    BY <1>3, <2>1, OthersStay, StayingKeeps
  <2>3. Held(p) = {} /\ Reads(p) = {}
    BY <1>3 DEF Held, Reads, Poll, ReadRecords, ReadEdits, WriteProjection
  <2>4. Held(p)' = {}
    <3>1. CASE Poll(p)
      <4>1. task[p].put = {} /\ task' = task
        BY <3>1 DEF Poll, ProcsInv, ProcInv
      <4> QED
        BY <4>1 DEF Held
    <3>2. CASE ~Poll(p) /\ Current(p)
      <4>1. pc'[p] \in {"edits", "write", "idle"}
        BY <1>3, <3>2 DEF ReadRecords, ReadEdits, WriteProjection, Goto, Finish, TInv, TypeOK
      <4> QED
        BY <4>1 DEF Held
    <3>3. CASE ~Current(p)
      BY <1>3, <3>3, WentOnCurrent DEF Held
    <3> QED
      BY <3>1, <3>2, <3>3
  <2> QED
    BY <2>1, <2>2, <2>3, <2>4, QuietStep
<1> QED
  BY <1>1, <1>2, <1>3, AppendCache, CommitCache, ReplayCache, CrashCache, NewCache DEF Next

LEMMA InitCacheInv == Init => CacheInv
<1> SUFFICES ASSUME Init PROVE CacheInv
  OBVIOUS
<1>1. Pending = {} /\ rows = {} /\ ~open
  BY IdleType DEF Init, Pending, Held, Current
<1> QED
  BY <1>1 DEF CacheInv, RowsAreFirst, OneRow, PendingIsFirst, Covered

-----------------------------------------------------------------------------
(* Claims. *)

IsNewest(R, s, r) ==
  r \in R /\ r.event.subject = s /\ \A q \in R : q.event.subject = s => ~Newer(q, r)

\* The one newest row about s is of e.
LEMMA ClaimOf ==
  ASSUME NEW R, NEW s, NEW e,
         \E r : IsNewest(R, s, r), \A r : IsNewest(R, s, r) => r.event = e
  PROVE  Claim(R, s) = e.said.content
<1> DEFINE about == {r \in R : r.event.subject = s}
           newest == CHOOSE r \in about : \A q \in about : ~Newer(q, r)
<1>1. \E r \in about : \A q \in about : ~Newer(q, r)
  BY DEF IsNewest
<1>2. newest \in about /\ \A q \in about : ~Newer(q, newest)
  BY <1>1
<1>3. newest.event = e
  BY <1>2 DEF IsNewest
<1> QED
  BY <1>1, <1>3 DEF Claim

LEMMA NoClaim ==
  ASSUME NEW R, NEW s, \A r \in R : r.event.subject # s
  PROVE  Claim(R, s) = None
BY DEF Claim

\* The rows R have the first events about s, with their stamps.
Holds(R, s) ==
  /\ \A r \in R : r.event.subject = s => r.event \in FirstOf(log) /\ r.at = log[r.event]
  /\ \A e \in FirstOf(log) : e.subject = s => \E r \in R : r.event = e

\* e was the last to be new about s.
Tops(s, e) ==
  /\ e \in FirstOf(log) /\ e.subject = s
  /\ \A d \in FirstOf(log) : d.subject = s => log[d] <= log[e]

LEMMA ClaimIs ==
  ASSUME TInv, LogInv, NEW R, NEW s, s.kind # "account", Holds(R, s), NEW e, Tops(s, e)
  PROVE  Claim(R, s) = e.said.content
<1>1. \A d \in FirstOf(log) : d \in Event /\ log[d] # None /\ log[d] \in Nat
  BY LogType DEF FirstOf
<1>2. PICK t \in R : t.event = e
  BY DEF Holds, Tops
<1>3. \A q \in R : q.event.subject = s => ~Newer(q, t)
  <2> SUFFICES ASSUME NEW q \in R, q.event.subject = s PROVE ~Newer(q, t)
    OBVIOUS
  <2>1. q.event \in FirstOf(log) /\ q.at = log[q.event] /\ t.at = log[e] /\ log[q.event] <= log[e] /\ e \in FirstOf(log)
    BY <1>2 DEF Holds, Tops
  <2> QED
    BY <1>1, <2>1 DEF Newer
<1>4. ASSUME NEW r, IsNewest(R, s, r) PROVE r.event = e
  <2>1. t.event.subject = s /\ r.event.subject = s /\ ~Newer(t, r)
    BY <1>2, <1>4 DEF Tops, IsNewest
  <2>2. /\ r.event \in FirstOf(log) /\ r.at = log[r.event] /\ t.at = log[e]
        /\ log[r.event] <= log[e] /\ e \in FirstOf(log)
    BY <1>2, <1>4 DEF Holds, Tops, IsNewest
  <2>3. ~(t.at > r.at)
    BY <2>1 DEF Newer
  <2>4. log[r.event] = log[e]
    BY <1>1, <2>2, <2>3
  <2> QED
    BY <1>1, <2>2, <2>4 DEF LogInv
<1>5. t.event.subject = s
  BY <1>2 DEF Tops
<1>6. IsNewest(R, s, t)
  BY <1>3, <1>5 DEF IsNewest
<1> QED
  BY <1>4, <1>6, ClaimOf

\* Some event about s was the last to be new, if any was.
LEMMA SomeTops ==
  ASSUME TInv, NEW s, NEW e \in FirstOf(log), e.subject = s
  PROVE  \E t : Tops(s, t)
<1> DEFINE D == {d \in FirstOf(log) : d.subject = s}
           T == {MaxStamp - log[d] : d \in D}
<1>1. \A d \in D : log[d] \in Stamp /\ log[d] \in Nat /\ MaxStamp - log[d] \in Nat
  BY FeedsAssumption DEF FirstOf, Log, TInv, TypeOK, Stamp
<1>2. T \subseteq Nat /\ T # {}
  BY <1>1
<1>3. PICK m \in T : \A y \in T : ~ (<<y, m>> \in OpToRel(<, Nat))
  <2> HIDE DEF T
  <2> QED BY <1>2, NatLessThanWellFounded, WFMin
<1>4. \A y \in T : ~(y < m)
  BY <1>2, <1>3 DEF OpToRel
<1>5. PICK t \in D : m = MaxStamp - log[t]
  OBVIOUS
<1>6. \A d \in D : log[d] <= log[t]
  <2> SUFFICES ASSUME NEW d \in D PROVE log[d] <= log[t]
    OBVIOUS
  <2>1. ~(MaxStamp - log[d] < MaxStamp - log[t])
    BY <1>4, <1>5
  <2> QED
    BY <1>1, <2>1, FeedsAssumption
<1> QED
  BY <1>5, <1>6 DEF Tops

LEMMA SameClaim ==
  ASSUME TInv, LogInv, NEW R, NEW Q, NEW s, s.kind # "account", Holds(R, s), Holds(Q, s)
  PROVE  Claim(R, s) = Claim(Q, s)
<1>1. CASE \E e \in FirstOf(log) : e.subject = s
  <2>1. PICK t : Tops(s, t)
    BY <1>1, SomeTops
  <2>2. Claim(R, s) = t.said.content /\ Claim(Q, s) = t.said.content
    BY <2>1, ClaimIs
  <2> QED
    BY <2>2
<1>2. CASE ~ \E e \in FirstOf(log) : e.subject = s
  <2>1. (\A r \in R : r.event.subject # s) /\ \A r \in Q : r.event.subject # s
    BY <1>2 DEF Holds
  <2> QED
    BY <2>1, NoClaim
<1> QED
  BY <1>1, <1>2

\* First events of one row are one event.
LEMMA OneFirst ==
  ASSUME TInv, LogInv, NEW e \in FirstOf(log), NEW d \in FirstOf(log), SameKey(e, d)
  PROVE  e = d
<1>1. e \in Event /\ d \in Event /\ log[e] # None /\ log[d] # None /\ log[e] <= log[d] /\ log[d] <= log[e]
  BY SameKeyIs DEF FirstOf
<1>2. log[e] = log[d]
  BY <1>1, LogType
<1> QED
  BY <1>1, <1>2 DEF LogInv

\* At rest nothing is about to be in the cache, and it has everything.
LEMMA AtRest ==
  ASSUME TInv, LogInv, CacheInv, Ready, NEW s \in Subject \ drift
  PROVE  Holds(rows, s)
<1>1. \A p \in Proc : Held(p) = {} /\ Reads(p) = {}
  BY DEF Ready, Held, Reads
<1>2. Pending = {} /\ Reading = {} /\ open
  BY <1>1 DEF Pending, Reading, Ready
<1>3. ASSUME NEW e \in FirstOf(log), e.subject = s PROVE \E r \in rows : r.event = e
  <2>1. e \in Event /\ log[e] # None
    BY DEF FirstOf
  <2>2. In(rows, e)
    BY <1>2, <1>3, <2>1 DEF CacheInv, Covered
  <2>3. PICK r \in rows : SameKey(r.event, e)
    BY <2>2 DEF In
  <2>4. r.event.subject \notin drift
    BY <1>3, <2>3, SameKeyIs
  <2>5. r.event \in FirstOf(log)
    BY <2>4 DEF CacheInv, RowsAreFirst
  <2> QED
    BY <2>3, <2>5, OneFirst
<1> QED
  BY <1>3 DEF Holds, CacheInv, RowsAreFirst

LEMMA ReplayHolds ==
  ASSUME TInv, LogInv, NEW s
  PROVE  Holds(Replayed({}, log, 1), s)
<1> DEFINE R == Replayed({}, log, 1)
<1>1. log \in Log
  BY DEF TInv, TypeOK
<1>2. ASSUME NEW r \in R PROVE r.event \in FirstOf(log) /\ r.at = log[r.event]
  <2>1. PICK e \in FirstOf(log) : r = [event |-> e, at |-> log[e], tx |-> 1]
    BY <1>1, <1>2, ReplayedIs
  <2> QED
    BY <2>1
<1>3. ASSUME NEW e \in FirstOf(log) PROVE \E r \in R : r.event = e
  <2>1. In(R, e)
    BY <1>1, ReplayedIs DEF FirstOf
  <2>2. PICK r \in R : SameKey(r.event, e)
    BY <2>1 DEF In
  <2> QED
    BY <1>2, <2>2, OneFirst
<1> HIDE DEF R
<1> QED
  BY <1>2, <1>3 DEF Holds, R

(***************************************************************************)
(* What a page says of a transaction does not change because the store was *)
(* locked and unlocked (replay): whatever overlapped, was killed or was    *)
(* said again, the rows of a subject outside drift are exactly the first   *)
(* of its events in the log, and that is what a replay makes of them.      *)
(***************************************************************************)
THEOREM ClaimsAreReplayed == Spec => []ReplayReproducesClaims
<1>1. Init => BaseInv /\ CacheInv
  BY InitBaseInv, InitCacheInv
<1>2. BaseInv /\ CacheInv /\ [Next]_vars => (BaseInv /\ CacheInv)'
  BY StepBaseInv, StepCacheInv
<1>3. BaseInv /\ CacheInv => ReplayReproducesClaims
  <2> SUFFICES ASSUME BaseInv, CacheInv, Ready, NEW s \in Subject \ drift, s.kind # "account"
               PROVE  Claim(rows, s) = Claim(Replayed({}, log, 1), s)
    BY DEF ReplayReproducesClaims
  <2> QED
    BY AtRest, ReplayHolds, SameClaim DEF BaseInv
<1> QED
  BY <1>1, <1>2, <1>3, PTL DEF Spec

-----------------------------------------------------------------------------
(* The last claim of a subject that was not repeated is of the event that  *)
(* was the last to be new.                                                 *)

LastInv ==
  \A s \in Subject : s \notin repeated /\ claim[s] # None =>
    \E e \in Event : Tops(s, e) /\ e.said.content = claim[s]

LEMMA AppendLast ==
  ASSUME BaseInv, LastInv, NEW p \in Proc, Append(p)
  PROVE  LastInv'
<1> USE DEF BaseInv
<1>1. clock < MaxStamp /\ clock' = clock + 1
  BY Appended
<1>2. PICK e \in Event : Appends(p, e)
  BY Appended
<1>3. log' = IF log[e] = None THEN [log EXCEPT ![e] = clock'] ELSE log
  BY <1>2 DEF Appends
<1>4. /\ \A d \in Event : log[d] # None => log'[d] = log[d]
      /\ clock \in Nat /\ clock' \in Nat
  BY <1>1, <1>3, SealedIs
<1>5. /\ FirstOf(log) \subseteq FirstOf(log')
      /\ ~Known(e) => e \in FirstOf(log') /\ log'[e] = clock'
      /\ \A f \in FirstOf(log') : f \in FirstOf(log) \/ (f = e /\ ~Known(e))
  BY <1>1, <1>3, SealedFirst
<1>6. \A f \in FirstOf(log) : f \in Event /\ log'[f] = log[f] /\ log[f] \in Nat /\ log[f] <= clock
  BY <1>4, LogType DEF FirstOf, LogInv
<1>7. e.subject \in Subject /\ claim' = [claim EXCEPT ![e.subject] = e.said.content]
      /\ claim \in [Subject -> Content \cup {None}]
  BY <1>2, EventParts DEF Appends, TInv, TypeOK
<1> SUFFICES ASSUME NEW s \in Subject, s \notin repeated', claim'[s] # None
             PROVE  \E d \in Event : Tops(s, d)' /\ d.said.content = claim'[s]
  BY DEF LastInv
<1>8. CASE s # e.subject
  <2>1. claim'[s] = claim[s] /\ s \notin repeated
    BY <1>2, <1>7, <1>8 DEF Appends
  <2>2. PICK d \in Event : Tops(s, d) /\ d.said.content = claim[s]
    BY <2>1 DEF LastInv
  <2>3. Tops(s, d)'
    BY <1>5, <1>6, <1>8, <2>2 DEF Tops
  <2> QED
    BY <2>1, <2>2, <2>3
<1>9. CASE s = e.subject /\ ~Known(e)
  <2>1. \A f \in FirstOf(log') : f = e \/ (f \in FirstOf(log) /\ log'[f] <= clock /\ log'[f] \in Nat)
    BY <1>5, <1>6
  <2>2. Tops(s, e)'
    BY <1>1, <1>4, <1>5, <1>9, <2>1 DEF Tops
  <2> QED
    BY <1>7, <1>9, <2>2
<1>10. CASE s = e.subject /\ Known(e)
  <2>1. claim[s] = e.said.content /\ s \notin repeated /\ claim'[s] = claim[s]
    BY <1>2, <1>7, <1>10 DEF Appends
  <2>2. PICK d \in Event : Tops(s, d) /\ d.said.content = claim[s]
    BY <2>1 DEF LastInv
  <2>3. Tops(s, d)'
    BY <1>5, <1>6, <1>10, <2>2 DEF Tops
  <2> QED
    BY <2>1, <2>2, <2>3
<1> QED
  BY <1>8, <1>9, <1>10

LEMMA StepLastInv ==
  ASSUME BaseInv, LastInv, [Next]_vars
  PROVE  LastInv'
<1>1. ASSUME UNCHANGED <<log, claim, repeated>> PROVE LastInv'
  BY <1>1 DEF LastInv, Tops
<1>2. CASE UNCHANGED vars
  BY <1>1, <1>2 DEF vars
<1>3. CASE Lock
  BY <1>1, <1>3 DEF Lock
<1>4. ASSUME NEW p \in Proc,
             \/ Sync(p) \/ CorrectFeed(p) \/ Rebuild(p) \/ Unlock(p)
             \/ Poll(p) \/ Commit(p) \/ ReadRecords(p) \/ ReadEdits(p) \/ WriteProjection(p) \/ Replay(p) \/ Crash(p)
      PROVE  LastInv'
  BY <1>1, <1>4 DEF Sync, CorrectFeed, Rebuild, Unlock, Poll, Commit, ReadRecords, ReadEdits,
     WriteProjection, Replay, Crash, history
<1> QED
  BY <1>2, <1>3, <1>4, AppendLast DEF Next

\* Balances too, if no older one has a later rowid.
LEMMA BalanceIs ==
  ASSUME BaseInv, CacheInv, NEW s \in Subject \ drift, s.kind = "account", Holds(rows, s), ~Overtaken(s),
         NEW e, Tops(s, e)
  PROVE  Claim(rows, s) = e.said.content
<1> USE DEF BaseInv
<1>1. \A d \in FirstOf(log) : d \in Event /\ log[d] # None /\ log[d] \in Nat
  BY LogType DEF FirstOf
<1>2. PICK t \in rows : t.event = e
  BY DEF Holds, Tops
<1>3. /\ t.event.subject = s /\ t.at = log[e] /\ t.at \in Nat /\ t.tx \in Nat /\ e \in FirstOf(log)
      /\ t.event \in FirstOf(log)
  BY <1>2, RowType DEF Holds, Tops
\* Of two rows about s the one with the lesser stamp has no later transaction.
<1>4. ASSUME NEW q \in rows, q.event.subject = s, q # t
      PROVE  q.at < t.at /\ ~(t.tx < q.tx) /\ q.at \in Nat /\ q.tx \in Nat
  <2>1. q.event \in FirstOf(log) /\ q.at = log[q.event] /\ log[q.event] <= log[e] /\ q.tx \in Nat
    BY <1>4, RowType DEF Holds, Tops
  <2>2. q.event # e
    <3>1. ASSUME q.event = e PROVE FALSE
      <4>1. SameKey(q.event, t.event) /\ q.event.subject \notin drift
        BY <1>2, <1>4, <3>1, SameKeyIs
      <4> QED
        BY <1>4, <4>1 DEF CacheInv, OneRow
    <3> QED
      BY <3>1
  <2>3. log[q.event] # log[e]
    BY <1>1, <1>3, <2>1, <2>2 DEF LogInv
  <2>4. q.at < t.at /\ q.at \in Nat
    BY <1>1, <1>3, <2>1, <2>3
  <2>5. ~(t.tx < q.tx)
    BY <1>3, <1>4, <2>4 DEF Overtaken
  <2> QED
    BY <2>1, <2>4, <2>5
<1>5. ASSUME NEW q \in rows, q.event.subject = s PROVE ~Newer(q, t)
  BY <1>3, <1>4, <1>5 DEF Newer
<1>6. ASSUME NEW r, IsNewest(rows, s, r) PROVE r.event = e
  <2>1. ASSUME r # t PROVE FALSE
    <3>1. ~Newer(t, r) /\ r.event.subject = s
      BY <1>3, <1>6 DEF IsNewest
    <3>2. r.at < t.at /\ ~(t.tx < r.tx) /\ r.at \in Nat /\ r.tx \in Nat
      BY <1>4, <1>6, <2>1 DEF IsNewest
    <3> QED
      BY <1>3, <3>1, <3>2 DEF Newer
  <2> QED
    BY <1>2, <2>1
<1>7. IsNewest(rows, s, t)
  BY <1>3, <1>5 DEF IsNewest
<1> QED
  BY <1>6, <1>7, ClaimOf

(***************************************************************************)
(* The newest thing said about a subject is its claim (feed.project_one),  *)
(* unless it had been said before something else, an event of it drifted,  *)
(* or of two balances the older has the later rowid.                       *)
(***************************************************************************)
THEOREM NewestIsClaimed == Spec => []NewestClaimUnlessRepeated
<1> DEFINE Inv == BaseInv /\ CacheInv /\ LastInv
<1>1. Init => Inv
  <2>1. Init => LastInv
    BY DEF Init, LastInv, Nothing
  <2> QED
    BY <2>1, InitBaseInv, InitCacheInv
<1>2. Inv /\ [Next]_vars => Inv'
  BY StepBaseInv, StepCacheInv, StepLastInv
<1>3. Inv => NewestClaimUnlessRepeated
  <2> SUFFICES ASSUME Inv, Ready, NEW s \in Subject \ (drift \cup repeated), claim[s] # None, ~Overtaken(s)
               PROVE  Claim(rows, s) = claim[s]
    BY DEF NewestClaimUnlessRepeated
  <2>1. PICK e \in Event : Tops(s, e) /\ e.said.content = claim[s]
    BY DEF LastInv
  <2>2. Holds(rows, s)
    BY AtRest DEF BaseInv
  <2>3. CASE s.kind # "account"
    BY <2>1, <2>2, <2>3, ClaimIs DEF BaseInv
  <2>4. CASE s.kind = "account"
    BY <2>1, <2>2, <2>4, BalanceIs
  <2> QED
    BY <2>3, <2>4
<1> QED
  BY <1>1, <1>2, <1>3, PTL DEF Spec

-----------------------------------------------------------------------------
(* What is shown is made of the rows, unless somebody is about to make it. *)

Fresh == ~stale /\ (\A p \in Proc : ~Projecting(p)) => shown = Project(rows)

LEMMA ProjectOfNothing == Project({}) = Nothing
<1>1. \A s : Claim({}, s) = None
  BY NoClaim
<1> QED
  BY <1>1 DEF Project, Nothing

LEMMA StepFresh ==
  ASSUME BaseInv, Fresh, [Next]_vars
  PROVE  Fresh'
<1> USE DEF BaseInv
<1>1. CASE UNCHANGED vars
  BY <1>1 DEF vars, Fresh, Projecting, Current
<1>2. CASE Lock \/ \E p \in Proc : Unlock(p)
  <2>1. rows' = {} /\ shown' = Nothing
    BY <1>2 DEF Lock, Unlock, NewDatabase
  <2> QED
    BY <2>1, ProjectOfNothing DEF Fresh
<1>3. ASSUME NEW p \in Proc, Projecting(p)' PROVE Fresh'
  BY <1>3 DEF Fresh
<1>4. ASSUME NEW p \in Proc, UNCHANGED <<gen, rows, shown, stale>>, ~Projecting(p),
             \A q \in Proc \ {p} : pc'[q] = pc[q] /\ task'[q] = task[q]
      PROVE  Fresh'
  <2>1. \A q \in Proc \ {p} : Projecting(q)' <=> Projecting(q)
    BY <1>4, StayingKeeps
  <2> QED
    BY <1>4, <2>1 DEF Fresh
<1>5. ASSUME NEW p \in Proc, Sync(p) \/ CorrectFeed(p) PROVE Fresh'
  <2>1. UNCHANGED <<gen, rows, shown, stale>> /\ pc[p] = "idle"
    BY <1>5, Begun DEF Sync, CorrectFeed, database, history
  <2>2. ~Projecting(p)
    BY <2>1 DEF Projecting
  <2> QED
    BY <1>4, <1>5, <2>1, <2>2, OthersStay
<1>6. ASSUME NEW p \in Proc, Rebuild(p) PROVE Fresh'
  <2>1. pc'[p] = "read" /\ task'[p].conn /\ task'[p].gen = gen'
    BY <1>6, Begun
  <2> QED
    BY <1>3, <2>1 DEF Projecting, Current
<1>7. ASSUME NEW p \in Proc, Poll(p) \/ Append(p) PROVE Fresh'
  <2>1. UNCHANGED <<gen, rows, shown, stale>> /\ pc[p] \in {"poll", "append"}
    BY <1>7 DEF Poll, Append, database, history
  <2>2. ~Projecting(p)
    BY <2>1 DEF Projecting
  <2> QED
    BY <1>4, <1>7, <2>1, <2>2, OthersStay
<1>8. ASSUME NEW p \in Proc, Commit(p) \/ Replay(p) PROVE Fresh'
  <2>1. CASE Current(p)
    <3>1. pc'[p] = "read" /\ pc[p] # "idle"
      BY <1>8, <2>1 DEF Commit, Replay, Goto, Current, TInv, TypeOK
    <3>2. Current(p)'
      BY <1>8, <2>1, <3>1, WentOnCurrent
    <3> QED
      BY <1>3, <3>1, <3>2 DEF Projecting
  <2>2. CASE ~Current(p)
    <3>1. UNCHANGED <<gen, rows, shown, stale>>
      BY <1>8, <2>2 DEF Commit, Replay, history
    <3> QED
      BY <1>4, <1>8, <2>2, <3>1, OthersStay DEF Projecting
  <2> QED
    BY <2>1, <2>2
<1>9. ASSUME NEW p \in Proc, ReadRecords(p) \/ ReadEdits(p) PROVE Fresh'
  <2>1. CASE Current(p)
    <3>1. pc'[p] \in {"edits", "write"}
      BY <1>9 DEF ReadRecords, ReadEdits, Goto, TInv, TypeOK
    <3>2. Current(p)'
      BY <1>9, <2>1, <3>1, WentOnCurrent
    <3> QED
      BY <1>3, <3>1, <3>2 DEF Projecting
  <2>2. CASE ~Current(p)
    BY <1>4, <1>9, <2>2, OthersStay DEF Projecting, ReadRecords, ReadEdits, database, history
  <2> QED
    BY <2>1, <2>2
<1>10. ASSUME NEW p \in Proc, WriteProjection(p) PROVE Fresh'
  <2>1. CASE Current(p)
    <3> SUFFICES ASSUME ~stale' PROVE shown' = Project(rows')
      BY DEF Fresh
    <3>1. task[p].seen = RowsOf("txn") \cup RowsOf("edit")
      BY <1>10, <2>1 DEF WriteProjection
    <3>2. task[p].seen \cup RowsOf("account") = rows
      BY <3>1, RowType, SubjectKinds DEF RowsOf
    <3> QED
      BY <1>10, <2>1, <3>2 DEF WriteProjection
  <2>2. CASE ~Current(p)
    BY <1>4, <1>10, <2>2, OthersStay DEF Projecting, WriteProjection
  <2> QED
    BY <2>1, <2>2
<1>11. ASSUME NEW p \in Proc, Crash(p) PROVE Fresh'
  <2>1. CASE Projecting(p)
    <3>1. stale'
      BY <1>11, <2>1 DEF Crash, Projecting
    <3> QED
      BY <3>1 DEF Fresh
  <2>2. CASE ~Projecting(p)
    <3>1. UNCHANGED <<gen, rows, shown>> /\ (stale' <=> stale)
      BY <1>11, <2>2 DEF Crash, Projecting, database
    <3>2. \A q \in Proc \ {p} : Projecting(q)' <=> Projecting(q)
      BY <1>11, <3>1, OthersStay, StayingKeeps
    <3> QED
      BY <2>2, <3>1, <3>2 DEF Fresh
  <2> QED
    BY <2>1, <2>2
<1> QED
  BY <1>1, <1>2, <1>5, <1>6, <1>7, <1>8, <1>9, <1>10, <1>11 DEF Next

(***************************************************************************)
(* The pages show the rows (feed): when every command has ended, what is   *)
(* shown is the projection of all the rows there are, whoever committed    *)
(* while another projected, unless the last to project had read them       *)
(* before that, or one was killed before it did.                           *)
(***************************************************************************)
THEOREM PagesShowTheRows == Spec => []ProjectionIsFreshUnlessStale
<1>1. Init => BaseInv /\ Fresh
  <2>1. Init => Fresh
    BY ProjectOfNothing DEF Init, Fresh
  <2> QED
    BY <2>1, InitBaseInv
<1>2. BaseInv /\ Fresh /\ [Next]_vars => (BaseInv /\ Fresh)'
  BY StepBaseInv, StepFresh
<1>3. Fresh => ProjectionIsFreshUnlessStale
  BY DEF Fresh, ProjectionIsFreshUnlessStale, Ready, Projecting
<1> QED
  BY <1>1, <1>2, <1>3, PTL DEF Spec
=============================================================================
