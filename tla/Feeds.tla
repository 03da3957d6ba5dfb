-------------------------------- MODULE Feeds --------------------------------
(***************************************************************************)
(* What the bank said: polls sealed to the log, the cache that replays     *)
(* them, corrections to them, and the rows a page shows.                   *)
(*                                                                         *)
(* A poll is recorded whether the store is open or not.  Each thing it saw *)
(* is sealed, and inserted in one transaction that is committed at the     *)
(* end, so a killed poll leaves its events in the log and nothing in the   *)
(* cache.  The projection is made by another transaction, from what was    *)
(* read before it.                                                         *)
(*                                                                         *)
(* Actors are processes: the nightly sync, a sync at the terminal, an      *)
(* unlock.  As in Store, `gen' numbers the databases.                      *)
(*                                                                         *)
(* Poll events all differ, by their finishing time, and are not kept here: *)
(* what they are read for is the business of the planner and of imports.   *)
(***************************************************************************)
EXTENDS Naturals

CONSTANTS
  Txn,        \* transactions: source, native account and external id
  Account,    \* accounts, of which a balance is observed
  Content,    \* what content_sha covers; for an edit, the value typed
  Raw,        \* what a payload holds beside that
  Proc,       \* the processes
  MaxStamp,   \* how many stamps ledger.now may hand out; bounds the appends
  MaxGen,     \* how many databases there may be
  Faults,     \* what may happen beside the commands, a subset of AllFaults
  None

AllFaults == {"lock", "crash", "edit", "rebuild"}

ASSUME FeedsAssumption ==
  /\ None \notin Content
  /\ None \notin Proc
  /\ MaxStamp \in Nat
  /\ None \notin 1..MaxStamp
  /\ MaxGen \in Nat
  /\ Faults \subseteq AllFaults

-----------------------------------------------------------------------------
(* The events: observations of a transaction, observations of a balance,   *)
(* and corrections of the one field of a transaction the model has.        *)

Observed == [kind: {"txn"}, of: Txn] \cup [kind: {"account"}, of: Account]
Corrected == [kind: {"edit"}, of: Txn]
Subject == Observed \cup Corrected
TxnOf(s) == [kind |-> "txn", of |-> s.of]

Said == [content: Content, raw: Raw]
Typed == [content: Content, raw: {None}]
Event == [subject: Observed, said: Said] \cup [subject: Corrected, said: Typed]

Stamp == 1..MaxStamp
Log == [Event -> Stamp \cup {None}]
NoLog == [e \in Event |-> None]

\* A row, with the transaction that inserted it: rowids increase from one
\* transaction to the next, and with the stamps inside one.
Row == [event: Event, at: Stamp, tx: Nat]

\* Two events are one row: ux_feed_records_content, ux_feed_accounts_content,
\* and for corrections the digest itself.
SameKey(e, d) == e.subject = d.subject /\ e.said.content = d.said.content

In(R, e) == \E r \in R : SameKey(r.event, e)

\* Mutant: the first observation, as for receipts' bytes.
Newer_Oldest(q, r) == q.at < r.at

\* Transactions and corrections are ordered by observed_at, balances by rowid.
Newer(q, r) ==
  IF q.event.subject.kind = "account"
    THEN q.tx > r.tx \/ (q.tx = r.tx /\ q.at > r.at)
    ELSE q.at > r.at

\* The newest claim about s among the rows R.
Claim(R, s) ==
  LET about == {r \in R : r.event.subject = s}
  IN  IF \E r \in about : \A q \in about : ~Newer(q, r)
        THEN (CHOOSE r \in about : \A q \in about : ~Newer(q, r)).event.said.content
        ELSE None

\* feed.project_all: corrections are read for the transactions there are.
Project(R) ==
  [s \in Subject |->
    IF s.kind = "edit" /\ Claim(R, TxnOf(s)) = None THEN None ELSE Claim(R, s)]

-----------------------------------------------------------------------------
VARIABLES
  log,        \* log[e]: the stamp event e was first appended with, or None
  clock,      \* how many stamps were handed out
  open,       \* the identity is in place and there is a database
  gen,        \* which database that is
  rows,       \* its feed_records, feed_accounts and feed_corrections
  commits,    \* how many transactions inserted rows
  holder,     \* the process in a write transaction, or None
  shown,      \* feed_transactions and accounts, by subject
  pc, task,   \* where each process is, and its locals
  drift,      \* history: subjects the cache may be wrong about until the
              \* next unlock
  repeated,   \* history: subjects whose last claim had been made before a
              \* different one
  claim,      \* history: the last claim appended about each subject
  stale       \* history: the last projection was of rows that had changed since, or
              \* one was not made because its process was killed

database == <<open, gen, rows, commits, shown>>
history == <<drift, repeated, claim, stale>>
vars == <<log, clock, open, gen, rows, commits, holder, shown, pc, task,
          drift, repeated, claim, stale>>

Idle == [kind |-> "none", conn |-> FALSE, gen |-> 0, todo |-> {}, put |-> {},
         snap |-> NoLog, seen |-> {}]
Task == [kind: {"sync", "edit", "rebuild", "unlock"}, conn: BOOLEAN, gen: 0..MaxGen,
         todo: SUBSET Event, put: SUBSET [event: Event, at: Stamp], snap: Log,
         seen: SUBSET Row]

TypeOK ==
  /\ log \in Log
  /\ clock \in 0..MaxStamp
  /\ open \in BOOLEAN
  /\ gen \in 0..MaxGen
  /\ rows \subseteq Row
  /\ commits \in Nat
  /\ holder \in Proc \cup {None}
  /\ shown \in [Subject -> Content \cup {None}]
  /\ pc \in [Proc -> {"idle", "poll", "append", "commit", "replay", "read", "edits", "write"}]
  /\ task \in [Proc -> Task \cup {Idle}]
  /\ drift \subseteq Subject
  /\ repeated \subseteq Subject
  /\ claim \in [Subject -> Content \cup {None}]
  /\ stale \in BOOLEAN

Nothing == [s \in Subject |-> None]

Init ==
  /\ log = NoLog
  /\ clock = 0
  /\ open = FALSE
  /\ gen = 0
  /\ rows = {}
  /\ commits = 0
  /\ holder = None
  /\ shown = Nothing
  /\ pc = [p \in Proc |-> "idle"]
  /\ task = [p \in Proc |-> Idle]
  /\ drift = {}
  /\ repeated = {}
  /\ claim = Nothing
  /\ stale = FALSE

-----------------------------------------------------------------------------
(* p holds a connection, and to the present database. *)
Current(p) == task[p].conn /\ task[p].gen = gen

\* A write transaction of p can begin, or go on.
MayWrite(p) == Current(p) => holder \in {None, p}

Start(p, t, next) ==
  /\ pc[p] = "idle"
  /\ pc' = [pc EXCEPT ![p] = next]
  /\ task' = [task EXCEPT ![p] = t]

Goto(p, next) == pc' = [pc EXCEPT ![p] = next]

Finish(p) ==
  /\ pc' = [pc EXCEPT ![p] = "idle"]
  /\ task' = [task EXCEPT ![p] = Idle]

\* cli.cmd_feeds_sync up to the bank's answer, with a connection if the store
\* is open.  The bank says what it says, about what it chooses to mention.
Sync(p) ==
  /\ \E S \in SUBSET Observed : \E said \in [S -> Said] :
       Start(p, [Idle EXCEPT !.kind = "sync", !.conn = open, !.gen = gen,
                             !.todo = {[subject |-> s, said |-> said[s]] : s \in S}],
             "poll")
  /\ UNCHANGED <<log, clock, database, holder, history>>

\* service.correct_feed, of one field.
CorrectFeed(p) ==
  /\ "edit" \in Faults
  /\ open
  /\ \E s \in Corrected, v \in Typed :
       Start(p, [Idle EXCEPT !.kind = "edit", !.conn = TRUE, !.gen = gen,
                             !.todo = {[subject |-> s, said |-> v]}],
             "append")
  /\ UNCHANGED <<log, clock, database, holder, history>>

\* service.record_poll: the poll event is sealed, and its row begins the
\* transaction.
Poll(p) ==
  /\ pc[p] = "poll"
  /\ MayWrite(p)
  /\ holder' = IF Current(p) THEN p ELSE holder
  /\ Goto(p, IF task[p].todo = {} THEN "commit" ELSE "append")
  /\ UNCHANGED <<log, clock, database, task, history>>

-----------------------------------------------------------------------------
(* The next event of p: accounts come before transactions. *)
NextUp(p) ==
  {e \in task[p].todo : \/ e.subject.kind = "account"
                        \/ \A d \in task[p].todo : d.subject.kind # "account"}

\* One event is stamped and sealed.  Its row waits for the commit.
Append(p) ==
  /\ pc[p] = "append"
  /\ clock < MaxStamp
  /\ clock' = clock + 1
  /\ \E e \in NextUp(p) :
       LET s == e.subject
           known == \E d \in Event : SameKey(d, e) /\ log[d] # None
       IN  /\ log' = IF log[e] = None THEN [log EXCEPT ![e] = clock'] ELSE log
           /\ task' = [task EXCEPT ![p].todo = @ \ {e},
                                   ![p].put = @ \cup {[event |-> e, at |-> clock']}]
           /\ Goto(p, IF task[p].todo = {e} THEN "commit" ELSE "append")
           /\ drift' = IF \/ ~known /\ ~Current(p)
                          \/ known /\ ~In(rows, e)
                         THEN drift \cup {s} ELSE drift
           /\ claim' = [claim EXCEPT ![s] = e.said.content]
           /\ repeated' = IF ~known THEN repeated \ {s}
                          ELSE IF claim[s] # e.said.content THEN repeated \cup {s}
                          ELSE repeated
  /\ UNCHANGED <<database, holder, stale>>

\* Mutant: INSERT OR REPLACE.
Inserted_Replace(R, put, tx) ==
  LET new == {[event |-> x.event, at |-> x.at, tx |-> tx] : x \in put}
  IN  {r \in R : ~In(new, r.event)} \cup new

\* store._insert_unique, of rows that do not collide with each other.
Inserted(R, put, tx) ==
  R \cup {[event |-> x.event, at |-> x.at, tx |-> tx] :
            x \in {y \in put : ~In(R, y.event)}}

\* Mutant: the command does not project what it committed.
Commit_Only(p) ==
  /\ pc[p] = "commit"
  /\ MayWrite(p)
  /\ IF Current(p)
       THEN /\ rows' = Inserted(rows, task[p].put, commits + 1)
            /\ commits' = IF task[p].put = {} THEN commits ELSE commits + 1
            /\ holder' = None
       ELSE UNCHANGED <<rows, commits, holder>>
  /\ Finish(p)
  /\ UNCHANGED <<log, clock, open, gen, shown, history>>

\* The transaction is committed.  Without a connection that is all; with one
\* the projection is made again.
Commit(p) ==
  /\ pc[p] = "commit"
  /\ MayWrite(p)
  /\ IF Current(p)
       THEN /\ rows' = Inserted(rows, task[p].put, commits + 1)
            /\ commits' = IF task[p].put = {} THEN commits ELSE commits + 1
            /\ holder' = None
       ELSE UNCHANGED <<rows, commits, holder>>
  /\ IF task[p].conn THEN Goto(p, "read") /\ UNCHANGED task ELSE Finish(p)
  /\ UNCHANGED <<log, clock, open, gen, shown, history>>

-----------------------------------------------------------------------------
(* service.reproject_feeds: the observations are read, then the            *)
(* corrections, each outside any transaction ...                           *)

RowsOf(kind) == {r \in rows : r.event.subject.kind = kind}

ReadRecords(p) ==
  /\ pc[p] = "read"
  /\ task' = [task EXCEPT ![p].seen = IF Current(p) THEN RowsOf("txn") ELSE {}]
  /\ Goto(p, "edits")
  /\ UNCHANGED <<log, clock, database, holder, history>>

ReadEdits(p) ==
  /\ pc[p] = "edits"
  /\ task' = [task EXCEPT ![p].seen = IF Current(p) THEN @ \cup RowsOf("edit") ELSE {}]
  /\ Goto(p, "write")
  /\ UNCHANGED <<log, clock, database, holder, history>>

\* ... and everything is replaced in one, where the balances are read.
WriteProjection(p) ==
  /\ pc[p] = "write"
  /\ Current(p) => holder = None
  /\ shown' = IF Current(p) THEN Project(task[p].seen \cup RowsOf("account")) ELSE shown
  /\ stale' = IF Current(p) THEN task[p].seen # RowsOf("txn") \cup RowsOf("edit") ELSE stale
  /\ Finish(p)
  /\ UNCHANGED <<log, clock, open, gen, rows, commits, holder, drift, repeated, claim>>

\* service.rebuild, which empties the tables first.
Rebuild(p) ==
  /\ "rebuild" \in Faults
  /\ open
  /\ holder = None
  /\ Start(p, [Idle EXCEPT !.kind = "rebuild", !.conn = TRUE, !.gen = gen], "read")
  /\ shown' = Nothing
  /\ UNCHANGED <<log, clock, open, gen, rows, commits, holder, history>>

-----------------------------------------------------------------------------
NewDatabase ==
  /\ gen < MaxGen
  /\ gen' = gen + 1
  /\ rows' = {}
  /\ commits' = 0
  /\ holder' = None
  /\ shown' = Nothing
  /\ stale' = FALSE

\* keys.lock.
Lock ==
  /\ "lock" \in Faults
  /\ open
  /\ open' = FALSE
  /\ NewDatabase
  /\ UNCHANGED <<log, clock, pc, task, drift, repeated, claim>>

\* cli.cmd_unlock: one at a time, a new database, and the log is read.
Unlock(p) ==
  /\ \A q \in Proc : task[q].kind # "unlock"
  /\ open' = TRUE
  /\ NewDatabase
  /\ Start(p, [Idle EXCEPT !.kind = "unlock", !.conn = TRUE, !.gen = gen', !.snap = log],
           "replay")
  /\ drift' = {}
  /\ UNCHANGED <<log, clock, repeated, claim>>

\* Of events that are one row the first appended becomes it.
FirstOf(snap) ==
  {e \in Event : /\ snap[e] # None
                 /\ \A d \in Event : SameKey(d, e) /\ snap[d] # None => snap[e] <= snap[d]}

\* Mutant: the replay starts after the newest row there is.
Replayed_Cursor(R, snap, tx) ==
  Inserted(R, {[event |-> e, at |-> snap[e]] :
                 e \in {d \in FirstOf(snap) : \A r \in R : r.at < snap[d]}}, tx)

\* replay.run, in the order of the stamps.
Replayed(R, snap, tx) ==
  Inserted(R, {[event |-> e, at |-> snap[e]] : e \in FirstOf(snap)}, tx)

\* What was read is inserted and committed; rebuild empties the projection.
Replay(p) ==
  /\ pc[p] = "replay"
  /\ Current(p) => holder = None
  /\ IF Current(p)
       THEN /\ rows' = Replayed(rows, task[p].snap, commits + 1)
            /\ commits' = commits + 1
            /\ shown' = Nothing
       ELSE UNCHANGED <<rows, commits, shown>>
  /\ task' = [task EXCEPT ![p].snap = NoLog]
  /\ Goto(p, "read")
  /\ UNCHANGED <<log, clock, open, gen, holder, history>>

\* p is killed, or another process kept the write lock past busy_timeout: its
\* transaction is rolled back, what it sealed stays sealed.
Crash(p) ==
  /\ "crash" \in Faults
  /\ pc[p] # "idle"
  /\ drift' = IF ~Current(p) THEN drift
              ELSE IF pc[p] = "replay" THEN Subject
              ELSE IF pc[p] \in {"append", "commit"}
                THEN drift \cup {x.event.subject : x \in task[p].put}
              ELSE drift
  /\ stale' = (stale \/ (Current(p) /\ pc[p] \in {"read", "edits", "write"}))
  /\ holder' = IF holder = p THEN None ELSE holder
  /\ Finish(p)
  /\ UNCHANGED <<log, clock, database, repeated, claim>>

Next ==
  \/ \E p \in Proc :
       \/ Sync(p) \/ CorrectFeed(p) \/ Poll(p) \/ Append(p) \/ Commit(p)
       \/ ReadRecords(p) \/ ReadEdits(p) \/ WriteProjection(p) \/ Rebuild(p)
       \/ Unlock(p) \/ Replay(p) \/ Crash(p)
  \/ Lock

Spec == Init /\ [][Next]_vars

-----------------------------------------------------------------------------
Ready == open /\ \A p \in Proc : pc[p] = "idle"

(***************************************************************************)
(* Replaying the log would give the answers the cache gives (replay): what *)
(* a page says of a transaction does not change because the store was      *)
(* locked and unlocked.  Drift excuses a subject of which an event was     *)
(* appended by a process without the present database, was rolled back, or *)
(* was sealed before and not inserted.  Balances are ordered by rowid, and *)
(* replayed in another order: see Overtaken.                               *)
(***************************************************************************)
ReplayReproducesClaims ==
  Ready => \A s \in Subject \ drift : s.kind # "account" =>
    Claim(rows, s) = Claim(Replayed({}, log, 1), s)

\* Balances of which an older one has a later rowid: a sync that commits while
\* an unlock is still reading the log gets the rowid before those it reads.
Overtaken(s) ==
  \E r, q \in rows : /\ r.event.subject = s /\ q.event.subject = s
                     /\ s.kind = "account" /\ r.tx < q.tx /\ r.at > q.at

(***************************************************************************)
(* The newest thing said about a subject is its claim (feed.project_one),  *)
(* unless it had been said before something else.                          *)
(***************************************************************************)
NewestClaimUnlessRepeated ==
  Ready => \A s \in Subject \ (drift \cup repeated) :
    claim[s] # None /\ ~Overtaken(s) => Claim(rows, s) = claim[s]

(***************************************************************************)
(* What a locked sync sealed is in the cache after the next unlock         *)
(* (record_poll): an unlock that still has its database leaves a row for   *)
(* every event it read.                                                    *)
(***************************************************************************)
UnlockPicksUpEverything ==
  [][\A p \in Proc : Replay(p) /\ Current(p) =>
       \A e \in Event : task[p].snap[e] # None => In(rows', e)]_vars

(***************************************************************************)
(* The projection is made again whenever what it is made from changes      *)
(* (feed): when every command has ended, the pages show the rows, unless   *)
(* the last one to project had read them before another one committed, or  *)
(* was killed before it did.                                               *)
(***************************************************************************)
ProjectionIsFreshUnlessStale ==
  Ready /\ ~stale => shown = Project(rows)
=============================================================================
