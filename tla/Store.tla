-------------------------------- MODULE Store --------------------------------
(***************************************************************************)
(* The receipt path: sealed blobs, the sealed log, the SQLite cache that   *)
(* replays it, and the projection a page shows.                            *)
(*                                                                         *)
(* The cache lives on tmpfs.  Locking deletes it, unlocking replays the    *)
(* log into a new one; a connection opened on an old database keeps        *)
(* working, on an inode nobody will read again.  A server that starts      *)
(* makes an empty one whether or not the store is unlocked.  `gen' numbers *)
(* the databases, and a task writes to the cache only if it was opened on  *)
(* the present one.                                                        *)
(*                                                                         *)
(* Actors are the tasks of the server's event loop (Loop: the worker, the  *)
(* upload and correction handlers), whose code runs without interruption   *)
(* between two awaits, and everything else (Pool: handlers FastAPI runs in *)
(* its thread pool, command-line processes).                               *)
(*                                                                         *)
(* Receipts are named by the hash of their bytes, here and in the log; a   *)
(* rowid is a name the cache gives them and appears in no event.           *)
(***************************************************************************)
EXTENDS Naturals, FiniteSets

CONSTANTS
  Blob,       \* photographs and texts, named by their hash
  Field,      \* what can be corrected
  Header,     \* the fields an unchanged form value is dropped for, and that
              \* make a row a real one: merchant, total, date.  The others
              \* are `deleted' and the `item.*' fields.
  Value,      \* what a field may hold
  Loop, Pool, \* the actors
  Stamp,      \* the instants ledger.now may return; bounds the appends
  MaxGen,     \* how many databases there may be; bounds locks and unlocks
  Faults,     \* what may happen beside the handlers, a subset of AllFaults
  None

AllFaults == {"lock", "crash", "clock", "requeue", "start"}

ASSUME StoreAssumption ==
  /\ Header \subseteq Field
  /\ None \notin Value
  /\ Stamp \subseteq Nat
  /\ None \notin Stamp
  /\ MaxGen \in Nat
  /\ Faults \subseteq AllFaults
  /\ Loop \cap Pool = {}

Actor == Loop \cup Pool

-----------------------------------------------------------------------------
(* The events: what ledger.digest hashes. *)

MaybeValue == Value \cup {None}

\* An extraction: the model's answer, or the record that it gave none.
Answer == [status: {"ok"}, data: [Field -> MaybeValue]]
            \cup [status: {"failed"}, data: {None}]
Failed == [status |-> "failed", data |-> None]

Edit == [field: Field, value: MaybeValue]

Receipt(b) == [kind |-> "receipt", blob |-> b, what |-> None]
Extraction(b, a) == [kind |-> "extraction", blob |-> b, what |-> a]
Correction(b, e) == [kind |-> "correction", blob |-> b, what |-> e]

Body == [kind: {"receipt"}, blob: Blob, what: {None}]
          \cup [kind: {"extraction"}, blob: Blob, what: Answer]
          \cup [kind: {"correction"}, blob: Blob, what: Edit]

\* The row POST /r/<id>/reextract inserts: status `invalid', prompt version
\* `requeue'.  No event has this body.
Requeue(b) == [kind |-> "requeue", blob |-> b, what |-> Failed]
RowBody == Body \cup {Requeue(b) : b \in Blob}

\* A row of one of the three append-only tables.
Row == [body: RowBody, at: Stamp]

-----------------------------------------------------------------------------
(* project.project, down to which source of a field wins. *)

View == [fields: [Field -> MaybeValue], status: {"pending", "failed", "shown"}]

\* ORDER BY created_at, and take the last: stamps are all different.
IsLatest(r, R) == r \in R /\ \A q \in R : q.at <= r.at

Attempts(R) == {r \in R : r.body.kind \in {"extraction", "requeue"}}
Read(R) == {r \in Attempts(R) : r.body.what.status = "ok"}
EditsOf(R, f) == {r \in R : r.body.kind = "correction" /\ r.body.what.field = f}

\* Mutant: whichever came last, a correction or an answer.
Shows_LastWriter(R, f) ==
  IF \E r \in R : IsLatest(r, EditsOf(R, f) \cup Read(R))
    THEN LET r == CHOOSE r \in R : IsLatest(r, EditsOf(R, f) \cup Read(R))
         IN  IF r.body.kind = "correction" THEN r.body.what.value
                                           ELSE r.body.what.data[f]
  ELSE None

\* A correction beats the model whenever either was made; among corrections
\* the last one, among answers the last that succeeded.
Shows(R, f) ==
  IF \E r \in R : IsLatest(r, EditsOf(R, f))
    THEN (CHOOSE r \in R : IsLatest(r, EditsOf(R, f))).body.what.value
  ELSE IF \E r \in R : IsLatest(r, Read(R))
    THEN (CHOOSE r \in R : IsLatest(r, Read(R))).body.what.data[f]
  ELSE None

Status(R) ==
  IF \E f \in Header : Shows(R, f) # None THEN "shown"
  ELSE IF Attempts(R) # {} /\ Read(R) = {} THEN "failed"
  ELSE "pending"

Project(R) == [fields |-> [f \in Field |-> Shows(R, f)], status |-> Status(R)]

-----------------------------------------------------------------------------
VARIABLES
  blobs,      \* the sealed blobs
  log,        \* log[e]: the stamp event e was first appended with, or None
  key,        \* the identity is in place
  open,       \* there is a database, with its tables
  gen,        \* which database that is
  rows,       \* receipts, extractions and corrections, as rows of it
  twice,      \* the rows it has two of: no key of the tables forbids it
  shown,      \* shown[b]: the projected row of b, or None
  replaying,  \* the unlock under way: what it read from the log
  pc, task,   \* where each actor is in its handler, and its locals
  stamps,     \* the stamps already handed out
  drift,      \* history: receipts the cache may be wrong about until the
              \* next unlock (ReplayReproducesCache says why)
  beside,     \* history: receipts a handler appended to while the last
              \* unlock was replaying into the same database
  repeated,   \* history: receipts for which a correction was appended twice
  wanted      \* history: <<v>> for the last edit submitted, <<>> for none

store == <<blobs, log>>
cache == <<key, open, gen, rows, twice, shown>>
history == <<drift, beside, repeated, wanted>>
vars == <<blobs, log, key, open, gen, rows, twice, shown, replaying, pc, task,
          stamps, drift, beside, repeated, wanted>>

Idle == [kind |-> "none", blob |-> None, todo |-> {}, put |-> {},
         gen |-> 0, known |-> FALSE, seen |-> {}]
Task == [kind: {"receipt", "extraction", "correction"}, blob: Blob,
         todo: SUBSET Body, put: SUBSET Row, gen: 0..MaxGen, known: BOOLEAN,
         seen: SUBSET Row]
Log == [Body -> Stamp \cup {None}]

TypeOK ==
  /\ blobs \subseteq Blob
  /\ log \in Log
  /\ key \in BOOLEAN
  /\ open \in BOOLEAN
  /\ gen \in 0..MaxGen
  /\ rows \subseteq Row
  /\ twice \subseteq Row
  /\ shown \in [Blob -> View \cup {None}]
  /\ replaying \in [on: BOOLEAN, snap: Log, gen: 0..MaxGen]
  /\ pc \in [Actor -> {"idle", "await", "append", "apply", "read", "write"}]
  /\ task \in [Actor -> Task \cup {Idle}]
  /\ stamps \subseteq Stamp
  /\ drift \subseteq Blob
  /\ beside \subseteq Blob
  /\ repeated \subseteq Blob
  /\ wanted \in [Blob -> [Field -> {<<v>> : v \in MaybeValue} \cup {<<>>}]]

NoLog == [e \in Body |-> None]

Init ==
  /\ blobs = {}
  /\ log = NoLog
  /\ key = FALSE
  /\ open = FALSE
  /\ gen = 0
  /\ rows = {}
  /\ twice = {}
  /\ shown = [b \in Blob |-> None]
  /\ replaying = [on |-> FALSE, snap |-> NoLog, gen |-> 0]
  /\ pc = [p \in Actor |-> "idle"]
  /\ task = [p \in Actor |-> Idle]
  /\ stamps = {}
  /\ drift = {}
  /\ beside = {}
  /\ repeated = {}
  /\ wanted = [b \in Blob |-> [f \in Field |-> <<>>]]

-----------------------------------------------------------------------------
RowsFor(b) == {r \in rows : r.body.blob = b}
HasReceipt(b) == \E r \in rows : r.body = Receipt(b)

\* ledger.now: the first stamp not handed out, or any while NTP may step.
Now == LET left == Stamp \ stamps
       IN  IF "clock" \in Faults THEN left
           ELSE {t \in left : \A u \in left : t <= u}

\* Mutant: an await crept into the code between an append and its projection.
MayRun_Interleaved(p) == TRUE

\* The event loop runs one handler at a time, up to its next await.
MayRun(p) ==
  p \in Loop => \A q \in Loop \ {p} : pc[q] \in {"idle", "await"}

\* The connection p holds is to the present database.
Current(p) == task[p].gen = gen

\* An unlock is replaying into the present database.
Unlocking == replaying.on /\ replaying.gen = gen

Start(p, kind, b, todo, known, next) ==
  /\ pc[p] = "idle"
  /\ MayRun(p)
  /\ pc' = [pc EXCEPT ![p] = next]
  /\ task' = [task EXCEPT ![p] =
       [kind |-> kind, blob |-> b, todo |-> todo, put |-> {}, gen |-> gen,
        known |-> known, seen |-> {}]]

Finish(p) ==
  /\ pc' = [pc EXCEPT ![p] = "idle"]
  /\ task' = [task EXCEPT ![p] = Idle]

\* Mutant: the blob is sealed only once the event is.
Ingest_EventFirst(p, b) ==
  /\ open
  /\ Start(p, "receipt", b, {Receipt(b)}, HasReceipt(b), "append")
  /\ UNCHANGED <<blobs, log, cache, replaying, stamps, history>>

\* service.ingest_bytes: the blob is sealed, then the cache is asked whether
\* it knows the receipt.
Ingest(p, b) ==
  /\ open
  /\ blobs' = blobs \cup {b}
  /\ Start(p, "receipt", b, {Receipt(b)}, HasReceipt(b), "append")
  /\ UNCHANGED <<log, cache, replaying, stamps, history>>

\* The same with no database there: the blob is sealed, the SELECT raises.
IngestLocked(p, b) ==
  /\ ~open
  /\ pc[p] = "idle"
  /\ MayRun(p)
  /\ blobs' = blobs \cup {b}
  /\ UNCHANGED <<log, cache, replaying, pc, task, stamps, history>>

\* service.extract_one up to the model call, when the blob renders...
AskModel(p, b) ==
  /\ key
  /\ open
  /\ HasReceipt(b)
  /\ Start(p, "extraction", b, {}, FALSE, "await")
  /\ UNCHANGED <<store, cache, replaying, stamps, history>>

\* ... and when it does not: the attempt is recorded at once.
CannotRender(p, b) ==
  /\ key
  /\ open
  /\ HasReceipt(b)
  /\ Start(p, "extraction", b, {Extraction(b, Failed)}, FALSE, "append")
  /\ UNCHANGED <<store, cache, replaying, stamps, history>>

\* The model answers, or the call times out.
Answered(p) ==
  /\ pc[p] = "await"
  /\ MayRun(p)
  /\ \E a \in Answer :
       task' = [task EXCEPT ![p].todo = {Extraction(task[p].blob, a)}]
  /\ pc' = [pc EXCEPT ![p] = "append"]
  /\ UNCHANGED <<store, cache, replaying, stamps, history>>

\* service._unchanged, against what the page shows when the form arrives.
Unchanged(b, f, v) ==
  /\ f \in Header
  /\ shown[b] # None
  /\ shown[b].fields[f] = v

\* service.correct: a form is a value for each of some fields; those that
\* change nothing are dropped.
Correct(p, b, D, form) ==
  LET changes == {f \in D : ~Unchanged(b, f, form[f])}
  IN  /\ open
      /\ HasReceipt(b)
      /\ changes # {}
      /\ Start(p, "correction", b,
               {Correction(b, [field |-> f, value |-> form[f]]) : f \in changes},
               FALSE, "append")
      /\ UNCHANGED <<store, cache, replaying, stamps, history>>

-----------------------------------------------------------------------------
\* Mutant: re-appending renames over the first observation.
Sealed_Over(e, t) == [log EXCEPT ![e] = t]

\* seal.seal_to: an event already there is not rewritten.
Sealed(e, t) == IF log[e] = None THEN [log EXCEPT ![e] = t] ELSE log

\* replay.record, first half: ledger.append stamps the event and seals it.
Append(p) ==
  /\ pc[p] = "append"
  /\ \E e \in task[p].todo, t \in Now :
       LET new == log[e] = None
       IN /\ stamps' = stamps \cup {t}
          /\ log' = Sealed(e, t)
          /\ task' = [task EXCEPT ![p].todo = @ \ {e},
                                  ![p].put = @ \cup {[body |-> e, at |-> t]}]
          /\ pc' = [pc EXCEPT ![p] = IF task[p].todo = {e} THEN "apply" ELSE "append"]
          /\ drift' = IF \/ new /\ ~Current(p)
                         \/ ~new /\ ~task[p].known
                        THEN drift \cup {e.blob} ELSE drift
          /\ beside' = IF Unlocking /\ Current(p) /\ task[p].kind # "receipt"
                         THEN beside \cup {e.blob} ELSE beside
          /\ IF e.kind = "correction"
               THEN /\ wanted' = [wanted EXCEPT ![e.blob][e.what.field] = <<e.what.value>>]
                    /\ repeated' = IF new THEN repeated ELSE repeated \cup {e.blob}
               ELSE UNCHANGED <<wanted, repeated>>
  /\ UNCHANGED <<blobs, cache, replaying>>

\* Second half for a receipt: replay.apply inserts it unless the table has
\* its hash, and a new one is projected in the same transaction.
ApplyReceipt(p) ==
  LET b == task[p].blob
      added == IF HasReceipt(b) THEN {} ELSE task[p].put
  IN  /\ pc[p] = "apply"
      /\ task[p].kind = "receipt"
      /\ IF Current(p)
           THEN /\ rows' = rows \cup added
                /\ shown' = IF task[p].known THEN shown
                            ELSE [shown EXCEPT ![b] = Project(RowsFor(b) \cup added)]
           ELSE UNCHANGED <<rows, shown>>
      /\ Finish(p)
      /\ UNCHANGED <<store, key, open, gen, twice, replaying, stamps, history>>

\* Second half for an attempt or a form: the rows are inserted if the receipt
\* is there, those the tables have already once more, and committed, before
\* anything is projected from them.
ApplyRows(p) ==
  /\ pc[p] = "apply"
  /\ task[p].kind # "receipt"
  /\ IF Current(p) /\ HasReceipt(task[p].blob)
       THEN /\ rows' = rows \cup task[p].put
            /\ twice' = twice \cup (rows \cap task[p].put)
       ELSE UNCHANGED <<rows, twice>>
  /\ pc' = [pc EXCEPT ![p] = "read"]
  /\ UNCHANGED <<store, key, open, gen, shown, replaying, task, stamps, history>>

\* service.reproject: the truth is read outside any transaction ...
ReadRows(p) ==
  /\ pc[p] = "read"
  /\ task' = [task EXCEPT ![p].seen = IF Current(p) THEN RowsFor(task[p].blob) ELSE {}]
  /\ pc' = [pc EXCEPT ![p] = "write"]
  /\ UNCHANGED <<store, cache, replaying, stamps, history>>

\* ... and the row it projects to replaces the old one in another.
WriteProjection(p) ==
  /\ pc[p] = "write"
  /\ shown' = IF Current(p)
                THEN [shown EXCEPT ![task[p].blob] = Project(task[p].seen)]
                ELSE shown
  /\ Finish(p)
  /\ UNCHANGED <<store, key, open, gen, rows, twice, replaying, stamps, history>>

\* POST /r/<id>/reextract: a row of the cache and of nothing else.
Reextract(p, b) ==
  /\ "requeue" \in Faults
  /\ pc[p] = "idle"
  /\ MayRun(p)
  /\ open
  /\ HasReceipt(b)
  /\ \E t \in Now :
       /\ stamps' = stamps \cup {t}
       /\ rows' = rows \cup {[body |-> Requeue(b), at |-> t]}
  /\ drift' = drift \cup {b}
  /\ UNCHANGED <<store, key, open, gen, twice, shown, replaying, pc, task,
                 beside, repeated, wanted>>

-----------------------------------------------------------------------------
\* keys.lock: `spend lock', the relock timer, or whoever notices the deadline
\* has passed.  The database is unlinked under whoever has it open.
Lock ==
  /\ "lock" \in Faults
  /\ key \/ open
  /\ gen < MaxGen
  /\ key' = FALSE
  /\ open' = FALSE
  /\ gen' = gen + 1
  /\ rows' = {}
  /\ twice' = {}
  /\ shown' = [b \in Blob |-> None]
  /\ UNCHANGED <<store, replaying, pc, task, stamps, history>>

\* store.connect and store.migrate where there is no database: a server that
\* starts, unlocked or not (api.lifespan), or a command that found the identity
\* before the database (cli._open).  What the log has is not in it.
OpenEmpty ==
  /\ "start" \in Faults
  /\ ~open
  /\ key \/ \A p \in Loop : pc[p] = "idle"
  /\ gen < MaxGen
  /\ open' = TRUE
  /\ gen' = gen + 1
  /\ rows' = {}
  /\ twice' = {}
  /\ shown' = [b \in Blob |-> None]
  /\ drift' = {e.blob : e \in {x \in Body : log[x] # None}}
  /\ UNCHANGED <<store, key, replaying, pc, task, stamps, beside, repeated, wanted>>

\* cli.cmd_unlock puts the identity in place (keys.unlock) ...
UnlockKey ==
  /\ ~key
  /\ key' = TRUE
  /\ UNCHANGED <<store, open, gen, rows, twice, shown, replaying, pc, task,
                 stamps, history>>

\* Mutant: replays into the database that is there.
UnlockFresh_KeepsRows ==
  /\ ~replaying.on
  /\ key
  /\ gen < MaxGen
  /\ open' = TRUE
  /\ gen' = gen + 1
  /\ replaying' = [on |-> TRUE, snap |-> log, gen |-> gen + 1]
  /\ drift' = {}
  /\ beside' = {}
  /\ UNCHANGED <<store, key, rows, twice, shown, pc, task, stamps, repeated, wanted>>

\* ... and replay.fresh deletes the database and makes an empty one, which the
\* handlers find from now on.  The events there are now, the listing that
\* begins here cannot miss.
UnlockFresh ==
  /\ ~replaying.on
  /\ key
  /\ gen < MaxGen
  /\ open' = TRUE
  /\ gen' = gen + 1
  /\ rows' = {}
  /\ twice' = {}
  /\ shown' = [b \in Blob |-> None]
  /\ replaying' = [on |-> TRUE, snap |-> log, gen |-> gen + 1]
  /\ drift' = {}
  /\ beside' = {}
  /\ UNCHANGED <<store, key, pc, task, stamps, repeated, wanted>>

\* What ledger.events lists and decrypts, shard by shard and with no lock on
\* anything: the events there were when it began, and of those appended since
\* the ones in `late', whichever it met.
Since == {e \in Body : log[e] # None /\ replaying.snap[e] = None}
Listed(late) ==
  [e \in Body |-> IF replaying.snap[e] # None \/ e \in late THEN log[e] ELSE None]

\* Mutant: one pass in stamp order, dropping what precedes its receipt.
Replayed_OnePass(R, read) ==
  R \cup {[body |-> e, at |-> read[e]] : e \in {x \in Body :
            /\ read[x] # None
            /\ \A r \in R : r.body # x
            /\ x.kind # "receipt" =>
                 /\ read[Receipt(x.blob)] # None
                 /\ read[Receipt(x.blob)] < read[x]}}

\* replay.run's two passes over the events it read: every receipt the table
\* lacks, then everything that belongs to a receipt ...
Replayed(R, read) ==
  LET event(e) == [body |-> e, at |-> read[e]]
      receipts == R \cup {event(e) : e \in {x \in Body :
                    /\ read[x] # None
                    /\ x.kind = "receipt"
                    /\ \A r \in R : r.body # x}}
  IN  receipts \cup {event(e) : e \in {x \in Body :
                    /\ read[x] # None
                    /\ x.kind # "receipt"
                    /\ \E r \in receipts : r.body = Receipt(x.blob)}}

\* ... which is inserted whether or not a handler has inserted it before.
Again(R, read) ==
  {r \in R : r.body \in Body /\ r.body.kind # "receipt" /\ read[r.body] = r.at}

\* The passes commit, and service.rebuild projects every receipt again.
UnlockFinish ==
  /\ replaying.on
  /\ replaying' = [on |-> FALSE, snap |-> NoLog, gen |-> 0]
  /\ IF Unlocking
       THEN \E late \in SUBSET Since :
              LET read == Listed(late)
                  all == Replayed(rows, read)
              IN  /\ rows' = all
                  /\ twice' = twice \cup Again(rows, read)
                  /\ shown' = [b \in Blob |->
                       IF \E r \in all : r.body = Receipt(b)
                         THEN Project({r \in all : r.body.blob = b}) ELSE None]
       ELSE UNCHANGED <<rows, twice, shown>>
  /\ UNCHANGED <<store, key, open, gen, pc, task, stamps, history>>

-----------------------------------------------------------------------------
\* A handler is killed.  What it appended stays in the log, what it had not
\* committed is rolled back.
Crash(p) ==
  /\ "crash" \in Faults
  /\ pc[p] # "idle"
  /\ drift' = IF Current(p) /\ task[p].put # {}
                THEN drift \cup {task[p].blob} ELSE drift
  /\ Finish(p)
  /\ UNCHANGED <<store, cache, replaying, stamps, beside, repeated, wanted>>

\* The unlock is killed: the store is open, on an empty database.
UnlockKilled ==
  /\ "crash" \in Faults
  /\ replaying.on
  /\ drift' = IF Unlocking THEN Blob ELSE drift
  /\ replaying' = [on |-> FALSE, snap |-> NoLog, gen |-> 0]
  /\ UNCHANGED <<store, cache, pc, task, stamps, beside, repeated, wanted>>

Next ==
  \/ \E p \in Actor :
       \/ \E b \in Blob :
            \/ Ingest(p, b)
            \/ IngestLocked(p, b)
            \/ AskModel(p, b)
            \/ CannotRender(p, b)
            \/ \E D \in SUBSET Field : \E form \in [D -> MaybeValue] : Correct(p, b, D, form)
            \/ Reextract(p, b)
       \/ Answered(p)
       \/ Append(p)
       \/ ApplyReceipt(p)
       \/ ApplyRows(p)
       \/ ReadRows(p)
       \/ WriteProjection(p)
       \/ Crash(p)
  \/ Lock
  \/ OpenEmpty
  \/ UnlockKey
  \/ UnlockFresh
  \/ UnlockFinish
  \/ UnlockKilled

Spec == Init /\ [][Next]_vars

-----------------------------------------------------------------------------
(***************************************************************************)
(* Whatever is killed and whenever, nothing points at nothing              *)
(* (service.ingest_bytes): an event's blob is sealed and its receipt is in *)
(* the log, a row's receipt is in the table, and a row that is not a       *)
(* requeue is a copy of an event.                                          *)
(***************************************************************************)
EventsRooted ==
  \A e \in Body : log[e] # None => e.blob \in blobs /\ log[Receipt(e.blob)] # None
RowsRooted ==
  \A r \in rows : /\ HasReceipt(r.body.blob)
                  /\ r.body \in Body => log[r.body] # None
NothingDangles == EventsRooted /\ RowsRooted

Writing(b) ==
  \E p \in Actor : task[p].blob = b /\ task[p].put # {} /\ Current(p)
Ready == open /\ ~replaying.on

\* What replay makes of the events of b.
LogRows(b) == {[body |-> e, at |-> log[e]] : e \in {x \in Body : x.blob = b /\ log[x] # None}}

(***************************************************************************)
(* Replay reproduces the cache (replay): at rest, the rows of a receipt    *)
(* are exactly the events of the log about it, stamps included, one row    *)
(* for each.  The exceptions are the receipts in `drift': since the last   *)
(* unlock an event of theirs was appended that the log already held, or by *)
(* a handler whose database was deleted under it, or by one killed before  *)
(* its commit; or they were requeued; or they are older than a database    *)
(* that was opened empty.  And of a receipt in `beside' there may be rows  *)
(* twice: one a handler inserted while the unlock was listing the log, and *)
(* the same one the unlock then inserted.                                  *)
(***************************************************************************)
ReplayReproducesCache ==
  Ready => \A b \in Blob \ drift : ~Writing(b) =>
    /\ RowsFor(b) = LogRows(b)
    /\ b \notin beside => RowsFor(b) \cap twice = {}

(***************************************************************************)
(* An event the next unlock picks up (service.ingest_bytes): whatever      *)
(* interleaves with it, an unlock whose database is still there leaves     *)
(* every event that was in the log when it began in the cache, even under  *)
(* a clock that steps back.                                                *)
(***************************************************************************)
UnlockPicksUpEverything ==
  [][UnlockFinish /\ Unlocking =>
       \A e \in Body : replaying.snap[e] # None => \E r \in rows' : r.body = e]_vars

(***************************************************************************)
(* A transaction is recomputed from the rows it is derived from every time *)
(* any of them changes (project): at rest, what is shown is what the rows  *)
(* project to.  True of the handlers of the event loop, false as soon as   *)
(* one more thread or process writes (Pool).                               *)
(***************************************************************************)
ProjectionIsFresh ==
  Ready => \A b \in Blob \ drift : HasReceipt(b) /\ ~Writing(b) =>
    shown[b] = Project(RowsFor(b))

LastEditShown(b) ==
  shown[b] # None /\ ~Writing(b) =>
    \A f \in Field : wanted[b][f] # <<>> => <<shown[b].fields[f]>> = wanted[b][f]

(***************************************************************************)
(* The last edit to a field is the one that survives (project, store.now): *)
(* later readings by the model, locking and unlocking included.            *)
(***************************************************************************)
LastEditWins == Ready => \A b \in Blob \ drift : LastEditShown(b)

\* The same for the receipts no correction of which was ever made twice.
LastEditWinsUnlessRepeated ==
  Ready => \A b \in Blob \ (drift \cup repeated) : LastEditShown(b)

(* The log of the receipt path is the append-only table: Table!Spec, with   *)
(* the steps that leave the log alone told first, which are most.           *)
Table == INSTANCE AppendLog WITH Name <- Body, Obs <- Stamp
TableSpec == Table!Init /\ [][log' # log => Table!Next]_log
=============================================================================
