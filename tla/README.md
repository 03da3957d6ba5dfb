# spend, specified

`spend` keeps a household's receipts and bank transactions. This directory holds TLA+ models of
it, the TLC configurations that check them and machine-checked proofs about them. Every definition
is translated from the Python source; `PROJECT.json` says from which lines (`map`).

The models are about one promise, made in many places of the code: *the sealed files are the data,
the database is a replay of them, and what a page shows follows from the database*. What makes the
promise hard to keep is that three kinds of writers run at once (the server's event loop, FastAPI's
thread pool, command-line processes), that the database may be deleted under any of them, that any
of them may be killed, and that the log keeps the *set* of events rather than the list of calls.

## 1. The system

| component (source) | state it keeps | operations | hard behaviour | what makes it correct |
|---|---|---|---|---|
| sealed files and log (`seal.py`, `ledger.py`) | `log/<digest>.age`, `blobs/<hash>.age`, leftover `.part` files | `seal_to`, `append`, `read`, `events` | kill between open and rename; two writers of one body share the `.part` name | a published file is whole, permanent, and the first observation |
| replay (`replay.py`) | none (drives the cache) | `record`, `apply`, `run`, `fresh` | runs while handlers write; a clock that stepped back; events appended after the listing | the cache holds what the log holds, and nothing else |
| cache (`store.py`, `migrations/`) | SQLite on tmpfs: truth tables (receipts, extractions, corrections, feed tables) and projections | inserts, `pending_receipt_ids`, projection writes | deleted by a lock under open connections | truth is append-only; projections can be dropped |
| receipt path (`service.py`, `project.py`) | — | `ingest_bytes`, `extract_one`, `correct`, `reproject`, `rebuild` | steps of two handlers on one receipt; model call across a lock | a correction beats the model; the last edit survives; nothing points at nothing |
| feeds (`feed.py`, `service.record_poll`) | polls, accounts, raw transactions, feed corrections | `record_poll`, `reproject_feeds`, `correct_feed` | overlapping polls; partial polls; equal observations; killed between poll and rows | one row per transaction, the newest claim of each source, no duplicate counted twice |
| poll planning (`sources/base.py`) | none (reads the poll history) | `plan_window` | outages longer than a window; budget at the day's limit | every day is eventually covered, no request over budget |
| SimpleFIN, imports (`sources/*.py`) | `imports/`, `imports/archive/` | `poll`, `read_file`, `archive` | a file read three times and then unlinked | a file is imported exactly once |
| lock state (`keys.py`) | identity and deadline in `/run`, a lock file | `unlock`, `lock`, `is_unlocked`, `require_identity` | deadline passing at any moment; readers between two file writes | an identity never outlives its deadline; a lock is never half done |
| worker (`worker.py`) | one asyncio task, an event | `nudge`, `_run`, `_tick` | nudge during a tick; back-off; a receipt that never reads | every pending receipt is eventually attempted |
| backup, `init` (`backup.py`, `keys.init`) | a mirror of the sealed files; identity and recipients | `run`, `init` | copy while appends go on; two runs; killed half way, or between the two key files | what was listed is whole and closed, and the identity opens it |
| workspace (`agent/workspace.py`) | a directory built from the cache | `build` | swap of the directory; two builds; a lock beside a build | one whole workspace until the next lock, whose lines add up to what was spent |
| web, CLI (`web/`, `cli.py`) | — | routes and commands that call the above | run in the loop, in threads, in processes | — |
| rendering, model client (`render.py`, `extract/`) | a cache of page images and texts | `render`, `evict`, `extract` | two renderers of one page; a kill or a lock while one writes; fail or time out | a page that is read is whole, the cache keeps its budget |
| amounts, schema, configuration | — | pure | rounding, signs | cents are exact |

How they interact. A handler calls `service`, which seals a blob, calls `replay.record` (append to
the log, then `replay.apply` to the cache, in that order) and then projects. `spend unlock` writes
the identity, makes an empty database and replays the log into it; `spend lock`, its timer, or any
process that notices the deadline has passed deletes database and identity. Nothing else is shared:
no queue, no in-memory state beyond one `asyncio.Event`.

The hazards the code is exposed to, each at its line, are listed in `PROJECT.json` with the
properties that would catch them going wrong.

## 2. Modules

| module | models | composed from |
|---|---|---|
| `AppendLog` | what the log promises: an append-only table from event names to first observations | — |
| `SealedLog` | `seal_to` and `append` on inodes and directory entries | implements `AppendLog` |
| `SealedLogProofs` | theorems about `SealedLog` | extends `SealedLog` |
| `Store` | ingest, extract, correct, reproject, requeue, lock, unlock, replay, kills | implements `AppendLog` |
| `StoreProofs` | theorems about `Store`, and about its event loop alone | extends `MCStore` |
| `Feeds` | polls, feed corrections, the rows and pages made of them, lock, unlock, replay, kills | — |
| `FeedsProofs` | theorems about `Feeds` | extends `Feeds` |
| `Imports` | files in the inbox: claim by hash, record, seal, unlink, kills | — |
| `ImportsProofs` | theorems about `Imports` | extends `Imports` |
| `Planner` | `plan_window` and the syncs that call it, over any history they produce | — |
| `PlannerProofs` | theorems about `Planner` | extends `Planner` |
| `Worker` | the loop that reads receipts: queue, back-off, event, wait | — |
| `WorkerProofs` | theorems about `Worker` and about `Pages` | extends both |
| `Keys` | the files of the runtime directory: unlock, lock, the gate every reader passes, the deadline, kills | — |
| `KeysProofs` | theorems about `Keys` and about `Runtime` | extends both |
| `Backup` | `init`, sealing, and the runs of `spend backup` that copy meanwhile | — |
| `BackupProofs` | theorems about `Backup` | extends `Backup` |
| `Runtime` | the agent workspace and the render cache in the directory a lock removes | — |
| `Project` | `project.py` as operators: readings and corrections to a row, a form to what it records | — |
| `FeedProject` | `feed.py` as operators: claims and corrections to rows, duplicates, the workspace's sum | extends `Project` |
| `Pages` | the owner: reads, edits, deletes; names accounts; sources report | extends `FeedProject` |
| `MCStore`, `MCFeeds`, `MCImports`, `MCPlanner`, `MCKeys`, `MCBackup`, `MCRuntime`, `MCPages` | the same for TLC (symmetry, the exports, the ways to use the system) | extend them |

`Store`, `Feeds`, `Imports` and `Planner` share the log and the lock: each takes the events of its
kind, and each has the lock and unlock that matter to it, since no code path reads events of two of
these groups. What one of them leaves out because another has it is said in its header.

### SealedLog

A directory is a function from names to inodes: `final` for published names, `part` for the `.part`
names. `bytes[i]` is what inode `i` holds: a whole record, or `Torn` (empty, cut short, or two
writers' bytes mixed; age's authentication makes all of these the same to a reader). `Begin` is the
stamping in `ledger.append` and the `exists()` of `seal_to`; `OpenNew` and `OpenExisting` are the
two effects of `open(tmp, "wb")`; `Write` is write, flush and fsync; `Rename`, `RenameFails` the
rename. `Crash` kills a writer anywhere. The `chmod` and the directory's fsync order nothing here:
the model's crashes are of processes, not of the machine.

`Alone` is the set of bodies that no two writers are ever in the middle of appending. The code does not
keep a body to one writer (section 5): it is so whenever a body has one source, which is the
case of every body that carries a timestamp or a random id. The properties are about `Alone`, in a
system where other bodies are raced for at the same time.

### Store

One action per step between two points where something else may run. Event-loop handlers run to
their next `await` (`MayRun`), so the only place another handler of the loop can run inside one is
the model call (`pc = "await"`). Threads and processes interleave everywhere. A database has a
generation number `gen`: a handler opened its connection at `task.gen`, and a write through a
connection to a deleted database changes nothing anybody reads (`Current`).

`Ingest`, `AskModel`, `CannotRender`, `Answered` and `Correct` start or resume a handler; `Append`
is one `ledger.append` (one event of a form at a time); `ApplyReceipt` and `ApplyRows` are
`replay.apply` with the commit of its transaction; `ReadRows` and `WriteProjection` are the two
halves of `service.reproject`, the read being outside the transaction of the write. `Lock` is
`keys.lock`; `OpenEmpty` is a server that starts, or a command that finds no database: it makes an
empty one, of a locked store too. `spend unlock` is three steps: `UnlockKey` puts the identity in
place, `UnlockFresh` deletes the database and makes an empty one, which handlers find from now on, and
`UnlockFinish` commits what the listing of the log came to: everything there was when it began, and of
what was appended since, whichever it met (`Listed`). `Crash` and `UnlockKilled` kill a handler and an
unlock. `Reextract` is the one write that appends no event.

`rows` is a set, and `twice` the rows of it that the tables hold two of: neither extractions nor
corrections have a key that would forbid it, so that an event the listing meets and a handler inserts
is there twice, whichever of the two came first (`Again`, `ApplyRows`).

Data is abstract: a photograph is a name, an extraction is a value for each field or a failure, a
correction is a field and a value. The projection keeps which source wins and whether the row is
pending, failed or shown; its arithmetic is in `Project`. `Header` is the
set of fields `_unchanged` compares (merchant, total, date); fields outside it stand for `deleted`
and the `item.*` fields.

Four history variables say when a property is excused, and change no behaviour: `drift` (receipts
whose cache may differ from the log until the next unlock, with the reason in the comment of
`ReplayReproducesCache`), `beside` (receipts a handler appended to while the last unlock was replaying
into the same database), `repeated` (receipts for which a correction was made again after a
different one), `wanted` (the last edit submitted).

### Feeds

Actors are processes: the nightly sync, one typed at a terminal, an edit, `spend rebuild`, an unlock.
`Sync` is a command up to the bank's answer; `Poll` the sealed poll event and the row that begins the
write transaction (`holder`, SQLite's one writer); `Append` seals one observation, accounts first;
`Commit` makes their rows and ends the transaction. A sync without a connection (`conn = FALSE`, the
store was locked when it began) takes the same steps and inserts nothing. `ReadRecords`, `ReadEdits`
and `WriteProjection` are the three points of `reproject_feeds` between which another process can
commit. `Unlock` and `Replay` are `spend unlock`; `Crash` rolls a transaction back and leaves what was
sealed, so that pages may be stale until the next projection. A database that was opened empty is in
`Store` only.

An event is a subject, its content (what `content_sha` covers) and the rest of the payload. Two events
are one row when subject and content agree (`SameKey`), whatever the rest says: this is where the
log's names and the cache's unique keys differ. `Claim` is the newest row about a subject, by stamp
for transactions and corrections and by rowid (`tx`) for balances, as the queries order them.

History variables: `drift` (the cache may be wrong about it until the next unlock: an event was
appended without the present database, rolled back, or known to the log and not to the cache),
`repeated` (the last claim had been made before a different one) and `claim` (the last claim
appended), `stale` (the last projection was of rows that had changed since they were read, or was not
made because its process was killed). `Overtaken` says that a balance was replayed in another order than it was observed.

### Imports

One action per access to the file, since another import may have removed it in between: `Hash`,
`Parse`, `SetAside`, then `Poll`, `Begin`, `Append`, `Commit` of `record_poll`, then `Seal` and
`Unlink`. A claim is a row of the database the command is connected to (`claimed[gen]`), so that a
command without one, or connected to a deleted one, decides by what it has. A file that disappeared
raises and ends the command. `killed` remembers the exports whose recording was cut off after the
poll event. `Drop` assumes that nobody saves a file over another or over one being imported.

### Planner

A window is half-open, and may end before it begins: `--since` takes any date, a day to come included
(`Ahead`), and `base.Window` refuses only what is too wide (`Fits`; `Forward` is the other half). `Gap`,
`Before` and `Tail` are the three parts of `plan_window` in the order it tries them; `Reach` is the end
its loop over the sorted windows arrives at, which begins with the `First` of them, as tuples sort. A planner's history is a
set of answered windows and two counts of polls: `sealed` is what the log has, `known` what the cache
has, and they differ because a sync that is not `live` (begun while locked, or its database deleted
since) seals its poll only. A poll names its day by UTC and the planner asks by the local calendar, so
in the `evening` a poll counts for tomorrow. `Answer` records an outcome in one step. `SyncSince` and
`SyncBackfill` are the two options that plan past the history. `Midnight` passes without a sync
answered for as long as the fault "outage" allows.

`Lost` says that a hole has aged past what the bank answers for, `Backward` that the first window of all
ends before it begins, `spent` counts the planned requests
of a day and `blind` says that the count they were planned from missed one.

### Keys

`file[n]` is what the runtime directory has under the name `n`: the identity (or its bytes zeroed),
the identity's `.part`, the deadline, the cache, the lock file (an inode, since a lock is on the inode
and not on the name). `Exclusive` is the open and the flock of `_flock` in one step: nothing another
process does between the two is told apart from the same thing done before or after, save an unlink
of the file in between, which is the unlink right after the flock. `Unlock` then takes a step per file
(`WriteIdentity`, `PublishIdentity`, `WriteDeadline`), passes its own gate, deletes the cache (`Fresh`)
and replays the log into a new one (`Replay`). Before, after and between, anybody may connect: a page
of the server or a tick of its worker makes directory and database where there are none (`Connect`), a
server that starts gives it its tables (`Serve`), and an upload then keeps its row (`Keep`). None of
these asks for an identity. So the cache has four states (`Cache`), of which only "replayed" comes
from the log. `Gate`, `Check` and `Load` are the three accesses of `require_identity`, by an unlock or by
a reader who holds nothing. `Zero`, `Scan`, `Unlink`, `Rmdir` are `keys.lock`: the bytes overwritten,
then rmtree's listing, its unlinks in any order, and its rmdir. The clock may move between any two
steps and any process may be killed at any of them.

`due` is the deadline the last unlock gave itself. `fault` says what went wrong since the directory
was last scanned to be removed: "intrusion" (a removal that does not hold the present lock file ran
inside an unlock), "undated" (an unlock killed between identity and deadline), "litter" (a kill that
leaves a `.part` or half of a removal).

### Worker

`pc` is where the task stands: about to read the queue (`look`), at the model call (`await`), about to
wait (`rest`), waiting (`wait`). A step runs to the next `await`, with `rest` for what a thread can do
between the tick and the wait. `Look` and `Answered` are `_tick` before and after the model call, `Wait`
and `WakeUp` the two ends of `wait_for`. The queue is not a variable but `Pending`, as it is a query in
the code. A route commits (`Upload`, `Reextract`) and nudges (`Nudge`) in two steps. `bad` fixes which
receipts can never be read; the model server, the lock and the server itself come and go.

`unseen` remembers the receipts nudged for since the worker last read the queue. The event counts as
set when its flag is: a thread that sets it may not end a wait at once, since `asyncio.Event` is not
made for threads, and the model then wakes up no later than its time-out. A write that finds the
database busy past `busy_timeout` is not in it.

### Backup

A key stands for the pair `init` generates; `sealed[f]` is the key a sealed file opens with, which is
what `recipients` held when it was sealed. `BeginInit`, `WriteRecipients`, `WriteIdentity` are `keys.init`;
`RenameRaises` is the second of two inits, which share the `.part` names. `Seal` is any process that
ingests or corrects: a blob before its event, a receipt before a correction of it. A run is `Begin` and
`Listed` (`rglob` reads the shards one after the other, so a file sealed meanwhile is in the list or
not), then for each file `Look` (is it there in the right size?), `Open` (which truncates) and two
`Write`s; `NextTree` goes from the log to the blobs; `OpenIdentity` and `CopyIdentity` come last, and are
done at every run. A copy is the set of the parts that were written, so that one with its end and
without its beginning has the right size and a hole.

`saved` is what a run that ended with no other under way had listed, `muddled` the copies cut short by
a kill when another run had dealt with them, `strays` the receipts sealed while a run was listing,
`dead` the keys of an init killed before its identity, `raced` that two inits were under way at once.

### Runtime

`staging`, `dest` and `old` are the directories `agent.tmp`, `agent` and `agent.old`, each `Nothing` or
the set of its parts, a part with the builder that wrote it; three parts stand for the files, in the order
they are written. `Stage` to `DropOld` are `workspace.build`, which names its files by path, so that
after a lock or another build it writes into whatever is there now, and raises where nothing is.
`LookJpg` to `SaveTxt` are `render.render` in its mode "ocr". `cache` gives each file of `render/`
the renderers that hold it open, since a file unlinked by an eviction takes a late write with it, and
the files that are newer, since the oldest are evicted. `ListAll` and `Remove` are the rmtree of `keys.lock`: what was not there when it
listed stays, and a directory that has got something new stays with it.

`OpenGate` opens the gate when no removal is under way. It is an assumption: the expiry path removes
without the lock file, and an unlock may then run inside its rmtree. `Keys` has that case (`intrusion`).

`crossed` are the builds another build or a lock ran beside, `gap` that a build ended between its two
renames, `cut` the pages whose writer was killed, `late` what those who were writing at the last
lock may yet leave.

### Project, FeedProject, Pages

`Projected` is `project.project`: the last successful reading, then each correction in order (`Applied`),
the lines numbered as the model numbered them until those without a name are left out (`Kept`), the
rules' category unless the owner set one, and `_status` with its sum of the parts. A text that is no
amount is one value, `Garbage`, and its cents are none; `TextAssumption` says which fields are amounts,
as `ReceiptData` and `LineItem` do, and keeps `Garbage` out of the others. `Form` is what `detail.html` sends,
which is all it shows, and `Recorded` what `service.correct` keeps of it: what differs from the row that is
there when it arrives, and every line.

A charge is told by natives, each in its own words (`Words`), which become the merchant of its row unless
the owner corrected it. A native of `Export` is a format without ids: the id of what it tells is made of
what it says (`Digest`), so that a charge it restates is another transaction of the same native (`Key`),
as `drop._synthesise_ids` makes it. `RowOf` is `feed.project_one` of the newest claim, `Suspect` the flag
`mark_duplicates` sets, walking the rows by date and then by a key that is a digest, so that any order is
possible (`Orders`): the properties are stated for all of them. `Left`,
`Builds` and `Total` are the rows of the workspace, what its ledger refuses and what its lines add up to.

`Pages` runs every command to its end, since `Store` and `Feeds` have the interleavings. In the receipt
half a form stays on the screen while the worker reads again. In the ledger half one
account is known under two natives (a reconnected feed, an import), each of which may tell of the same
charges (`Observe`); `fact` is what the charges were, which the code never sees. `WorldsAssumption` says what was
spent on one: what left the account or came back to a card, unless the description tells otherwise.

## 3. Runs

Bounds are constants of the module: the number of stamps bounds the appends, `MaxGen` the number of
databases (an unlock makes one, a lock abandons one; 3 allow an unlock, a lock and a second unlock),
`Inode` the files. `CHECK_DEADLOCK FALSE` appears where the bound, and not the code, ends a run.

| run | shows | bounds |
|---|---|---|
| `log_alone` | whole, permanent, first observation, whatever happens to a body that is raced for; the loser of a race finds its event in the log; implements `AppendLog` | 2 bodies, one of them raced for, 2 writers, 4 inodes: a published file and a leftover `.part` of each |
| `store_all` | nothing dangles, replay reproduces the cache and holds a row twice only of a receipt in `beside`, an unlock misses nothing, under every fault; for the loop's handlers alone the shown row is fresh and the last edit wins; implements `AppendLog` | 1 receipt, a value or none; 2 loop handlers, 4 appends and 3 databases, 6 of both together (A, B, A corrections with a reading around them); the same with a clock that steps back, 3 appends, 2 databases; and one of them beside a thread, 3 appends, 2 databases, with requeues |
| `feeds_all` | replay gives the claims the cache gives, an unlock misses nothing, the newest claim stands, pages show the rows unless the last projection was stale | 2 processes, 3 appends, 3 databases, `rebuild`, locks and kills: 1 transaction, its correction and 1 account with 2 contents and 2 payloads in turn; 1 transaction at once, over 2 databases |
| `imports_two` | nothing leaves the inbox unsealed; what is archived is in the log | 2 imports, 2 overlapping exports and one no dialect claims, 1 path, 2 databases, locks and kills |
| `planner_days` | windows fit, holes come first, every sync learns a day, the budget is kept | span 3, overlap 1, backfill 4, budget 1, `--since` up to a day ahead, outages: 5 days and 3 windows of a store that stays unlocked; 4 days and 2 windows with locks and evenings |
| `keys_gate` | nobody is given the identity after its deadline, a closed store holds nothing that was decrypted, whoever connects to it, an unlock that succeeds leaves the store open | 2 processes, unlocks of 2 ticks and a clock of 4, so that two deadlines pass; 3 inodes for the lock file; kills anywhere |
| `worker_queue` | no nudge is lost; once server, cache and model server stay, every receipt with no unreadable one before it is read | 3 receipts, the second perhaps unreadable; back-offs of 2 and 3, a wait of 1 |
| `backup_mirror` | what a run listed is whole from its end on, comes with what it is about, and opens | 1 receipt with its blob and a correction, 2 processes that init or back up, 2 keys, 1 kill |
| `runtime_dir` | an agent finds a whole workspace, and finds one until the next lock; a lock leaves only what somebody was writing; a page that is read is whole; the cache keeps its budget | 2 processes, each a builder or a renderer, 3 pages for a budget of 1, 1 lock, 1 kill |
| `pages_owner` | a form shows afterwards what was sent, and changes nothing but the edit; a ledger without a flag can be built and, when its charges are dated and called alike, adds up; equal charges are neither lost nor doubled | 4 readings (one failed, one empty, one with a nameless line), 2 reads, 2 forms of any field; a feed and an export without ids, 2 charges that are equal or not, 4 transactions, 2 of them told of otherwise than usual, every order of the keys, 1 correction |
| `store_aba`, `planner_quarter` | the findings of section 5 | the smallest that show them |

`store_all`, `feeds_all` and `planner_days` explore two or three ways to use the system, each from initial
states of its own (the variable `usage` of `MCStore`, `MCFeeds` and `MCPlanner`, which never changes): the union of them is small
where everything at once is not, and every invariant is checked of all. `LoopIsFresh` and
`LoopKeepsTheLastEdit` are about the first of `MCStore` only, since a thread does break the one (section
5) and a clock that steps back the other. A type invariant is checked by
the runs of `Runtime` and `Pages` only: of every module it is proved (`TypeCorrect`,
`RuntimeTypeCorrect`, `PagesTypeCorrect`). `Runtime` and `Keys` are the two halves of one directory, and nothing of the one reads what
is in the other but the gate, so `KeysProofs` extends both and the names of `Runtime` are its own.

Why these are enough. A receipt's or a transaction's behaviour does not depend on another one (no
query of the path joins two), so one of each, with all handlers on it, is where interleavings meet;
two values tell a claim from a different one, and three or four appends allow A, B, A. Two actors are
enough for a pair of steps in the wrong order, and each pair of handlers is among the choices of the
two. `planner_days` scales the code's 45, 5, 400 and 20 down and keeps their order: an outage can be
shorter than a span or longer, and three windows leave a hole between two of them with one more
before or after. `PlannerProofs` then drops all of these numbers. `planner_quarter` needs more days,
since the hole has to age past the span, and one poll a day. In `keys_gate` every fault of the flock
takes a process that removes and one that does not; three inodes are one held by each and one new.
`backup_mirror` and `runtime_dir` have a victim and an intruder for every pair of steps; one kill leaves
what one kill can, and a second one is excused by the histories. A third page makes an eviction choose.
In `pages_owner` a second reading is what a screen can be overtaken by, and a second form is what
would append the lines again; two charges and two natives are the smallest ledger in which a pair is one
charge told twice or two charges told once.

Only `Worker` assumes fairness, and weak fairness is enough: of the loop's own task (asyncio runs a task
that is ready), of time, and of the nudge of a route that has committed. The model call always ends,
by its time-out if by nothing else. Nothing is assumed of the model server or of the user, so
`QueueDrains` has the premise that server, cache and model server stay as they should from some point
on. Three receipts are one before and one after the one that may be unreadable. All other properties are safety or box-action
properties.

## 4. Proofs

The provers check every leaf of `SealedLogProofs`, `StoreProofs`, `FeedsProofs`, `ImportsProofs`,
`PlannerProofs`, `KeysProofs`, `WorkerProofs` and `BackupProofs`, for every value of the constants that satisfies the module's assumption. No theorem
uses a symmetry or a bound of a `.cfg`; `Stamp`, `MaxGen` and `Inode` bound the counters but may be
any set or number.

**`SealedLogProofs`.** No hypothesis: the properties speak of `Alone`, any set of bodies; outside it
they fail (section 5). The inductive invariant adds four facts to the properties. `Apart`:
no inode is referred to, by a name or a descriptor, for the sake of two bodies, and of a body of
`Alone` the `.part` is not the published file; without it a racing writer could write into another
body's file. `OneWriter`: no two writers in the middle of one body of `Alone`. `Progress`: such a writer
that has a descriptor has opened the inode its `.part` name points to, torn until the write and whole
after it, and its body is not published yet. `SomeFile`: a writer past its open has a `.part` or somebody
has published it. From it: `PublishedIsWhole`, `AddedStays`, `LosersLostToSomebody`,
`FirstObservationKept`, and `FilesImplementTable`, whose refinement maps a published inode to the
observation it holds: `Rename` is the table's `Append` and every other step a stutter. The refinement is
stated of the table's steps (`Table!Init` and each step of the log a `Table!Next` or a stutter), since
the table has no more to its specification.

**`StoreProofs`.** Four layers, each inductive given the ones below.

- `TInv` is `TypeOK` and the fact that a handler that is not idle holds a task. It gives
  `TypeCorrect`; the work is in showing that the projection of any rows is a view.
- `Safe` adds `NothingDangles`, `Handlers` and `Snapshot`. `NothingDangles` alone is not inductive:
  a handler holds events it has yet to append and rows it has yet to insert, an unlock a list of
  events it read earlier. `Handlers` says that what a handler holds is about one receipt that is
  sealed and logged, and that a receipt it found in a database is still there while the database is;
  `Snapshot` that what there was when an unlock began is still in the log and holds no event without its
  receipt.
  `Safe` gives `NothingEverDangles`, `LogImplementsTable` and `UnlockMissesNothing`.
- `Mirrored` adds the two halves of `ReplayReproducesCache` and what they need on the way:
  `RowsLogged` (a row outside drift is the event of the log with the log's stamp), `PutsLogged` (so
  is a row about to be inserted), `LogCovered` (an event is a row, or held by the handler that
  appended it, or was there when an unlock under way began); and `Once`, for the rows that are there
  twice. Stamps are handed out once, so that no two handlers hold one row (`Dated`, `Apart`); what a
  handler appended while an unlock was replaying into its database, and any row that is in that database
  before the unlock is through, is of a receipt in `beside` (`PutsBeside`, `RowsBeside`); so a row can
  come to be there a second time only of these (`TwiceBeside`). It gives `CacheIsReplay`.
- `Looping` is about the first way to use `MCStore`, the event loop by itself with kills, locks and
  unlocks. `OneAtATime`: of the handlers only one is between two awaits. `Turn`: such a handler has
  something to project, what it read of the rows is what they are, and a receipt it appended beside an
  unlock is none of those the unlock read (`KnownIsNew` is the same of the rows). Hence `ShownIsFresh`: what
  is shown is the projection of the rows unless a handler owes one, which is `LoopShowsTheRows`. A thread
  breaks it (section 5) because it reads beside others. `EditsInv` (`LastIsWanted`): the latest correction in
  the log has the value last sent, which needs a clock that does not step back. With `Mirrored` it gives
  `TheLastEditStays`.

**`FeedsProofs`.** The names of the log and the keys of the cache differ: several events are one row
(`SameKey`), and the first of them that was appended becomes it (`FirstOf`). The inductive invariant has
three parts.

- `BaseInv`: types and the steps of the processes (`TInv`), `LogInv` (no two events of the log have one
  stamp, and none is later than the clock) and `ProcInv` (a connection
  to the present database is of an open store, what a poll begins with is empty, and the list of an unlock
  is the log cut off at some stamp and whole below it).
- `CacheInv`: outside drift, a row is the first of its key in the log and has its stamp (`RowsAreFirst`),
  there is one row of a key (`OneRow`), what a process is about to insert is that first event or has its
  row already (`PendingIsFirst`), and an event of the log has its row, or one of its key is about to be
  inserted, or an unlock has it on its list (`Covered`). At rest the rows are then, key for key, what a
  replay would make: `ClaimsAreReplayed`.
- `LastInv`: outside `repeated`, the last claim made of a subject is the content of the latest first event
  about it (`Tops`). Events that repeat another are why it is not the latest event. With `CacheInv` it
  gives `NewestIsClaimed`; for balances, which are ordered by rowid, up to `Overtaken`.

`UnlockMissesNothing` needs types only. `Fresh` says that pages are the projection of the rows whenever
nobody is projecting and the last to do so was not stale; it gives `PagesShowTheRows`.

**`PlannerProofs`.** The work is in the pure part. `ReachOf` says what the loop arrives at: the least
end of a window that every window beginning no later ends by. It is found through the least element
of a set of integers (`LeastOf`, `GreatestOf`, by well-founded induction on the distance to a bound),
which is why days are bounded by constants. From it `BeforeReachAsked` and `ReachIsHole` (every day
from the first window to the reach was asked for, and the reach itself was not if any window ends
later; the first window must not end before it begins, `InOrder`), `FirstHole` and `GapIs` (unless a hole
is lost or the history begins backwards, `_first_gap` returns a window that begins at the first hole and
has no asked day). `FirstOf` is the first window, by the same well-founded induction, since windows sort by two
numbers. That what is planned fits needs no such premise. `PlanFits`, `PlanLearns` and `PlanTakesFirstHole` put the three
branches together. The inductive invariant is `TypeOK`, `Sealed` (what is
asked for and what the log has fits) and `Recorded` (so does what the cache has), from which what is
planned does. It gives `TypeCorrect`, `WindowsAlwaysFit`, `SyncsLearn`
and `HolesComeFirst`, for every span, overlap, backfill and budget.

`BudgetKept` is not inductive: what was spent has to be compared with what the next sync will count.
`Counts` says that, while the count is not blind, what was spent today is at most the polls counted
today, by the log and by the cache of an open store, and the syncs in flight that began today
(`InFlight`). A sync that asks adds itself to both sides, an answer moves from the second summand to
the first. A plan is made only when less than the budget is counted, and fewer than all processes are
in flight when one of them begins: hence `BudgetIsKept`, for any budget and any finite number of
processes.

**`KeysProofs`.** All four invariants of `keys_gate`, for any number of processes. `Shape` ties what a
process holds to where it is and gives one lock to one process. While no intrusion is remembered,
`Guarded` says that an unlock under way has the lock file that is there and nobody else is removing;
it is preserved because a new lock file can only be made when the old one is unlinked, and whoever
unlinks it is an intruder or the unlock itself. From it, two unlocks are never under way at once, so
`InOrder`: what an unlock has written so far is still there. `Wiped`: who overwrote the identity does
not find another behind it, which is why overwriting first makes it harmless that the deadline may be
unlinked before the identity. `Dated` is `GivenInTime` with the fact it rests on, that a settled
identity has the deadline of the last unlock; `Swept` is `ClosedIsEmpty` for a store that somebody is
still removing: what is left of what was decrypted (`Plain`) is in the listing of a removal. Who connects
makes no more of it (`ConnectsTo`). They give `TypeCorrect`,
`NobodyIsLate`, `LockLeavesNothing` and `UnlockSucceeds`.

About `Runtime`, all six invariants of `runtime_dir`, for any number of builders, renderers and receipts and
any budget (`RInv`). `SoloBuilds`: a build that no other and no lock has run beside is alone with
staging, and staging is what it has written so far; `WholeIsListed`: a lock that removes has found all of
a workspace made alone, or it could leave a half of it. They give `BuildsAreWhole`. `BuildsStay` is inductive
once a lock is known to have closed the gate. `WritersAreLate`: while the gate is closed
whoever is at it was at it when the lock began; `RestIsLate`: what a removal has not found is theirs.
They give `LocksLeaveTheLate`. `Owned`: whoever has a page open is about to write it or was killed there, and
a page that is not whole is open; it gives `RendersAreWhole`. `RendersFit` needs that `newer` is a finite order
(`Aged`), so that among the files an eviction spares one is the oldest and the budget holds the rest
with it (`Oldest`, by well-foundedness), and `Room`: beyond the budget each renderer has one image there at
most, and none yet while it is about to write it.

**`WorkerProofs`.** `NudgeIsNotLost` is not inductive, since the wait begins with whatever the event is
then. `Remembered` extends it from the wait to every place but the one between the wait's end and the
query, where the event has been cleared and the queue not yet read. `TypeCorrect` needs that the
oldest receipt of a queue that is not empty exists (by well-foundedness) and that doubling stays
between the first back-off and the limit; `rid` is bounded by `known`, or a read could not be said to
be of a receipt of the cache. `QueueDrains` is liveness and model-checked only.

About `Pages`, its two halves. Of the ledger, for any finite sets of natives and charges, any order of
their keys and any number of corrections, the two invariants. What has to be known of a book is little (`LedgerInv`: a
transaction has the key that what is said of it gives, `KeysMatch`, and a correction gives a flow the
owner may give); the work is in what the rows
say. `CountedRight`: rows of equal charges have one fingerprint and nothing else has it, so that they
all find the same first row, and those without a flag are those of its native, one for each charge.
`QuietIsRight`: two rows of one charge that are left without a flag have the same fingerprint, so they are
one row; what it counts is what was spent (`RowCounts`); a charge without a row counts nothing. That two
sums over different sets are then equal is `SumMoved`, from lemmas about what `SumFunction` adds up
in which order (`PartsExist`, `PartsAny`), by induction over the subsets of a finite set. They give
`EqualChargesAreCounted` and `QuietLedgersAddUp`.

Of the receipt, for any readings, any rules, anything the owner may type and any number of forms. The
invariant says that what is in the log are corrections, what is shown is its projection and what is on the
screen was once a row (`ReceiptInv`); the work is in what a fold of corrections makes of a row. The
library's folds and `FlattenSeq` are functions defined by their own values, so that they first have to be
shown to exist (`FoldExists`, `FlatExists`), by induction on the length of a sequence with a set in place
of a predicate (`SequencesByLength`); then a field, a line and the owner's mark on the category are what
the corrections of them say, when these agree, or what they were (`FoldField`, `FoldLine`,
`FoldManual`). That those of one form agree is `SentIs`: a form has one entry for a place. What is not
recorded was so already (`SavedField`), whatever reading the row is from: `WhatWasSentIsShown`. When the
screen is as the row is, only the edit differs from it (`ChangesAre`), so that every field and every line
is as it was or as edited (`SavedFields`, `SavedItems`), a line whose name was cleared is the one that is
left out (`SavedKept`, `AtButOne`), and the category moves only with the edit or with a merchant the rules
know: `OnlyTheEditIsSaved`. `PagesTypeCorrect` follows from what is known of a row (`RowOK`, `KeptOK`).

**`ImportsProofs`.** For any folder, any exports however they share records, any number of imports and
databases. `Hashed`: a process that is at a file finds there what it hashed, or nothing, since nobody
saves over it; so what it puts away under a hash has that hash. `Listed`: what was parsed is an export of
some dialect, the one that was hashed, and each of its records is in the log or still on the list.
`Polled`: a claim, in a database or in the list of an unlock, comes from a poll event, and so does every
removal of an export of some dialect. `Complete`: what was polled is in the log with its records, or
somebody is recording it, or was killed at it. None of the two properties is inductive: a file goes away
two steps after it was looked at, on the word of a database that another process filled. They give
`TypeCorrect`, `NothingEverVanishes` and `ArchivedIsRecorded`.

**`BackupProofs`.** All three invariants of `backup_mirror`, for any number of receipts, runs, identities
and kills. `Placed` ties the locals of a run to where it is. `Closing` says how far what a run has listed
is closed: corrections with their receipts after the first tree, receipts with their blobs after the
second, and while the first is listed every sealed receipt is on the list or a stray; it gives
`MirrorStaysClosed`. `Mirrored(f)` is about all runs at once: a copy with its end and without its beginning
has somebody about to write the beginning; what a run has dealt with has its end, or somebody is writing
it; what is saved is whole and nobody is at it. It is preserved by a kill only if no other run had dealt
with the file, which is `muddled`. It gives `BackedUpStaysWhole`, where a run that ends alone finds nobody
writing. `Keys` says that one init at a time runs and only before there is an identity, and that
everything sealed opens with the identity, with the key an init is about to write or with a dead one; it
gives `EverythingStaysOpen`.

TLC checked each of these invariants on the bounds of the runs before it was proved.

Not proved, and why: liveness (`QueueDrains`) and ENABLED are outside the prover. Every other property of a
passing run is stated by a theorem.

## 5. Where code and documentation part

Found by a run:

1. `store_aba`: a correction to A, to B and to A again is shown as A until the next unlock and as B
   after it, because the digest leaves the time out and the third edit appends nothing.
2. `planner_quarter`: once a hole has aged past the floor, `_first_gap` sees it inside windows that
   were answered, and syncs ask for these again instead of the tail. With the code's own numbers, after
   100 nights without a sync no new day is asked for from the third night on until the 85th.

Met while modelling. Most are visible in the excuses of the properties, or in what a model assumes or
leaves out, rather than in a run of their own:

- Two writers of one body share the `.part` name, and a half-written event can be published, against
  `seal.py:117-119`. The same race lets one writer rename over the other's published event, against
  `ledger.py:3-4`. (The properties of `SealedLog` are about `Alone`.)
- The poll event, which claims the file, is sealed before the records (`service.py:294`). An import
  made while locked and killed in between is claimed by the next unlock's replay, and the next import
  archives the file without its records, against `drop.py:16-21`. (`killed` of `Imports`.)
- A receipt that cannot be read is taken first at every tick, also when it was deleted, and no later one
  is read by the worker until `spend extract` reads it (`worker.py:72`, against `worker.py:6-8`).
  (`bad` in `QueueDrains`.)
- `POST /r/<id>/reextract` (`api.py:248`) writes a row that no event carries, so the log and the cache
  differ until the next unlock, against `keys.py:170-171`. (`drift` of `Store`.)
- Two threads, or two commands, that reproject the same rows can leave the older projection
  (`service.py:170` and `:351`): the reads are outside the transaction. (`LoopIsFresh` of `Store`
  is checked for the event loop only; `stale` of `Feeds`.)
- A transaction observed as A, as B and as A again keeps B: the third observation is no new row
  (`service.py:328` against `feed.py:169-171`). (`repeated` of `Feeds`.)
- Balances are ordered by rowid (`store.py:390`), everything else by stamp: an unlock that races a
  sync can show an older balance. (`Overtaken`.)
- A file saved over another while it is imported is archived under the name of the first.
  (`Drop` of `Imports` assumes it away.)
- The budget does not see polls made in the evening (`cli.py:671` plans by the local date, a poll is
  dated by UTC) nor any made while locked, against `base.py:174-176`. (`blind` of `Planner`.)
- An unlock killed between identity and deadline (`keys.py:162-164`) leaves an identity that never
  expires: a missing deadline is read as one that has not passed (`keys.py:123-125`), against
  "this is the authority" (`keys.py:135-137`). (`undated` of `Keys`.)
- The expiry path of `require_identity` removes without the lock file, and a removal unlinks the lock
  file it holds, so that the next command locks another inode. A reader that sees a new identity with
  the old deadline wipes the unlock under way; `shared()` (`keys.py:227`), which is documented as held
  by everything long-lived, is never taken. (`intrusion` of `Keys`.)
- `_arm_relock` uses one unit name, so the second of two unlocks cannot arm its timer while the first
  one's is pending (`cli.py:205`), and that one locks the store before the deadline that was printed.
- Asking for another read of a receipt that has been read does nothing: the row that is inserted is not a
  successful reading, but the queue holds receipts that have none, and this one keeps the one it had
  (`api.py:241-250` against `store.py:203-208`).
- A form sends every line that is shown, and every saved line is a correction of its number: after a line
  was removed, the numbers that are shown are not those the model gave, and of three lines A, B, C the
  removal of A and a second save make B, C, C (`service.py:207-208`, `detail.html:60`). For the same
  reason a correction of a line applies to another one after a new reading. (`NumberedAsShown` of `Pages`.)
- A form loaded before a reading came clears what the reading said, and makes the category the owner's.
- A reading that succeeded and is empty is shown as waiting to be read, and is never in the queue.
- A row without a date has a month of its own in the workspace's files (`workspace.py:365`), but its
  database has `date TEXT NOT NULL` (`workspace.py:67`): one pending transaction without a date and
  `spend agent build` fails. (`Builds` of `FeedProject`.)
- The items of deleted receipts stay in the workspace (`workspace.py:200-204`).
- The build reads five tables, each in a transaction of its own, and two builds share `agent.tmp`; between
  the two renames there is no workspace. (`crossed` and `gap` of `Runtime`.)
- `vanished` is always 0 (`feed.py:205`), against `0002_feeds.sql:215`.
- An export without ids that restates a description makes a second transaction of the charge, and
  `drop.py:232-234` says that "is what `duplicate_suspect` exists to surface"; but `mark_duplicates` flags
  no row that looks like one of its own native (`feed.py:302`), and one that is restated does not even look
  like it, so both count and nothing asks to be looked at. Nor does the flag see two natives that call a
  charge differently, since the merchant in its key is made of each one's own payee or description
  (`feed.py:184-185`), or date it differently, or a merchant that was corrected. It does look at deleted
  rows, and not at a native that tells fewer of several equal charges. (`alike` in `QuietMeansRight`, `Clean`
  of `Pages`.)
- An unlock lists the log while handlers write to the database it will replay into (`replay.py:153-159`):
  an event that it meets late and that its handler has inserted is inserted once more, since extractions
  and corrections have no key (`store.py:151-174`), against "replay reproduces the cache" (`replay.py:9-10`).
  What a page shows is the same, two equal rows having one stamp. (`twice` and `beside` of `Store`.)
- `store.connect` makes directory and database wherever there are none, and asks for no identity
  (`store.py:62-65`): any page, a tick of the worker (`worker.py:68`) and a server that starts
  (`api.py:53-55`, with its tables) do so in a store that is locked. After such a start uploads are kept
  there in plaintext, against "gone at lock" (`docs/encryption.md:23`), until the next unlock, whose database
  is a new one, or lock. (`Connect`, `Serve`, `Keep` of `Keys`, `OpenEmpty` of `Store`.)
- `--since` with a day to come asks for a window that ends before it begins: `cli.py:660-662` takes any date
  and `base.py:60-62` refuses only what is too wide. If it is answered and is the first of all in the
  history, `_first_gap` begins where it ends and finds what begins where it began beyond its reach, so that
  days that were answered are asked for again. (`Backward` of `Planner`.)
- `identity.age` is written anew in the mirror at every run (`backup.py:71-77`), against "nothing here is
  ever rewritten" (`backup.py:12`); a run killed there leaves it cut. (`Cut` of `Backup`.)
- Two runs at once, one of them killed, can leave a copy of the right size with a hole, which is never made
  again, against `backup.py:14-17`. (`muddled` of `Backup`.)
- An `init` killed between the two files leaves recipients without an identity: whatever is sealed before
  the next `init` cannot be opened (`keys.py:86`). (`dead` of `Backup`.)
- A text of the render cache cut short by a kill is taken as it is. (`cut` of `Runtime`.)
- Who is still writing at a lock makes the runtime directory again and leaves plaintext there until the
  next lock. (`late` of `Runtime`.)
- `--backfill` and the 400 days of `BACKFILL_DAYS` never reach back more than one span
  (`base.py:187-188` against `docs/bank-feeds.md:129`): `Before` is cut at what the bank answers for.

## 6. Plan

Done: `SealedLog`, `Store`, `Feeds`, `Imports`, `Planner`, `Keys`, `Worker`, `Backup`, `Runtime`, `Project`,
`FeedProject`, `Pages`, and the proofs about `SealedLog`, `Store`, `Feeds`, `Imports`, `Planner`, `Keys`,
`Runtime`, `Worker`, `Backup` and `Pages`. What the runs check and no theorem states is liveness.

Not to be modelled: the cryptography, prompts and HTTP of the model client, image scaling and OCR
layout, templates, bank dialects of CSV and OFX, configuration parsing, and commands that only read
(`doctor`, `verify`, `feeds log`).
