------------------------------- MODULE Imports -------------------------------
(***************************************************************************)
(* Exports dropped in a folder: `spend feeds import' claims a file by its  *)
(* bytes, records what is in it, seals it and removes it.                  *)
(*                                                                         *)
(* The file is read three times, to hash it, to parse it and to seal it,   *)
(* and another import may have removed it each time.  Whether it was       *)
(* imported is a question to the cache, whose rows are committed after     *)
(* every event is in the log; but an unlock replays an event whether or    *)
(* not those after it were ever appended.                                  *)
(*                                                                         *)
(* A record is one observation, as in Feeds; exports may overlap.          *)
(***************************************************************************)
EXTENDS Naturals

CONSTANTS
  Path,       \* where files lie in the inbox
  Export,     \* what they hold, named by its hash
  Recognised, \* the exports some dialect claims
  Rec,        \* records
  RecordsIn,  \* RecordsIn[e]: the records of export e
  Proc,       \* processes that import
  MaxGen,     \* how many databases there may be
  Faults,     \* what may happen beside, a subset of AllFaults
  None

AllFaults == {"lock", "crash"}

ASSUME ImportsAssumption ==
  /\ Recognised \subseteq Export
  /\ RecordsIn \in [Export -> SUBSET Rec]
  /\ None \notin Export
  /\ None \notin Proc
  /\ MaxGen \in Nat
  /\ Faults \subseteq AllFaults

MaybeExport == Export \cup {None}

VARIABLES
  inbox,      \* inbox[f]: what lies at path f, or None
  aside,      \* aside[e]: what was moved to unrecognised/ under the hash e
  blobs,      \* blobs[e]: what was sealed under the hash e
  polled,     \* the exports of which a poll event is in the log
  recorded,   \* the records of which an event is in the log
  open,       \* the identity is in place and there is a database
  gen,        \* which database that is
  claimed,    \* claimed[g]: file_sha256 of the feed_polls of database g
  holder,     \* the process in a write transaction on it, or None
  replaying,  \* the unlock under way: the polls it read from the log
  pc, task,   \* where each process is, and its locals
  dropped,    \* history: the exports that ever lay in the inbox
  killed      \* history: those of which a process was killed between the
              \* poll event and the last record

files == <<inbox, aside, blobs>>
log == <<polled, recorded>>
cache == <<open, gen, claimed, holder>>
history == <<dropped, killed>>
vars == <<inbox, aside, blobs, polled, recorded, open, gen, claimed, holder, replaying,
          pc, task, dropped, killed>>

Idle == [conn |-> FALSE, gen |-> 0, left |-> {}, path |-> None, hash |-> None,
         read |-> None, todo |-> {}]
Task == [conn: BOOLEAN, gen: 0..MaxGen, left: SUBSET Path, path: Path \cup {None},
         hash: MaybeExport, read: MaybeExport, todo: SUBSET Rec]
Place == {"idle", "hash", "parse", "aside", "poll", "begin", "append", "commit", "seal",
          "unlink"}

TypeOK ==
  /\ inbox \in [Path -> MaybeExport]
  /\ aside \in [Export -> MaybeExport]
  /\ blobs \in [Export -> MaybeExport]
  /\ polled \subseteq Export
  /\ recorded \subseteq Rec
  /\ open \in BOOLEAN
  /\ gen \in 0..MaxGen
  /\ claimed \in [0..MaxGen -> SUBSET Export]
  /\ holder \in Proc \cup {None}
  /\ replaying \in [on: BOOLEAN, snap: SUBSET Export, gen: 0..MaxGen]
  /\ pc \in [Proc -> Place]
  /\ task \in [Proc -> Task]
  /\ dropped \subseteq Export
  /\ killed \subseteq Export

Init ==
  /\ inbox = [f \in Path |-> None]
  /\ aside = [e \in Export |-> None]
  /\ blobs = [e \in Export |-> None]
  /\ polled = {}
  /\ recorded = {}
  /\ open = FALSE
  /\ gen = 0
  /\ claimed = [g \in 0..MaxGen |-> {}]
  /\ holder = None
  /\ replaying = [on |-> FALSE, snap |-> {}, gen |-> 0]
  /\ pc = [p \in Proc |-> "idle"]
  /\ task = [p \in Proc |-> Idle]
  /\ dropped = {}
  /\ killed = {}

-----------------------------------------------------------------------------
Goto(p, next) == pc' = [pc EXCEPT ![p] = next]

Finish(p) ==
  /\ pc' = [pc EXCEPT ![p] = "idle"]
  /\ task' = [task EXCEPT ![p] = Idle]

\* p holds a connection, and to the present database.
Current(p) == task[p].conn /\ task[p].gen = gen

\* What lies where p is importing from.
Here(p) == inbox[task[p].path]

\* An export is saved in the inbox.  Assumed of whoever saves it: not over
\* another one, nor under the name an import is at.
Drop(f, e) ==
  /\ inbox[f] = None
  /\ \A p \in Proc : task[p].path # f
  /\ inbox' = [inbox EXCEPT ![f] = e]
  /\ dropped' = dropped \cup {e}
  /\ UNCHANGED <<aside, blobs, log, cache, replaying, pc, task, killed>>

\* cli.cmd_feeds_import: the inbox is listed.
Import(p) ==
  /\ pc[p] = "idle"
  /\ \E f \in Path : inbox[f] # None
  /\ task' = [task EXCEPT ![p] =
       [Idle EXCEPT !.conn = open, !.gen = gen, !.left = {f \in Path : inbox[f] # None}]]
  /\ Goto(p, "hash")
  /\ UNCHANGED <<files, log, cache, replaying, history>>

\* store.feed_poll_for_file; without a connection nobody can tell.
IsClaimed(p, e) == task[p].conn /\ e \in claimed[task[p].gen]

\* Mutant: a file that was imported need not be sealed.
Hash_NoSeal(p) ==
  /\ pc[p] = "hash"
  /\ \E f \in task[p].left :
       IF inbox[f] = None THEN Finish(p)
       ELSE /\ task' = [task EXCEPT ![p].path = f, ![p].hash = inbox[f]]
            /\ Goto(p, IF IsClaimed(p, inbox[f]) THEN "unlink" ELSE "parse")
  /\ UNCHANGED <<files, log, cache, replaying, history>>

\* The next file is hashed, and claimed by its bytes.  A file that is gone
\* raises, and the command ends.
Hash(p) ==
  /\ pc[p] = "hash"
  /\ \E f \in task[p].left :
       IF inbox[f] = None THEN Finish(p)
       ELSE /\ task' = [task EXCEPT ![p].path = f, ![p].hash = inbox[f]]
            /\ Goto(p, IF IsClaimed(p, inbox[f]) THEN "seal" ELSE "parse")
  /\ UNCHANGED <<files, log, cache, replaying, history>>

\* drop.read_file: the file is read again.  One that is gone is an error as
\* one no dialect claims is.
Parse(p) ==
  /\ pc[p] = "parse"
  /\ IF Here(p) \in Recognised
       THEN /\ task' = [task EXCEPT ![p].read = Here(p), ![p].todo = RecordsIn[Here(p)]]
            /\ Goto(p, "poll")
       ELSE /\ Goto(p, "aside")
            /\ UNCHANGED task
  /\ UNCHANGED <<files, log, cache, replaying, history>>

\* The rest of the list, or the end.
NextFile(p) ==
  LET left == task[p].left \ {task[p].path}
  IN  IF left = {} THEN Finish(p)
      ELSE /\ task' = [task EXCEPT ![p] =
                [Idle EXCEPT !.conn = task[p].conn, !.gen = task[p].gen, !.left = left]]
           /\ Goto(p, "hash")

\* drop.archive, unrecognised: a rename, which raises if the file is gone; not
\* done if the name is taken.
SetAside(p) ==
  /\ pc[p] = "aside"
  /\ IF aside[task[p].hash] # None THEN NextFile(p) /\ UNCHANGED <<inbox, aside>>
     ELSE IF Here(p) = None THEN Finish(p) /\ UNCHANGED <<inbox, aside>>
     ELSE /\ aside' = [aside EXCEPT ![task[p].hash] = Here(p)]
          /\ inbox' = [inbox EXCEPT ![task[p].path] = None]
          /\ NextFile(p)
  /\ UNCHANGED <<blobs, log, cache, replaying, history>>

-----------------------------------------------------------------------------
\* service.record_poll: the poll event is sealed, with the hash of what was
\* parsed ...
Poll(p) ==
  /\ pc[p] = "poll"
  /\ polled' = polled \cup {task[p].read}
  /\ Goto(p, "begin")
  /\ UNCHANGED <<files, recorded, cache, replaying, task, history>>

\* ... its row begins a transaction, if there is a connection ...
Begin(p) ==
  /\ pc[p] = "begin"
  /\ Current(p) => holder = None
  /\ holder' = IF Current(p) THEN p ELSE holder
  /\ Goto(p, IF task[p].todo = {} THEN "commit" ELSE "append")
  /\ UNCHANGED <<files, log, open, gen, claimed, replaying, task, history>>

\* Mutant: a record that is known ends the list.
Append_Known(p) ==
  /\ pc[p] = "append"
  /\ \E r \in task[p].todo :
       /\ recorded' = recorded \cup {r}
       /\ task' = [task EXCEPT ![p].todo = @ \ {r}]
       /\ Goto(p, IF task[p].todo = {r} \/ r \in recorded THEN "commit" ELSE "append")
  /\ UNCHANGED <<files, polled, cache, replaying, history>>

\* ... then the records, one event each ...
Append(p) ==
  /\ pc[p] = "append"
  /\ \E r \in task[p].todo :
       /\ recorded' = recorded \cup {r}
       /\ task' = [task EXCEPT ![p].todo = @ \ {r}]
       /\ Goto(p, IF task[p].todo = {r} THEN "commit" ELSE "append")
  /\ UNCHANGED <<files, polled, cache, replaying, history>>

\* ... and the transaction is committed.
Commit(p) ==
  /\ pc[p] = "commit"
  /\ claimed' = IF task[p].conn
                  THEN [claimed EXCEPT ![task[p].gen] = @ \cup {task[p].read}]
                  ELSE claimed
  /\ holder' = IF holder = p THEN None ELSE holder
  /\ Goto(p, "seal")
  /\ UNCHANGED <<files, log, open, gen, replaying, task, history>>

\* drop.archive: the file is read once more and sealed under the first hash ...
Seal(p) ==
  /\ pc[p] = "seal"
  /\ IF Here(p) = None THEN Finish(p) /\ UNCHANGED blobs
     ELSE /\ blobs' = [blobs EXCEPT ![task[p].hash] = IF @ = None THEN Here(p) ELSE @]
          /\ Goto(p, "unlink")
          /\ UNCHANGED task
  /\ UNCHANGED <<inbox, aside, log, cache, replaying, history>>

\* ... and whatever is there now is removed.
Unlink(p) ==
  /\ pc[p] = "unlink"
  /\ inbox' = [inbox EXCEPT ![task[p].path] = None]
  /\ NextFile(p)
  /\ UNCHANGED <<aside, blobs, log, cache, replaying, history>>

\* p is killed, or another process kept the write lock past busy_timeout.
Crash(p) ==
  /\ "crash" \in Faults
  /\ pc[p] # "idle"
  /\ killed' = IF pc[p] \in {"begin", "append"} THEN killed \cup {task[p].read} ELSE killed
  /\ holder' = IF holder = p THEN None ELSE holder
  /\ Finish(p)
  /\ UNCHANGED <<files, log, open, gen, claimed, replaying, dropped>>

-----------------------------------------------------------------------------
\* keys.lock.
Lock ==
  /\ "lock" \in Faults
  /\ open
  /\ gen < MaxGen
  /\ open' = FALSE
  /\ gen' = gen + 1
  /\ holder' = None
  /\ UNCHANGED <<files, log, claimed, replaying, pc, task, history>>

\* cli.cmd_unlock: an empty database, and the log is read ...
UnlockScan ==
  /\ ~replaying.on
  /\ gen < MaxGen
  /\ open' = TRUE
  /\ gen' = gen + 1
  /\ holder' = None
  /\ replaying' = [on |-> TRUE, snap |-> polled, gen |-> gen + 1]
  /\ UNCHANGED <<files, log, claimed, pc, task, history>>

\* ... and replayed.
UnlockFinish ==
  /\ replaying.on
  /\ replaying.gen = gen => holder = None
  /\ claimed' = [claimed EXCEPT ![replaying.gen] = @ \cup replaying.snap]
  /\ replaying' = [on |-> FALSE, snap |-> {}, gen |-> 0]
  /\ UNCHANGED <<files, log, open, gen, holder, pc, task, history>>

UnlockKilled ==
  /\ "crash" \in Faults
  /\ replaying.on
  /\ replaying' = [on |-> FALSE, snap |-> {}, gen |-> 0]
  /\ UNCHANGED <<files, log, cache, pc, task, history>>

Next ==
  \/ \E f \in Path, e \in Export : Drop(f, e)
  \/ \E p \in Proc :
       \/ Import(p) \/ Hash(p) \/ Parse(p) \/ SetAside(p) \/ Poll(p) \/ Begin(p)
       \/ Append(p) \/ Commit(p) \/ Seal(p) \/ Unlink(p) \/ Crash(p)
  \/ Lock
  \/ UnlockScan
  \/ UnlockFinish
  \/ UnlockKilled

Spec == Init /\ [][Next]_vars

-----------------------------------------------------------------------------
\* e was dropped and is not in the inbox any more.
Gone(e) == e \in dropped /\ \A f \in Path : inbox[f] # e

Recording(e) == \E p \in Proc : task[p].read = e /\ pc[p] \in {"begin", "append"}

(***************************************************************************)
(* Nothing leaves the inbox but into a sealed blob of its own name or into *)
(* unrecognised/ (drop.archive), whoever imports beside or is killed.      *)
(***************************************************************************)
NothingVanishes ==
  \A e \in Export : Gone(e) => blobs[e] = e \/ aside[e] = e

(***************************************************************************)
(* "Sealed first, moved second" (cli.cmd_feeds_import): an export that is  *)
(* gone has its records in the log, unless a process recording it was      *)
(* killed, or one still is at it.  The poll event, which claims the file,  *)
(* is sealed before them, so a kill in between can lose them.              *)
(***************************************************************************)
ArchivedIsRecordedUnlessKilled ==
  \A e \in Recognised \ killed : Gone(e) /\ ~Recording(e) => RecordsIn[e] \subseteq recorded
=============================================================================
