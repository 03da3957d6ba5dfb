--------------------------------- MODULE Keys ---------------------------------
(***************************************************************************)
(* The runtime directory: the identity, its deadline, the decrypted cache  *)
(* and the lock file, and the commands that make and remove them.          *)
(*                                                                         *)
(* `spend unlock' and `spend lock' hold the lock file.  A reader passes    *)
(* require_identity, which removes everything when the deadline has        *)
(* passed, and holds nothing.  Removing is shutil.rmtree: the names that   *)
(* were there when it looked, one by one, the lock file among them, and    *)
(* then the directory if nothing is left in it.                            *)
(*                                                                         *)
(* store.connect makes directory and database again when they are not      *)
(* there, and asks for no identity: every page, tick and start of the      *)
(* server does, of a locked store too.                                     *)
(***************************************************************************)
EXTENDS Naturals

CONSTANTS
  Proc,       \* processes, and threads of the server
  LockFile,   \* inodes the lock file may have; a bound
  TTL,        \* how long an unlock lasts
  MaxNow,     \* bounds the clock
  None

\* The cache: connected to, and no more; with a schema; with rows of what was
\* sent since; with what the log decrypts to.
Cache == {"empty", "migrated", "written", "replayed"}

ASSUME KeysAssumption ==
  /\ TTL \in Nat \ {0}
  /\ MaxNow \in Nat
  /\ None \notin LockFile
  /\ None \notin Nat
  /\ None \notin {"secret", "zeroed"} \cup Cache

Time == 0..(MaxNow + TTL)

\* The names in the directory; `part' is the identity's before the rename.
Name == {"identity", "part", "expires", "cache", "lock"}
Content(n) ==
  CASE n = "identity" -> {"secret", "zeroed"}
    [] n = "part" -> {"secret"}
    [] n = "expires" -> Time
    [] n = "cache" -> Cache
    [] n = "lock" -> LockFile

VARIABLES
  now,        \* the clock
  dir,        \* the directory exists
  file,       \* file[n]: what is in it under the name n, or None
  pc, task,   \* where each process is, and its locals
  due,        \* history: the last deadline an unlock gave itself
  fault       \* history: what went wrong since the directory was last scanned to be
              \* removed

vars == <<now, dir, file, pc, task, due, fault>>

Faults == {"intrusion", "undated", "litter"}

Runs(op, i) == [op |-> op, lock |-> i, left |-> {}, checked |-> 0]
Idle == Runs("none", None)
Task == [op: {"none", "unlock", "lock", "read"}, lock: LockFile \cup {None},
         left: SUBSET Name, checked: 0..MaxNow]

Clearing == {"zero", "scan", "unlink", "rmdir"}
Unlocking == {"prompt", "publish", "date", "gate", "check", "load", "fresh", "replay", "done"}

TypeOK ==
  /\ now \in 0..MaxNow
  /\ dir \in BOOLEAN
  /\ \A n \in Name : file[n] \in Content(n) \cup {None}
  /\ DOMAIN file = Name
  /\ pc \in [Proc -> {"idle"} \cup Clearing \cup Unlocking]
  /\ task \in [Proc -> Task]
  /\ due \in Time
  /\ fault \subseteq Faults

Empty == [n \in Name |-> None]

Init ==
  /\ now = 0
  /\ dir = FALSE
  /\ file = Empty
  /\ pc = [p \in Proc |-> "idle"]
  /\ task = [p \in Proc |-> Idle]
  /\ due = 0
  /\ fault = {}

-----------------------------------------------------------------------------
UnderWay(p) == task[p].op = "unlock" /\ pc[p] \in Unlocking

\* p removes things and does not hold the lock file there is.
Unguarded(p) == pc[p] \in Clearing /\ (task[p].lock = None \/ task[p].lock # file["lock"])

Intrusion == \E p, q \in Proc : p # q /\ UnderWay(p) /\ Unguarded(q)

\* What is remembered of a step, beside F.
Remember(F) == fault' = F \cup (IF Intrusion' THEN {"intrusion"} ELSE {})

Goto(p, next) == pc' = [pc EXCEPT ![p] = next]

\* p ends, and the kernel lets go of its lock.
Finish(p) ==
  /\ pc' = [pc EXCEPT ![p] = "idle"]
  /\ task' = [task EXCEPT ![p] = Idle]

Held(i) == \E p \in Proc : task[p].lock = i

\* Mutant: LOCK_SH.
Exclusive_Shared(p, op, next) ==
  /\ pc[p] = "idle"
  /\ dir' = TRUE
  /\ \E i \in LockFile :
       /\ IF file["lock"] = None THEN ~Held(i) ELSE i = file["lock"]
       /\ file' = [file EXCEPT !["lock"] = i]
       /\ task' = [task EXCEPT ![p] = Runs(op, i)]
  /\ Goto(p, next)
  /\ UNCHANGED <<now, due>>
  /\ Remember(fault)

\* keys.exclusive: the lock file is opened, made if there is none, and locked.
\* A file that another process has locked is Busy, and ends the command.
Exclusive(p, op, next) ==
  /\ pc[p] = "idle"
  /\ dir' = TRUE
  /\ \E i \in LockFile :
       /\ ~Held(i)
       /\ file["lock"] \in {None, i}
       /\ file' = [file EXCEPT !["lock"] = i]
       /\ task' = [task EXCEPT ![p] = Runs(op, i)]
  /\ Goto(p, next)
  /\ UNCHANGED <<now, due>>
  /\ Remember(fault)

\* cli.cmd_unlock asks for the passphrase; cli.cmd_lock goes ahead.
Unlock(p) == Exclusive(p, "unlock", "prompt")
Lock(p) == Exclusive(p, "lock", "zero")

-----------------------------------------------------------------------------
(* keys.unlock: each file is written beside its name and renamed.          *)

\* The passphrase does not open the identity.
WrongPassphrase(p) ==
  /\ pc[p] = "prompt"
  /\ Finish(p)
  /\ UNCHANGED <<now, dir, file, due>>
  /\ Remember(fault)

WriteIdentity(p) ==
  /\ pc[p] = "prompt"
  /\ dir' = TRUE
  /\ file' = [file EXCEPT !["part"] = "secret"]
  /\ Goto(p, "publish")
  /\ UNCHANGED <<now, task, due>>
  /\ Remember(fault)

PublishIdentity(p) ==
  /\ pc[p] = "publish"
  /\ IF file["part"] = None THEN Finish(p) /\ UNCHANGED file
     ELSE /\ file' = [file EXCEPT !["identity"] = "secret", !["part"] = None]
          /\ Goto(p, "date")
          /\ UNCHANGED task
  /\ UNCHANGED <<now, dir, due>>
  /\ Remember(fault)

\* The file beside it holds a date and is not told apart: see Crash.
WriteDeadline(p) ==
  /\ pc[p] = "date"
  /\ IF ~dir THEN Finish(p) /\ UNCHANGED <<file, due>>
     ELSE /\ file' = [file EXCEPT !["expires"] = now + TTL]
          /\ due' = now + TTL
          /\ Goto(p, "gate")
          /\ UNCHANGED task
  /\ UNCHANGED <<now, dir>>
  /\ Remember(fault \ {"undated"})

\* replay.fresh, with the identity it was given: the cache is unlinked, and
Fresh(p) ==
  /\ pc[p] = "fresh"
  /\ file' = [file EXCEPT !["cache"] = None]
  /\ Goto(p, "replay")
  /\ UNCHANGED <<now, dir, task, due>>
  /\ Remember(fault)

\* made anew, if nobody else did, and replayed into.
Replay(p) ==
  /\ pc[p] = "replay"
  /\ dir' = TRUE
  /\ file' = [file EXCEPT !["cache"] = "replayed"]
  /\ Goto(p, "done")
  /\ UNCHANGED <<now, task, due>>
  /\ Remember(fault)

Release(p) ==
  /\ pc[p] = "done"
  /\ Finish(p)
  /\ UNCHANGED <<now, dir, file, due>>
  /\ Remember(fault)

-----------------------------------------------------------------------------
(* keys.require_identity: the unlock passes it, and every reader.          *)

Gate(p) ==
  /\ pc[p] \in {"idle", "gate"}
  /\ IF file["identity"] = None THEN pc[p] = "gate" /\ Finish(p)
     ELSE /\ Goto(p, "check")
          /\ task' = [task EXCEPT ![p].op = IF @ = "none" THEN "read" ELSE @]
  /\ UNCHANGED <<now, dir, file, due>>
  /\ Remember(fault)

Expired == file["expires"] # None /\ now >= file["expires"]

Check(p) ==
  /\ pc[p] = "check"
  /\ IF Expired THEN Goto(p, "zero") /\ UNCHANGED task
     ELSE /\ Goto(p, "load")
          /\ task' = [task EXCEPT ![p].checked = now]
  /\ UNCHANGED <<now, dir, file, due>>
  /\ Remember(fault)

\* The file is read.  One that is gone, or zeroed, raises.
Load(p) ==
  /\ pc[p] = "load"
  /\ IF file["identity"] = "secret" /\ task[p].op = "unlock"
       THEN Goto(p, "fresh") /\ UNCHANGED task
       ELSE Finish(p)
  /\ UNCHANGED <<now, dir, file, due>>
  /\ Remember(fault)

-----------------------------------------------------------------------------
(* keys.lock. *)

\* Mutant: the bytes are not overwritten.
Zero_Skip(p) ==
  /\ pc[p] = "zero"
  /\ Goto(p, "scan")
  /\ UNCHANGED <<now, dir, file, task, due>>
  /\ Remember(fault)

Zero(p) ==
  /\ pc[p] = "zero"
  /\ file' = IF file["identity"] = None THEN file
             ELSE [file EXCEPT !["identity"] = "zeroed"]
  /\ Goto(p, "scan")
  /\ UNCHANGED <<now, dir, task, due>>
  /\ Remember(fault)

\* Nobody adds to what is there, and no reader is given it.
AllKnown == file["identity"] # "secret" /\ \A q \in Proc : ~UnderWay(q)

\* Mutant: what unlock writes is removed, by name.
Scan_Named(p) ==
  /\ pc[p] = "scan"
  /\ task' = [task EXCEPT ![p].left = {n \in Name \ {"part"} : file[n] # None}]
  /\ Goto(p, "unlink")
  /\ UNCHANGED <<now, dir, file, due>>
  /\ Remember(IF AllKnown THEN {} ELSE fault)

Scan(p) ==
  /\ pc[p] = "scan"
  /\ task' = [task EXCEPT ![p].left = {n \in Name : file[n] # None}]
  /\ Goto(p, "unlink")
  /\ UNCHANGED <<now, dir, file, due>>
  /\ Remember(IF AllKnown THEN {} ELSE fault)

\* In any order; one that is gone already is no error.
Unlink(p) ==
  /\ pc[p] = "unlink"
  /\ \E n \in task[p].left :
       /\ file' = [file EXCEPT ![n] = None]
       /\ task' = [task EXCEPT ![p].left = @ \ {n}]
       /\ Goto(p, IF task[p].left = {n} THEN "rmdir" ELSE "unlink")
  /\ UNCHANGED <<now, dir, due>>
  /\ Remember(fault)

\* Nothing was left to unlink, or all of it was; rmdir fails on what came since.
\* Who else was unlinking has a descriptor of this directory, not of the next one.
Rmdir(p) ==
  /\ pc[p] = "rmdir" \/ (pc[p] = "unlink" /\ task[p].left = {})
  /\ dir' = (dir /\ file # Empty)
  /\ pc' = [pc EXCEPT ![p] = "idle"]
  /\ task' = [q \in Proc |-> IF q = p THEN Idle
                           ELSE IF dir' THEN task[q] ELSE [task[q] EXCEPT !.left = {}]]
  /\ UNCHANGED <<now, file, due>>
  /\ Remember(fault)

-----------------------------------------------------------------------------
(* store.connect, which nothing gates.                                     *)

Make(cache) ==
  /\ dir' = TRUE
  /\ file' = [file EXCEPT !["cache"] = cache]
  /\ UNCHANGED <<now, pc, task, due, fault>>

\* A page of the server, or a tick of its worker.
Connect ==
  /\ file["cache"] = None
  /\ Make("empty")

\* The server starts, and migrates.
Serve ==
  /\ file["cache"] \in {None, "empty"}
  /\ Make("migrated")

\* An upload, of which the row is kept.
Keep ==
  /\ file["cache"] = "migrated"
  /\ Make("written")

-----------------------------------------------------------------------------
\* p is killed.  What it wrote stays, its lock does not.
Crash(p) ==
  /\ pc[p] # "idle"
  /\ Finish(p)
  /\ UNCHANGED <<now, dir, file, due>>
  /\ Remember(CASE pc[p] = "date" -> fault \cup {"undated"}
                [] pc[p] \in Clearing \cup {"publish"} -> fault \cup {"litter"}
                [] OTHER -> fault)

Tick ==
  /\ now < MaxNow
  /\ now' = now + 1
  /\ UNCHANGED <<dir, file, pc, task, due, fault>>

Next ==
  \/ \E p \in Proc :
       \/ Unlock(p) \/ Lock(p)
       \/ WrongPassphrase(p) \/ WriteIdentity(p) \/ PublishIdentity(p) \/ WriteDeadline(p)
       \/ Fresh(p) \/ Replay(p) \/ Release(p)
       \/ Gate(p) \/ Check(p) \/ Load(p)
       \/ Zero(p) \/ Scan(p) \/ Unlink(p) \/ Rmdir(p)
       \/ Crash(p)
  \/ Connect \/ Serve \/ Keep
  \/ Tick

Spec == Init /\ [][Next]_vars

-----------------------------------------------------------------------------
(***************************************************************************)
(* The deadline is the authority (require_identity): who is given the      *)
(* identity passed the gate before it.  An unlock killed before it wrote   *)
(* its deadline leaves an identity that has none, and so may a lock        *)
(* that unlinks in the middle of an unlock.                                *)
(***************************************************************************)
GivenInTime ==
  fault \cap {"intrusion", "undated"} = {} =>
    \A p \in Proc : pc[p] = "load" /\ file["identity"] = "secret" =>
      task[p].checked < due \/ \E q \in Proc : pc[q] = "date"

(***************************************************************************)
(* The cache is "gone at lock" (encryption.md): without an identity, and   *)
(* with nobody at work on it, there is nothing the log was decrypted to    *)
(* and no identity under another name, but after a kill or an intrusion.   *)
(* A cache there may be, made since by who connected, with what was sent   *)
(* since.                                                                  *)
(***************************************************************************)
ClosedIsEmpty ==
  /\ fault = {}
  /\ file["identity"] # "secret"
  /\ \A p \in Proc : ~UnderWay(p) /\ pc[p] \notin Clearing
  => file["cache"] # "replayed" /\ file["part"] = None

(***************************************************************************)
(* An unlock that succeeds leaves the store open with a deadline of its    *)
(* own (cmd_unlock prints it), if nobody intruded.                         *)
(***************************************************************************)
UnlockOpens ==
  "intrusion" \notin fault =>
    \A p \in Proc : pc[p] = "done" =>
      /\ file["identity"] = "secret" /\ file["cache"] = "replayed"
      /\ file["expires"] = due
=============================================================================
