------------------------------- MODULE Backup -------------------------------
(***************************************************************************)
(* spend init (keys.init), the sealing of what it makes possible, and      *)
(* spend backup (backup.py), which copies sealed files while others are    *)
(* sealed.  A sealed file appears whole and never changes (SealedLog), so  *)
(* that only the copy of one has parts.  A key stands for the pair that    *)
(* init generates: what is sealed for it opens with the identity that has  *)
(* it.  The paper key and recipients.txt in the mirror are left out.       *)
(***************************************************************************)
EXTENDS Naturals, Sequences, FiniteSets

CONSTANTS Photo,    \* receipts, each a blob, an event and a correction
          Proc,     \* processes: spend init, spend backup, the nightly timer
          MaxKey,   \* bound: identities generated
          MaxKill,  \* bound: processes killed
          None, Cut \* no such file; a file truncated and not yet written

Key  == 1..MaxKey
Kind == {"blob", "receipt", "edit"}
File == Kind \X Photo
Part == 1..2                    \* a copy is made in two writes

ASSUME BackupAssumption ==
  /\ MaxKey \in Nat /\ MaxKill \in Nat
  /\ None \notin Key /\ Cut \notin Key /\ None # Cut
  /\ \A parts \in SUBSET Part : None # parts

VARIABLES
  recipients, identity,  \* the key in each of the two files of the config directory
  sealed,                \* [File -> the key it is sealed for]
  mirror,                \* [File -> the parts that were written, holes left out]
  mirrorId,              \* config/identity.age of the mirror
  task,                  \* what each process is doing
  used, kills,           \* identities generated, processes killed
  dead, raced,           \* history: keys whose init was killed before its identity; two inits at once
  saved,                 \* history: what a backup that ended with no other under way had listed
  muddled,               \* history: copies cut by a kill when another run had dealt with the file
  strays                 \* history: receipts sealed while a run was listing

vars == <<recipients, identity, sealed, mirror, mirrorId, task, used, kills, dead, raced, saved, muddled, strays>>
config  == <<recipients, identity, used, dead, raced>>
copy    == <<mirror, mirrorId, saved, muddled>>
sources == <<sealed, strays>>

Idle == [pc |-> "idle", key |-> None, tree |-> 1, todo |-> {}, listed |-> {}, file |-> None, part |-> 1]
Stage == {"idle", "recipients", "identity", "list", "copy", "open", "write", "keys", "key"}
Task == [pc : Stage, key : Key \cup {None}, tree : 1..2, todo : SUBSET File, listed : SUBSET File,
         file : File \cup {None}, part : Part]

Busy(p)    == task[p].pc # "idle"
Initing(p) == task[p].pc \in {"recipients", "identity"}
Copying(p) == Busy(p) /\ ~Initing(p)
Becomes(p, t) == task' = [task EXCEPT ![p] = t]

Init ==
  /\ recipients = None /\ identity = None /\ used = 0 /\ kills = 0 /\ dead = {} /\ raced = FALSE
  /\ sealed = [f \in File |-> None] /\ strays = {}
  /\ mirror = [f \in File |-> None] /\ mirrorId = None /\ saved = {} /\ muddled = {}
  /\ task = [p \in Proc |-> Idle]

-----------------------------------------------------------------------------
(* spend init. The check is made again after the passphrase was typed, just *)
(* before the keys are generated; that one counts.                          *)

\* Mutant: without the second check.
BeginInit_Unguarded(p) ==
  /\ ~Busy(p) /\ used < MaxKey
  /\ used' = used + 1
  /\ Becomes(p, [Idle EXCEPT !.pc = "recipients", !.key = used'])
  /\ raced' = (raced \/ \E q \in Proc : Initing(q))
  /\ UNCHANGED <<recipients, identity, kills, dead, copy, sources>>

BeginInit(p) ==
  /\ ~Busy(p) /\ used < MaxKey
  /\ identity = None
  /\ used' = used + 1
  /\ Becomes(p, [Idle EXCEPT !.pc = "recipients", !.key = used'])
  /\ raced' = (raced \/ \E q \in Proc : Initing(q))
  /\ UNCHANGED <<recipients, identity, kills, dead, copy, sources>>

WriteRecipients(p) ==
  /\ task[p].pc = "recipients"
  /\ recipients' = task[p].key
  /\ Becomes(p, [task[p] EXCEPT !.pc = "identity"])
  /\ UNCHANGED <<identity, used, kills, dead, raced, copy, sources>>

WriteIdentity(p) ==
  /\ task[p].pc = "identity"
  /\ identity' = task[p].key
  /\ Becomes(p, Idle)
  /\ UNCHANGED <<recipients, used, kills, dead, raced, copy, sources>>

\* Two inits share the .part of each file, and the one that comes second may find it renamed away.
RenameRaises(p) ==
  /\ Initing(p) /\ raced
  /\ Becomes(p, Idle)
  /\ UNCHANGED <<recipients, identity, used, kills, dead, raced, copy, sources>>

-----------------------------------------------------------------------------
(* Sealing, by any process: the blob before its event (ingest_bytes), the   *)
(* receipt before a correction of it.  The recipients are read each time.   *)

Needs(f) == CASE f[1] = "blob"    -> {}
              [] f[1] = "receipt" -> {<<"blob", f[2]>>}
              [] f[1] = "edit"    -> {<<"receipt", f[2]>>}

Seal(f) ==
  /\ recipients # None /\ sealed[f] = None
  /\ \A g \in Needs(f) : sealed[g] # None
  /\ sealed' = [sealed EXCEPT ![f] = recipients]
  /\ strays' = IF f[1] = "receipt" /\ \E p \in Proc : task[p].pc = "list" THEN strays \cup {f} ELSE strays
  /\ UNCHANGED <<config, kills, copy, task>>

-----------------------------------------------------------------------------
(* spend backup                                                             *)

\* Mutant: the blobs before the log.
Trees_BlobsFirst == <<{"blob"}, {"receipt", "edit"}>>

\* The log before the blobs.
Trees == <<{"receipt", "edit"}, {"blob"}>>

In(tree) == {f \in File : f[1] \in Trees[tree] /\ sealed[f] # None}

\* Mutant: a file that is there is not made again.
SizeIsRight_Exists(f) == mirror[f] # None

\* The size of a copy that has a last part is right, whatever its holes.
SizeIsRight(f) == mirror[f] # None /\ 2 \in mirror[f]

Whole(f) == mirror[f] = Part

\* Without a log directory the run raises; there is nothing to copy then.
Begin(p) ==
  /\ ~Busy(p)
  /\ Becomes(p, [Idle EXCEPT !.pc = "list", !.todo = In(1)])
  /\ UNCHANGED <<config, kills, copy, sources>>

\* sorted(rglob) reads one shard after the other: a file sealed meanwhile is listed or not.
Listed(p) ==
  /\ task[p].pc = "list"
  /\ \E S \in SUBSET (In(task[p].tree) \ task[p].todo) :
       LET all == task[p].todo \cup S IN
       Becomes(p, [task[p] EXCEPT !.pc = "copy", !.todo = all, !.listed = @ \cup all])
  /\ UNCHANGED <<config, kills, copy, sources>>

Look(p) ==
  /\ task[p].pc = "copy"
  /\ \E f \in task[p].todo :
       Becomes(p, [task[p] EXCEPT !.todo = @ \ {f},
                                  !.pc   = IF SizeIsRight(f) THEN "copy" ELSE "open",
                                  !.file = IF SizeIsRight(f) THEN None ELSE f])
  /\ UNCHANGED <<config, kills, copy, sources>>

Open(p) ==
  /\ task[p].pc = "open"
  /\ mirror' = [mirror EXCEPT ![task[p].file] = {}]
  /\ Becomes(p, [task[p] EXCEPT !.pc = "write", !.part = 1])
  /\ UNCHANGED <<config, kills, mirrorId, saved, muddled, sources>>

Write(p) ==
  /\ task[p].pc = "write"
  /\ mirror' = [mirror EXCEPT ![task[p].file] = @ \cup {task[p].part}]
  /\ Becomes(p, IF task[p].part = 1 THEN [task[p] EXCEPT !.part = 2]
                                    ELSE [task[p] EXCEPT !.pc = "copy", !.file = None, !.part = 1])
  /\ UNCHANGED <<config, kills, mirrorId, saved, muddled, sources>>

NextTree(p) ==
  /\ task[p].pc = "copy" /\ task[p].todo = {}
  /\ Becomes(p, IF task[p].tree = 1 THEN [task[p] EXCEPT !.pc = "list", !.tree = 2, !.todo = In(2)]
                                    ELSE [task[p] EXCEPT !.pc = "keys"])
  /\ UNCHANGED <<config, kills, copy, sources>>

\* Unlike the sealed files, the identity is opened for writing at every run.
OpenIdentity(p) ==
  /\ task[p].pc = "keys" /\ identity # None
  /\ mirrorId' = Cut
  /\ Becomes(p, [task[p] EXCEPT !.pc = "key"])
  /\ UNCHANGED <<config, kills, mirror, saved, muddled, sources>>

Ended(p) ==
  /\ saved' = IF \E q \in Proc \ {p} : Copying(q) THEN saved ELSE saved \cup task[p].listed
  /\ Becomes(p, Idle)

CopyIdentity(p) ==
  /\ task[p].pc = "key"
  /\ mirrorId' = identity
  /\ Ended(p)
  /\ UNCHANGED <<config, kills, mirror, muddled, sources>>

NoIdentity(p) ==
  /\ task[p].pc = "keys" /\ identity = None
  /\ Ended(p)
  /\ UNCHANGED <<config, kills, mirror, mirrorId, muddled, sources>>

\* Killed anywhere, or failing (a full disk). What it had open stays as it is.
Kill(p) ==
  /\ Busy(p) /\ kills < MaxKill
  /\ kills' = kills + 1
  /\ dead' = IF Initing(p) THEN dead \cup {task[p].key} ELSE dead
  /\ muddled' = LET f == task[p].file IN
       IF /\ task[p].pc = "write"
          /\ 2 \in mirror[f] \/ \E q \in Proc \ {p} : f \in task[q].listed \ task[q].todo
       THEN muddled \cup {f} ELSE muddled
  /\ Becomes(p, Idle)
  /\ UNCHANGED <<recipients, identity, used, raced, mirror, mirrorId, saved, sources>>

Next ==
  \/ \E f \in File : Seal(f)
  \/ \E p \in Proc :
       \/ BeginInit(p) \/ WriteRecipients(p) \/ WriteIdentity(p) \/ RenameRaises(p)
       \/ Begin(p) \/ Listed(p) \/ Look(p) \/ Open(p) \/ Write(p) \/ NextTree(p)
       \/ OpenIdentity(p) \/ CopyIdentity(p) \/ NoIdentity(p)
       \/ Kill(p)

Spec == Init /\ [][Next]_vars

-----------------------------------------------------------------------------
\* Every variable has its type.
TypeOK ==
  /\ {recipients, identity} \subseteq Key \cup {None} /\ used \in 0..MaxKey /\ kills \in 0..MaxKill
  /\ sealed \in [File -> Key \cup {None}]
  /\ mirror \in [File -> (SUBSET Part) \cup {None}] /\ mirrorId \in Key \cup {None, Cut}
  /\ task \in [Proc -> Task]
  /\ dead \subseteq Key /\ raced \in BOOLEAN
  /\ saved \subseteq File /\ muddled \subseteq File /\ strays \subseteq File

\* What a backup has listed is whole in the mirror from its end on (backup.py:17-23), with earlier
\* runs killed and with runs beside it, unless the copy was cut short when two runs dealt with it:
\* such a copy may have the right size and a hole, and is then never made again.
BackedUpIsWhole == \A f \in saved \ muddled : Whole(f)

\* What a backup has listed can be replayed from the mirror: an event comes with what it is about,
\* a receipt with its blob, however many are sealed while the run goes on. Only the receipt of a
\* correction may be missing if it was sealed during the listing, until the next run.
MirrorIsClosed == \A f \in saved : \A g \in Needs(f) : g \in saved \/ (f[1] = "edit" /\ g \in strays)

\* The identity opens what is sealed (keys.py:70-76), and the one in the mirror what is mirrored,
\* unless an init was killed between its two files or two were under way at once.
EverythingOpens ==
  raced \/ \A f \in File : sealed[f] # None =>
    /\ identity # None => sealed[f] \in {identity} \cup dead
    /\ mirrorId \in Key => sealed[f] \in {mirrorId} \cup dead
=============================================================================
