------------------------------ MODULE SealedLog ------------------------------
(***************************************************************************)
(* seal.seal_to and ledger.append at the level of directory entries and    *)
(* inodes: several writers, each appending one event at a time, killed at  *)
(* any point.                                                              *)
(*                                                                         *)
(* An event of body n is published as the file named after the hash of n.  *)
(* It is written under that name with `.part' added -- one name for every  *)
(* writer -- and renamed.  A name in a directory points at an inode; a     *)
(* writer holds its inode open across the rename, whoever renames it.      *)
(***************************************************************************)
EXTENDS Naturals

CONSTANTS
  Name,       \* bodies, and so file names (ledger.digest)
  Obs,        \* what a writer observes beside the body: `at' and `aside'
  Writer,     \* processes and threads that append
  Inode,      \* inodes the file system can hand out; a bound of the model
  Alone,      \* bodies no two writers are ever appending at the same time
  Torn,       \* empty, half written, or two writers' bytes in one file
  None

ASSUME SealedLogAssumption ==
  /\ None \notin Obs
  /\ Torn \notin [name: Name, obs: Obs] \cup {None}
  /\ None \notin [name: Name, obs: Obs]
  /\ None \notin Inode
  /\ Alone \subseteq Name

VARIABLES
  final,      \* final[n]: the inode published as event n, or None
  part,       \* part[n]: the inode under the `.part' name of n, or None
  bytes,      \* bytes[i]: the record inode i holds whole, or Torn, or None
  pc,         \* pc[w]: where writer w is in seal_to
  name,       \* name[w]: the body w is appending
  obs,        \* obs[w]: the observation w will seal with it
  fd          \* fd[w]: the inode w has open for writing

vars == <<final, part, bytes, pc, name, obs, fd>>

Steps == {"idle", "open", "write", "rename", "added", "present", "failed"}
Busy(w) == pc[w] \in {"open", "write", "rename"}

TypeOK ==
  /\ final \in [Name -> Inode \cup {None}]
  /\ part \in [Name -> Inode \cup {None}]
  /\ bytes \in [Inode -> [name: Name, obs: Obs] \cup {Torn, None}]
  /\ pc \in [Writer -> Steps]
  /\ name \in [Writer -> Name \cup {None}]
  /\ obs \in [Writer -> Obs \cup {None}]
  /\ fd \in [Writer -> Inode \cup {None}]
  /\ \A w \in Writer :
       /\ pc[w] # "idle" => name[w] \in Name /\ obs[w] \in Obs
       /\ (fd[w] # None) <=> (pc[w] \in {"write", "rename"})

Init ==
  /\ final = [n \in Name |-> None]
  /\ part = [n \in Name |-> None]
  /\ bytes = [i \in Inode |-> None]
  /\ pc = [w \in Writer |-> "idle"]
  /\ name = [w \in Writer |-> None]
  /\ obs = [w \in Writer |-> None]
  /\ fd = [w \in Writer |-> None]

-----------------------------------------------------------------------------
\* Mutant: the exists() check dropped.
Begin_NoCheck(w, n, o) ==
  /\ ~Busy(w)
  /\ n \in Alone => \A v \in Writer : ~(Busy(v) /\ name[v] = n)
  /\ name' = [name EXCEPT ![w] = n]
  /\ obs' = [obs EXCEPT ![w] = o]
  /\ pc' = [pc EXCEPT ![w] = "open"]
  /\ UNCHANGED <<final, part, bytes, fd>>

\* ledger.append and the first lines of seal_to: the record is stamped, then
\* the published name is looked up; an event already there is not rewritten.
Begin(w, n, o) ==
  /\ ~Busy(w)
  /\ n \in Alone => \A v \in Writer : ~(Busy(v) /\ name[v] = n)
  /\ name' = [name EXCEPT ![w] = n]
  /\ obs' = [obs EXCEPT ![w] = o]
  /\ pc' = [pc EXCEPT ![w] = IF final[n] = None THEN "open" ELSE "present"]
  /\ UNCHANGED <<final, part, bytes, fd>>

\* open(tmp, "wb"): truncates the inode the `.part' name points at, makes one
\* when there is none.
OpenNew(w, i) ==
  /\ pc[w] = "open"
  /\ part[name[w]] = None
  /\ bytes[i] = None
  /\ part' = [part EXCEPT ![name[w]] = i]
  /\ bytes' = [bytes EXCEPT ![i] = Torn]
  /\ fd' = [fd EXCEPT ![w] = i]
  /\ pc' = [pc EXCEPT ![w] = "write"]
  /\ UNCHANGED <<final, name, obs>>

\* Mutant: a `.part' left by a killed writer is taken to be complete.
OpenExisting_Resume(w) ==
  /\ pc[w] = "open"
  /\ part[name[w]] # None
  /\ fd' = [fd EXCEPT ![w] = part[name[w]]]
  /\ pc' = [pc EXCEPT ![w] = "rename"]
  /\ UNCHANGED <<final, part, bytes, name, obs>>

OpenExisting(w) ==
  /\ pc[w] = "open"
  /\ part[name[w]] # None
  /\ bytes' = [bytes EXCEPT ![part[name[w]]] = Torn]
  /\ fd' = [fd EXCEPT ![w] = part[name[w]]]
  /\ pc' = [pc EXCEPT ![w] = "write"]
  /\ UNCHANGED <<final, part, name, obs>>

\* write, flush, fsync.  Over a file another writer has filled since this one
\* opened it, the result is this record, or this record followed by the tail
\* of a longer one, which does not decrypt.
Write(w) ==
  /\ pc[w] = "write"
  /\ \E b \in {[name |-> name[w], obs |-> obs[w]]}
              \cup (IF bytes[fd[w]] = Torn THEN {} ELSE {Torn}) :
       bytes' = [bytes EXCEPT ![fd[w]] = b]
  /\ pc' = [pc EXCEPT ![w] = "rename"]
  /\ UNCHANGED <<final, part, name, obs, fd>>

\* tmp.rename(dest): whatever inode the `.part' name points at now, over
\* whatever the published name pointed at; append returns is_new = True.
Rename(w) ==
  /\ pc[w] = "rename"
  /\ part[name[w]] # None
  /\ final' = [final EXCEPT ![name[w]] = part[name[w]]]
  /\ part' = [part EXCEPT ![name[w]] = None]
  /\ pc' = [pc EXCEPT ![w] = "added"]
  /\ fd' = [fd EXCEPT ![w] = None]
  /\ UNCHANGED <<bytes, name, obs>>

\* The same rename when another writer has already moved the file away.
RenameFails(w) ==
  /\ pc[w] = "rename"
  /\ part[name[w]] = None
  /\ pc' = [pc EXCEPT ![w] = "failed"]
  /\ fd' = [fd EXCEPT ![w] = None]
  /\ UNCHANGED <<final, part, bytes, name, obs>>

\* Mutant: a handler that cleans up its `.part' on the way out.
Crash_RemovesPart(w) ==
  /\ Busy(w)
  /\ pc' = [pc EXCEPT ![w] = "idle"]
  /\ fd' = [fd EXCEPT ![w] = None]
  /\ part' = [part EXCEPT ![name[w]] = None]
  /\ UNCHANGED <<final, bytes, name, obs>>

\* The process is killed.  A write under way may leave anything in its inode.
Crash(w) ==
  /\ Busy(w)
  /\ pc' = [pc EXCEPT ![w] = "idle"]
  /\ fd' = [fd EXCEPT ![w] = None]
  /\ \/ UNCHANGED bytes
     \/ pc[w] = "write" /\ bytes' = [bytes EXCEPT ![fd[w]] = Torn]
  /\ UNCHANGED <<final, part, name, obs>>

Next ==
  \E w \in Writer :
    \/ \E n \in Name, o \in Obs : Begin(w, n, o)
    \/ \E i \in Inode : OpenNew(w, i)
    \/ OpenExisting(w)
    \/ Write(w)
    \/ Rename(w)
    \/ RenameFails(w)
    \/ Crash(w)

Spec == Init /\ [][Next]_vars

-----------------------------------------------------------------------------
\* ledger.read: what a reader of the published file gets.
Visible(n) == IF final[n] = None THEN None ELSE bytes[final[n]]

\* A published name opens, and as the record it claims.
IsWhole(n) == final[n] # None => bytes[final[n]] \in [name: {n}, obs: Obs]

(***************************************************************************)
(* A half-written sealed file is impossible to observe (seal.seal_to), of  *)
(* the bodies that are not raced for: what a race does to one file never   *)
(* reaches the file of another body.  Of a body that is, it can be.        *)
(***************************************************************************)
NoHalfFileAlone == \A n \in Alone : IsWhole(n)

(***************************************************************************)
(* Never renamed over (ledger): what a reader could once get under a name  *)
(* it gets for ever, so the first observation of an event is the one kept. *)
(***************************************************************************)
FirstObservationStands ==
  [][\A n \in Alone : final[n] # None => Visible(n)' = Visible(n)]_vars

(***************************************************************************)
(* An append that answered is_new = True put its own record in the log,    *)
(* and a later crash of anybody does not take it out again.                *)
(***************************************************************************)
AddedIsThere ==
  \A w \in Writer : pc[w] = "added" /\ name[w] \in Alone =>
    Visible(name[w]) = [name |-> name[w], obs |-> obs[w]]

(***************************************************************************)
(* A writer whose rename finds the `.part' gone lost a race against an     *)
(* append of the same body: a file of that name is in the log.             *)
(***************************************************************************)
LoserFindsItThere ==
  \A w \in Writer : pc[w] = "failed" => final[name[w]] # None

(***************************************************************************)
(* The files implement the append-only table: publishing is its Append,    *)
(* every other step -- a crash, a leftover `.part' reused, a race on some  *)
(* other body -- is invisible.                                             *)
(***************************************************************************)
Kept == [n \in Alone |-> IF final[n] = None THEN None ELSE bytes[final[n]].obs]
Table == INSTANCE AppendLog WITH Name <- Alone, log <- Kept
TableSpec == Table!Spec
=============================================================================
