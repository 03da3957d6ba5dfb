---------------------------- MODULE BackupProofs ----------------------------
(***************************************************************************)
(* Proofs about Backup, for any number of receipts, processes, identities  *)
(* and kills.                                                              *)
(***************************************************************************)
EXTENDS Backup, TLAPS

-----------------------------------------------------------------------------
(* The inductive invariant.                                                *)

At(p, f) == task[p].pc \in {"open", "write"} /\ task[p].file = f
Writes(p, f) == task[p].pc = "write" /\ task[p].file = f
\* p is about to write the first part of f.
WritesFirst(p, f) == Writes(p, f) /\ task[p].part = 1
\* What p has listed and looked at.
Dealt(p) == task[p].listed \ task[p].todo

Copied(f) == mirror[f] # None /\ 2 \in mirror[f]
NoHole(f) == mirror[f] # None /\ 1 \in mirror[f]

\* What the locals of p are where it is.
Placed(p) ==
  /\ ~Copying(p) => task[p].listed = {} /\ task[p].todo = {}
  /\ task[p].pc \notin {"idle", "list"} => task[p].todo \subseteq task[p].listed
  /\ IF task[p].pc \in {"open", "write"} THEN task[p].file \in Dealt(p) ELSE task[p].file = None
  /\ task[p].pc = "write" => mirror[task[p].file] # None
  /\ task[p].pc \in {"keys", "key"} => task[p].todo = {} /\ task[p].tree = 2
  /\ Initing(p) => task[p].key \in Key

\* What p has listed is sealed, and is closed as far as it has come.
Closing(p) ==
  /\ \A f \in task[p].listed \cup task[p].todo : sealed[f] # None
  /\ \A f \in task[p].listed : f[1] = "edit" => Needs(f) \subseteq task[p].listed \cup strays
  /\ Copying(p) /\ task[p].tree = 2 =>
       \A f \in task[p].listed : f[1] = "receipt" =>
         Needs(f) \subseteq (IF task[p].pc = "list" THEN task[p].todo ELSE task[p].listed)
  /\ task[p].pc = "list" /\ task[p].tree = 1 =>
       \A f \in File : f[1] = "receipt" /\ sealed[f] # None => f \in task[p].todo \cup strays
  /\ task[p].pc = "list" /\ task[p].tree = 2 => \A f \in task[p].todo : f[1] = "blob"

Closed ==
  /\ \A f \in File : sealed[f] # None => \A g \in Needs(f) : sealed[g] # None
  /\ \A p \in Proc : Closing(p)
  /\ MirrorIsClosed

\* A copy that looks whole has no hole, or someone is about to fill it.
Mirrored(f) ==
  /\ Copied(f) => NoHole(f) \/ \E q \in Proc : WritesFirst(q, f)
  /\ \A p \in Proc : Writes(p, f) /\ task[p].part = 2 =>
       NoHole(f) \/ \E q \in Proc : WritesFirst(q, f)
  /\ \A p \in Proc : f \in Dealt(p) /\ ~At(p, f) => Copied(f) \/ \E q \in Proc : Writes(q, f)
  /\ f \in saved => Whole(f) /\ \A p \in Proc : ~At(p, f)

\* What opens, or will if an init goes on.
Keyed ==
  {identity} \cup dead \cup {task[p].key : p \in {q \in Proc : task[q].pc = "identity"}}

\* One init at a time, before there is an identity; it writes what opens.
Keys ==
  /\ \A p, q \in Proc : Initing(p) /\ Initing(q) => p = q
  /\ \A p \in Proc : Initing(p) => identity = None
  /\ recipients # None => recipients \in Keyed
  /\ \A f \in File : sealed[f] # None => sealed[f] \in Keyed
  /\ mirrorId \in Key => mirrorId = identity

Inv ==
  /\ TypeOK
  /\ \A p \in Proc : Placed(p)
  /\ Closed
  /\ \A f \in File \ muddled : Mirrored(f)
  /\ ~raced => Keys

-----------------------------------------------------------------------------
(* Types.                                                                  *)

LEMMA NeedsAreFiles ==
  ASSUME NEW f \in File
  PROVE  /\ f[1] \in Kind /\ Needs(f) \subseteq File
         /\ \A g \in Needs(f) : f[1] # "blob" /\ (f[1] = "receipt" => g[1] = "blob")
                                 /\ (f[1] = "edit" => g[1] = "receipt")
BY DEF File, Kind, Needs

LEMMA IdleIsTask == Idle \in Task
BY DEF Idle, Task, Stage, Part

\* A process that takes the locals t leaves the others where they are.
LEMMA BecomesIs ==
  ASSUME TypeOK, NEW p \in Proc, NEW t \in Task, Becomes(p, t)
  PROVE  /\ task' \in [Proc -> Task] /\ task'[p] = t
         /\ \A q \in Proc \ {p} : task'[q] = task[q]
BY DEF TypeOK, Becomes

\* What the steps assign to the locals is of their type.
LEMMA TaskUpdates ==
  ASSUME NEW t \in Task
  PROVE  /\ \A k \in Key : [Idle EXCEPT !.pc = "recipients", !.key = k] \in Task
         /\ \A x \in Stage : [t EXCEPT !.pc = x] \in Task
         /\ \A x \in Part : [t EXCEPT !.part = x] \in Task
         /\ [t EXCEPT !.pc = "write", !.part = 1] \in Task
         /\ [t EXCEPT !.pc = "copy", !.file = None, !.part = 1] \in Task
         /\ \A S \in SUBSET File :
              /\ [Idle EXCEPT !.pc = "list", !.todo = S] \in Task
              /\ [t EXCEPT !.pc = "copy", !.todo = S, !.listed = @ \cup S] \in Task
              /\ [t EXCEPT !.pc = "list", !.tree = 2, !.todo = S] \in Task
              /\ \A x \in Stage, f \in File \cup {None} :
                   [t EXCEPT !.todo = S, !.pc = x, !.file = f] \in Task
<1>1. /\ t = [pc |-> t.pc, key |-> t.key, tree |-> t.tree, todo |-> t.todo,
              listed |-> t.listed, file |-> t.file, part |-> t.part]
      /\ t.pc \in Stage /\ t.key \in Key \cup {None} /\ t.tree \in 1..2
      /\ t.todo \in SUBSET File /\ t.listed \in SUBSET File
      /\ t.file \in File \cup {None} /\ t.part \in Part
  BY DEF Task
<1>2. 1 \in Part /\ 2 \in Part /\ 1 \in 1..2 /\ 2 \in 1..2 BY DEF Part
<1>3. ASSUME NEW k \in Key PROVE [Idle EXCEPT !.pc = "recipients", !.key = k] \in Task
  BY <1>2 DEF Idle, Task, Stage
<1>4. ASSUME NEW x \in Stage PROVE [t EXCEPT !.pc = x] \in Task BY <1>1 DEF Task
<1>5. ASSUME NEW x \in Part PROVE [t EXCEPT !.part = x] \in Task BY <1>1 DEF Task
<1>6. /\ [t EXCEPT !.pc = "write", !.part = 1] \in Task
      /\ [t EXCEPT !.pc = "copy", !.file = None, !.part = 1] \in Task
  BY <1>1, <1>2 DEF Task, Stage
<1>7. ASSUME NEW S \in SUBSET File
      PROVE  /\ [Idle EXCEPT !.pc = "list", !.todo = S] \in Task
             /\ [t EXCEPT !.pc = "copy", !.todo = S, !.listed = @ \cup S] \in Task
             /\ [t EXCEPT !.pc = "list", !.tree = 2, !.todo = S] \in Task
  <2>1. [Idle EXCEPT !.pc = "list", !.todo = S] \in Task BY <1>2 DEF Idle, Task, Stage
  <2>2. [t EXCEPT !.pc = "copy", !.todo = S, !.listed = @ \cup S] \in Task
    BY <1>1 DEF Task, Stage
  <2>3. [t EXCEPT !.pc = "list", !.tree = 2, !.todo = S] \in Task
    BY <1>1, <1>2 DEF Task, Stage
  <2>. QED BY <2>1, <2>2, <2>3
<1>8. ASSUME NEW S \in SUBSET File, NEW x \in Stage, NEW f \in File \cup {None}
      PROVE  [t EXCEPT !.todo = S, !.pc = x, !.file = f] \in Task
  BY <1>1 DEF Task
<1>. QED BY <1>3, <1>4, <1>5, <1>6, <1>7, <1>8

\* A step of p other than its init.
Run(p) ==
  \/ Begin(p) \/ Listed(p) \/ Look(p) \/ Open(p) \/ Write(p) \/ NextTree(p)
  \/ OpenIdentity(p) \/ CopyIdentity(p) \/ NoIdentity(p)
Config(p) == BeginInit(p) \/ WriteRecipients(p) \/ WriteIdentity(p) \/ RenameRaises(p)

\* The locals p takes by a step, as values.
LEMMA Becoming ==
  ASSUME TypeOK, NEW p \in Proc
  PROVE  /\ BeginInit(p) => task'[p] = [Idle EXCEPT !.pc = "recipients", !.key = used']
         /\ WriteRecipients(p) => task'[p] = [task[p] EXCEPT !.pc = "identity"]
         /\ WriteIdentity(p) \/ RenameRaises(p) \/ CopyIdentity(p) \/ NoIdentity(p) \/ Kill(p)
              => task'[p] = Idle
         /\ Begin(p) => task'[p] = [Idle EXCEPT !.pc = "list", !.todo = In(1)]
         /\ Listed(p) => \E S \in SUBSET (In(task[p].tree) \ task[p].todo) :
              task'[p] = [task[p] EXCEPT !.pc = "copy", !.todo = task[p].todo \cup S,
                                         !.listed = @ \cup (task[p].todo \cup S)]
         /\ Look(p) => \E f \in task[p].todo :
              task'[p] = [task[p] EXCEPT !.todo = task[p].todo \ {f},
                                         !.pc   = IF SizeIsRight(f) THEN "copy" ELSE "open",
                                         !.file = IF SizeIsRight(f) THEN None ELSE f]
         /\ Open(p) => task'[p] = [task[p] EXCEPT !.pc = "write", !.part = 1]
         /\ Write(p) => task'[p] = IF task[p].part = 1 THEN [task[p] EXCEPT !.part = 2]
                           ELSE [task[p] EXCEPT !.pc = "copy", !.file = None, !.part = 1]
         /\ NextTree(p) => task'[p] = IF task[p].tree = 1
                  THEN [task[p] EXCEPT !.pc = "list", !.tree = 2, !.todo = In(2)]
                  ELSE [task[p] EXCEPT !.pc = "keys"]
         /\ OpenIdentity(p) => task'[p] = [task[p] EXCEPT !.pc = "key"]
         /\ Run(p) \/ Config(p) \/ Kill(p) => \A q \in Proc \ {p} : task'[q] = task[q]
<1>1. task \in [Proc -> Task] BY DEF TypeOK
<1>. HIDE DEF TypeOK
<1>. QED
  BY <1>1
  DEF BeginInit, WriteRecipients, WriteIdentity, RenameRaises, CopyIdentity, NoIdentity, Kill,
      Begin, Listed, Look, Open, Write, NextTree, OpenIdentity, Becomes, Ended, Run, Config

LEMMA LocalsTyped ==
  ASSUME TypeOK, NEW p \in Proc, Run(p) \/ Config(p) \/ Kill(p)
  PROVE  task' \in [Proc -> Task]
<1>1. task[p] \in Task /\ In(1) \in SUBSET File /\ In(2) \in SUBSET File BY DEF TypeOK, In
<1>2. \E t : task' = [task EXCEPT ![p] = t]
  BY DEF BeginInit, WriteRecipients, WriteIdentity, RenameRaises, CopyIdentity, NoIdentity, Kill,
         Begin, Listed, Look, Open, Write, NextTree, OpenIdentity, Becomes, Ended, Run, Config
<1>3. SUFFICES task'[p] \in Task BY <1>2 DEF TypeOK
<1>4. CASE BeginInit(p)
  <2>1. used \in 0..MaxKey /\ MaxKey \in Nat BY BackupAssumption DEF TypeOK
  <2>2. used < MaxKey /\ used' = used + 1 BY <1>4 DEF BeginInit
  <2>3. used' \in Key BY <2>1, <2>2 DEF Key
  <2>4. [Idle EXCEPT !.pc = "recipients", !.key = used'] \in Task BY <1>1, <2>3, TaskUpdates
  <2>5. task'[p] = [Idle EXCEPT !.pc = "recipients", !.key = used'] BY <1>4, Becoming
  <2>. QED BY <2>4, <2>5
<1>5. CASE WriteRecipients(p)
  <2>1. [task[p] EXCEPT !.pc = "identity"] \in Task BY <1>1, TaskUpdates DEF Stage
  <2>2. task'[p] = [task[p] EXCEPT !.pc = "identity"] BY <1>5, Becoming
  <2>. QED BY <2>1, <2>2
<1>6. CASE WriteIdentity(p) \/ RenameRaises(p) \/ CopyIdentity(p) \/ NoIdentity(p) \/ Kill(p)
  <2>1. task'[p] = Idle BY <1>6, Becoming
  <2>. QED BY <2>1, IdleIsTask
<1>7. CASE Begin(p)
  <2>1. [Idle EXCEPT !.pc = "list", !.todo = In(1)] \in Task BY <1>1, TaskUpdates
  <2>2. task'[p] = [Idle EXCEPT !.pc = "list", !.todo = In(1)] BY <1>7, Becoming
  <2>. QED BY <2>1, <2>2
<1>8. CASE Listed(p)
  <2>1. task[p].todo \in SUBSET File BY <1>1 DEF Task
  <2>2. In(task[p].tree) \in SUBSET File BY DEF In
  <2>3. PICK S \in SUBSET (In(task[p].tree) \ task[p].todo) :
          task'[p] = [task[p] EXCEPT !.pc = "copy", !.todo = task[p].todo \cup S,
                                     !.listed = @ \cup (task[p].todo \cup S)]
    BY <1>8, Becoming
  <2>4. task[p].todo \cup S \in SUBSET File BY <2>1, <2>2
  <2>5. [task[p] EXCEPT !.pc = "copy", !.todo = task[p].todo \cup S,
                        !.listed = @ \cup (task[p].todo \cup S)] \in Task
    BY <1>1, <2>4, TaskUpdates
  <2>. QED BY <2>3, <2>5
<1>9. CASE Look(p)
  <2>1. task[p].todo \in SUBSET File BY <1>1 DEF Task
  <2>2. PICK f \in task[p].todo :
          task'[p] = [task[p] EXCEPT !.todo = task[p].todo \ {f},
                                     !.pc   = IF SizeIsRight(f) THEN "copy" ELSE "open",
                                     !.file = IF SizeIsRight(f) THEN None ELSE f]
    BY <1>9, Becoming
  <2> DEFINE x == IF SizeIsRight(f) THEN "copy" ELSE "open"
             g == IF SizeIsRight(f) THEN None ELSE f
             R == task[p].todo \ {f}
  <2>3. x \in Stage /\ g \in File \cup {None} /\ R \in SUBSET File BY <2>1 DEF Stage
  <2>4. task'[p] = [task[p] EXCEPT !.todo = R, !.pc = x, !.file = g] BY <2>2
  <2> HIDE DEF x, g, R
  <2>5. [task[p] EXCEPT !.todo = R, !.pc = x, !.file = g] \in Task BY <1>1, <2>3, TaskUpdates
  <2>. QED BY <2>4, <2>5
<1>10. CASE Open(p)
  <2>1. [task[p] EXCEPT !.pc = "write", !.part = 1] \in Task BY <1>1, TaskUpdates
  <2>2. task'[p] = [task[p] EXCEPT !.pc = "write", !.part = 1] BY <1>10, Becoming
  <2>. QED BY <2>1, <2>2
<1>11. CASE Write(p)
  <2>1. /\ [task[p] EXCEPT !.part = 2] \in Task
        /\ [task[p] EXCEPT !.pc = "copy", !.file = None, !.part = 1] \in Task
    <3>1. 2 \in Part BY DEF Part
    <3>. QED BY <1>1, <3>1, TaskUpdates
  <2>2. task'[p] = IF task[p].part = 1 THEN [task[p] EXCEPT !.part = 2]
                   ELSE [task[p] EXCEPT !.pc = "copy", !.file = None, !.part = 1]
    BY <1>11, Becoming
  <2>. QED BY <2>1, <2>2
<1>12. CASE NextTree(p)
  <2>1. /\ [task[p] EXCEPT !.pc = "list", !.tree = 2, !.todo = In(2)] \in Task
        /\ [task[p] EXCEPT !.pc = "keys"] \in Task
    BY <1>1, TaskUpdates DEF Stage
  <2>2. task'[p] = IF task[p].tree = 1
                     THEN [task[p] EXCEPT !.pc = "list", !.tree = 2, !.todo = In(2)]
                     ELSE [task[p] EXCEPT !.pc = "keys"]
    BY <1>12, Becoming
  <2>. QED BY <2>1, <2>2
<1>13. CASE OpenIdentity(p)
  <2>1. [task[p] EXCEPT !.pc = "key"] \in Task BY <1>1, TaskUpdates DEF Stage
  <2>2. task'[p] = [task[p] EXCEPT !.pc = "key"] BY <1>13, Becoming
  <2>. QED BY <2>1, <2>2
<1>. QED
  BY <1>4, <1>5, <1>6, <1>7, <1>8, <1>9, <1>10, <1>11, <1>12, <1>13 DEF Run, Config

-----------------------------------------------------------------------------
(* The locals p takes by a step, one by one.                               *)

LEMMA InitFields ==
  ASSUME TypeOK, NEW p \in Proc, BeginInit(p)
  PROVE  /\ task'[p].pc = "recipients" /\ task'[p].key = used' /\ task'[p].file = None
         /\ task'[p].listed = {} /\ task'[p].todo = {}
<1>. task[p] \in Task BY DEF TypeOK
<1>1. task'[p] = [Idle EXCEPT !.pc = "recipients", !.key = used']
  BY Becoming
<1>. QED BY <1>1 DEF Idle, Task

LEMMA RecipientsFields ==
  ASSUME TypeOK, NEW p \in Proc, WriteRecipients(p)
  PROVE  /\ task'[p].pc = "identity" /\ task'[p].key = task[p].key
         /\ task'[p].file = task[p].file
         /\ task'[p].listed = task[p].listed /\ task'[p].todo = task[p].todo
<1>. task[p] \in Task BY DEF TypeOK
<1>1. task'[p] = [task[p] EXCEPT !.pc = "identity"]
  BY Becoming
<1>. QED BY <1>1 DEF Idle, Task

LEMMA IdleFields ==
  ASSUME TypeOK, NEW p \in Proc, WriteIdentity(p) \/ RenameRaises(p) \/ CopyIdentity(p) \/ NoIdentity(p) \/ Kill(p)
  PROVE  /\ task'[p].pc = "idle" /\ task'[p].file = None
         /\ task'[p].listed = {} /\ task'[p].todo = {}
<1>. task[p] \in Task BY DEF TypeOK
<1>1. task'[p] = Idle
  BY Becoming
<1>. QED BY <1>1 DEF Idle, Task

LEMMA BeginFields ==
  ASSUME TypeOK, NEW p \in Proc, Begin(p)
  PROVE  /\ task'[p].pc = "list" /\ task'[p].tree = 1 /\ task'[p].file = None
         /\ task'[p].listed = {} /\ task'[p].todo = In(1)
<1>. task[p] \in Task BY DEF TypeOK
<1>1. task'[p] = [Idle EXCEPT !.pc = "list", !.todo = In(1)]
  BY Becoming
<1>. QED BY <1>1 DEF Idle, Task

LEMMA ListedFields ==
  ASSUME TypeOK, NEW p \in Proc, Listed(p)
  PROVE  /\ task'[p].pc = "copy" /\ task'[p].tree = task[p].tree
         /\ task'[p].file = task[p].file
         /\ \E S \in SUBSET In(task[p].tree) :
              /\ task'[p].todo = task[p].todo \cup S
              /\ task'[p].listed = task[p].listed \cup task[p].todo \cup S
<1>. task[p] \in Task BY DEF TypeOK
<1>1. PICK S \in SUBSET (In(task[p].tree) \ task[p].todo) :
        task'[p] = [task[p] EXCEPT !.pc = "copy", !.todo = task[p].todo \cup S,
                                   !.listed = @ \cup (task[p].todo \cup S)]
  BY Becoming
<1>2. S \in SUBSET In(task[p].tree) OBVIOUS
<1>3. /\ task'[p].pc = "copy" /\ task'[p].tree = task[p].tree /\ task'[p].file = task[p].file
      /\ task'[p].todo = task[p].todo \cup S
      /\ task'[p].listed = task[p].listed \cup (task[p].todo \cup S)
  BY <1>1 DEF Task
<1>. QED BY <1>2, <1>3

LEMMA LookFields ==
  ASSUME TypeOK, NEW p \in Proc, Look(p)
  PROVE  /\ task'[p].tree = task[p].tree /\ task'[p].listed = task[p].listed
         /\ \E f \in task[p].todo :
              /\ task'[p].todo = task[p].todo \ {f}
              /\ IF SizeIsRight(f) THEN task'[p].pc = "copy" /\ task'[p].file = None
                                   ELSE task'[p].pc = "open" /\ task'[p].file = f
<1>. task[p] \in Task BY DEF TypeOK
<1>1. PICK f \in task[p].todo :
        task'[p] = [task[p] EXCEPT !.todo = task[p].todo \ {f},
                                   !.pc   = IF SizeIsRight(f) THEN "copy" ELSE "open",
                                   !.file = IF SizeIsRight(f) THEN None ELSE f]
  BY Becoming
<1>2. /\ task'[p].tree = task[p].tree /\ task'[p].listed = task[p].listed
      /\ task'[p].todo = task[p].todo \ {f}
      /\ task'[p].pc = IF SizeIsRight(f) THEN "copy" ELSE "open"
      /\ task'[p].file = IF SizeIsRight(f) THEN None ELSE f
  BY <1>1 DEF Task
<1>. QED BY <1>2

LEMMA OpenFields ==
  ASSUME TypeOK, NEW p \in Proc, Open(p)
  PROVE  /\ task'[p].pc = "write" /\ task'[p].part = 1 /\ task'[p].file = task[p].file
         /\ task'[p].tree = task[p].tree
         /\ task'[p].listed = task[p].listed /\ task'[p].todo = task[p].todo
<1>. task[p] \in Task BY DEF TypeOK
<1>1. task'[p] = [task[p] EXCEPT !.pc = "write", !.part = 1]
  BY Becoming
<1>. QED BY <1>1 DEF Idle, Task

LEMMA WriteFields ==
  ASSUME TypeOK, NEW p \in Proc, Write(p)
  PROVE  /\ task'[p].tree = task[p].tree
         /\ task'[p].listed = task[p].listed /\ task'[p].todo = task[p].todo
         /\ IF task[p].part = 1
              THEN task'[p].pc = "write" /\ task'[p].part = 2 /\ task'[p].file = task[p].file
              ELSE task'[p].pc = "copy" /\ task'[p].file = None
<1>. task[p] \in Task BY DEF TypeOK
<1>1. task'[p] = IF task[p].part = 1 THEN [task[p] EXCEPT !.part = 2]
                 ELSE [task[p] EXCEPT !.pc = "copy", !.file = None, !.part = 1]
  BY Becoming
<1>. QED BY <1>1 DEF Idle, Task, Write

LEMMA TreeFields ==
  ASSUME TypeOK, NEW p \in Proc, NextTree(p)
  PROVE  /\ task'[p].listed = task[p].listed /\ task'[p].file = task[p].file
         /\ IF task[p].tree = 1
              THEN task'[p].pc = "list" /\ task'[p].tree = 2 /\ task'[p].todo = In(2)
              ELSE /\ task'[p].pc = "keys" /\ task'[p].tree = task[p].tree
                   /\ task'[p].todo = task[p].todo
<1>. task[p] \in Task BY DEF TypeOK
<1>1. task'[p] = IF task[p].tree = 1
                   THEN [task[p] EXCEPT !.pc = "list", !.tree = 2, !.todo = In(2)]
                   ELSE [task[p] EXCEPT !.pc = "keys"]
  BY Becoming
<1>. QED BY <1>1 DEF Idle, Task

LEMMA KeysFields ==
  ASSUME TypeOK, NEW p \in Proc, OpenIdentity(p)
  PROVE  /\ task'[p].pc = "key" /\ task'[p].tree = task[p].tree
         /\ task'[p].file = task[p].file
         /\ task'[p].listed = task[p].listed /\ task'[p].todo = task[p].todo
<1>. task[p] \in Task BY DEF TypeOK
<1>1. task'[p] = [task[p] EXCEPT !.pc = "key"]
  BY Becoming
<1>. QED BY <1>1 DEF Idle, Task

-----------------------------------------------------------------------------
(* What every step leaves typed and in place.                              *)

\* A process that opens or writes is at a file.
LEMMA AtFile ==
  ASSUME TypeOK, NEW p \in Proc, Placed(p), task[p].pc \in {"open", "write"}
  PROVE  task[p].file \in File /\ task[p].file \in Dealt(p)
BY DEF TypeOK, Task, Placed, Dealt

\* What is in the mirror has parts.
LEMMA CopyIsParts ==
  ASSUME TypeOK, NEW f \in File, mirror[f] # None
  PROVE  mirror[f] \in SUBSET Part
<1> DEFINE Z == SUBSET Part
<1>1. mirror \in [File -> Z \cup {None}] BY DEF TypeOK
<1> HIDE DEF Z
<1>2. mirror[f] \in Z BY <1>1
<1>. QED BY <1>2 DEF Z

\* The mirror is written file by file, and no copy goes away.
LEMMA MirrorTyped ==
  ASSUME TypeOK, NEW p \in Proc, Placed(p), Run(p) \/ Config(p) \/ Kill(p)
  PROVE  /\ mirror' \in [File -> (SUBSET Part) \cup {None}]
         /\ \A f \in File : mirror[f] # None => mirror'[f] # None
<1>1. CASE Open(p)
  <2>1. mirror' = [mirror EXCEPT ![task[p].file] = {}] /\ task[p].file \in File
    BY <1>1, AtFile DEF Open
  <2>2. {} \in SUBSET Part /\ None # {} BY BackupAssumption
  <2>. QED BY <2>1, <2>2 DEF TypeOK
<1>2. CASE Write(p)
  <2>0. task[p].file \in File /\ task[p].part \in Part
    BY <1>2, AtFile DEF Write, TypeOK, Task
  <2>1. /\ mirror' = [mirror EXCEPT ![task[p].file] = mirror[task[p].file] \cup {task[p].part}]
        /\ task[p].file \in File /\ task[p].part \in Part
    BY <1>2, <2>0 DEF Write
  <2>2. mirror[task[p].file] \in SUBSET Part
    <3>1. mirror[task[p].file] # None BY <1>2 DEF Write, Placed
    <3>. QED BY <2>0, <3>1, CopyIsParts
  <2>3. /\ mirror[task[p].file] \cup {task[p].part} \in SUBSET Part
        /\ mirror[task[p].file] \cup {task[p].part} # None
    BY <2>1, <2>2, BackupAssumption
  <2>. QED BY <2>1, <2>3 DEF TypeOK
<1>3. CASE mirror' = mirror BY <1>3 DEF TypeOK
<1>. QED
  BY <1>1, <1>2, <1>3
  DEF Run, Config, Kill, BeginInit, WriteRecipients, WriteIdentity, RenameRaises, Begin, Listed,
      Look, NextTree, OpenIdentity, CopyIdentity, NoIdentity, copy

LEMMA NextIs ==
  ASSUME Next
  PROVE  \/ \E f \in File : Seal(f)
         \/ \E p \in Proc : Run(p) \/ Config(p) \/ Kill(p)
BY DEF Next, Run, Config

LEMMA SealTyped ==
  ASSUME TypeOK, NEW f \in File, Seal(f)
  PROVE  TypeOK'
<1>1. sealed' \in [File -> Key \cup {None}] BY DEF Seal, TypeOK
<1>2. strays' \subseteq File BY DEF Seal, TypeOK
<1>. QED BY <1>1, <1>2 DEF Seal, TypeOK, config, copy

LEMMA TypeStep ==
  ASSUME TypeOK, \A p \in Proc : Placed(p), Next
  PROVE  TypeOK'
<1>1. ASSUME NEW f \in File, Seal(f) PROVE TypeOK' BY <1>1, SealTyped
<1>2. ASSUME NEW p \in Proc, Run(p) PROVE TypeOK'
  <2>1. task' \in [Proc -> Task] BY <1>2, LocalsTyped
  <2>2. mirror' \in [File -> (SUBSET Part) \cup {None}] BY <1>2, MirrorTyped
  <2>3. UNCHANGED <<sealed, strays, recipients, identity, used, dead, raced, kills, muddled>>
    BY <1>2
    DEF Run, Begin, Listed, Look, Open, Write, NextTree, OpenIdentity, CopyIdentity, NoIdentity,
        copy, config, sources
  <2>4. task[p].listed \subseteq File BY DEF TypeOK, Task
  <2>5. saved' \subseteq File
    <3>1. saved' \in {saved, saved \cup task[p].listed}
      BY <1>2
      DEF Run, Begin, Listed, Look, Open, Write, NextTree, OpenIdentity, CopyIdentity, NoIdentity,
          Ended, copy
    <3>. QED BY <2>4, <3>1 DEF TypeOK
  <2>6. mirrorId' \in {mirrorId, Cut, identity}
    BY <1>2
    DEF Run, Begin, Listed, Look, Open, Write, NextTree, OpenIdentity, CopyIdentity, NoIdentity,
        copy
  <2>. QED BY <2>1, <2>2, <2>3, <2>5, <2>6 DEF TypeOK
<1>3. ASSUME NEW p \in Proc, Config(p) PROVE TypeOK'
  <2>1. task' \in [Proc -> Task] BY <1>3, LocalsTyped
  <2>2. UNCHANGED <<sealed, strays, mirror, mirrorId, saved, muddled, dead, kills>>
    BY <1>3 DEF Config, BeginInit, WriteRecipients, WriteIdentity, RenameRaises, copy, sources
  <2>3. task[p].key \in Key \cup {None} BY DEF TypeOK, Task
  <2>4. /\ recipients' \in {recipients, task[p].key} /\ identity' \in {identity, task[p].key}
        /\ raced' \in BOOLEAN
    BY <1>3 DEF Config, BeginInit, WriteRecipients, WriteIdentity, RenameRaises, TypeOK
  <2>5. used' \in 0..MaxKey
    <3>1. used \in 0..MaxKey /\ MaxKey \in Nat BY BackupAssumption DEF TypeOK
    <3>2. used' = used \/ (used < MaxKey /\ used' = used + 1)
      BY <1>3 DEF Config, BeginInit, WriteRecipients, WriteIdentity, RenameRaises
    <3>. QED BY <3>1, <3>2
  <2>. QED BY <2>1, <2>2, <2>3, <2>4, <2>5 DEF TypeOK
<1>4. ASSUME NEW p \in Proc, Kill(p) PROVE TypeOK'
  <2>1. task' \in [Proc -> Task] BY <1>4, LocalsTyped
  <2>2. kills' \in 0..MaxKill
    <3>1. kills \in 0..MaxKill /\ MaxKill \in Nat BY BackupAssumption DEF TypeOK
    <3>. QED BY <1>4, <3>1 DEF Kill
  <2>3. dead' \subseteq Key BY <1>4 DEF Kill, Placed, TypeOK
  <2>4. muddled' \subseteq File
    <3>1. task[p].pc = "write" => task[p].file \in File BY AtFile
    <3>. QED BY <1>4, <3>1 DEF Kill, TypeOK
  <2>. QED BY <1>4, <2>1, <2>2, <2>3, <2>4 DEF Kill, TypeOK, sources
<1>. QED BY <1>1, <1>2, <1>3, <1>4, NextIs

LEMMA PlacedStep ==
  ASSUME TypeOK, TypeOK', \A p \in Proc : Placed(p), Next
  PROVE  \A p \in Proc : Placed(p)'
<1>1. ASSUME NEW f \in File, Seal(f), NEW q \in Proc PROVE Placed(q)'
  <2>1. UNCHANGED <<task, mirror>> BY <1>1 DEF Seal, copy
  <2>. QED BY <2>1 DEF Placed, Copying, Busy, Initing, Dealt
<1>2. ASSUME NEW p \in Proc, Run(p) \/ Config(p) \/ Kill(p), NEW q \in Proc, q # p
      PROVE  Placed(q)'
  <2>1. task'[q] = task[q] BY <1>2, Becoming
  <2>2. task[q].pc = "write" => mirror'[task[q].file] # None
    BY <1>2, MirrorTyped, AtFile DEF Placed
  <2>. QED BY <2>1, <2>2 DEF Placed, Copying, Busy, Initing, Dealt
<1>3. ASSUME NEW p \in Proc, Run(p) \/ Config(p) \/ Kill(p) PROVE Placed(p)'
  <2>0. task'[p] \in Task /\ task[p] \in Task BY DEF TypeOK
  <2>1. CASE BeginInit(p)
    <3>1. used' \in Key
      <4>1. used \in 0..MaxKey /\ MaxKey \in Nat BY BackupAssumption DEF TypeOK
      <4>2. used < MaxKey /\ used' = used + 1 BY <2>1 DEF BeginInit
      <4>. QED BY <4>1, <4>2 DEF Key
    <3>. QED BY <2>1, <3>1, InitFields DEF Placed, Copying, Busy, Initing
  <2>2. CASE WriteRecipients(p)
    BY <2>2, RecipientsFields DEF WriteRecipients, Placed, Copying, Busy, Initing
  <2>3. CASE WriteIdentity(p) \/ RenameRaises(p) \/ CopyIdentity(p) \/ NoIdentity(p) \/ Kill(p)
    BY <2>3, IdleFields DEF Placed, Copying, Busy, Initing
  <2>4. CASE Begin(p) BY <2>4, BeginFields DEF Placed, Copying, Busy, Initing
  <2>5. CASE Listed(p)
    BY <2>5, ListedFields DEF Listed, Placed, Copying, Busy, Initing
  <2>6. CASE Look(p)
    <3>0. task'[p].listed = task[p].listed BY <2>6, LookFields
    <3>1. PICK f \in task[p].todo :
            /\ task'[p].todo = task[p].todo \ {f}
            /\ IF SizeIsRight(f) THEN task'[p].pc = "copy" /\ task'[p].file = None
                                 ELSE task'[p].pc = "open" /\ task'[p].file = f
      BY <2>6, LookFields
    <3>2. f \in task[p].listed BY <2>6 DEF Look, Placed
    <3>3. task[p].todo \subseteq task[p].listed BY <2>6 DEF Look, Placed
    <3>4. task'[p].pc \in {"copy", "open"} BY <3>1
    <3>. QED BY <3>0, <3>1, <3>2, <3>3, <3>4 DEF Placed, Copying, Busy, Initing, Dealt
  <2>7. CASE Open(p)
    <3>1. mirror'[task[p].file] # None
      <4>1. mirror' = [mirror EXCEPT ![task[p].file] = {}] /\ task[p].file \in File
        BY <2>7, AtFile DEF Open
      <4>2. None # {} BY BackupAssumption
      <4>. QED BY <4>1, <4>2 DEF TypeOK
    <3>. QED BY <2>7, <3>1, OpenFields DEF Open, Placed, Copying, Busy, Initing, Dealt
  <2>8. CASE Write(p)
    <3>1. mirror'[task[p].file] # None BY <1>3, <2>8, MirrorTyped, AtFile DEF Write, Placed
    <3>. QED BY <2>8, <3>1, WriteFields DEF Write, Placed, Copying, Busy, Initing, Dealt
  <2>9. CASE NextTree(p)
    <3>1. task[p].tree \in {1, 2} BY <2>0 DEF Task
    <3>. QED BY <2>9, <3>1, TreeFields DEF NextTree, Placed, Copying, Busy, Initing
  <2>10. CASE OpenIdentity(p)
    BY <2>10, KeysFields DEF OpenIdentity, Placed, Copying, Busy, Initing
  <2>. QED
    BY <1>3, <2>1, <2>2, <2>3, <2>4, <2>5, <2>6, <2>7, <2>8, <2>9, <2>10 DEF Run, Config
<1>. QED BY <1>1, <1>2, <1>3, NextIs

-----------------------------------------------------------------------------
(* The mirror can be replayed.                                             *)

LEMMA ClosedBySeal ==
  ASSUME TypeOK, Closed, NEW f \in File, Seal(f)
  PROVE  Closed'
<1>1. /\ task' = task /\ saved' = saved /\ sealed[f] = None
      /\ sealed' = [sealed EXCEPT ![f] = recipients] /\ recipients # None
      /\ strays \subseteq strays'
      /\ \A g \in Needs(f) : sealed[g] # None
  BY DEF Seal, copy
<1>2. \A g \in File : sealed'[g] # None <=> sealed[g] # None \/ g = f BY <1>1 DEF TypeOK
<1>3. \A g \in File : sealed'[g] # None => \A h \in Needs(g) : sealed'[h] # None
  BY <1>1, <1>2, NeedsAreFiles DEF Closed
<1>4. ASSUME NEW p \in Proc PROVE Closing(p)'
  <2>1. task[p].listed \subseteq File /\ task[p].todo \subseteq File BY DEF TypeOK, Task
  <2>2. Closing(p) BY DEF Closed
  <2>3. \A g \in task[p].listed \cup task[p].todo : sealed'[g] # None
    BY <1>2, <2>1, <2>2 DEF Closing
  <2>4. task[p].pc = "list" /\ f[1] = "receipt" => f \in strays' BY DEF Seal
  <2>5. task[p].pc = "list" /\ task[p].tree = 1 =>
          \A g \in File : g[1] = "receipt" /\ sealed'[g] # None => g \in task[p].todo \cup strays'
    BY <1>1, <1>2, <2>2, <2>4 DEF Closing
  <2>. QED BY <1>1, <2>2, <2>3, <2>5 DEF Closing, Copying, Busy, Initing
<1>5. MirrorIsClosed' BY <1>1 DEF Closed, MirrorIsClosed
<1>. QED BY <1>3, <1>4, <1>5 DEF Closed

\* What a run that is over has listed comes with what it needs.
LEMMA ListedIsClosed ==
  ASSUME TypeOK, Closed, NEW p \in Proc, Placed(p), task[p].pc \in {"keys", "key"},
         NEW f \in task[p].listed, NEW g \in Needs(f)
  PROVE  g \in task[p].listed \/ (f[1] = "edit" /\ g \in strays)
<1>1. f \in File /\ Copying(p) /\ task[p].tree = 2
  BY DEF TypeOK, Task, Placed, Copying, Busy, Initing
<1>2. f[1] \in {"receipt", "edit"} BY <1>1, NeedsAreFiles DEF Kind
<1>. QED BY <1>1, <1>2 DEF Closed, Closing

LEMMA ClosingOfOthers ==
  ASSUME TypeOK, Closed, NEW p \in Proc, Run(p) \/ Config(p) \/ Kill(p), NEW q \in Proc, q # p
  PROVE  Closing(q)'
<1>1. task'[q] = task[q] /\ sealed' = sealed /\ strays' = strays
  <2>1. task'[q] = task[q] BY Becoming
  <2>2. sealed' = sealed /\ strays' = strays
    BY DEF Run, Config, Kill, BeginInit, WriteRecipients, WriteIdentity, RenameRaises, Begin,
           Listed, Look, Open, Write, NextTree, OpenIdentity, CopyIdentity, NoIdentity, sources
  <2>. QED BY <2>1, <2>2
<1>. QED BY <1>1 DEF Closed, Closing, Copying, Busy, Initing

LEMMA ClosingStep ==
  ASSUME TypeOK, Closed, NEW p \in Proc, Placed(p), Run(p) \/ Config(p) \/ Kill(p)
  PROVE  Closing(p)'
<1>. DEFINE t == task[p]  u == task'[p]
<1>0. /\ sealed' = sealed /\ strays' = strays /\ Closing(p)
      /\ t \in Task /\ t.listed \subseteq File /\ t.todo \subseteq File /\ t.tree \in {1, 2}
  <2>1. sealed' = sealed /\ strays' = strays
    BY DEF Run, Config, Kill, BeginInit, WriteRecipients, WriteIdentity, RenameRaises, Begin,
           Listed, Look, Open, Write, NextTree, OpenIdentity, CopyIdentity, NoIdentity, sources
  <2>. QED BY <2>1 DEF TypeOK, Task, Closed
<1>1. CASE u.listed = {} /\ u.todo = {} /\ u.pc # "list"
  BY <1>1 DEF Closing
<1>2. CASE Begin(p)
  <2>1. u.pc = "list" /\ u.tree = 1 /\ u.listed = {} /\ u.todo = In(1) BY <1>2, BeginFields
  <2>2. \A f \in In(1) : sealed[f] # None BY DEF In
  <2>3. \A f \in File : f[1] = "receipt" /\ sealed[f] # None => f \in In(1) BY DEF In, Trees
  <2>. QED BY <1>0, <2>1, <2>2, <2>3 DEF Closing
<1>3. CASE Listed(p)
  <2>1. t.pc = "list" /\ u.pc = "copy" /\ u.tree = t.tree BY <1>3, ListedFields DEF Listed
  <2>2. PICK S \in SUBSET In(t.tree) :
          u.todo = t.todo \cup S /\ u.listed = t.listed \cup t.todo \cup S
    BY <1>3, ListedFields
  <2>3. S \subseteq File /\ \A f \in S : sealed[f] # None BY DEF In
  <2>4. \A f \in u.listed \cup u.todo : sealed[f] # None BY <1>0, <2>2, <2>3 DEF Closing
  <2>5. CASE t.tree = 1
    <3>1. ASSUME NEW f \in u.listed, f[1] = "edit", NEW g \in Needs(f)
          PROVE  g \in u.listed \cup strays
      <4>1. f \in File BY <1>0, <2>2, <2>3
      <4>2. g \in File /\ g[1] = "receipt" BY <3>1, <4>1, NeedsAreFiles
      <4>3. sealed[g] # None BY <2>4, <4>1 DEF Closed
      <4>. QED BY <1>0, <2>1, <2>2, <2>5, <4>2, <4>3 DEF Closing
    <3>. QED BY <1>0, <2>1, <2>4, <2>5, <3>1 DEF Closing
  <2>6. CASE t.tree = 2
    <3>1. \A f \in S : f[1] = "blob" BY <2>6 DEF In, Trees
    <3>2. \A f \in t.todo : f[1] = "blob" BY <1>0, <2>1, <2>6 DEF Closing
    <3>3. Copying(p) BY <2>1 DEF Copying, Busy, Initing
    <3>4. ASSUME NEW f \in u.listed, f[1] # "blob" PROVE f \in t.listed
      BY <2>2, <3>1, <3>2, <3>4
    <3>5. ASSUME NEW f \in u.listed, f[1] = "edit" PROVE Needs(f) \subseteq u.listed \cup strays
      BY <1>0, <2>2, <3>4, <3>5 DEF Closing
    <3>6. ASSUME NEW f \in u.listed, f[1] = "receipt" PROVE Needs(f) \subseteq u.listed
      BY <1>0, <2>1, <2>2, <2>6, <3>3, <3>4, <3>6 DEF Closing
    <3>. QED BY <1>0, <2>1, <2>4, <3>5, <3>6 DEF Closing
  <2>. QED BY <1>0, <2>5, <2>6
<1>4. CASE NextTree(p)
  <2>1. t.pc = "copy" /\ Copying(p) /\ u.listed = t.listed
    BY <1>4, TreeFields DEF NextTree, Copying, Busy, Initing
  <2>2. CASE t.tree = 1
    <3>1. u.pc = "list" /\ u.tree = 2 /\ u.todo = In(2) BY <1>4, <2>2, TreeFields
    <3>2. \A f \in In(2) : sealed[f] # None /\ f[1] = "blob" BY DEF In, Trees
    <3>3. ASSUME NEW f \in t.listed, f[1] = "receipt", NEW g \in Needs(f) PROVE g \in In(2)
      <4>1. f \in File /\ sealed[f] # None BY <1>0 DEF Closing
      <4>2. g \in File /\ g[1] = "blob" BY <3>3, <4>1, NeedsAreFiles
      <4>3. sealed[g] # None BY <4>1 DEF Closed
      <4>. QED BY <4>2, <4>3 DEF In, Trees
    <3>. QED BY <1>0, <2>1, <3>1, <3>2, <3>3 DEF Closing
  <2>3. CASE t.tree = 2
    <3>1. u.pc = "keys" /\ u.tree = 2 /\ u.todo = t.todo BY <1>4, <2>3, TreeFields
    <3>. QED BY <1>0, <2>1, <2>3, <3>1 DEF Closing
  <2>. QED BY <1>0, <2>2, <2>3
<1>5. CASE /\ u.listed = t.listed /\ u.todo \subseteq t.todo /\ u.tree = t.tree
           /\ Copying(p) /\ t.pc # "list" /\ u.pc # "list"
  BY <1>0, <1>5 DEF Closing
<1>6. CASE Look(p) \/ Open(p) \/ Write(p) \/ OpenIdentity(p)
  <2>1. Copying(p) /\ t.pc # "list"
    BY <1>6 DEF Look, Open, Write, OpenIdentity, Copying, Busy, Initing
  <2>2. u.listed = t.listed /\ u.tree = t.tree
    BY <1>6, LookFields, OpenFields, WriteFields, KeysFields
  <2>3. u.todo \subseteq t.todo /\ u.pc # "list"
    <3>1. CASE Look(p) BY <3>1, LookFields
    <3>. QED BY <1>6, <3>1, OpenFields, WriteFields, KeysFields
  <2>. QED BY <1>5, <2>1, <2>2, <2>3
<1>7. CASE Config(p) \/ Kill(p) \/ CopyIdentity(p) \/ NoIdentity(p)
  <2>1. u.listed = {} /\ u.todo = {} /\ u.pc # "list"
    <3>1. CASE BeginInit(p) BY <3>1, InitFields
    <3>2. CASE WriteRecipients(p)
      BY <3>2, RecipientsFields DEF WriteRecipients, Placed, Copying, Initing
    <3>. QED BY <1>7, <3>1, <3>2, IdleFields DEF Config
  <2>. QED BY <1>1, <2>1
<1>. QED BY <1>2, <1>3, <1>4, <1>6, <1>7 DEF Run

LEMMA ClosedStep ==
  ASSUME TypeOK, Closed, \A p \in Proc : Placed(p), Next
  PROVE  Closed'
<1>1. ASSUME NEW f \in File, Seal(f) PROVE Closed' BY <1>1, ClosedBySeal
<1>2. ASSUME NEW p \in Proc, Run(p) \/ Config(p) \/ Kill(p) PROVE Closed'
  <2>1. \A q \in Proc : Closing(q)' BY <1>2, ClosingStep, ClosingOfOthers
  <2>2. sealed' = sealed /\ strays' = strays
    BY <1>2
    DEF Run, Config, Kill, BeginInit, WriteRecipients, WriteIdentity, RenameRaises, Begin,
        Listed, Look, Open, Write, NextTree, OpenIdentity, CopyIdentity, NoIdentity, sources
  <2>3. saved' = saved \/ (task[p].pc \in {"keys", "key"} /\ saved' = saved \cup task[p].listed)
    BY <1>2
    DEF Run, Config, Kill, BeginInit, WriteRecipients, WriteIdentity, RenameRaises, Begin,
        Listed, Look, Open, Write, NextTree, OpenIdentity, CopyIdentity, NoIdentity, Ended, copy
  <2>4. MirrorIsClosed'
    <3>1. MirrorIsClosed BY DEF Closed
    <3>2. task[p].pc \in {"keys", "key"} => \A f \in task[p].listed : \A g \in Needs(f) :
            g \in task[p].listed \/ (f[1] = "edit" /\ g \in strays)
      BY ListedIsClosed
    <3>. QED BY <2>2, <2>3, <3>1, <3>2 DEF MirrorIsClosed
  <2>. QED BY <2>1, <2>2, <2>4 DEF Closed
<1>. QED BY <1>1, <1>2, NextIs

-----------------------------------------------------------------------------
(* What is saved is whole.                                                 *)

\* A step that neither writes f nor comes to it or leaves it.
LEMMA Elsewhere ==
  ASSUME NEW f \in File, Mirrored(f), mirror'[f] = mirror[f], saved' = saved,
         \A q \in Proc : /\ At(q, f)' <=> At(q, f)
                         /\ Writes(q, f)' <=> Writes(q, f)
                         /\ Writes(q, f) => task'[q].part = task[q].part
                         /\ f \in Dealt(q)' /\ ~At(q, f) => f \in Dealt(q)
  PROVE  Mirrored(f)'
<1>1. (Copied(f)' <=> Copied(f)) /\ (NoHole(f)' <=> NoHole(f)) /\ (Whole(f)' <=> Whole(f))
  BY DEF Copied, NoHole, Whole
<1>2. \A q \in Proc : WritesFirst(q, f)' <=> WritesFirst(q, f) BY DEF WritesFirst
<1>. QED BY <1>1, <1>2 DEF Mirrored

\* The others are where they were.
LEMMA OthersAt ==
  ASSUME TypeOK, NEW p \in Proc, Run(p) \/ Config(p) \/ Kill(p), NEW q \in Proc, q # p, NEW f
  PROVE  /\ task'[q] = task[q]
         /\ At(q, f)' = At(q, f) /\ Writes(q, f)' = Writes(q, f)
         /\ WritesFirst(q, f)' = WritesFirst(q, f) /\ Dealt(q)' = Dealt(q)
<1>1. task'[q] = task[q] BY Becoming
<1>. QED BY <1>1 DEF At, Writes, WritesFirst, Dealt

LEMMA MirroredByEnd ==
  ASSUME TypeOK, \A q \in Proc : Placed(q), NEW p \in Proc, CopyIdentity(p) \/ NoIdentity(p),
         NEW f \in File, Mirrored(f)
  PROVE  Mirrored(f)'
<1>0. /\ task'[p].pc = "idle" /\ Dealt(p)' = {} /\ mirror' = mirror
      /\ task[p].pc \in {"keys", "key"} /\ task[p].todo = {} /\ Ended(p)
  <2>1. task'[p].pc = "idle" /\ Dealt(p)' = {} BY IdleFields DEF Dealt
  <2>2. mirror' = mirror /\ task[p].pc \in {"keys", "key"} /\ Ended(p)
    BY DEF CopyIdentity, NoIdentity
  <2>. QED BY <2>1, <2>2 DEF Placed
<1>1. \A g : ~At(p, g) /\ ~Writes(p, g) /\ ~At(p, g)' /\ ~Writes(p, g)'
  BY <1>0 DEF At, Writes
<1>2. Run(p) BY DEF Run
<1>3. CASE saved' = saved BY <1>0, <1>1, <1>2, <1>3, OthersAt, Elsewhere
<1>4. CASE saved' # saved
  <2>1. saved' = saved \cup task[p].listed /\ \A q \in Proc \ {p} : ~Copying(q)
    BY <1>0, <1>4 DEF Ended
  <2>2. \A q \in Proc : ~At(q, f) /\ ~Writes(q, f) /\ ~WritesFirst(q, f)
    BY <1>1, <2>1 DEF At, Writes, WritesFirst, Copying, Busy, Initing
  <2>3. \A q \in Proc : ~At(q, f)' /\ ~Writes(q, f)' /\ ~WritesFirst(q, f)'
    BY <1>1, <1>2, <2>2, OthersAt DEF WritesFirst
  <2>4. \A q \in Proc : f \in Dealt(q) => Copied(f) /\ NoHole(f) BY <2>2 DEF Mirrored
  <2>5. f \in task[p].listed => Whole(f)
    <3>1. f \in task[p].listed => Copied(f) /\ NoHole(f) BY <1>0, <2>4 DEF Dealt
    <3>2. Copied(f) /\ NoHole(f) => mirror[f] \in SUBSET Part /\ 1 \in mirror[f] /\ 2 \in mirror[f]
      BY CopyIsParts DEF Copied, NoHole
    <3>. QED BY <3>1, <3>2 DEF Whole, Part
  <2>6. f \in saved' => Whole(f)' BY <1>0, <2>1, <2>5 DEF Mirrored, Whole
  <2>7. Copied(f)' = Copied(f) /\ NoHole(f)' = NoHole(f) BY <1>0 DEF Copied, NoHole
  <2>8. \A q \in Proc : f \in Dealt(q)' => f \in Dealt(q) BY <1>0, <1>2, OthersAt
  <2>. QED BY <2>2, <2>3, <2>4, <2>6, <2>7, <2>8 DEF Mirrored
<1>. QED BY <1>3, <1>4

LEMMA MirroredByLook ==
  ASSUME TypeOK, \A q \in Proc : Placed(q), NEW p \in Proc, Look(p),
         NEW f \in File, Mirrored(f)
  PROVE  Mirrored(f)'
<1>0. /\ mirror' = mirror /\ saved' = saved /\ task[p].pc = "copy" /\ Run(p)
      /\ task'[p].listed = task[p].listed
  BY LookFields DEF Look, copy, Run
<1>1. PICK g \in task[p].todo :
        /\ task'[p].todo = task[p].todo \ {g}
        /\ IF SizeIsRight(g) THEN task'[p].pc = "copy" /\ task'[p].file = None
                             ELSE task'[p].pc = "open" /\ task'[p].file = g
  BY LookFields
<1>2. ~At(p, f) /\ ~Writes(p, f) /\ ~Writes(p, f)' BY <1>0, <1>1 DEF At, Writes
<1>3. CASE f # g
  <2>1. ~At(p, f)' BY <1>1, <1>3 DEF At
  <2>2. f \in Dealt(p)' => f \in Dealt(p) BY <1>0, <1>1, <1>3 DEF Dealt
  <2>. QED BY <1>0, <1>2, <2>1, <2>2, OthersAt, Elsewhere
<1>4. CASE f = g /\ SizeIsRight(f)
  <2>1. ~At(p, f)' BY <1>1, <1>4 DEF At
  <2>2. Copied(f) BY <1>4 DEF Copied, SizeIsRight
  <2>3. /\ Copied(f)' = Copied(f) /\ NoHole(f)' = NoHole(f) /\ Whole(f)' = Whole(f)
    BY <1>0 DEF Copied, NoHole, Whole
  <2>4. \A q \in Proc : /\ WritesFirst(q, f)' <=> WritesFirst(q, f)
                        /\ At(q, f)' <=> At(q, f)
    BY <1>0, <1>2, <2>1, OthersAt DEF WritesFirst
  <2>5. Copied(f)' /\ (NoHole(f)' \/ \E q \in Proc : WritesFirst(q, f)')
    BY <2>2, <2>3, <2>4 DEF Mirrored
  <2>. QED BY <1>0, <2>3, <2>4, <2>5 DEF Mirrored
<1>5. CASE f = g /\ ~SizeIsRight(f)
  <2>1. f \notin saved
    <3>1. Whole(f) => SizeIsRight(f)
      <4>1. Whole(f) => mirror[f] = Part /\ Part \in SUBSET Part BY DEF Whole
      <4>2. None # Part BY BackupAssumption
      <4>3. 2 \in Part BY DEF Part
      <4>. QED BY <4>1, <4>2, <4>3 DEF SizeIsRight
    <3>. QED BY <1>5, <3>1 DEF Mirrored
  <2>2. At(p, f)' BY <1>1, <1>5 DEF At
  <2>3. /\ Copied(f)' = Copied(f) /\ NoHole(f)' = NoHole(f) BY <1>0 DEF Copied, NoHole
  <2>4. \A q \in Proc : /\ WritesFirst(q, f)' <=> WritesFirst(q, f)
                        /\ Writes(q, f)' <=> Writes(q, f)
    BY <1>0, <1>2, OthersAt DEF WritesFirst
  <2>5. \A q \in Proc : Writes(q, f) => q # p BY <1>2
  <2>6. \A q \in Proc : q # p => task'[q] = task[q] /\ Dealt(q)' = Dealt(q) /\ At(q, f)' = At(q, f)
    BY <1>0, OthersAt
  <2>7. \A q \in Proc : Writes(q, f) /\ task'[q].part = 2 => NoHole(f) \/ \E r \in Proc : WritesFirst(r, f)
    BY <2>5, <2>6 DEF Mirrored
  <2>8. \A q \in Proc : f \in Dealt(q)' /\ ~At(q, f)' => Copied(f) \/ \E r \in Proc : Writes(r, f)
    BY <2>2, <2>6 DEF Mirrored
  <2>9. Copied(f) => NoHole(f) \/ \E r \in Proc : WritesFirst(r, f) BY DEF Mirrored
  <2>10. f \notin saved' BY <1>0, <2>1
  <2>. QED BY <2>3, <2>4, <2>7, <2>8, <2>9, <2>10 DEF Mirrored
<1>. QED BY <1>3, <1>4, <1>5

LEMMA MirroredByOpen ==
  ASSUME TypeOK, \A q \in Proc : Placed(q), NEW p \in Proc, Open(p),
         NEW f \in File, Mirrored(f)
  PROVE  Mirrored(f)'
<1>. DEFINE g == task[p].file
<1>0. /\ mirror' = [mirror EXCEPT ![g] = {}] /\ saved' = saved /\ Run(p)
      /\ g \in File /\ At(p, g) /\ task[p].pc = "open"
  BY AtFile DEF Open, Run, At
<1>1. /\ task'[p].pc = "write" /\ task'[p].part = 1 /\ task'[p].file = g
      /\ Dealt(p)' = Dealt(p)
  BY OpenFields DEF Dealt
<1>2. CASE f # g
  <2>1. mirror'[f] = mirror[f] BY <1>0, <1>2 DEF TypeOK
  <2>2. ~At(p, f) /\ ~At(p, f)' /\ ~Writes(p, f) /\ ~Writes(p, f)'
    BY <1>0, <1>1, <1>2 DEF At, Writes
  <2>. QED BY <1>0, <1>1, <2>1, <2>2, OthersAt, Elsewhere
<1>3. CASE f = g
  <2>1. WritesFirst(p, f)' /\ Writes(p, f)' BY <1>1, <1>3 DEF WritesFirst, Writes
  <2>2. f \notin saved' BY <1>0, <1>3 DEF Mirrored
  <2>. QED BY <2>1, <2>2 DEF Mirrored
<1>. QED BY <1>2, <1>3

LEMMA MirroredByWrite ==
  ASSUME TypeOK, \A q \in Proc : Placed(q), NEW p \in Proc, Write(p),
         NEW f \in File, Mirrored(f)
  PROVE  Mirrored(f)'
<1>. DEFINE g == task[p].file
<1>0. /\ mirror' = [mirror EXCEPT ![g] = @ \cup {task[p].part}] /\ saved' = saved /\ Run(p)
      /\ g \in File /\ At(p, g) /\ Writes(p, g)
  BY AtFile DEF Write, Run, At, Writes
<1>1. /\ Dealt(p)' = Dealt(p) /\ task[p].part \in {1, 2}
      /\ IF task[p].part = 1
           THEN task'[p].pc = "write" /\ task'[p].part = 2 /\ task'[p].file = g
           ELSE task'[p].pc = "copy"
  BY WriteFields DEF Dealt, TypeOK, Task, Part
<1>2. CASE f # g
  <2>1. mirror'[f] = mirror[f] BY <1>0, <1>2 DEF TypeOK
  <2>2. ~At(p, f) /\ ~At(p, f)' /\ ~Writes(p, f) /\ ~Writes(p, f)'
    BY <1>0, <1>1, <1>2 DEF At, Writes
  <2>. QED BY <1>0, <1>1, <2>1, <2>2, OthersAt, Elsewhere
<1>3. CASE f = g
  <2>1. mirror'[f] = mirror[f] \cup {task[p].part} /\ mirror[f] # None
    BY <1>0, <1>3 DEF TypeOK, Placed, Writes
  <2>2. mirror'[f] # None
    BY <1>0, <1>3, MirrorTyped, <2>1
  <2>3. f \notin saved' BY <1>0, <1>3 DEF Mirrored
  <2>4. CASE task[p].part = 1
    <3>1. NoHole(f)' BY <2>1, <2>2, <2>4 DEF NoHole
    <3>2. Writes(p, f)' BY <1>1, <1>3, <2>4 DEF Writes
    <3>. QED BY <2>3, <3>1, <3>2 DEF Mirrored
  <2>5. CASE task[p].part = 2
    <3>1. Copied(f)' BY <2>1, <2>2, <2>5 DEF Copied
    <3>2. NoHole(f) => NoHole(f)' BY <2>1, <2>2 DEF NoHole
    <3>3. ~WritesFirst(p, f) BY <2>5 DEF WritesFirst
    <3>4. NoHole(f) \/ \E q \in Proc : WritesFirst(q, f) BY <1>0, <1>3, <2>5 DEF Mirrored
    <3>5. NoHole(f)' \/ \E q \in Proc : WritesFirst(q, f)'
      BY <1>0, <3>2, <3>3, <3>4, OthersAt
    <3>. QED BY <2>3, <3>1, <3>5 DEF Mirrored
  <2>. QED BY <1>1, <2>4, <2>5
<1>. QED BY <1>2, <1>3

LEMMA MirroredByKill ==
  ASSUME TypeOK, \A q \in Proc : Placed(q), NEW p \in Proc, Kill(p),
         NEW f \in File \ muddled', Mirrored(f)
  PROVE  Mirrored(f)'
<1>0. /\ mirror' = mirror /\ saved' = saved /\ task'[p].pc = "idle" /\ Dealt(p)' = {}
  BY IdleFields DEF Kill, Dealt
<1>1. ~At(p, f)' /\ ~Writes(p, f)' BY <1>0 DEF At, Writes
<1>2. CASE ~At(p, f)
  <2>1. ~Writes(p, f) BY <1>2 DEF At, Writes
  <2>. QED BY <1>0, <1>1, <1>2, <2>1, OthersAt, Elsewhere
<1>3. CASE At(p, f)
  <2>0. \A q \in Proc : q # p => /\ task'[q] = task[q] /\ Dealt(q)' = Dealt(q)
                                /\ At(q, f)' = At(q, f) /\ Writes(q, f)' = Writes(q, f)
                                /\ WritesFirst(q, f)' = WritesFirst(q, f)
    BY OthersAt
  <2>1. f \notin saved' BY <1>0, <1>3 DEF Mirrored
  <2>2. Copied(f)' = Copied(f) /\ NoHole(f)' = NoHole(f) BY <1>0 DEF Copied, NoHole
  <2>3. CASE Writes(p, f)
    \* Nobody has dealt with f: it would be muddled.
    <3>1. 2 \notin mirror[f] /\ \A q \in Proc \ {p} : f \notin Dealt(q)
      BY <2>3 DEF Kill, Writes, Dealt
    <3>2. ~Copied(f)' BY <2>2, <3>1 DEF Copied
    <3>3. \A q \in Proc : f \notin Dealt(q)' BY <1>0, <2>0, <3>1
    <3>4. \A q \in Proc : ~Writes(q, f)'
      BY <1>1, <2>0, <3>1, AtFile DEF Writes
    <3>. QED BY <2>1, <3>2, <3>3, <3>4 DEF Mirrored
  <2>4. CASE ~Writes(p, f)
    <3>1. ~WritesFirst(p, f) /\ ~WritesFirst(p, f)' BY <1>1, <2>4 DEF WritesFirst
    <3>2. \A q \in Proc : /\ WritesFirst(q, f)' <=> WritesFirst(q, f)
                          /\ Writes(q, f)' <=> Writes(q, f)
      BY <1>1, <2>0, <2>4, <3>1
    <3>3. \A q \in Proc : Writes(q, f)' => task'[q].part = task[q].part BY <1>1, <2>0
    <3>4. \A q \in Proc : f \in Dealt(q)' /\ ~At(q, f)' => f \in Dealt(q) /\ ~At(q, f)
      BY <1>0, <2>0
    <3>. QED BY <2>1, <2>2, <3>2, <3>3, <3>4 DEF Mirrored
  <2>. QED BY <2>3, <2>4
<1>. QED BY <1>2, <1>3

\* Steps that leave the mirror alone, and are not at a file before or after.
LEMMA MirroredByOther ==
  ASSUME TypeOK, \A q \in Proc : Placed(q), NEW p \in Proc,
         Config(p) \/ Begin(p) \/ Listed(p) \/ NextTree(p) \/ OpenIdentity(p),
         NEW f \in File, Mirrored(f)
  PROVE  Mirrored(f)'
<1>1. mirror' = mirror /\ saved' = saved
  BY DEF Config, BeginInit, WriteRecipients, WriteIdentity, RenameRaises, Begin, Listed, NextTree,
         OpenIdentity, copy
<1>2. task[p].pc \notin {"open", "write"}
  BY DEF Config, BeginInit, WriteRecipients, WriteIdentity, RenameRaises, Begin, Listed, NextTree,
         OpenIdentity, Busy, Initing
<1>3. task'[p].pc \notin {"open", "write"}
  BY InitFields, RecipientsFields, IdleFields, BeginFields, ListedFields, TreeFields, KeysFields
  DEF Config
<1>4. f \in Dealt(p)' => f \in Dealt(p)
  <2>1. CASE BeginInit(p) \/ WriteIdentity(p) \/ RenameRaises(p) \/ Begin(p)
    BY <2>1, InitFields, IdleFields, BeginFields DEF Dealt
  <2>2. CASE WriteRecipients(p) \/ OpenIdentity(p) BY <2>2, RecipientsFields, KeysFields DEF Dealt
  <2>3. CASE Listed(p) BY <2>3, ListedFields DEF Dealt
  <2>4. CASE NextTree(p)
    <3>1. task[p].todo = {} /\ task'[p].listed = task[p].listed BY <2>4, TreeFields DEF NextTree
    <3>. QED BY <3>1 DEF Dealt
  <2>. QED BY <2>1, <2>2, <2>3, <2>4 DEF Config
<1>5. ~At(p, f) /\ ~At(p, f)' /\ ~Writes(p, f) /\ ~Writes(p, f)' BY <1>2, <1>3 DEF At, Writes
<1>6. Run(p) \/ Config(p) BY DEF Run
<1>. QED BY <1>1, <1>4, <1>5, <1>6, OthersAt, Elsewhere

LEMMA MirroredStep ==
  ASSUME TypeOK, \A p \in Proc : Placed(p), \A f \in File \ muddled : Mirrored(f), Next
  PROVE  \A f \in File \ muddled' : Mirrored(f)'
<1>. SUFFICES ASSUME NEW f \in File \ muddled' PROVE Mirrored(f)' OBVIOUS
<1>0. f \in File \ muddled /\ Mirrored(f)
  <2>1. muddled \subseteq muddled'
    BY DEF Next, Seal, Kill, BeginInit, WriteRecipients, WriteIdentity, RenameRaises, Begin,
           Listed, Look, Open, Write, NextTree, OpenIdentity, CopyIdentity, NoIdentity, copy
  <2>. QED BY <2>1
<1>1. ASSUME NEW g \in File, Seal(g) PROVE Mirrored(f)'
  <2>1. UNCHANGED <<task, mirror, saved>> BY <1>1 DEF Seal, copy
  <2>. QED BY <1>0, <2>1 DEF Mirrored, Copied, NoHole, Whole, Writes, WritesFirst, At, Dealt
<1>2. ASSUME NEW p \in Proc, Run(p) \/ Config(p) \/ Kill(p) PROVE Mirrored(f)'
  BY <1>0, <1>2, MirroredByEnd, MirroredByLook, MirroredByOpen, MirroredByWrite, MirroredByKill,
     MirroredByOther DEF Run
<1>. QED BY <1>1, <1>2, NextIs

-----------------------------------------------------------------------------
(* What is sealed opens.                                                   *)

LEMMA KeysStep ==
  ASSUME TypeOK, \A p \in Proc : Placed(p), ~raced => Keys, Next
  PROVE  ~raced' => Keys'
<1>. USE BackupAssumption
<1>1. ASSUME NEW f \in File, Seal(f), ~raced' PROVE Keys'
  <2>1. /\ UNCHANGED <<recipients, identity, dead, mirrorId, task, raced>>
        /\ recipients # None /\ sealed' = [sealed EXCEPT ![f] = recipients]
    BY <1>1 DEF Seal, config, copy
  <2>2. Keys BY <1>1, <2>1
  <2>3. Keyed' = Keyed BY <2>1 DEF Keyed
  <2>4. \A g \in File : sealed'[g] # None => sealed'[g] \in Keyed'
    BY <2>1, <2>2, <2>3 DEF Keys, TypeOK
  <2>5. recipients' # None => recipients' \in Keyed' BY <2>1, <2>2, <2>3 DEF Keys
  <2>6. \A q \in Proc : Initing(q)' = Initing(q) BY <2>1 DEF Initing
  <2>. QED BY <2>1, <2>2, <2>4, <2>5, <2>6 DEF Keys
<1>2. ASSUME NEW p \in Proc, Run(p), ~raced' PROVE Keys'
  <2>1. UNCHANGED <<recipients, identity, dead, raced, sealed>>
    BY <1>2
    DEF Run, Begin, Listed, Look, Open, Write, NextTree, OpenIdentity, CopyIdentity, NoIdentity,
        config, sources
  <2>2. Keys BY <1>2, <2>1
  <2>3. task[p].pc # "identity" /\ ~Initing(p) /\ task'[p].pc # "identity" /\ ~Initing(p)'
    <3>1. ~Initing(p)
      BY <1>2 DEF Run, Begin, Listed, Look, Open, Write, NextTree, OpenIdentity, CopyIdentity,
         NoIdentity, Initing, Busy
    <3>2. task'[p].pc \notin {"recipients", "identity"}
      BY <1>2, BeginFields, ListedFields, LookFields, OpenFields, WriteFields, TreeFields,
         KeysFields, IdleFields DEF Run
    <3>. QED BY <3>1, <3>2 DEF Initing
  <2>4. \A q \in Proc : q # p => task'[q] = task[q] BY <1>2, OthersAt
  <2>5. \A q \in Proc : Initing(q)' = Initing(q) BY <2>3, <2>4 DEF Initing
  <2>6. Keyed' = Keyed BY <2>1, <2>3, <2>4 DEF Keyed
  <2>7. mirrorId' \in {mirrorId, Cut, identity}
    BY <1>2
    DEF Run, Begin, Listed, Look, Open, Write, NextTree, OpenIdentity, CopyIdentity, NoIdentity,
        copy
  <2>. QED BY <2>1, <2>2, <2>5, <2>6, <2>7 DEF Keys
<1>3. ASSUME NEW p \in Proc, Config(p) \/ Kill(p), ~raced' PROVE Keys'
  <2>0. sealed' = sealed /\ mirrorId' = mirrorId /\ (raced => raced')
        /\ \A q \in Proc : q # p => task'[q] = task[q]
    <3>1. \A q \in Proc : q # p => task'[q] = task[q] BY <1>3, OthersAt
    <3>2. sealed' = sealed /\ mirrorId' = mirrorId
      BY <1>3
      DEF Config, Kill, BeginInit, WriteRecipients, WriteIdentity, RenameRaises, sources, copy
    <3>3. raced => raced'
      <4>1. CASE BeginInit(p) BY <4>1 DEF BeginInit
      <4>2. CASE raced' = raced BY <4>2
      <4>. QED BY <1>3, <4>1, <4>2
           DEF Config, Kill, WriteRecipients, WriteIdentity, RenameRaises
    <3>. QED BY <3>1, <3>2, <3>3
  <2>1. Keys /\ ~raced BY <1>3, <2>0
  <2>2. \A q \in Proc : q # p => /\ Initing(q)' = Initing(q)
                                /\ (task'[q].pc = "identity" <=> task[q].pc = "identity")
                                /\ task'[q].key = task[q].key
    BY <2>0 DEF Initing
  <2>3. CASE BeginInit(p)
    <3>1. \A q \in Proc : ~Initing(q)
      <4>1. \A q \in Proc : Initing(q) => raced' BY <2>3 DEF BeginInit
      <4>. QED BY <1>3, <4>1
    <3>2. UNCHANGED <<recipients, identity, dead>> /\ identity = None BY <2>3 DEF BeginInit
    <3>3. task'[p].pc = "recipients" BY <2>3, InitFields
    <3>4. Keyed' = Keyed
      BY <2>2, <3>1, <3>2, <3>3 DEF Keyed, Initing
    <3>5. \A q, r \in Proc : Initing(q)' /\ Initing(r)' => q = r BY <2>2, <3>1
    <3>6. /\ recipients' # None => recipients' \in Keyed'
          /\ \A f \in File : sealed'[f] # None => sealed'[f] \in Keyed'
      BY <2>0, <2>1, <3>2, <3>4 DEF Keys
    <3>7. mirrorId' \in Key => mirrorId' = identity' BY <2>0, <2>1, <3>2 DEF Keys
    <3>. QED BY <3>2, <3>5, <3>6, <3>7 DEF Keys
  <2>4. CASE WriteRecipients(p)
    <3>1. /\ task[p].pc = "recipients" /\ recipients' = task[p].key
          /\ UNCHANGED <<identity, dead>>
      BY <2>4 DEF WriteRecipients
    <3>2. task'[p].pc = "identity" /\ task'[p].key = task[p].key BY <2>4, RecipientsFields
    <3>3. Initing(p) /\ Initing(p)' BY <3>1, <3>2 DEF Initing
    <3>4. Keyed \subseteq Keyed' BY <2>2, <3>1, <3>2 DEF Keyed
    <3>5. recipients' \in Keyed' BY <3>1, <3>2 DEF Keyed
    <3>6. \A q \in Proc : Initing(q)' => Initing(q)
      <4>1. ASSUME NEW q \in Proc, Initing(q)' PROVE Initing(q)
        <5>1. CASE q = p BY <3>3, <5>1
        <5>2. CASE q # p BY <2>2, <4>1, <5>2
        <5>. QED BY <5>1, <5>2
      <4>. QED BY <4>1
    <3>7. \A f \in File : sealed'[f] # None => sealed'[f] \in Keyed' BY <2>0, <2>1, <3>4 DEF Keys
    <3>. QED BY <2>0, <2>1, <3>1, <3>5, <3>6, <3>7 DEF Keys
  <2>5. CASE WriteIdentity(p)
    <3>1. /\ task[p].pc = "identity" /\ identity' = task[p].key /\ UNCHANGED <<recipients, dead>>
      BY <2>5 DEF WriteIdentity
    <3>2. task'[p].pc = "idle" BY <2>5, IdleFields
    <3>3. Initing(p) /\ identity = None BY <2>1, <3>1 DEF Initing, Keys
    <3>4. \A q \in Proc : ~Initing(q)'
      <4>1. ~Initing(p)' BY <3>2 DEF Initing
      <4>. QED BY <2>1, <2>2, <3>3, <4>1 DEF Keys
    <3>5. Keyed \ {None} \subseteq Keyed'
      <4>1. \A q \in Proc : task[q].pc = "identity" => q = p BY <2>1, <3>3 DEF Keys, Initing
      <4>. QED BY <3>1, <3>3, <4>1 DEF Keyed
    <3>6. mirrorId' \notin Key BY <2>0, <2>1, <3>3 DEF Keys
    <3>7. /\ recipients' # None => recipients' \in Keyed'
          /\ \A f \in File : sealed'[f] # None => sealed'[f] \in Keyed'
      BY <2>0, <2>1, <3>1, <3>5 DEF Keys
    <3>. QED BY <3>4, <3>6, <3>7 DEF Keys
  <2>6. CASE Kill(p)
    <3>1. /\ dead' = (IF Initing(p) THEN dead \cup {task[p].key} ELSE dead)
          /\ UNCHANGED <<recipients, identity>>
      BY <2>6 DEF Kill
    <3>2. task'[p].pc = "idle" BY <2>6, IdleFields
    <3>3. ~Initing(p)' BY <3>2 DEF Initing
    <3>4. Keyed \subseteq Keyed' BY <2>2, <3>1 DEF Keyed, Initing
    <3>5. \A q \in Proc : Initing(q)' => Initing(q) BY <2>2, <3>3
    <3>6. /\ recipients' # None => recipients' \in Keyed'
          /\ \A f \in File : sealed'[f] # None => sealed'[f] \in Keyed'
      BY <2>0, <2>1, <3>1, <3>4 DEF Keys
    <3>. QED BY <2>0, <2>1, <3>1, <3>5, <3>6 DEF Keys
  <2>7. ~RenameRaises(p) BY <2>1 DEF RenameRaises
  <2>. QED BY <1>3, <2>3, <2>4, <2>5, <2>6, <2>7 DEF Config
<1>. QED BY <1>1, <1>2, <1>3, NextIs

-----------------------------------------------------------------------------
LEMMA InitInv == Init => Inv
<1>. SUFFICES ASSUME Init PROVE Inv OBVIOUS
<1>0. /\ \A p \in Proc : task[p] = Idle
      /\ \A f \in File : sealed[f] = None /\ mirror[f] = None
  BY DEF Init
<1>1. TypeOK
  <2>1. 0 \in 0..MaxKey /\ 0 \in 0..MaxKill BY BackupAssumption
  <2>2. task \in [Proc -> Task] BY IdleIsTask DEF Init
  <2>. QED BY <2>1, <2>2 DEF Init, TypeOK
<1>2. \A p \in Proc : Placed(p) BY <1>0 DEF Placed, Copying, Busy, Initing, Idle
<1>3. Closed
  <2>1. \A p \in Proc : Closing(p) BY <1>0 DEF Closing, Copying, Busy, Initing, Idle
  <2>. QED BY <1>0, <2>1 DEF Init, Closed, MirrorIsClosed
<1>4. \A f \in File : Mirrored(f)
  BY <1>0 DEF Init, Mirrored, Copied, At, Writes, Dealt, Idle
<1>5. Keys
  <2>1. \A p \in Proc : ~Initing(p) BY <1>0 DEF Initing, Idle
  <2>. QED BY <1>0, <2>1, BackupAssumption DEF Init, Keys
<1>. QED BY <1>1, <1>2, <1>3, <1>4, <1>5 DEF Inv

LEMMA InvStep == Inv /\ [Next]_vars => Inv'
<1>. SUFFICES ASSUME Inv, [Next]_vars PROVE Inv' OBVIOUS
<1>1. CASE Next
  <2>1. TypeOK' BY <1>1, TypeStep DEF Inv
  <2>2. \A p \in Proc : Placed(p)' BY <1>1, <2>1, PlacedStep DEF Inv
  <2>3. Closed' BY <1>1, ClosedStep DEF Inv
  <2>4. \A f \in File \ muddled' : Mirrored(f)' BY <1>1, MirroredStep DEF Inv
  <2>5. ~raced' => Keys' BY <1>1, KeysStep DEF Inv
  <2>. QED BY <2>1, <2>2, <2>3, <2>4, <2>5 DEF Inv
<1>2. CASE UNCHANGED vars
  <2>1. TypeOK' BY <1>2 DEF Inv, vars, TypeOK
  <2>2. \A p \in Proc : Placed(p)'
    BY <1>2 DEF Inv, vars, Placed, Copying, Busy, Initing, Dealt
  <2>3. Closed'
    BY <1>2 DEF Inv, vars, Closed, Closing, MirrorIsClosed, Copying, Busy, Initing
  <2>4. \A f \in File \ muddled' : Mirrored(f)'
    BY <1>2 DEF Inv, vars, Mirrored, Copied, NoHole, Whole, At, Writes, WritesFirst, Dealt
  <2>5. ~raced' => Keys' BY <1>2 DEF Inv, vars, Keys, Keyed, Initing
  <2>. QED BY <2>1, <2>2, <2>3, <2>4, <2>5 DEF Inv
<1>. QED BY <1>1, <1>2

THEOREM Invariant == Spec => []Inv
BY InitInv, InvStep, PTL DEF Spec

(***************************************************************************)
(* Every variable has its type: a copy is only written after it was opened *)
(* (backup._copy_one), by a run that listed the file.                      *)
(***************************************************************************)
THEOREM TypeCorrect == Spec => []TypeOK
<1>1. Inv => TypeOK BY DEF Inv
<1>. QED BY <1>1, Invariant, PTL

(***************************************************************************)
(* Of any number of overlapping, killed and repeated runs, each that ends  *)
(* leaves what it listed whole in the mirror, and later ones keep it so,   *)
(* but for copies muddled by a kill (backup._copy_tree).                   *)
(***************************************************************************)
THEOREM BackedUpStaysWhole == Spec => []BackedUpIsWhole
<1>1. Inv => BackedUpIsWhole
  <2>1. ASSUME TypeOK PROVE saved \subseteq File BY <2>1 DEF TypeOK
  <2>. QED BY <2>1 DEF Inv, Mirrored, BackedUpIsWhole
<1>. QED BY <1>1, Invariant, PTL

(***************************************************************************)
(* The log is listed before the blobs: of whatever was sealed meanwhile,   *)
(* every event saved has its blob, and every correction its receipt unless *)
(* that was sealed while the run was listing (backup.run).                 *)
(***************************************************************************)
THEOREM MirrorStaysClosed == Spec => []MirrorIsClosed
<1>1. Inv => MirrorIsClosed BY DEF Inv, Closed
<1>. QED BY <1>1, Invariant, PTL

(***************************************************************************)
(* The identity opens everything sealed, and the mirrored one too, unless  *)
(* an init was killed before it wrote its identity or two were under way   *)
(* (keys.init).                                                            *)
(***************************************************************************)
THEOREM EverythingStaysOpen == Spec => []EverythingOpens
<1>1. Inv => EverythingOpens
  <2>. SUFFICES ASSUME Inv, ~raced, NEW f \in File, sealed[f] # None
                PROVE  /\ identity # None => sealed[f] \in {identity} \cup dead
                       /\ mirrorId \in Key => sealed[f] \in {mirrorId} \cup dead
    BY DEF EverythingOpens
  <2>1. Keys BY DEF Inv
  <2>2. identity # None => \A p \in Proc : task[p].pc # "identity" BY <2>1 DEF Keys, Initing
  <2>3. identity # None => sealed[f] \in {identity} \cup dead BY <2>1, <2>2 DEF Keys, Keyed
  <2>4. mirrorId \in Key => mirrorId = identity /\ identity # None
    BY <2>1, BackupAssumption DEF Keys
  <2>. QED BY <2>3, <2>4
<1>. QED BY <1>1, Invariant, PTL

=============================================================================
