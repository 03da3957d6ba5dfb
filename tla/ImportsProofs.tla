---------------------------- MODULE ImportsProofs ----------------------------
(***************************************************************************)
(* Proofs about Imports, for any folder, any exports however they overlap, *)
(* any number of imports at once and any number of databases.              *)
(***************************************************************************)
EXTENDS Imports, TLAPS

-----------------------------------------------------------------------------
(* The inductive invariant.                                                *)

Busy(p) == pc[p] \notin {"idle", "hash"}
Parsed(p) == pc[p] \in {"poll", "begin", "append", "commit"}

\* A process that is at a file finds there what it hashed, or nothing, and keeps under every
\* hash what has that hash.
Hashed ==
  /\ \A p \in Proc : Busy(p) => /\ task[p].path \in Path
                                /\ task[p].hash \in Export
                                /\ Here(p) \in {None, task[p].hash}
  /\ \A e \in Export : blobs[e] \in {None, e} /\ aside[e] \in {None, e}
  /\ \A p \in Proc : pc[p] = "unlink" => blobs[task[p].hash] = task[p].hash

\* What is parsed is an export of some dialect, and its records are sealed or on the list.
Listed ==
  /\ \A p \in Proc : Parsed(p) => /\ task[p].read \in Recognised
                                  /\ task[p].read = task[p].hash
                                  /\ RecordsIn[task[p].read] \subseteq recorded \cup task[p].todo
  /\ \A p \in Proc : pc[p] = "commit" => RecordsIn[task[p].read] \subseteq recorded
  /\ \A p \in Proc : pc[p] = "aside" => Here(p) = None \/ task[p].hash \notin Recognised

\* A claim comes from a poll event, and only what was polled or has no dialect is removed.
Polled ==
  /\ \A g \in 0..MaxGen : claimed[g] \subseteq polled
  /\ replaying.snap \subseteq polled
  /\ \A p \in Proc : pc[p] \in {"begin", "append", "commit"} => task[p].read \in polled
  /\ \A p \in Proc : pc[p] \in {"seal", "unlink"} => task[p].hash \in polled
  /\ \A e \in Recognised : Gone(e) => e \in polled

\* What was polled is in the log with its records.
Complete ==
  \A e \in Recognised \ killed : e \in polled /\ ~Recording(e) => RecordsIn[e] \subseteq recorded

Inv == TypeOK /\ Hashed /\ Listed /\ Polled /\ Complete /\ NothingVanishes

-----------------------------------------------------------------------------
(* Locals.                                                                 *)

LEMMA IdleIsTask == Idle \in Task /\ "idle" \in Place
BY ImportsAssumption DEF Idle, Task, Place, MaybeExport

\* What the steps assign to the locals is of their type.
LEMMA TaskUpdates ==
  ASSUME NEW t \in Task
  PROVE  /\ \A f \in Path, e \in Export : [t EXCEPT !.path = f, !.hash = e] \in Task
         /\ \A e \in Export : \A R \in SUBSET Rec : [t EXCEPT !.read = e, !.todo = R] \in Task
         /\ \A R \in SUBSET Rec : [t EXCEPT !.todo = R] \in Task
         /\ \A c \in BOOLEAN, g \in 0..MaxGen, L \in SUBSET Path :
              [Idle EXCEPT !.conn = c, !.gen = g, !.left = L] \in Task
<1>1. /\ t = [conn |-> t.conn, gen |-> t.gen, left |-> t.left, path |-> t.path,
              hash |-> t.hash, read |-> t.read, todo |-> t.todo]
      /\ t.conn \in BOOLEAN /\ t.gen \in 0..MaxGen /\ t.left \in SUBSET Path
      /\ t.path \in Path \cup {None} /\ t.hash \in MaybeExport /\ t.read \in MaybeExport
      /\ t.todo \in SUBSET Rec
  BY DEF Task
<1>2. ASSUME NEW f \in Path, NEW e \in Export PROVE [t EXCEPT !.path = f, !.hash = e] \in Task
  BY <1>1 DEF Task, MaybeExport
<1>3. ASSUME NEW e \in Export, NEW R \in SUBSET Rec
      PROVE  [t EXCEPT !.read = e, !.todo = R] \in Task
  BY <1>1 DEF Task, MaybeExport
<1>4. ASSUME NEW R \in SUBSET Rec PROVE [t EXCEPT !.todo = R] \in Task
  BY <1>1 DEF Task
<1>5. ASSUME NEW c \in BOOLEAN, NEW g \in 0..MaxGen, NEW L \in SUBSET Path
      PROVE  [Idle EXCEPT !.conn = c, !.gen = g, !.left = L] \in Task
  BY DEF Idle, Task, MaybeExport
<1>. QED BY <1>2, <1>3, <1>4, <1>5

-----------------------------------------------------------------------------
(* Steps that end a file or a command.                                     *)

\* Finish leaves the process idle, the others where they are.
LEMMA FinishIs ==
  ASSUME TypeOK, NEW p \in Proc, Finish(p)
  PROVE  /\ pc'[p] = "idle" /\ task'[p] = Idle
         /\ \A q \in Proc : q # p => pc'[q] = pc[q] /\ task'[q] = task[q]
         /\ pc' \in [Proc -> Place] /\ task' \in [Proc -> Task]
BY IdleIsTask DEF Finish, TypeOK

\* NextFile leaves it idle or about to hash, and the others where they are.
LEMMA NextFileIs ==
  ASSUME TypeOK, NEW p \in Proc, NextFile(p)
  PROVE  /\ pc'[p] \in {"idle", "hash"} /\ task'[p].read = None
         /\ \A q \in Proc : q # p => pc'[q] = pc[q] /\ task'[q] = task[q]
         /\ pc' \in [Proc -> Place] /\ task' \in [Proc -> Task]
<1>1. CASE task[p].left \ {task[p].path} = {}
  BY <1>1, FinishIs DEF NextFile, Idle
<1>2. CASE task[p].left \ {task[p].path} # {}
  <2> DEFINE t == [Idle EXCEPT !.conn = task[p].conn, !.gen = task[p].gen,
                               !.left = task[p].left \ {task[p].path}]
  <2>1. /\ task[p] \in Task /\ task[p].conn \in BOOLEAN /\ task[p].gen \in 0..MaxGen
        /\ task[p].left \in SUBSET Path
    BY DEF TypeOK, Task
  <2>2. t \in Task BY <2>1, TaskUpdates
  <2>3. t.read = None BY DEF Idle
  <2>4. task' = [task EXCEPT ![p] = t] /\ pc' = [pc EXCEPT ![p] = "hash"]
    BY <1>2 DEF NextFile, Goto
  <2> HIDE DEF t
  <2>. QED BY <2>2, <2>3, <2>4 DEF TypeOK, Place
<1>. QED BY <1>1, <1>2

\* A step of p leaves the others where they are.
Step(p) ==
  \/ Import(p) \/ Hash(p) \/ Parse(p) \/ SetAside(p) \/ Poll(p) \/ Begin(p)
  \/ Append(p) \/ Commit(p) \/ Seal(p) \/ Unlink(p) \/ Crash(p)

LEMMA OthersStay ==
  ASSUME TypeOK, NEW p \in Proc, Step(p), NEW q \in Proc, q # p
  PROVE  pc'[q] = pc[q] /\ task'[q] = task[q]
<1>1. CASE Import(p) BY <1>1 DEF Import, Goto, TypeOK
<1>2. CASE Hash(p)
  <2>1. PICK f \in task[p].left :
          IF inbox[f] = None THEN Finish(p)
          ELSE /\ task' = [task EXCEPT ![p].path = f, ![p].hash = inbox[f]]
               /\ Goto(p, IF IsClaimed(p, inbox[f]) THEN "seal" ELSE "parse")
    BY <1>2 DEF Hash
  <2>. QED BY <2>1 DEF Goto, Finish, TypeOK
<1>3. CASE Parse(p) BY <1>3 DEF Parse, Goto, TypeOK
<1>4. CASE SetAside(p) BY <1>4, NextFileIs, FinishIs DEF SetAside
<1>5. CASE Poll(p) BY <1>5 DEF Poll, Goto, TypeOK
<1>6. CASE Begin(p) BY <1>6 DEF Begin, Goto, TypeOK
<1>7. CASE Append(p) BY <1>7 DEF Append, Goto, TypeOK
<1>8. CASE Commit(p) BY <1>8 DEF Commit, Goto, TypeOK
<1>9. CASE Seal(p) BY <1>9, FinishIs DEF Seal, Goto, TypeOK
<1>10. CASE Unlink(p) BY <1>10, NextFileIs DEF Unlink
<1>11. CASE Crash(p) BY <1>11, FinishIs DEF Crash
<1>. QED BY <1>1, <1>2, <1>3, <1>4, <1>5, <1>6, <1>7, <1>8, <1>9, <1>10, <1>11 DEF Step

-----------------------------------------------------------------------------
(* Types.                                                                  *)

LEMMA InitInv == Init => Inv
<1>. SUFFICES ASSUME Init PROVE Inv OBVIOUS
<1>1. TypeOK
  <2>1. /\ inbox \in [Path -> MaybeExport] /\ aside \in [Export -> MaybeExport]
        /\ blobs \in [Export -> MaybeExport]
    BY DEF Init, MaybeExport
  <2>2. 0 \in 0..MaxGen BY ImportsAssumption
  <2>3. pc \in [Proc -> Place] /\ task \in [Proc -> Task]
    BY IdleIsTask DEF Init
  <2>4. replaying \in [on: BOOLEAN, snap: SUBSET Export, gen: 0..MaxGen]
    BY <2>2 DEF Init
  <2>. QED BY <2>1, <2>2, <2>3, <2>4 DEF Init, TypeOK
<1>2. \A p \in Proc : pc[p] = "idle" /\ task[p] = Idle BY DEF Init
<1>3. Hashed /\ Listed BY <1>2 DEF Init, Hashed, Listed, Busy, Parsed
<1>4. Polled /\ Complete /\ NothingVanishes
  BY <1>2 DEF Init, Polled, Complete, NothingVanishes, Gone
<1>. QED BY <1>1, <1>3, <1>4 DEF Inv

\* What Goto and a change of p's locals leave typed.
LEMMA StepTyped ==
  ASSUME TypeOK, NEW p \in Proc, NEW t \in Task, NEW x \in Place
  PROVE  /\ [task EXCEPT ![p] = t] \in [Proc -> Task]
         /\ [pc EXCEPT ![p] = x] \in [Proc -> Place]
BY DEF TypeOK

\* A step of p leaves pc and task typed.
LEMMA LocalsTyped ==
  ASSUME TypeOK, NEW p \in Proc, Step(p)
  PROVE  pc' \in [Proc -> Place] /\ task' \in [Proc -> Task]
<1>. /\ pc \in [Proc -> Place] /\ task \in [Proc -> Task] /\ task[p] \in Task
     /\ task[p].todo \in SUBSET Rec
  BY DEF TypeOK, Task
<1>1. CASE Import(p)
  <2>1. [Idle EXCEPT !.conn = open, !.gen = gen, !.left = {f \in Path : inbox[f] # None}] \in Task
    BY TaskUpdates DEF TypeOK
  <2>. QED BY <1>1, <2>1, StepTyped DEF Import, Goto, Place
<1>2. CASE Hash(p)
  <2>1. PICK f \in task[p].left :
          IF inbox[f] = None THEN Finish(p)
          ELSE /\ task' = [task EXCEPT ![p].path = f, ![p].hash = inbox[f]]
               /\ Goto(p, IF IsClaimed(p, inbox[f]) THEN "seal" ELSE "parse")
    BY <1>2 DEF Hash
  <2>2. CASE inbox[f] = None BY <2>1, <2>2, FinishIs
  <2>3. CASE inbox[f] # None
    <3>1. f \in Path /\ inbox[f] \in Export BY <2>3 DEF TypeOK, Task, MaybeExport
    <3>2. [task[p] EXCEPT !.path = f, !.hash = inbox[f]] \in Task BY <3>1, TaskUpdates
    <3>3. task' = [task EXCEPT ![p] = [task[p] EXCEPT !.path = f, !.hash = inbox[f]]]
      BY <2>1, <2>3
    <3>. QED BY <2>1, <2>3, <3>2, <3>3 DEF Goto, Place
  <2>. QED BY <2>2, <2>3
<1>3. CASE Parse(p)
  <2>1. CASE Here(p) \in Recognised
    <3>1. [task[p] EXCEPT !.read = Here(p), !.todo = RecordsIn[Here(p)]] \in Task
      BY <2>1, TaskUpdates, ImportsAssumption
    <3>2. task' = [task EXCEPT ![p] =
                    [task[p] EXCEPT !.read = Here(p), !.todo = RecordsIn[Here(p)]]]
      BY <1>3, <2>1 DEF Parse
    <3>. QED BY <1>3, <2>1, <3>1, <3>2 DEF Parse, Goto, Place
  <2>2. CASE Here(p) \notin Recognised BY <1>3, <2>2 DEF Parse, Goto, Place
  <2>. QED BY <2>1, <2>2
<1>4. CASE SetAside(p) BY <1>4, NextFileIs, FinishIs DEF SetAside
<1>5. CASE Poll(p) BY <1>5 DEF Poll, Goto, Place
<1>6. CASE Begin(p) BY <1>6 DEF Begin, Goto, Place
<1>7. CASE Append(p)
  <2>1. PICK r \in task[p].todo :
          /\ task' = [task EXCEPT ![p].todo = @ \ {r}]
          /\ Goto(p, IF task[p].todo = {r} THEN "commit" ELSE "append")
    BY <1>7 DEF Append
  <2>2. [task[p] EXCEPT !.todo = task[p].todo \ {r}] \in Task BY TaskUpdates
  <2>3. task' = [task EXCEPT ![p] = [task[p] EXCEPT !.todo = task[p].todo \ {r}]] BY <2>1
  <2>. QED BY <2>1, <2>2, <2>3 DEF Goto, Place
<1>8. CASE Commit(p) BY <1>8 DEF Commit, Goto, Place
<1>9. CASE Seal(p) BY <1>9, FinishIs DEF Seal, Goto, Place
<1>10. CASE Unlink(p) BY <1>10, NextFileIs DEF Unlink
<1>11. CASE Crash(p) BY <1>11, FinishIs DEF Crash
<1>. QED BY <1>1, <1>2, <1>3, <1>4, <1>5, <1>6, <1>7, <1>8, <1>9, <1>10, <1>11 DEF Step

LEMMA TypeStep ==
  ASSUME TypeOK, Hashed, Listed, Polled, Next
  PROVE  TypeOK'
<1>. USE ImportsAssumption
<1>1. ASSUME NEW f \in Path, NEW e \in Export, Drop(f, e) PROVE TypeOK'
  BY <1>1 DEF Drop, TypeOK, MaybeExport, log, cache
<1>2. ASSUME NEW p \in Proc, Step(p) PROVE TypeOK'
  <2>1. pc' \in [Proc -> Place] /\ task' \in [Proc -> Task] BY <1>2, LocalsTyped
  <2>2. task[p] \in Task BY DEF TypeOK
  <2>3. CASE Import(p) \/ Hash(p) \/ Parse(p)
    BY <2>1, <2>3 DEF Import, Hash, Parse, TypeOK, files, log, cache, history
  <2>4. CASE SetAside(p)
    <3>1. inbox' \in [Path -> MaybeExport] /\ aside' \in [Export -> MaybeExport]
      BY <2>4 DEF SetAside, Here, TypeOK, MaybeExport, Hashed, Busy
    <3>. QED BY <2>1, <2>4, <3>1 DEF SetAside, TypeOK, log, cache, history
  <2>5. CASE Poll(p)
    BY <2>1, <2>5 DEF Poll, TypeOK, Listed, Parsed, files, cache, history
  <2>6. CASE Begin(p)
    BY <2>1, <2>6 DEF Begin, TypeOK, files, log, history
  <2>7. CASE Append(p)
    BY <2>1, <2>2, <2>7 DEF Append, TypeOK, Task, files, cache, history
  <2>8. CASE Commit(p)
    <3>1. /\ task[p].read \in Export
          /\ claimed \in [0..MaxGen -> SUBSET Export]
      BY <2>8 DEF Commit, Polled, TypeOK
    <3>2. claimed' \in [0..MaxGen -> SUBSET Export] BY <2>8, <3>1 DEF Commit
    <3>. QED BY <2>1, <2>8, <3>2 DEF Commit, TypeOK, files, log, history
  <2>9. CASE Seal(p)
    <3>1. blobs' \in [Export -> MaybeExport]
      BY <2>9 DEF Seal, Here, TypeOK, MaybeExport, Hashed, Busy
    <3>. QED BY <2>1, <2>9, <3>1 DEF Seal, TypeOK, log, cache, history
  <2>10. CASE Unlink(p)
    BY <2>1, <2>10 DEF Unlink, TypeOK, MaybeExport, log, cache, history
  <2>11. CASE Crash(p)
    BY <2>1, <2>2, <2>11 DEF Crash, TypeOK, Task, MaybeExport, Listed, Parsed, files, log
  <2>. QED BY <1>2, <2>3, <2>4, <2>5, <2>6, <2>7, <2>8, <2>9, <2>10, <2>11 DEF Step
<1>3. CASE Lock
  <2>1. gen' \in 0..MaxGen BY <1>3 DEF Lock, TypeOK
  <2>. QED BY <1>3, <2>1 DEF Lock, TypeOK, files, log, history
<1>4. CASE UnlockScan BY <1>4 DEF UnlockScan, TypeOK, files, log, history
<1>5. CASE UnlockFinish BY <1>5 DEF UnlockFinish, TypeOK, files, log, history
<1>6. CASE UnlockKilled BY <1>6 DEF UnlockKilled, TypeOK, files, log, cache, history
<1>. QED BY <1>1, <1>2, <1>3, <1>4, <1>5, <1>6 DEF Next, Step

-----------------------------------------------------------------------------
(* The files.                                                              *)

LEMMA HashedStep ==
  ASSUME TypeOK, TypeOK', Hashed, Next
  PROVE  Hashed'
<1>. USE ImportsAssumption
<1>1. ASSUME NEW f \in Path, NEW e \in Export, Drop(f, e) PROVE Hashed'
  <2>1. pc' = pc /\ task' = task /\ blobs' = blobs /\ aside' = aside
        /\ inbox' = [inbox EXCEPT ![f] = e] /\ \A p \in Proc : task[p].path # f
    BY <1>1 DEF Drop
  <2>2. \A p \in Proc : Busy(p)' = Busy(p) BY <2>1 DEF Busy
  <2>3. \A p \in Proc : Busy(p) => Here(p)' = Here(p) BY <2>1 DEF Here, Hashed, TypeOK
  <2>. QED BY <2>1, <2>2, <2>3 DEF Hashed
<1>2. ASSUME NEW p \in Proc, Step(p) PROVE Hashed'
  <2>0. \A q \in Proc : q # p => pc'[q] = pc[q] /\ task'[q] = task[q] BY <1>2, OthersStay
  \* What a step may do to the files.
  <2>1. \A f \in Path : inbox'[f] \in {inbox[f], None}
    <3>1. CASE SetAside(p) BY <3>1 DEF SetAside, TypeOK
    <3>2. CASE Unlink(p) BY <3>2 DEF Unlink, TypeOK
    <3>3. CASE inbox' = inbox BY <3>3
    <3>. QED BY <1>2, <3>1, <3>2, <3>3
         DEF Step, Import, Hash, Parse, Poll, Begin, Append, Commit, Seal, Crash, files
  <2>2. \A e \in Export : blobs'[e] \in {None, e} /\ aside'[e] \in {None, e}
    <3>1. CASE SetAside(p)
      BY <3>1 DEF SetAside, TypeOK, Hashed, Busy, Here
    <3>2. CASE Seal(p)
      BY <3>2 DEF Seal, TypeOK, Hashed, Busy, Here
    <3>3. CASE blobs' = blobs /\ aside' = aside BY <3>3 DEF Hashed
    <3>. QED BY <1>2, <3>1, <3>2, <3>3
         DEF Step, Import, Hash, Parse, Poll, Begin, Append, Commit, Unlink, Crash, files
  <2>3. \A e \in Export : blobs[e] = e => blobs'[e] = e
    <3>1. CASE Seal(p) BY <3>1 DEF Seal, TypeOK
    <3>2. CASE blobs' = blobs BY <3>2
    <3>. QED BY <1>2, <3>1, <3>2
         DEF Step, Import, Hash, Parse, SetAside, Poll, Begin, Append, Commit, Unlink, Crash,
             files
  <2>4. ASSUME NEW q \in Proc, q # p
        PROVE  /\ Busy(q)' => /\ task'[q].path \in Path /\ task'[q].hash \in Export
                              /\ Here(q)' \in {None, task'[q].hash}
               /\ pc'[q] = "unlink" => blobs'[task'[q].hash] = task'[q].hash
    BY <2>0, <2>1, <2>3, <2>4 DEF Hashed, Busy, Here
  <2>5. /\ Busy(p)' => /\ task'[p].path \in Path /\ task'[p].hash \in Export
                       /\ Here(p)' \in {None, task'[p].hash}
        /\ pc'[p] = "unlink" => blobs'[task'[p].hash] = task'[p].hash
    <3>1. CASE Import(p) BY <3>1 DEF Import, Goto, TypeOK, Busy
    <3>2. CASE Hash(p)
      <4>1. PICK f \in task[p].left :
              IF inbox[f] = None THEN Finish(p)
              ELSE /\ task' = [task EXCEPT ![p].path = f, ![p].hash = inbox[f]]
                   /\ Goto(p, IF IsClaimed(p, inbox[f]) THEN "seal" ELSE "parse")
        BY <3>2 DEF Hash
      <4>2. CASE inbox[f] = None BY <4>1, <4>2, FinishIs DEF Busy
      <4>3. CASE inbox[f] # None
        <5>1. f \in Path /\ inbox[f] \in Export BY <4>3 DEF TypeOK, Task, MaybeExport
        <5>2. task'[p].path = f /\ task'[p].hash = inbox[f] /\ inbox' = inbox
              /\ pc'[p] # "unlink"
          BY <3>2, <4>1, <4>3 DEF Hash, Goto, files, TypeOK, Task
        <5>. QED BY <5>1, <5>2 DEF Here
      <4>. QED BY <4>2, <4>3
    <3>3. CASE SetAside(p) BY <3>3, NextFileIs, FinishIs DEF SetAside, Busy
    <3>4. CASE Unlink(p) BY <3>4, NextFileIs DEF Unlink, Busy
    <3>5. CASE Crash(p) BY <3>5, FinishIs DEF Crash, Busy
    <3>6. CASE Seal(p)
      <4>1. CASE Here(p) = None BY <3>6, <4>1, FinishIs DEF Seal, Busy
      <4>2. CASE Here(p) # None
        <5>1. task' = task /\ inbox' = inbox /\ Busy(p) BY <3>6, <4>2 DEF Seal, Busy
        <5>2. Here(p) = task[p].hash /\ task[p].hash \in Export
              /\ blobs[task[p].hash] \in {None, task[p].hash}
          BY <4>2, <5>1 DEF Hashed
        <5>3. blobs'[task[p].hash] = task[p].hash
          BY <3>6, <4>2, <5>2 DEF Seal, TypeOK
        <5>. QED BY <5>1, <5>2, <5>3 DEF Hashed, Here
      <4>. QED BY <4>1, <4>2
    <3>7. CASE Parse(p) \/ Poll(p) \/ Begin(p) \/ Append(p) \/ Commit(p)
      <4>1. /\ Busy(p) /\ inbox' = inbox /\ pc'[p] # "unlink"
            /\ task'[p].path = task[p].path /\ task'[p].hash = task[p].hash
        BY <3>7 DEF Parse, Poll, Begin, Append, Commit, Busy, Goto, TypeOK, Task, files
      <4>. QED BY <4>1 DEF Hashed, Here
    <3>. QED BY <1>2, <3>1, <3>2, <3>3, <3>4, <3>5, <3>6, <3>7 DEF Step
  <2>. QED BY <2>2, <2>4, <2>5 DEF Hashed
<1>3. CASE Lock \/ UnlockScan \/ UnlockFinish \/ UnlockKilled
  <2>1. UNCHANGED <<inbox, aside, blobs, pc, task>>
    BY <1>3 DEF Lock, UnlockScan, UnlockFinish, UnlockKilled, files
  <2>. QED BY <2>1 DEF Hashed, Busy, Here
<1>. QED BY <1>1, <1>2, <1>3 DEF Next, Step

-----------------------------------------------------------------------------
(* The log only grows.                                                     *)

LEMMA Grows ==
  ASSUME TypeOK, Next
  PROVE  /\ polled \subseteq polled' /\ recorded \subseteq recorded'
         /\ killed \subseteq killed'
BY DEF Next, Drop, Import, Hash, Parse, SetAside, Poll, Begin, Append, Commit, Seal, Unlink,
       Crash, Lock, UnlockScan, UnlockFinish, UnlockKilled, files, log, cache, history

\* A process that is not the one that steps finds what it found, or nothing.
LEMMA FoundByOthers ==
  ASSUME TypeOK, Hashed, Next, NEW q \in Proc, Busy(q),
         pc'[q] = pc[q], task'[q] = task[q]
  PROVE  Here(q)' \in {Here(q), None}
<1>. task[q].path \in Path BY DEF Hashed
<1>1. ASSUME NEW f \in Path, NEW e \in Export, Drop(f, e) PROVE Here(q)' = Here(q)
  BY <1>1 DEF Drop, Here, TypeOK
<1>2. CASE UNCHANGED inbox BY <1>2 DEF Here
<1>3. ASSUME NEW p \in Proc, SetAside(p) \/ Unlink(p) PROVE Here(q)' \in {Here(q), None}
  BY <1>3 DEF SetAside, Unlink, Here, TypeOK
<1>. QED
  BY <1>1, <1>2, <1>3
  DEF Next, Import, Hash, Parse, Poll, Begin, Append, Commit, Seal, Crash, Lock, UnlockScan,
      UnlockFinish, UnlockKilled, files

LEMMA ListedStep ==
  ASSUME TypeOK, Hashed, Hashed', Listed, Next
  PROVE  Listed'
<1>. USE ImportsAssumption
<1>. DEFINE About(q) ==
       /\ Parsed(q) => /\ task[q].read \in Recognised
                       /\ task[q].read = task[q].hash
                       /\ RecordsIn[task[q].read] \subseteq recorded \cup task[q].todo
       /\ pc[q] = "commit" => RecordsIn[task[q].read] \subseteq recorded
       /\ pc[q] = "aside" => Here(q) = None \/ task[q].hash \notin Recognised
<1>1. \A q \in Proc : About(q) BY DEF Listed
<1>2. ASSUME NEW q \in Proc, pc'[q] = pc[q], task'[q] = task[q] PROVE About(q)'
  <2>1. Busy(q) => Here(q)' \in {Here(q), None} BY <1>2, FoundByOthers
  <2>. QED BY <1>1, <1>2, <2>1, Grows DEF Parsed, Busy
<1>3. ASSUME NEW p \in Proc, Step(p) PROVE About(p)'
  <2>1. CASE Import(p) BY <2>1 DEF Import, Goto, TypeOK, Parsed
  <2>2. CASE Hash(p)
    <3>1. pc'[p] \in {"idle", "seal", "parse"} BY <2>2, FinishIs DEF Hash, Goto, TypeOK
    <3>. QED BY <3>1 DEF Parsed
  <2>3. CASE Parse(p)
    <3>1. Here(p)' = Here(p) /\ task'[p].hash = task[p].hash /\ Here(p) \in {None, task[p].hash}
      <4>1. inbox' = inbox /\ task'[p].path = task[p].path /\ task'[p].hash = task[p].hash
        BY <2>3 DEF Parse, TypeOK, Task, files
      <4>2. Busy(p) BY <2>3 DEF Parse, Busy
      <4>. QED BY <4>1, <4>2 DEF Hashed, Here
    <3>2. CASE Here(p) \in Recognised
      <4>1. task'[p].read = Here(p) /\ task'[p].todo = RecordsIn[Here(p)] /\ pc'[p] = "poll"
        BY <2>3, <3>2 DEF Parse, Goto, TypeOK, Task
      <4>. QED BY <3>1, <3>2, <4>1 DEF Parsed
    <3>3. CASE Here(p) \notin Recognised
      <4>1. pc'[p] = "aside" BY <2>3, <3>3 DEF Parse, Goto, TypeOK
      <4>. QED BY <3>1, <3>3, <4>1 DEF Parsed
    <3>. QED BY <3>2, <3>3
  <2>4. CASE SetAside(p) BY <2>4, NextFileIs, FinishIs DEF SetAside, Parsed
  <2>5. CASE Poll(p)
    <3>1. pc'[p] = "begin" /\ task' = task /\ recorded' = recorded BY <2>5 DEF Poll, Goto, TypeOK
    <3>. QED BY <2>5, <3>1, <1>1 DEF Parsed, Poll
  <2>6. CASE Begin(p)
    <3>1. /\ pc'[p] \in {"append", "commit"} /\ task' = task /\ recorded' = recorded
          /\ pc'[p] = "commit" => task[p].todo = {}
      BY <2>6 DEF Begin, Goto, TypeOK, log
    <3>. QED BY <2>6, <3>1, <1>1 DEF Parsed, Begin
  <2>7. CASE Append(p)
    <3>1. PICK r \in task[p].todo :
            /\ recorded' = recorded \cup {r}
            /\ task' = [task EXCEPT ![p].todo = @ \ {r}]
            /\ Goto(p, IF task[p].todo = {r} THEN "commit" ELSE "append")
      BY <2>7 DEF Append
    <3>2. /\ task'[p].read = task[p].read /\ task'[p].hash = task[p].hash
          /\ task'[p].todo = task[p].todo \ {r}
      BY <3>1 DEF TypeOK, Task
    <3>3. /\ pc'[p] \in {"append", "commit"}
          /\ pc'[p] = "commit" => task[p].todo = {r}
      BY <3>1 DEF Goto, TypeOK
    <3>4. /\ task[p].read \in Recognised /\ task[p].read = task[p].hash
          /\ RecordsIn[task[p].read] \subseteq recorded \cup task[p].todo
      BY <1>1, <2>7 DEF Parsed, Append
    <3>5. RecordsIn[task[p].read] \subseteq recorded' \cup task'[p].todo BY <3>1, <3>2, <3>4
    <3>6. pc'[p] = "commit" => RecordsIn[task[p].read] \subseteq recorded'
      BY <3>1, <3>3, <3>4
    <3>. QED BY <3>2, <3>3, <3>4, <3>5, <3>6 DEF Parsed
  <2>8. CASE Commit(p) BY <2>8 DEF Commit, Goto, TypeOK, Parsed
  <2>9. CASE Seal(p) BY <2>9, FinishIs DEF Seal, Goto, TypeOK, Parsed
  <2>10. CASE Unlink(p) BY <2>10, NextFileIs DEF Unlink, Parsed
  <2>11. CASE Crash(p) BY <2>11, FinishIs DEF Crash, Parsed
  <2>. QED BY <1>3, <2>1, <2>2, <2>3, <2>4, <2>5, <2>6, <2>7, <2>8, <2>9, <2>10, <2>11 DEF Step
<1>4. ASSUME NEW p \in Proc, Step(p), NEW q \in Proc PROVE About(q)'
  BY <1>2, <1>3, <1>4, OthersStay
<1>5. ASSUME UNCHANGED <<pc, task>>, NEW q \in Proc PROVE About(q)'
  BY <1>2, <1>5
<1>6. \A q \in Proc : About(q)'
  <2>. HIDE DEF About
  <2>. QED BY <1>4, <1>5 DEF Next, Step, Drop, Lock, UnlockScan, UnlockFinish, UnlockKilled
<1>. QED BY <1>6 DEF Listed

-----------------------------------------------------------------------------
(* The polls.                                                              *)

LEMMA ClaimsArePolled ==
  ASSUME TypeOK, Listed, Polled, Next
  PROVE  /\ \A g \in 0..MaxGen : claimed'[g] \subseteq polled'
         /\ replaying'.snap \subseteq polled'
<1>. USE ImportsAssumption
<1>1. polled \subseteq polled' BY Grows
<1>2. ASSUME NEW p \in Proc, Commit(p)
      PROVE  /\ \A g \in 0..MaxGen : claimed'[g] \subseteq polled'
             /\ replaying'.snap \subseteq polled'
  <2>1. task[p].read \in polled BY <1>2 DEF Commit, Polled
  <2>2. \A g \in 0..MaxGen : claimed'[g] \subseteq claimed[g] \cup {task[p].read}
    BY <1>2 DEF Commit, TypeOK
  <2>. QED BY <1>1, <1>2, <2>1, <2>2 DEF Commit, Polled
<1>3. ASSUME UnlockFinish
      PROVE  /\ \A g \in 0..MaxGen : claimed'[g] \subseteq polled'
             /\ replaying'.snap \subseteq polled'
  <2>1. \A g \in 0..MaxGen : claimed'[g] \subseteq claimed[g] \cup replaying.snap
    BY <1>3 DEF UnlockFinish, TypeOK
  <2>. QED BY <1>1, <1>3, <2>1 DEF UnlockFinish, Polled
<1>4. ASSUME UnlockScan \/ UnlockKilled
      PROVE  /\ \A g \in 0..MaxGen : claimed'[g] \subseteq polled'
             /\ replaying'.snap \subseteq polled'
  BY <1>1, <1>4 DEF UnlockScan, UnlockKilled, Polled, log, cache
<1>5. ASSUME UNCHANGED <<claimed, replaying>>
      PROVE  /\ \A g \in 0..MaxGen : claimed'[g] \subseteq polled'
             /\ replaying'.snap \subseteq polled'
  BY <1>1, <1>5 DEF Polled
<1>. QED
  BY <1>2, <1>3, <1>4, <1>5
  DEF Next, Drop, Import, Hash, Parse, SetAside, Poll, Begin, Append, Seal, Unlink, Crash, Lock,
      cache

LEMMA AtFilesPolled ==
  ASSUME TypeOK, Hashed, Listed, Polled, Next, NEW q \in Proc
  PROVE  /\ pc'[q] \in {"begin", "append", "commit"} => task'[q].read \in polled'
         /\ pc'[q] \in {"seal", "unlink"} => task'[q].hash \in polled'
<1>. USE ImportsAssumption
<1>1. polled \subseteq polled' BY Grows
<1>2. CASE pc'[q] = pc[q] /\ task'[q] = task[q] BY <1>1, <1>2 DEF Polled
<1>3. CASE Import(q) BY <1>3 DEF Import, Goto, TypeOK
<1>4. CASE Hash(q)
  <2>1. PICK f \in task[q].left :
          IF inbox[f] = None THEN Finish(q)
          ELSE /\ task' = [task EXCEPT ![q].path = f, ![q].hash = inbox[f]]
               /\ Goto(q, IF IsClaimed(q, inbox[f]) THEN "seal" ELSE "parse")
    BY <1>4 DEF Hash
  <2>2. CASE inbox[f] = None BY <2>1, <2>2, FinishIs
  <2>3. CASE inbox[f] # None
    <3>1. /\ task'[q].hash = inbox[f] /\ pc'[q] \in {"seal", "parse"}
          /\ pc'[q] = "seal" => inbox[f] \in claimed[task[q].gen]
      BY <2>1, <2>3 DEF Goto, IsClaimed, TypeOK, Task
    <3>2. task[q].gen \in 0..MaxGen BY DEF TypeOK, Task
    <3>. QED BY <1>1, <3>1, <3>2 DEF Polled
  <2>. QED BY <2>2, <2>3
<1>5. CASE Parse(q) BY <1>5 DEF Parse, Goto, TypeOK
<1>6. CASE SetAside(q) BY <1>6, NextFileIs, FinishIs DEF SetAside
<1>7. CASE Poll(q) BY <1>7 DEF Poll, Goto, TypeOK
<1>8. CASE Begin(q) BY <1>8 DEF Begin, Goto, TypeOK, Polled, log
<1>9. CASE Append(q)
  <2>1. /\ pc'[q] \in {"append", "commit"} /\ task'[q].read = task[q].read
    BY <1>9 DEF Append, Goto, TypeOK, Task
  <2>. QED BY <1>1, <1>9, <2>1 DEF Append, Polled
<1>10. CASE Commit(q)
  <2>1. pc'[q] = "seal" /\ task' = task BY <1>10 DEF Commit, Goto, TypeOK
  <2>. QED BY <1>1, <1>10, <2>1 DEF Commit, Polled, Listed, Parsed
<1>11. CASE Seal(q)
  <2>1. pc'[q] = "idle" \/ (pc'[q] = "unlink" /\ task' = task)
    BY <1>11, FinishIs DEF Seal, Goto, TypeOK
  <2>. QED BY <1>1, <1>11, <2>1 DEF Seal, Polled
<1>12. CASE Unlink(q) BY <1>12, NextFileIs DEF Unlink
<1>13. CASE Crash(q) BY <1>13, FinishIs DEF Crash
<1>14. ASSUME NEW p \in Proc, Step(p), p # q PROVE pc'[q] = pc[q] /\ task'[q] = task[q]
  BY <1>14, OthersStay
<1>15. CASE \E p \in Proc : Step(p)
  BY <1>2, <1>3, <1>4, <1>5, <1>6, <1>7, <1>8, <1>9, <1>10, <1>11, <1>12, <1>13, <1>14, <1>15
  DEF Step
<1>16. CASE UNCHANGED <<pc, task>> BY <1>2, <1>16
<1>. QED
  BY <1>15, <1>16 DEF Next, Step, Drop, Lock, UnlockScan, UnlockFinish, UnlockKilled

-----------------------------------------------------------------------------
(* What leaves the inbox.                                                  *)

\* A step that takes e away has it in a blob or aside; aside only if no dialect has it.
LEMMA Leaving ==
  ASSUME TypeOK, Hashed, Listed, Polled, Next, NEW e \in Export, Gone(e)', ~Gone(e)
  PROVE  /\ blobs'[e] = e \/ aside'[e] = e
         /\ e \in Recognised => e \in polled'
<1>. USE ImportsAssumption
<1>1. CASE UNCHANGED <<inbox, dropped>> BY <1>1 DEF Gone
<1>2. ASSUME NEW f \in Path, NEW d \in Export, Drop(f, d) PROVE FALSE
  BY <1>2 DEF Drop, Gone, TypeOK
<1>3. ASSUME NEW p \in Proc, SetAside(p)
      PROVE  aside'[e] = e /\ e \notin Recognised
  <2>1. CASE inbox' = inbox BY <1>3, <2>1 DEF SetAside, Gone, history
  <2>2. CASE inbox' # inbox
    <3>1. /\ aside' = [aside EXCEPT ![task[p].hash] = Here(p)]
          /\ inbox' = [inbox EXCEPT ![task[p].path] = None]
          /\ Here(p) # None /\ dropped' = dropped
      BY <1>3, <2>2 DEF SetAside, history
    <3>2. Here(p) = task[p].hash /\ task[p].path \in Path /\ task[p].hash \in Export
      BY <1>3, <3>1 DEF SetAside, Hashed, Busy
    <3>3. e = Here(p) BY <3>1, <3>2 DEF Gone, Here, TypeOK
    <3>4. task[p].hash \notin Recognised BY <1>3, <3>1 DEF SetAside, Listed
    <3>. QED BY <3>1, <3>2, <3>3, <3>4 DEF TypeOK
  <2>. QED BY <2>1, <2>2
<1>4. ASSUME NEW p \in Proc, Unlink(p)
      PROVE  blobs'[e] = e /\ e \in polled'
  <2>1. /\ inbox' = [inbox EXCEPT ![task[p].path] = None] /\ dropped' = dropped
        /\ blobs' = blobs /\ polled' = polled
    BY <1>4 DEF Unlink, history, log
  <2>2. task[p].path \in Path /\ Here(p) \in {None, task[p].hash}
    BY <1>4 DEF Unlink, Hashed, Busy
  <2>3. e = Here(p) BY <2>1, <2>2 DEF Gone, Here, TypeOK
  <2>. QED BY <1>4, <2>1, <2>2, <2>3 DEF Unlink, Hashed, Polled
<1>. QED
  BY <1>1, <1>2, <1>3, <1>4
  DEF Next, Import, Hash, Parse, Poll, Begin, Append, Commit, Seal, Crash, Lock, UnlockScan,
      UnlockFinish, UnlockKilled, files, history

\* What was put away under a hash stays.
LEMMA Kept ==
  ASSUME TypeOK, Next, NEW e \in Export
  PROVE  (blobs[e] = e => blobs'[e] = e) /\ (aside[e] = e => aside'[e] = e)
<1>. USE ImportsAssumption
<1>1. ASSUME NEW p \in Proc, SetAside(p)
      PROVE  (blobs[e] = e => blobs'[e] = e) /\ (aside[e] = e => aside'[e] = e)
  BY <1>1 DEF SetAside, TypeOK
<1>2. ASSUME NEW p \in Proc, Seal(p)
      PROVE  (blobs[e] = e => blobs'[e] = e) /\ (aside[e] = e => aside'[e] = e)
  BY <1>2 DEF Seal, TypeOK
<1>. QED
  BY <1>1, <1>2
  DEF Next, Drop, Import, Hash, Parse, Poll, Begin, Append, Commit, Unlink, Crash, Lock,
      UnlockScan, UnlockFinish, UnlockKilled, files

LEMMA VanishingStep ==
  ASSUME TypeOK, Hashed, Listed, Polled, NothingVanishes, Next
  PROVE  NothingVanishes'
BY Leaving, Kept DEF NothingVanishes

LEMMA PolledStep ==
  ASSUME TypeOK, Hashed, Listed, Polled, Next
  PROVE  Polled'
<1>1. \A e \in Recognised : Gone(e)' => e \in polled'
  BY Leaving, Grows, ImportsAssumption DEF Polled
<1>. QED BY <1>1, ClaimsArePolled, AtFilesPolled DEF Polled

-----------------------------------------------------------------------------
(* What was polled is recorded.                                            *)

LEMMA CompleteStep ==
  ASSUME TypeOK, Hashed, Listed, Listed', Polled, Complete, Next
  PROVE  Complete'
<1>. USE ImportsAssumption
<1>. SUFFICES ASSUME NEW e \in Recognised, e \notin killed', e \in polled', ~Recording(e)'
              PROVE  RecordsIn[e] \subseteq recorded'
  BY DEF Complete
<1>0. recorded \subseteq recorded' /\ e \notin killed BY Grows
<1>1. ASSUME NEW p \in Proc, task[p].read = e, pc[p] \in {"begin", "append"}
      PROVE  RecordsIn[e] \subseteq recorded'
  \* p was recording e and is not any more: it ended, or was killed.
  <2>1. pc'[p] # pc[p] \/ task'[p] # task[p] BY <1>1 DEF Recording
  <2>2. Step(p)
    BY <2>1, OthersStay DEF Next, Step, Drop, Lock, UnlockScan, UnlockFinish, UnlockKilled
  <2>3. ~Crash(p) BY <1>1 DEF Crash
  <2>4. pc'[p] \in {"append", "commit"} /\ task'[p].read = e
    <3>1. CASE Begin(p) BY <1>1, <3>1 DEF Begin, Goto, TypeOK
    <3>2. CASE Append(p) BY <1>1, <3>2 DEF Append, Goto, TypeOK, Task
    <3>. QED BY <1>1, <2>2, <2>3, <3>1, <3>2
         DEF Step, Import, Hash, Parse, SetAside, Poll, Commit, Seal, Unlink
  <2>5. pc'[p] = "commit" BY <2>4 DEF Recording
  <2>. QED BY <2>4, <2>5 DEF Listed
<1>2. CASE ~Recording(e)
  <2>1. CASE e \in polled BY <1>0, <1>2, <2>1 DEF Complete
  <2>2. CASE e \notin polled
    <3>1. PICK p \in Proc : Poll(p) /\ task[p].read = e
      BY <2>2
      DEF Next, Drop, Import, Hash, Parse, SetAside, Poll, Begin, Append, Commit, Seal, Unlink,
          Crash, Lock, UnlockScan, UnlockFinish, UnlockKilled, log
    <3>2. task'[p].read = e /\ pc'[p] = "begin" BY <3>1 DEF Poll, Goto, TypeOK
    <3>. QED BY <3>2 DEF Recording
  <2>. QED BY <2>1, <2>2
<1>. QED BY <1>1, <1>2 DEF Recording

-----------------------------------------------------------------------------
LEMMA InvStep == Inv /\ [Next]_vars => Inv'
<1>. SUFFICES ASSUME Inv, [Next]_vars PROVE Inv' OBVIOUS
<1>1. CASE Next
  <2>1. TypeOK' BY <1>1, TypeStep DEF Inv
  <2>2. Hashed' BY <1>1, <2>1, HashedStep DEF Inv
  <2>3. Listed' BY <1>1, <2>2, ListedStep DEF Inv
  <2>4. Polled' BY <1>1, PolledStep DEF Inv
  <2>5. Complete' BY <1>1, <2>3, CompleteStep DEF Inv
  <2>6. NothingVanishes' BY <1>1, VanishingStep DEF Inv
  <2>. QED BY <2>1, <2>2, <2>3, <2>4, <2>5, <2>6 DEF Inv
<1>2. CASE UNCHANGED vars
  BY <1>2
  DEF Inv, vars, TypeOK, Hashed, Listed, Polled, Complete, NothingVanishes, Busy, Parsed, Here,
      Gone, Recording
<1>. QED BY <1>1, <1>2

THEOREM Invariant == Spec => []Inv
BY InitInv, InvStep, PTL DEF Spec

(***************************************************************************)
(* Every variable of an import has its type: a file that vanished is never *)
(* sealed, hashed or recorded (drop.read_file, drop.archive).              *)
(***************************************************************************)
THEOREM TypeCorrect == Spec => []TypeOK
<1>1. Inv => TypeOK BY DEF Inv
<1>. QED BY <1>1, Invariant, PTL

(***************************************************************************)
(* Nothing leaves the inbox but into a sealed blob of its own name or into *)
(* unrecognised/, whatever lies there, however many import at once, are    *)
(* killed, or are locked out (drop.archive).                               *)
(***************************************************************************)
THEOREM NothingEverVanishes == Spec => []NothingVanishes
<1>1. Inv => NothingVanishes BY DEF Inv
<1>. QED BY <1>1, Invariant, PTL

(***************************************************************************)
(* An export of some dialect that is gone has its records in the log,      *)
(* unless a process that recorded it was killed (cli.cmd_feeds_import):    *)
(* exports may share records in any way.                                   *)
(***************************************************************************)
THEOREM ArchivedIsRecorded == Spec => []ArchivedIsRecordedUnlessKilled
<1>1. Inv => ArchivedIsRecordedUnlessKilled
  BY ImportsAssumption DEF Inv, Polled, Complete, ArchivedIsRecordedUnlessKilled
<1>. QED BY <1>1, Invariant, PTL

=============================================================================
