------------------------------ MODULE KeysProofs ------------------------------
(***************************************************************************)
(* Proofs about what is under a lock: the identity, the deadline and the   *)
(* lock file (Keys) and the plaintext in the directory (Runtime), for      *)
(* every set of processes, every length of an unlock, every clock, every   *)
(* set of receipts and every budget.                                       *)
(***************************************************************************)
EXTENDS Keys, Runtime, FiniteSetTheorems, NaturalsInduction, WellFoundedInduction, TLAPS

-----------------------------------------------------------------------------
(* The inductive invariant, in layers.                                     *)

\* What a process holds goes with where it is, and there are no files without a directory.
Shape ==
  /\ \A p \in Proc :
       /\ pc[p] \in Unlocking \ {"check", "load"} => task[p].op = "unlock"
       /\ pc[p] = "idle" => task[p] = Idle
       /\ UnderWay(p) => task[p].lock # None
       /\ task[p].checked <= now
  /\ \A p, q \in Proc : p # q /\ task[p].lock # None => task[q].lock # task[p].lock
  /\ dir \/ file = Empty

TInv == TypeOK /\ Shape

Trusted == "intrusion" \notin fault

\* An unlock under way has the lock file there is, and nobody else is removing.
Guarded ==
  Trusted => \A p \in Proc : UnderWay(p) =>
    /\ file["lock"] = task[p].lock
    /\ \A q \in Proc : q # p => pc[q] \notin Clearing

\* What an unlock has written is still there.
InOrder ==
  Trusted => \A p \in Proc : UnderWay(p) =>
    /\ pc[p] = "publish" => file["part"] = "secret"
    /\ pc[p] \notin {"prompt", "publish"} => file["identity"] = "secret"
    /\ pc[p] \notin {"prompt", "publish", "date"} => file["expires"] = due
    /\ pc[p] = "done" => file["cache"] = "replayed"

\* Who overwrote the identity does not find another one behind it.
Wiped ==
  Trusted => \A p \in Proc :
    pc[p] \in Clearing \ {"zero"} => file["identity"] # "secret"

Ordered == Guarded /\ InOrder /\ Wiped

\* No unlock is about to write its deadline, and none was killed there.
Settled ==
  /\ fault \cap {"intrusion", "undated"} = {}
  /\ \A q \in Proc : pc[q] # "date"
  /\ file["identity"] = "secret"

Dated ==
  Settled => /\ file["expires"] = due
             /\ \A p \in Proc : pc[p] = "load" => task[p].checked < due

\* Whatever was decrypted is being removed by somebody while the store is closed.
Plain == {n \in {"cache", "part"} : file[n] \in {"secret", "replayed"}}

Swept ==
  fault = {} /\ file["identity"] # "secret"
  /\ (\A p \in Proc : UnderWay(p) => pc[p] = "prompt")
  => \/ Plain = {}
     \/ \E p \in Proc : \/ pc[p] \in {"zero", "scan"}
                        \/ pc[p] = "unlink" /\ Plain \subseteq task[p].left

IInv == TInv /\ Ordered /\ Dated /\ Swept

-----------------------------------------------------------------------------
(* Types and shape. *)

LEMMA InitTyped == Init => TInv
<1> SUFFICES ASSUME Init PROVE TInv
  OBVIOUS
<1> USE KeysAssumption DEF Init
<1>1. TypeOK
  <2>1. now \in 0..MaxNow /\ due \in Time
    BY DEF Time
  <2>2. \A n \in Name : file[n] = None
    BY DEF Empty
  <2>3. task \in [Proc -> Task]
    <3> Idle \in Task
      BY DEF Runs, Idle, Task
    <3> QED  OBVIOUS
  <2> QED
    BY <2>1, <2>2, <2>3 DEF TypeOK, Empty, Faults
<1>2. Shape
  BY DEF Shape, Runs, Idle, UnderWay, Unlocking
<1> QED  BY <1>1, <1>2 DEF TInv

\* A process that ends holds nothing.
LEMMA FinishTyped ==
  ASSUME TInv, NEW p \in Proc, Finish(p), UNCHANGED <<now, dir, file, due>>,
         fault' \subseteq Faults
  PROVE  TInv'
<1> USE DEF TInv, Finish, Runs, Idle, Task, Name
<1>1. TypeOK'
  BY KeysAssumption DEF TypeOK, Content, Time
<1>2. Shape'
  BY KeysAssumption DEF TypeOK, Shape, UnderWay, Unlocking, Clearing, Empty
<1> QED  BY <1>1, <1>2

LEMMA RememberTyped ==
  ASSUME NEW F \in SUBSET Faults, Remember(F)
  PROVE  fault' \subseteq Faults
  BY DEF Remember, Faults

\* Who connects makes a cache there was not, or adds to one nothing was
\* replayed into.
Connects == Connect \/ Serve \/ Keep

LEMMA ConnectsTo ==
  ASSUME TInv, Connects
  PROVE  /\ file["cache"] # "replayed"
         /\ file'["cache"] \in Cache \ {"replayed"}
         /\ \A n \in Name \ {"cache"} : file'[n] = file[n]
         /\ DOMAIN file' = Name
         /\ dir' = TRUE
         /\ UNCHANGED <<now, pc, task, due, fault>>
<1>1. PICK c \in Cache \ {"replayed"} : Make(c) /\ file["cache"] # "replayed"
  <2>1. CASE Connect
    BY <2>1, KeysAssumption DEF Connect, Cache
  <2>2. CASE Serve
    BY <2>2, KeysAssumption DEF Serve, Cache
  <2>3. CASE Keep
    BY <2>3 DEF Keep, Cache
  <2> QED  BY <2>1, <2>2, <2>3 DEF Connects
<1> QED  BY <1>1 DEF Make, TInv, TypeOK, Name

LEMMA NextTyped ==
  ASSUME TInv, [Next]_vars
  PROVE  TInv'
<1> fault \subseteq Faults  BY DEF TInv, TypeOK
<1> USE KeysAssumption
<1>1. ASSUME NEW p \in Proc, NEW op \in {"unlock", "lock"}, NEW next,
             \/ op = "unlock" /\ next = "prompt"
             \/ op = "lock" /\ next = "zero",
             Exclusive(p, op, next)
      PROVE  TInv'
  <2> USE DEF Exclusive, Held, Goto, TInv, Runs, Idle, Task, Name
  <2>1. TypeOK'
    <3>1. PICK i \in LockFile :
            /\ file' = [file EXCEPT !["lock"] = i]
            /\ task' = [task EXCEPT ![p] = Runs(op, i)]
      BY <1>1
    <3>2. Runs(op, i) \in Task
      <4>1. op \in {"unlock", "lock"} /\ 0 \in 0..MaxNow
        BY <1>1
      <4> QED  BY <4>1
    <3>3. task' \in [Proc -> Task]
      <4> HIDE DEF Runs, Idle, Task
      <4> QED  BY <3>1, <3>2 DEF TypeOK
    <3>4. \A n \in Name : file'[n] \in Content(n) \cup {None}
      BY <3>1 DEF TypeOK, Content
    <3> HIDE DEF Runs, Idle, Task
    <3> QED  BY <1>1, <3>1, <3>3, <3>4, RememberTyped DEF TypeOK, Unlocking, Clearing, Content, Time
  <2>2. Shape'
    <3> USE DEF TypeOK, Shape, UnderWay, Unlocking, Clearing
    <3>1. \A q \in Proc : pc'[q] \in Unlocking \ {"check", "load"} => task'[q].op = "unlock"
      BY <1>1
    <3>6. \A q \in Proc : pc'[q] = "idle" => task'[q] = Idle
      <4> HIDE DEF Runs, Idle
      <4> QED  BY <1>1
    <3>2. \A q \in Proc : UnderWay(q)' => task'[q].lock # None
      BY <1>1
    <3>3. \A q \in Proc : task'[q].checked <= now'
      BY <1>1
    <3>4. \A q, r \in Proc : q # r /\ task'[q].lock # None => task'[r].lock # task'[q].lock
      BY <1>1
    <3>5. dir' \/ file' = Empty
      BY <1>1 DEF Empty
    <3> QED  BY <3>1, <3>2, <3>3, <3>4, <3>5, <3>6
  <2> QED  BY <2>1, <2>2
<1>2. ASSUME NEW p \in Proc, WrongPassphrase(p) PROVE TInv'
  BY <1>2, FinishTyped, RememberTyped DEF WrongPassphrase
<1>3. ASSUME NEW p \in Proc, WriteIdentity(p) PROVE TInv'
  BY <1>3, RememberTyped
  DEF WriteIdentity, Goto, TInv, TypeOK, Shape, Runs, Idle, Task, Name, UnderWay, Unlocking, Clearing,
      Content, Time, Empty
<1>4. ASSUME NEW p \in Proc, PublishIdentity(p) PROVE TInv'
  <2>1. CASE file["part"] = None
    BY <1>4, <2>1, FinishTyped, RememberTyped DEF PublishIdentity
  <2>2. CASE file["part"] # None
    BY <1>4, <2>2, RememberTyped
    DEF PublishIdentity, Goto, TInv, TypeOK, Shape, Runs, Idle, Task, Name, UnderWay, Unlocking,
        Clearing, Content, Time, Empty
  <2> QED  BY <2>1, <2>2
<1>5. ASSUME NEW p \in Proc, WriteDeadline(p) PROVE TInv'
  <2>1. CASE ~dir
    BY <1>5, <2>1, FinishTyped, RememberTyped DEF WriteDeadline
  <2>2. CASE dir
    BY <1>5, <2>2, RememberTyped
    DEF WriteDeadline, Goto, TInv, TypeOK, Shape, Runs, Idle, Task, Name, UnderWay, Unlocking,
        Clearing, Content, Time, Empty
  <2> QED  BY <2>1, <2>2
<1>6. ASSUME NEW p \in Proc, Fresh(p) PROVE TInv'
  BY <1>6, RememberTyped
  DEF Fresh, Goto, TInv, TypeOK, Shape, Runs, Idle, Task, Name, UnderWay, Unlocking, Clearing,
      Content, Time, Empty
<1>6a. ASSUME NEW p \in Proc, Replay(p) PROVE TInv'
  BY <1>6a, RememberTyped
  DEF Replay, Goto, TInv, TypeOK, Shape, Runs, Idle, Task, Name, UnderWay, Unlocking, Clearing,
      Content, Cache, Time, Empty
<1>6b. CASE Connects
  <2>1. \A n \in Name : file'[n] \in Content(n) \cup {None}
    BY <1>6b, ConnectsTo DEF TInv, TypeOK, Content, Name
  <2>2. TypeOK'
    BY <1>6b, <2>1, ConnectsTo DEF TInv, TypeOK
  <2>3. Shape'
    BY <1>6b, ConnectsTo DEF TInv, Shape, UnderWay
  <2> QED  BY <2>2, <2>3 DEF TInv
<1>7. ASSUME NEW p \in Proc, Release(p) PROVE TInv'
  BY <1>7, FinishTyped, RememberTyped DEF Release
<1>8. ASSUME NEW p \in Proc, Gate(p) PROVE TInv'
  <2>1. CASE file["identity"] = None
    BY <1>8, <2>1, FinishTyped, RememberTyped DEF Gate
  <2>2. CASE file["identity"] # None
    BY <1>8, <2>2, RememberTyped
    DEF Gate, Goto, TInv, TypeOK, Shape, Runs, Idle, Task, Name, UnderWay, Unlocking, Clearing,
        Content, Time, Empty
  <2> QED  BY <2>1, <2>2
<1>9. ASSUME NEW p \in Proc, Check(p) PROVE TInv'
  <2> USE DEF Check, Goto, TInv, Runs, Idle, Task, Name
  <2>1. TypeOK'
    BY <1>9, RememberTyped DEF TypeOK, Unlocking, Clearing, Content, Time
  <2>2. Shape'
    <3> USE DEF TypeOK, Shape, UnderWay, Unlocking, Clearing
    <3>1. \A q \in Proc : pc'[q] \in Unlocking \ {"check", "load"} => task'[q].op = "unlock"
      BY <1>9
    <3>6. \A q \in Proc : pc'[q] = "idle" => task'[q] = Idle
      <4> HIDE DEF Runs, Idle
      <4> QED  BY <1>9
    <3>2. \A q \in Proc : UnderWay(q)' => task'[q].lock # None
      BY <1>9
    <3>3. \A q \in Proc : task'[q].checked <= now'
      BY <1>9
    <3>4. \A q, r \in Proc : q # r /\ task'[q].lock # None => task'[r].lock # task'[q].lock
      BY <1>9
    <3>5. dir' \/ file' = Empty
      BY <1>9 DEF Empty
    <3> QED  BY <3>1, <3>2, <3>3, <3>4, <3>5, <3>6
  <2> QED  BY <2>1, <2>2
<1>10. ASSUME NEW p \in Proc, Load(p) PROVE TInv'
  <2>1. CASE file["identity"] = "secret" /\ task[p].op = "unlock"
    BY <1>10, <2>1, RememberTyped
    DEF Load, Goto, TInv, TypeOK, Shape, Runs, Idle, Task, Name, UnderWay, Unlocking, Clearing,
        Content, Time, Empty
  <2>2. CASE ~(file["identity"] = "secret" /\ task[p].op = "unlock")
    BY <1>10, <2>2, FinishTyped, RememberTyped DEF Load
  <2> QED  BY <2>1, <2>2
<1>11. ASSUME NEW p \in Proc, Zero(p) PROVE TInv'
  BY <1>11, RememberTyped
  DEF Zero, Goto, TInv, TypeOK, Shape, Runs, Idle, Task, Name, UnderWay, Unlocking, Clearing,
      Content, Time, Empty
<1>12. ASSUME NEW p \in Proc, Scan(p) PROVE TInv'
  BY <1>12, RememberTyped
  DEF Scan, Goto, TInv, TypeOK, Shape, Runs, Idle, Task, Name, UnderWay, Unlocking, Clearing,
      Content, Time, Empty
<1>13. ASSUME NEW p \in Proc, Unlink(p) PROVE TInv'
  <2> USE DEF Unlink, Goto, TInv, Runs, Idle, Task, Name
  <2>1. TypeOK'
    BY <1>13, RememberTyped DEF TypeOK, Unlocking, Clearing, Content, Time
  <2>2. Shape'
    <3> USE DEF TypeOK, Shape, UnderWay, Unlocking, Clearing
    <3>1. \A q \in Proc : pc'[q] \in Unlocking \ {"check", "load"} => task'[q].op = "unlock"
      BY <1>13
    <3>6. \A q \in Proc : pc'[q] = "idle" => task'[q] = Idle
      <4> HIDE DEF Runs, Idle
      <4> QED  BY <1>13
    <3>2. \A q \in Proc : UnderWay(q)' => task'[q].lock # None
      BY <1>13
    <3>3. \A q \in Proc : task'[q].checked <= now'
      BY <1>13
    <3>4. \A q, r \in Proc : q # r /\ task'[q].lock # None => task'[r].lock # task'[q].lock
      BY <1>13
    <3>5. dir' \/ file' = Empty
      <4>1. PICK n \in task[p].left : file' = [file EXCEPT ![n] = None]
        BY <1>13
      <4>2. dir' = dir
        BY <1>13
      <4> QED  BY <4>1, <4>2 DEF Empty
    <3> QED  BY <3>1, <3>2, <3>3, <3>4, <3>5, <3>6
  <2> QED  BY <2>1, <2>2
<1>14. ASSUME NEW p \in Proc, Rmdir(p) PROVE TInv'
  <2> USE DEF Rmdir, Goto, TInv, Runs, Idle, Task, Name
  <2>1. TypeOK'
    BY <1>14, RememberTyped DEF TypeOK, Unlocking, Clearing, Content, Time
  <2>2. Shape'
    <3> USE DEF TypeOK, Shape, UnderWay, Unlocking, Clearing
    <3>1. \A q \in Proc : pc'[q] \in Unlocking \ {"check", "load"} => task'[q].op = "unlock"
      BY <1>14
    <3>6. \A q \in Proc : pc'[q] = "idle" => task'[q] = Idle
      <4> TAKE q \in Proc
      <4>1. CASE q = p
        BY <1>14, <4>1
      <4>2. CASE q # p
        <5>1. pc[q] = "idle" => task[q] = Idle /\ task[q].left = {}
          BY <4>2
        <5> HIDE DEF Runs, Idle
        <5> QED  BY <1>14, <4>2, <5>1
      <4> QED  BY <4>1, <4>2
    <3>2. \A q \in Proc : UnderWay(q)' => task'[q].lock # None
      BY <1>14
    <3>3. \A q \in Proc : task'[q].checked <= now'
      BY <1>14
    <3>4. \A q, r \in Proc : q # r /\ task'[q].lock # None => task'[r].lock # task'[q].lock
      BY <1>14
    <3>5. dir' \/ file' = Empty
      BY <1>14 DEF Empty
    <3> QED  BY <3>1, <3>2, <3>3, <3>4, <3>5, <3>6
  <2> QED  BY <2>1, <2>2
<1>15. ASSUME NEW p \in Proc, Crash(p) PROVE TInv'
  <2> fault' \subseteq Faults
    BY <1>15 DEF Crash, Remember, Faults
  <2> QED  BY <1>15, FinishTyped DEF Crash
<1>16. CASE Tick
  BY <1>16
  DEF Tick, TInv, TypeOK, Shape, Runs, Idle, Task, Name, UnderWay, Unlocking, Clearing, Content, Time,
      Empty
<1>17. CASE UNCHANGED vars
  BY <1>17
  DEF vars, TInv, TypeOK, Shape, Runs, Idle, Task, Name, UnderWay, Unlocking, Clearing, Content, Time,
      Empty
<1> QED
  BY <1>1, <1>2, <1>3, <1>4, <1>5, <1>6, <1>6a, <1>6b, <1>7, <1>8, <1>9, <1>10, <1>11, <1>12, <1>13,
     <1>14, <1>15, <1>16, <1>17
  DEF Next, Unlock, Lock, Connects

-----------------------------------------------------------------------------
(* Unlocks that nobody interrupts. *)

\* A step that remembers no intrusion is not one.
LEMMA Remembered ==
  ASSUME NEW F, Remember(F), Trusted'
  PROVE  "intrusion" \notin F /\ ~Intrusion'
  BY DEF Remember, Trusted

\* Two unlocks under way would hold one lock.
LEMMA OneUnlock ==
  ASSUME TInv, Guarded, Trusted, NEW p \in Proc, NEW q \in Proc, UnderWay(p), UnderWay(q)
  PROVE  p = q
  BY DEF TInv, Shape, Guarded

\* It is enough to keep the lock file.
LEMMA KeepLock ==
  ASSUME TInv', NEW F, Remember(F),
         Trusted' => \A p \in Proc : UnderWay(p)' => file'["lock"] = task'[p].lock
  PROVE  Guarded'
<1> SUFFICES ASSUME Trusted', NEW p \in Proc, UnderWay(p)'
             PROVE  /\ file'["lock"] = task'[p].lock
                    /\ \A q \in Proc : q # p => pc'[q] \notin Clearing
  BY DEF Guarded
<1>1. ~Intrusion'
  BY Remembered
<1> QED
  BY <1>1 DEF TInv, Shape, Intrusion, Unguarded

LEMMA NextGuarded ==
  ASSUME TInv, TInv', Guarded, [Next]_vars
  PROVE  Guarded'
<1> DEFINE LockKept == Trusted' => \A q \in Proc : UnderWay(q)' => file'["lock"] = task'[q].lock
<1>0. ASSUME NEW F, Remember(F), LockKept PROVE Guarded'
  BY <1>0, KeepLock
<1> USE DEF TInv, TypeOK, Guarded, UnderWay, Trusted, Unlocking, Clearing, Goto, Finish, Idle, Runs
<1>1. ASSUME NEW p \in Proc, NEW op, NEW next, Exclusive(p, op, next)
      PROVE  Guarded'
  <2>1. Remember(fault)  BY <1>1 DEF Exclusive
  <2>2. LockKept
    <3> SUFFICES ASSUME Trusted', NEW q \in Proc, UnderWay(q)'
                 PROVE  file'["lock"] = task'[q].lock
      OBVIOUS
    <3>1. PICK i \in LockFile :
            /\ ~Held(i)
            /\ file["lock"] \in {None, i}
            /\ file' = [file EXCEPT !["lock"] = i]
            /\ task' = [task EXCEPT ![p] = Runs(op, i)]
      BY <1>1 DEF Exclusive
    <3>2. file'["lock"] = i /\ task'[p].lock = i
      BY <3>1 DEF Name
    <3>3. CASE q = p
      BY <3>2, <3>3
    <3>4. CASE q # p
      <4>1. task'[q] = task[q] /\ pc'[q] = pc[q]
        BY <1>1, <3>1, <3>4 DEF Exclusive
      <4>2. UnderWay(q) /\ Trusted
        BY <4>1, <2>1, Remembered
      <4>3. file["lock"] = task[q].lock /\ task[q].lock # None
        BY <4>2 DEF Shape
      <4> QED  BY <4>3, <3>1 DEF Held
    <3> QED  BY <3>3, <3>4
  <2> QED  BY <1>0, <2>1, <2>2
<1>2. ASSUME NEW p \in Proc, WrongPassphrase(p) PROVE Guarded'
  <2>1. Remember(fault)  BY <1>2 DEF WrongPassphrase
  <2>2. Trusted' => Trusted  BY <2>1, Remembered
  <2>3. LockKept
    BY <1>2, <2>2 DEF WrongPassphrase, Name
  <2> QED  BY <1>0, <2>1, <2>3
<1>3. ASSUME NEW p \in Proc, WriteIdentity(p) PROVE Guarded'
  <2>1. Remember(fault)  BY <1>3 DEF WriteIdentity
  <2>2. Trusted' => Trusted  BY <2>1, Remembered
  <2>3. LockKept
    BY <1>3, <2>2 DEF WriteIdentity, Name
  <2> QED  BY <1>0, <2>1, <2>3
<1>4. ASSUME NEW p \in Proc, PublishIdentity(p) PROVE Guarded'
  <2>1. Remember(fault)  BY <1>4 DEF PublishIdentity
  <2>2. Trusted' => Trusted  BY <2>1, Remembered
  <2>3. LockKept
    BY <1>4, <2>2 DEF PublishIdentity, Name
  <2> QED  BY <1>0, <2>1, <2>3
<1>5. ASSUME NEW p \in Proc, WriteDeadline(p) PROVE Guarded'
  <2>1. Remember(fault \ {"undated"})  BY <1>5 DEF WriteDeadline
  <2>2. Trusted' => Trusted  BY <2>1, Remembered
  <2>3. LockKept
    BY <1>5, <2>2 DEF WriteDeadline, Name
  <2> QED  BY <1>0, <2>1, <2>3
<1>6. ASSUME NEW p \in Proc, Fresh(p) PROVE Guarded'
  <2>1. Remember(fault)  BY <1>6 DEF Fresh
  <2>2. Trusted' => Trusted  BY <2>1, Remembered
  <2>3. LockKept
    BY <1>6, <2>2 DEF Fresh, Name
  <2> QED  BY <1>0, <2>1, <2>3
<1>6a. ASSUME NEW p \in Proc, Replay(p) PROVE Guarded'
  <2>1. Remember(fault)  BY <1>6a DEF Replay
  <2>2. Trusted' => Trusted  BY <2>1, Remembered
  <2>3. LockKept
    BY <1>6a, <2>2 DEF Replay, Name
  <2> QED  BY <1>0, <2>1, <2>3
<1>6b. CASE Connects
  <2>1. file'["lock"] = file["lock"] /\ UNCHANGED <<pc, task, fault>>
    BY <1>6b, ConnectsTo DEF Name
  <2> QED  BY <2>1
<1>7. ASSUME NEW p \in Proc, Release(p) PROVE Guarded'
  <2>1. Remember(fault)  BY <1>7 DEF Release
  <2>2. Trusted' => Trusted  BY <2>1, Remembered
  <2>3. LockKept
    BY <1>7, <2>2 DEF Release, Name
  <2> QED  BY <1>0, <2>1, <2>3
<1>8. ASSUME NEW p \in Proc, Gate(p) PROVE Guarded'
  <2>1. Remember(fault)  BY <1>8 DEF Gate
  <2>2. Trusted' => Trusted  BY <2>1, Remembered
  <2>3. LockKept
    <3>1. \A q \in Proc : UnderWay(q)' => UnderWay(q)
      BY <1>8 DEF Gate, Shape
    <3>2. \A q \in Proc : task'[q].lock = task[q].lock \/ task'[q].lock = None
      <4>1. CASE file["identity"] = None
        BY <1>8, <4>1 DEF Gate
      <4>2. CASE file["identity"] # None
        BY <1>8, <4>2 DEF Gate, Task
      <4> QED  BY <4>1, <4>2
    <3>3. \A q \in Proc : UnderWay(q)' => task'[q].lock # None
      BY DEF Shape
    <3>4. UNCHANGED file
      BY <1>8 DEF Gate
    <3> QED  BY <2>2, <3>1, <3>2, <3>3, <3>4
  <2> QED  BY <1>0, <2>1, <2>3
<1>9. ASSUME NEW p \in Proc, Check(p) PROVE Guarded'
  <2>1. Remember(fault)  BY <1>9 DEF Check
  <2>2. Trusted' => Trusted  BY <2>1, Remembered
  <2>3. LockKept
    <3>1. \A q \in Proc : UnderWay(q)' => UnderWay(q)
      <4>1. CASE Expired
        BY <1>9, <4>1 DEF Check
      <4>2. CASE ~Expired
        BY <1>9, <4>2 DEF Check, Task
      <4> QED  BY <4>1, <4>2
    <3>2. \A q \in Proc : task'[q].lock = task[q].lock \/ task'[q].lock = None
      <4>1. CASE Expired
        BY <1>9, <4>1 DEF Check
      <4>2. CASE ~Expired
        BY <1>9, <4>2 DEF Check, Task
      <4> QED  BY <4>1, <4>2
    <3>3. \A q \in Proc : UnderWay(q)' => task'[q].lock # None
      BY DEF Shape
    <3>4. UNCHANGED file
      BY <1>9 DEF Check
    <3> QED  BY <2>2, <3>1, <3>2, <3>3, <3>4
  <2> QED  BY <1>0, <2>1, <2>3
<1>10. ASSUME NEW p \in Proc, Load(p) PROVE Guarded'
  <2>1. Remember(fault)  BY <1>10 DEF Load
  <2>2. Trusted' => Trusted  BY <2>1, Remembered
  <2>3. LockKept
    BY <1>10, <2>2 DEF Load, Name
  <2> QED  BY <1>0, <2>1, <2>3
<1>11. ASSUME NEW p \in Proc, Zero(p) PROVE Guarded'
  <2>1. Remember(fault)  BY <1>11 DEF Zero
  <2>2. Trusted' => Trusted  BY <2>1, Remembered
  <2>3. LockKept
    BY <1>11, <2>2 DEF Zero, Name
  <2> QED  BY <1>0, <2>1, <2>3
<1>13. ASSUME NEW p \in Proc, Unlink(p) PROVE Guarded'
  <2>1. Remember(fault)  BY <1>13 DEF Unlink
  <2>2. Trusted' => Trusted  BY <2>1, Remembered
  <2>3. LockKept
    BY <1>13, <2>2 DEF Unlink, Name
  <2> QED  BY <1>0, <2>1, <2>3
<1>14. ASSUME NEW p \in Proc, Rmdir(p) PROVE Guarded'
  <2>1. Remember(fault)  BY <1>14 DEF Rmdir
  <2>2. Trusted' => Trusted  BY <2>1, Remembered
  <2>3. LockKept
    BY <1>14, <2>2 DEF Rmdir, Name
  <2> QED  BY <1>0, <2>1, <2>3
<1>12. ASSUME NEW p \in Proc, Scan(p) PROVE Guarded'
  <2>1. Remember(IF AllKnown THEN {} ELSE fault)  BY <1>12 DEF Scan
  <2>2. Trusted' => Trusted \/ AllKnown  BY <2>1, Remembered
  <2>3. LockKept
    BY <1>12, <2>2 DEF Scan, AllKnown
  <2> QED  BY <1>0, <2>1, <2>3
<1>15. ASSUME NEW p \in Proc, Crash(p) PROVE Guarded'
  <2>1. PICK F : Remember(F) /\ fault \subseteq F  BY <1>15 DEF Crash
  <2>2. Trusted' => Trusted  BY <2>1, Remembered
  <2>3. LockKept
    BY <1>15, <2>2 DEF Crash
  <2> QED  BY <1>0, <2>1, <2>3
<1>16. CASE Tick
  BY <1>16 DEF Tick
<1>17. CASE UNCHANGED vars
  BY <1>17 DEF vars
<1> QED
  BY <1>1, <1>2, <1>3, <1>4, <1>5, <1>6, <1>6a, <1>6b, <1>7, <1>8, <1>9, <1>10, <1>11, <1>12, <1>13,
     <1>14, <1>15, <1>16, <1>17
  DEF Next, Unlock, Lock, Connects

\* In every step but a removal that starts afresh, what is trusted after it was before it.
LEMMA StillTrusted ==
  ASSUME Next, Trusted'
  PROVE  Trusted \/ AllKnown
<1> USE Remembered DEF Trusted
<1>1. ASSUME NEW p \in Proc, Scan(p) PROVE Trusted \/ AllKnown
  BY <1>1, Remembered DEF Scan
<1>2. ASSUME NEW p \in Proc, ~Scan(p),
             \/ Unlock(p) \/ Lock(p)
             \/ WrongPassphrase(p) \/ WriteIdentity(p) \/ PublishIdentity(p) \/ WriteDeadline(p)
             \/ Fresh(p) \/ Replay(p) \/ Release(p) \/ Gate(p) \/ Check(p) \/ Load(p)
             \/ Zero(p) \/ Unlink(p) \/ Rmdir(p) \/ Crash(p)
      PROVE  Trusted
  BY <1>2
  DEF Unlock, Lock, Exclusive, WrongPassphrase, WriteIdentity, PublishIdentity, WriteDeadline,
      Fresh, Replay, Release, Gate, Check, Load, Zero, Unlink, Rmdir, Crash, Remember
<1>3. CASE Tick
  BY <1>3 DEF Tick
<1>4. CASE Connects
  BY <1>4 DEF Connects, Connect, Serve, Keep, Make
<1> QED  BY <1>1, <1>2, <1>3, <1>4 DEF Next, Connects

\* While one unlock is under way no other process writes one or removes.
LEMMA Undisturbed ==
  ASSUME TInv, Guarded, Trusted, NEW p \in Proc, NEW q \in Proc, UnderWay(p), q # p
  PROVE  /\ pc[q] \notin Clearing
         /\ pc[q] \notin Unlocking \ {"check", "load"}
         /\ ~UnderWay(q)
<1>1. pc[q] \notin Clearing  BY DEF Guarded
<1>2. ~UnderWay(q)  BY OneUnlock
<1>3. pc[q] \notin Unlocking \ {"check", "load"}
  BY <1>2 DEF TInv, Shape, UnderWay
<1> QED  BY <1>1, <1>2, <1>3

LEMMA NextWiped ==
  ASSUME TInv, TInv', Guarded, Guarded', Wiped, [Next]_vars
  PROVE  Wiped'
<1> SUFFICES ASSUME Next, Trusted', NEW q \in Proc, pc'[q] \in Clearing \ {"zero"}
             PROVE  file'["identity"] # "secret"
  BY DEF Wiped, vars, Trusted
<1>1. Trusted \/ AllKnown  BY StillTrusted
<1>2. Trusted /\ pc[q] \in Clearing \ {"zero"} => file["identity"] # "secret"
  BY DEF Wiped
<1> USE DEF TInv, TypeOK, Clearing, Goto, Finish, Name
<1>3. ASSUME NEW p \in Proc, PublishIdentity(p) PROVE file'["identity"] # "secret"
  <2>1. UnderWay(p)  BY <1>3 DEF PublishIdentity, Shape, UnderWay, Unlocking
  <2>2. ~AllKnown  BY <2>1 DEF AllKnown
  <2>3. pc[q] \in Clearing \/ q = p
    BY <1>3 DEF PublishIdentity
  <2>4. q = p  BY <1>1, <2>1, <2>2, <2>3, Undisturbed
  <2> QED  BY <1>3, <2>4 DEF PublishIdentity
<1>4. ASSUME NEW p \in Proc, Zero(p) PROVE file'["identity"] # "secret"
  BY <1>4, KeysAssumption DEF Zero
<1>5. ASSUME NEW p \in Proc, Scan(p) PROVE file'["identity"] # "secret"
  <2>1. file' = file /\ pc[p] = "scan"
    BY <1>5 DEF Scan
  <2>2. CASE AllKnown
    BY <2>1, <2>2 DEF AllKnown
  <2>3. CASE Trusted
    BY <2>1, <2>3 DEF Wiped
  <2> QED  BY <1>1, <2>2, <2>3
<1>6. ASSUME ~AllKnown, Trusted,
             file'["identity"] = "secret" => file["identity"] = "secret",
             pc[q] \in Clearing \ {"zero"}
      PROVE  file'["identity"] # "secret"
  BY <1>2, <1>6
<1>7. ASSUME AllKnown, file'["identity"] = "secret" => file["identity"] = "secret"
      PROVE  file'["identity"] # "secret"
  BY <1>7 DEF AllKnown
<1>8. ASSUME NEW p \in Proc,
             \/ Unlock(p) \/ Lock(p) \/ WrongPassphrase(p) \/ WriteIdentity(p)
             \/ WriteDeadline(p) \/ Fresh(p) \/ Replay(p) \/ Release(p)
             \/ Gate(p) \/ Check(p) \/ Load(p)
             \/ Unlink(p) \/ Rmdir(p) \/ Crash(p)
      PROVE  /\ file'["identity"] = "secret" => file["identity"] = "secret"
             /\ pc[q] \in Clearing \ {"zero"}
  <2>1. CASE Unlock(p) \/ Lock(p)
    BY <2>1 DEF Unlock, Lock, Exclusive
  <2>2. CASE WrongPassphrase(p) \/ Release(p) \/ Gate(p) \/ Check(p) \/ Load(p) \/ Crash(p)
    BY <2>2 DEF WrongPassphrase, Release, Gate, Check, Load, Crash
  <2>3. CASE WriteIdentity(p) \/ WriteDeadline(p) \/ Fresh(p) \/ Replay(p)
    BY <2>3 DEF WriteIdentity, WriteDeadline, Fresh, Replay
  <2>4. CASE Unlink(p) \/ Rmdir(p)
    BY <2>4, KeysAssumption DEF Unlink, Rmdir
  <2> QED  BY <1>8, <2>1, <2>2, <2>3, <2>4
<1>9. CASE Tick
  BY <1>1, <1>2, <1>9 DEF Tick, AllKnown
<1>10. CASE Connects
  <2>1. file'["identity"] = file["identity"] /\ pc' = pc
    BY <1>10, ConnectsTo
  <2> QED  BY <1>1, <1>2, <2>1 DEF AllKnown
<1> QED  BY <1>1, <1>3, <1>4, <1>5, <1>6, <1>7, <1>8, <1>9, <1>10 DEF Next, Connects

LEMMA NextInOrder ==
  ASSUME TInv, TInv', Guarded, Guarded', InOrder, [Next]_vars
  PROVE  InOrder'
<1> DEFINE Behind(p, at) ==
      /\ at = "publish" => file["part"] = "secret"
      /\ at \notin {"prompt", "publish"} => file["identity"] = "secret"
      /\ at \notin {"prompt", "publish", "date"} => file["expires"] = due
      /\ at = "done" => file["cache"] = "replayed"
<1> SUFFICES ASSUME Next, Trusted', NEW p \in Proc, UnderWay(p)'
             PROVE  /\ pc'[p] = "publish" => file'["part"] = "secret"
                    /\ pc'[p] \notin {"prompt", "publish"} => file'["identity"] = "secret"
                    /\ pc'[p] \notin {"prompt", "publish", "date"} => file'["expires"] = due'
                    /\ pc'[p] = "done" => file'["cache"] = "replayed"
  BY DEF InOrder, vars, Trusted, UnderWay
<1>1. Trusted \/ AllKnown  BY StillTrusted
<1>2. UnderWay(p) => Trusted /\ Behind(p, pc[p])
  BY <1>1 DEF AllKnown, InOrder
<1> USE DEF TInv, TypeOK, UnderWay, Unlocking, Clearing, Goto, Finish, Name, Idle, Runs, Task
<1>3. ASSUME NEW q \in Proc, q # p,
             \/ Unlock(q) \/ Lock(q)
             \/ WrongPassphrase(q) \/ WriteIdentity(q) \/ PublishIdentity(q) \/ WriteDeadline(q)
             \/ Fresh(q) \/ Replay(q) \/ Release(q) \/ Gate(q) \/ Check(q) \/ Load(q)
             \/ Zero(q) \/ Scan(q) \/ Unlink(q) \/ Rmdir(q) \/ Crash(q)
      PROVE  /\ UnderWay(p) /\ pc'[p] = pc[p] /\ due' = due
             /\ \A n \in Name \ {"lock"} : file'[n] = file[n]
  <2>1. UnderWay(p) /\ pc'[p] = pc[p]
    BY <1>3
    DEF Unlock, Lock, Exclusive, WrongPassphrase, WriteIdentity, PublishIdentity, WriteDeadline,
        Fresh, Replay, Release, Gate, Check, Load, Zero, Scan, Unlink, Rmdir, Crash
  <2>2. pc[q] \notin Clearing /\ pc[q] \notin Unlocking \ {"check", "load"}
    BY <1>2, <1>3, <2>1, Undisturbed
  <2>3. Unlock(q) \/ Lock(q) \/ Gate(q) \/ Check(q) \/ Load(q) \/ Crash(q)
    BY <1>3, <2>2
    DEF WrongPassphrase, WriteIdentity, PublishIdentity, WriteDeadline, Fresh, Replay, Release, Zero, Scan,
        Unlink, Rmdir
  <2>4. due' = due /\ \A n \in Name \ {"lock"} : file'[n] = file[n]
    BY <2>3 DEF Unlock, Lock, Exclusive, Gate, Check, Load, Crash
  <2> QED  BY <2>1, <2>4
<1>4. ASSUME \/ Unlock(p) \/ Lock(p) \/ WrongPassphrase(p) \/ Release(p)
             \/ Zero(p) \/ Scan(p) \/ Unlink(p) \/ Rmdir(p) \/ Crash(p)
      PROVE  pc'[p] = "prompt"
  BY <1>4
  DEF Unlock, Lock, Exclusive, WrongPassphrase, Release, Zero, Scan, Unlink, Rmdir, Crash
<1>5. ASSUME Gate(p) \/ Check(p) \/ Load(p)
      PROVE  /\ UnderWay(p) /\ pc[p] \in {"gate", "check", "load"}
             /\ pc'[p] \in {"check", "load", "fresh"}
             /\ UNCHANGED <<file, due>>
  <2>1. CASE Gate(p)
    BY <2>1 DEF Gate, Shape
  <2>2. CASE Check(p)
    <3>1. ~Expired  BY <2>2 DEF Check
    <3> QED  BY <2>2, <3>1 DEF Check
  <2>3. CASE Load(p)
    BY <2>3 DEF Load
  <2> QED  BY <1>5, <2>1, <2>2, <2>3
<1>6. ASSUME WriteIdentity(p)
      PROVE  pc'[p] = "publish" /\ file'["part"] = "secret"
  BY <1>6 DEF WriteIdentity
<1>7. ASSUME PublishIdentity(p)
      PROVE  pc'[p] = "date" /\ file'["identity"] = "secret"
  BY <1>7 DEF PublishIdentity
<1>8. ASSUME WriteDeadline(p)
      PROVE  /\ UnderWay(p) /\ pc[p] = "date" /\ pc'[p] = "gate"
             /\ file'["identity"] = file["identity"] /\ file'["expires"] = due'
  BY <1>8 DEF WriteDeadline, Shape
<1>9. ASSUME Fresh(p)
      PROVE  /\ UnderWay(p) /\ pc[p] = "fresh" /\ pc'[p] = "replay" /\ due' = due
             /\ file'["identity"] = file["identity"] /\ file'["expires"] = file["expires"]
  BY <1>9 DEF Fresh, Shape
<1>9a. ASSUME Replay(p)
       PROVE  /\ UnderWay(p) /\ pc[p] = "replay" /\ pc'[p] = "done" /\ due' = due
              /\ file'["identity"] = file["identity"] /\ file'["expires"] = file["expires"]
              /\ file'["cache"] = "replayed"
  BY <1>9a DEF Replay, Shape
<1>9b. ASSUME Connects
       PROVE  /\ UnderWay(p) /\ pc'[p] = pc[p] /\ pc[p] # "done" /\ due' = due
              /\ \A n \in Name \ {"cache"} : file'[n] = file[n]
  <2>1. UnderWay(p) /\ pc' = pc /\ due' = due /\ file["cache"] # "replayed"
    BY <1>9b, ConnectsTo
  <2>2. \A n \in Name \ {"cache"} : file'[n] = file[n]
    BY <1>9b, ConnectsTo
  <2>3. pc[p] # "done"
    BY <1>2, <2>1
  <2> QED  BY <2>1, <2>2, <2>3
<1>10. ASSUME Tick
       PROVE  /\ pc'[p] = "publish" => file'["part"] = "secret"
              /\ pc'[p] \notin {"prompt", "publish"} => file'["identity"] = "secret"
              /\ pc'[p] \notin {"prompt", "publish", "date"} => file'["expires"] = due'
              /\ pc'[p] = "done" => file'["cache"] = "replayed"
  BY <1>2, <1>10 DEF Tick
<1>11. ASSUME NEW q \in Proc, q # p,
             \/ Unlock(q) \/ Lock(q)
             \/ WrongPassphrase(q) \/ WriteIdentity(q) \/ PublishIdentity(q) \/ WriteDeadline(q)
             \/ Fresh(q) \/ Replay(q) \/ Release(q) \/ Gate(q) \/ Check(q) \/ Load(q)
             \/ Zero(q) \/ Scan(q) \/ Unlink(q) \/ Rmdir(q) \/ Crash(q)
      PROVE  /\ pc'[p] = "publish" => file'["part"] = "secret"
             /\ pc'[p] \notin {"prompt", "publish"} => file'["identity"] = "secret"
             /\ pc'[p] \notin {"prompt", "publish", "date"} => file'["expires"] = due'
             /\ pc'[p] = "done" => file'["cache"] = "replayed"
  BY <1>2, <1>3, <1>11
<1>12. ASSUME \/ Unlock(p) \/ Lock(p)
              \/ WrongPassphrase(p) \/ WriteIdentity(p) \/ PublishIdentity(p) \/ WriteDeadline(p)
              \/ Fresh(p) \/ Replay(p) \/ Release(p) \/ Gate(p) \/ Check(p) \/ Load(p)
              \/ Zero(p) \/ Scan(p) \/ Unlink(p) \/ Rmdir(p) \/ Crash(p)
       PROVE  /\ pc'[p] = "publish" => file'["part"] = "secret"
              /\ pc'[p] \notin {"prompt", "publish"} => file'["identity"] = "secret"
              /\ pc'[p] \notin {"prompt", "publish", "date"} => file'["expires"] = due'
              /\ pc'[p] = "done" => file'["cache"] = "replayed"
  <2> HIDE DEF UnderWay, TInv, TypeOK, Unlocking, Clearing, Goto, Finish, Name, Idle, Runs, Task
  <2>1. CASE Gate(p) \/ Check(p) \/ Load(p)
    BY <1>2, <1>5, <2>1
  <2>2. CASE WriteDeadline(p)
    BY <1>2, <1>8, <2>2
  <2>3. CASE Fresh(p)
    BY <1>2, <1>9, <2>3
  <2>4. CASE Replay(p)
    BY <1>2, <1>9a, <2>4
  <2> QED  BY <1>4, <1>6, <1>7, <1>12, <2>1, <2>2, <2>3, <2>4
<1>13. ASSUME Connects
       PROVE  /\ pc'[p] = "publish" => file'["part"] = "secret"
              /\ pc'[p] \notin {"prompt", "publish"} => file'["identity"] = "secret"
              /\ pc'[p] \notin {"prompt", "publish", "date"} => file'["expires"] = due'
              /\ pc'[p] = "done" => file'["cache"] = "replayed"
  <2>1. {"part", "identity", "expires"} \subseteq Name \ {"cache"}
    BY DEF Name
  <2> HIDE DEF UnderWay, TInv, TypeOK, Unlocking, Clearing, Goto, Finish, Name, Idle, Runs, Task
  <2> QED  BY <1>2, <1>9b, <1>13, <2>1
<1> QED
  <2> HIDE DEF UnderWay, TInv, TypeOK, Unlocking, Clearing, Goto, Finish, Name, Idle, Runs, Task
  <2>1. CASE Tick  BY <1>10, <2>1
  <2>2. CASE Connects  BY <1>13, <2>2
  <2>3. CASE ~Tick /\ ~Connects  BY <1>11, <1>12, <2>3 DEF Next, Connects
  <2> QED  BY <2>1, <2>2, <2>3

-----------------------------------------------------------------------------
(* The deadline. *)

LEMMA NextDated ==
  ASSUME TInv, TInv', Guarded, InOrder, Wiped, Dated, [Next]_vars
  PROVE  Dated'
<1> SUFFICES ASSUME Next, Settled'
             PROVE  /\ file'["expires"] = due'
                    /\ \A p \in Proc : pc'[p] = "load" => task'[p].checked < due'
  BY DEF Dated, vars, Settled
<1> DEFINE Kept == /\ Settled
                   /\ due' = due /\ file'["expires"] = file["expires"]
                   /\ \A p \in Proc : pc'[p] = "load" =>
                        \/ pc[p] = "load" /\ task'[p].checked = task[p].checked
                        \/ task'[p].checked < due
<1>1. Kept => /\ file'["expires"] = due'
              /\ \A p \in Proc : pc'[p] = "load" => task'[p].checked < due'
  BY DEF Dated
<1>2. Trusted' /\ (Trusted \/ AllKnown)
  BY StillTrusted DEF Settled, Trusted
<1> USE KeysAssumption DEF TInv, TypeOK, Goto, Finish, Name, Idle, Runs, Task, Settled
<1>3. ASSUME NEW q \in Proc, WriteDeadline(q)
      PROVE  /\ file'["expires"] = due'
             /\ \A p \in Proc : pc'[p] = "load" => task'[p].checked < due'
  <2>1. UnderWay(q) /\ Trusted
    BY <1>2, <1>3 DEF WriteDeadline, Shape, UnderWay, Unlocking, AllKnown
  <2>2. file["identity"] = "secret"
    BY <1>3, <2>1 DEF InOrder, WriteDeadline
  <2>3. dir
    BY <2>2 DEF Shape, Empty
  <2>4. due' = now + TTL /\ file'["expires"] = now + TTL /\ now' = now /\ now \in Nat
    BY <1>3, <2>3 DEF WriteDeadline
  <2>5. \A p \in Proc : task'[p].checked <= now /\ task'[p].checked \in Nat
    BY <2>4 DEF Shape
  <2>6. TTL \in Nat /\ TTL > 0
    OBVIOUS
  <2> HIDE DEF TInv, TypeOK, Task
  <2> QED  BY <2>4, <2>5, <2>6
<1>4. ASSUME NEW q \in Proc, PublishIdentity(q) PROVE Kept
  BY <1>4 DEF PublishIdentity, Remember
<1>5. ASSUME NEW q \in Proc, Crash(q) PROVE Kept
  <2>1. CASE pc[q] = "date"
    <3>1. "undated" \in fault'
      BY <1>5, <2>1 DEF Crash, Remember, Clearing
    <3> QED  BY <3>1
  <2>2. CASE pc[q] # "date"
    <3>1. fault \cap {"intrusion", "undated"} = {}
      <4>1. fault \subseteq fault'
        BY <1>5, <2>2 DEF Crash, Remember
      <4> QED  BY <4>1
    <3>2. \A p \in Proc : pc[p] # "date"
      BY <1>5, <2>2 DEF Crash
    <3>3. UNCHANGED <<file, due>>
      BY <1>5 DEF Crash
    <3>4. Settled
      BY <3>1, <3>2, <3>3
    <3> QED  BY <1>5, <3>3, <3>4 DEF Crash
  <2> QED  BY <2>1, <2>2
<1>6. ASSUME NEW q \in Proc, Scan(q) PROVE Kept
  BY <1>6 DEF Scan, AllKnown, Remember
<1>7. ASSUME NEW q \in Proc, Unlink(q) PROVE Kept
  <2>1. file["identity"] # "secret"
    BY <1>2, <1>7 DEF Unlink, Wiped, AllKnown, Clearing
  <2> QED  BY <1>7, <2>1 DEF Unlink
<1>8. ASSUME NEW q \in Proc, Zero(q) PROVE Kept
  BY <1>8 DEF Zero
<1>9. ASSUME NEW q \in Proc, Check(q) PROVE Kept
  <2>1. Settled /\ due' = due /\ file' = file
    BY <1>9 DEF Check, Remember
  <2>2. file["expires"] = due /\ due \in Nat /\ now \in Nat
    BY <2>1 DEF Dated, Time
  <2>3. Expired \/ now < due
    BY <2>2 DEF Expired
  <2>4. CASE Expired
    BY <1>9, <2>1, <2>4 DEF Check
  <2>5. CASE ~Expired
    BY <1>9, <2>1, <2>3, <2>5 DEF Check
  <2> QED  BY <2>4, <2>5
<1>10. ASSUME NEW q \in Proc, Rmdir(q) PROVE Kept
  BY <1>10 DEF Rmdir, Remember
<1>11. ASSUME NEW q \in Proc, WriteIdentity(q) \/ Fresh(q) \/ Replay(q) PROVE Kept
  BY <1>11 DEF WriteIdentity, Fresh, Replay, Remember
<1>12. ASSUME NEW q \in Proc, Unlock(q) \/ Lock(q) PROVE Kept
  BY <1>12 DEF Unlock, Lock, Exclusive, Remember
<1>13. ASSUME NEW q \in Proc, WrongPassphrase(q) \/ Release(q) \/ Load(q) PROVE Kept
  BY <1>13 DEF WrongPassphrase, Release, Load, Remember
<1>14. ASSUME NEW q \in Proc, Gate(q) PROVE Kept
  <2>1. CASE file["identity"] = None
    BY <1>14, <2>1 DEF Gate, Remember
  <2>2. CASE file["identity"] # None
    BY <1>14, <2>2 DEF Gate, Remember
  <2> QED  BY <2>1, <2>2
<1>15. ASSUME Tick PROVE Kept
  BY <1>15 DEF Tick
<1>16. ASSUME Connects PROVE Kept
  <2>1. UNCHANGED <<pc, task, due, fault>> /\ \A n \in {"identity", "expires"} : file'[n] = file[n]
    BY <1>16, ConnectsTo
  <2> QED  BY <2>1
<1> HIDE DEF Kept, TInv, TypeOK, Goto, Finish, Name, Idle, Runs, Task, Settled
<1> QED
  BY <1>1, <1>3, <1>4, <1>5, <1>6, <1>7, <1>8, <1>9, <1>10, <1>11, <1>12, <1>13, <1>14, <1>15,
     <1>16
  DEF Next, Connects

-----------------------------------------------------------------------------
(* What is left behind. *)

LEMMA NextSwept ==
  ASSUME TInv, TInv', InOrder, Wiped, Swept, [Next]_vars
  PROVE  Swept'
<1> DEFINE Sweeping == \E p \in Proc : \/ pc[p] \in {"zero", "scan"}
                                       \/ pc[p] = "unlink" /\ Plain \subseteq task[p].left
           Closed == /\ fault = {} /\ file["identity"] # "secret"
                     /\ \A p \in Proc : UnderWay(p) => pc[p] = "prompt"
<1>1. Closed => Plain = {} \/ Sweeping
  BY DEF Swept
<1> SUFFICES ASSUME Next, Closed' PROVE Plain' = {} \/ Sweeping'
  <2>1. CASE UNCHANGED vars
    BY <2>1, <1>1 DEF vars, Swept, Plain, UnderWay
  <2>2. CASE Next
    BY <2>2 DEF Swept
  <2> QED  BY <2>1, <2>2
<1>2. Trusted' /\ (Trusted \/ AllKnown)
  BY StillTrusted DEF Trusted
<1>3. \A p \in Proc : UnderWay(p) /\ pc[p] \notin {"prompt", "publish"} =>
        file["identity"] = "secret"
  BY <1>2 DEF InOrder, AllKnown
<1> USE KeysAssumption
    DEF TInv, TypeOK, Goto, Finish, Name, Idle, Runs, Task, UnderWay, Unlocking, Clearing
\* Whoever swept still does, if it is not the one that takes this step.
<1>4. ASSUME NEW q \in Proc, Closed, Plain' = Plain, pc[q] \notin Clearing,
             \A p \in Proc : p # q => pc'[p] = pc[p] /\ task'[p] = task[p]
      PROVE  Plain' = {} \/ Sweeping'
  <2>2. CASE Sweeping
    <3>1. PICK p \in Proc : \/ pc[p] \in {"zero", "scan"}
                            \/ pc[p] = "unlink" /\ Plain \subseteq task[p].left
      BY <2>2
    <3> QED  BY <1>4, <3>1
  <2> QED  BY <1>1, <1>4, <2>2
<1>5. ASSUME NEW q \in Proc, Scan(q) PROVE Sweeping'
  <2>1. pc'[q] = "unlink" /\ task'[q].left = {n \in Name : file[n] # None} /\ file' = file
    BY <1>5 DEF Scan
  <2> QED  BY <2>1 DEF Plain, Cache
<1>6. ASSUME NEW q \in Proc, WriteDeadline(q) PROVE Plain' = {}
  <2>1. ~dir
    BY <1>6 DEF WriteDeadline, Shape
  <2>2. file' = Empty
    BY <1>6, <2>1 DEF WriteDeadline, Shape
  <2> QED  BY <2>2 DEF Plain, Empty, Cache
<1>7. ASSUME NEW q \in Proc, WriteIdentity(q) \/ Fresh(q) \/ Replay(q) PROVE FALSE
  BY <1>3, <1>7 DEF WriteIdentity, Fresh, Replay, Shape
<1>8. ASSUME NEW q \in Proc, PublishIdentity(q) PROVE FALSE
  <2>1. UnderWay(q) /\ pc[q] = "publish"
    BY <1>8 DEF PublishIdentity, Shape
  <2>2. file["part"] = "secret"
    BY <1>2, <2>1 DEF InOrder, AllKnown
  <2> QED  BY <1>8, <2>1, <2>2 DEF PublishIdentity
<1>9. ASSUME NEW q \in Proc, Release(q) PROVE FALSE
  BY <1>3, <1>9 DEF Release, Shape
<1>10. ASSUME NEW q \in Proc, WrongPassphrase(q) \/ Unlock(q)
       PROVE  Plain' = {} \/ Sweeping'
  <2>1. /\ pc[q] \notin Clearing
        /\ \A p \in Proc : p # q => pc'[p] = pc[p] /\ task'[p] = task[p]
        /\ Plain' = Plain
    BY <1>10 DEF WrongPassphrase, Unlock, Exclusive, Plain
  <2>2. Closed
    <3>1. fault = {} /\ file["identity"] # "secret" /\ (UnderWay(q) => pc[q] = "prompt")
      BY <1>10 DEF WrongPassphrase, Unlock, Exclusive, Remember, Shape
    <3>2. \A p \in Proc : p # q => (UnderWay(p) => pc[p] = "prompt")
      BY <2>1
    <3> QED  BY <3>1, <3>2
  <2> QED  BY <1>4, <2>1, <2>2
<1>11. ASSUME NEW q \in Proc, Lock(q) \/ Zero(q) PROVE Sweeping'
  BY <1>11 DEF Lock, Exclusive, Zero
<1>12. ASSUME NEW q \in Proc, Gate(q) PROVE Plain' = {} \/ Sweeping'
  <2>1. pc[q] = "idle"
    BY <1>3, <1>12 DEF Gate, Shape
  <2>2. /\ \A p \in Proc : p # q => pc'[p] = pc[p] /\ task'[p] = task[p]
        /\ file' = file /\ fault = {} /\ ~UnderWay(q)
    BY <1>12, <2>1 DEF Gate, Remember
  <2>3. Closed
    BY <2>1, <2>2
  <2>4. Plain' = Plain  BY <2>2 DEF Plain
  <2> QED  BY <1>4, <2>1, <2>2, <2>3, <2>4
<1>13. ASSUME NEW q \in Proc, Check(q) PROVE Plain' = {} \/ Sweeping'
  <2>1. CASE Expired
    BY <1>13, <2>1 DEF Check
  <2>2. CASE ~Expired
    <3>1. /\ \A p \in Proc : p # q => pc'[p] = pc[p] /\ task'[p] = task[p]
          /\ file' = file /\ fault = {} /\ ~UnderWay(q) /\ pc[q] = "check"
      BY <1>13, <2>2 DEF Check, Remember
    <3>2. Closed
      BY <3>1
    <3>3. Plain' = Plain  BY <3>1 DEF Plain
    <3> QED  BY <1>4, <3>1, <3>2, <3>3
  <2> QED  BY <2>1, <2>2
<1>14. ASSUME NEW q \in Proc, Load(q) PROVE Plain' = {} \/ Sweeping'
  <2>1. ~UnderWay(q)
    BY <1>3, <1>14 DEF Load
  <2>2. /\ \A p \in Proc : p # q => pc'[p] = pc[p] /\ task'[p] = task[p]
        /\ file' = file /\ fault = {} /\ pc[q] = "load"
    BY <1>14, <2>1 DEF Load, Remember
  <2>3. Closed
    BY <2>1, <2>2
  <2>4. Plain' = Plain  BY <2>2 DEF Plain
  <2> QED  BY <1>4, <2>2, <2>3, <2>4
<1>15. ASSUME NEW q \in Proc, Unlink(q) PROVE Plain' = {} \/ Sweeping'
  <2>1. PICK n \in task[q].left :
          /\ file' = [file EXCEPT ![n] = None]
          /\ task' = [task EXCEPT ![q].left = @ \ {n}]
          /\ pc' = [pc EXCEPT ![q] = IF task[q].left = {n} THEN "rmdir" ELSE "unlink"]
    BY <1>15 DEF Unlink
  <2>2. Plain' = Plain \ {n}
    BY <2>1 DEF Plain, Cache
  <2>3. file["identity"] # "secret" /\ fault = {} /\ pc[q] = "unlink"
    BY <1>2, <1>15 DEF Unlink, Remember, Wiped, AllKnown
  <2>4. Closed
    BY <2>1, <2>3
  <2>5. CASE Plain = {}
    BY <2>2, <2>5
  <2>6. CASE Sweeping
    <3>1. PICK p \in Proc : \/ pc[p] \in {"zero", "scan"}
                            \/ pc[p] = "unlink" /\ Plain \subseteq task[p].left
      BY <2>6
    <3>2. CASE p = q
      <4>1. Plain \subseteq task[q].left
        BY <2>3, <3>1, <3>2
      <4>2. CASE task[q].left = {n}
        BY <2>2, <4>1, <4>2
      <4>3. CASE task[q].left # {n}
        <5>1. pc'[q] = "unlink" /\ task'[q].left = task[q].left \ {n}
          BY <2>1, <4>3
        <5> QED  BY <2>2, <4>1, <5>1
      <4> QED  BY <4>2, <4>3
    <3>3. CASE p # q
      <4>1. pc'[p] = pc[p] /\ task'[p] = task[p]
        BY <2>1, <3>3
      <4> QED  BY <2>2, <3>1, <4>1
    <3> QED  BY <3>2, <3>3
  <2> QED  BY <1>1, <2>4, <2>5, <2>6
<1>16. ASSUME NEW q \in Proc, Rmdir(q) PROVE Plain' = {} \/ Sweeping'
  <2>1. CASE ~dir'
    BY <2>1 DEF Shape, Plain, Empty, Cache
  <2>2. CASE dir'
    <3>1. /\ \A p \in Proc : p # q => pc'[p] = pc[p] /\ task'[p] = task[p]
          /\ file' = file /\ fault = {} /\ ~UnderWay(q)
          /\ (pc[q] = "rmdir" \/ (pc[q] = "unlink" /\ task[q].left = {}))
      <4>1. task' = [p \in Proc |-> IF p = q THEN Runs("none", None) ELSE task[p]]
        BY <1>16, <2>2 DEF Rmdir
      <4>2. pc' = [pc EXCEPT ![q] = "idle"] /\ file' = file /\ fault = {}
        BY <1>16 DEF Rmdir, Remember
      <4>3. (pc[q] = "rmdir" \/ (pc[q] = "unlink" /\ task[q].left = {}))
        BY <1>16 DEF Rmdir
      <4> QED  BY <4>1, <4>2, <4>3
    <3>2. Closed
      BY <3>1
    <3>3. Plain' = Plain  BY <3>1 DEF Plain
    <3> QED
      BY <1>1, <3>1, <3>2, <3>3
  <2> QED  BY <2>1, <2>2
<1>17. ASSUME NEW q \in Proc, Crash(q) PROVE Plain' = {} \/ Sweeping'
  <2>1. pc[q] \notin Clearing \cup {"date", "publish"} /\ fault = {}
    BY <1>17 DEF Crash, Remember
  <2>2. /\ \A p \in Proc : p # q => pc'[p] = pc[p] /\ task'[p] = task[p]
        /\ file' = file
    BY <1>17 DEF Crash
  <2>3. UnderWay(q) => pc[q] = "prompt"
    BY <1>3, <2>1, <2>2
  <2>4. Closed
    BY <2>1, <2>2, <2>3
  <2>5. Plain' = Plain  BY <2>2 DEF Plain
  <2> QED  BY <1>4, <2>1, <2>2, <2>4, <2>5
<1>18. ASSUME Tick PROVE Plain' = {} \/ Sweeping'
  BY <1>1, <1>18 DEF Tick, Plain
<1>19. ASSUME Connects PROVE Plain' = {} \/ Sweeping'
  <2>1. UNCHANGED <<pc, task, fault>> /\ file'["identity"] = file["identity"] /\ file'["part"] = file["part"]
    BY <1>19, ConnectsTo
  <2>2. file["cache"] \notin {"secret", "replayed"} /\ file'["cache"] \notin {"secret", "replayed"}
    BY <1>19, ConnectsTo DEF Content, Cache
  <2>3. Plain' = Plain
    BY <2>1, <2>2 DEF Plain
  <2>4. Closed
    BY <2>1
  <2> QED  BY <1>1, <2>1, <2>3, <2>4
<1> HIDE DEF Sweeping, TInv, TypeOK, Goto, Finish, Name, Idle, Runs, Task, UnderWay, Unlocking,
             Clearing
<1> QED
  BY <1>5, <1>6, <1>7, <1>8, <1>9, <1>10, <1>11, <1>12, <1>13, <1>14, <1>15, <1>16, <1>17, <1>18,
     <1>19
  DEF Next, Connects

-----------------------------------------------------------------------------
(* The invariant and the theorems. *)

LEMMA InitIInv == Init => IInv
<1> SUFFICES ASSUME Init PROVE IInv
  OBVIOUS
<1>1. TInv  BY InitTyped
<1>2. \A p \in Proc : pc[p] = "idle"
  BY DEF Init
<1>3. Ordered
  BY <1>2 DEF Ordered, Guarded, InOrder, Wiped, UnderWay, Unlocking, Clearing
<1>4. Dated
  BY KeysAssumption DEF Dated, Settled, Init, Empty, Name
<1>5. Swept
  BY KeysAssumption DEF Swept, Plain, Init, Empty, Name, Cache
<1> QED  BY <1>1, <1>3, <1>4, <1>5 DEF IInv

LEMMA NextIInv == IInv /\ [Next]_vars => IInv'
<1> SUFFICES ASSUME IInv, [Next]_vars PROVE IInv'
  OBVIOUS
<1> USE DEF IInv, Ordered
<1>1. TInv'  BY NextTyped
<1>2. Guarded'  BY <1>1, NextGuarded
<1>3. Wiped'  BY <1>1, <1>2, NextWiped
<1>4. InOrder'  BY <1>1, <1>2, NextInOrder
<1>5. Dated'  BY <1>1, NextDated
<1>6. Swept'  BY <1>1, NextSwept
<1> QED  BY <1>1, <1>2, <1>3, <1>4, <1>5, <1>6

LEMMA AlwaysIInv == Spec => []IInv
  BY InitIInv, NextIInv, PTL DEF Spec

(***************************************************************************)
(* Every file holds what its name says, every process is somewhere in the  *)
(* code (keys.py, cli.cmd_unlock, cli.cmd_lock).                           *)
(***************************************************************************)
THEOREM TypeCorrect == Spec => []TypeOK
  BY AlwaysIInv, PTL DEF IInv, TInv

(***************************************************************************)
(* The deadline is the authority: require_identity gives nobody the        *)
(* identity after it, whoever unlocks, locks or is killed meanwhile.       *)
(***************************************************************************)
THEOREM NobodyIsLate == Spec => []GivenInTime
<1>1. IInv => GivenInTime
  BY DEF IInv, Dated, Settled, GivenInTime
<1> QED  BY <1>1, AlwaysIInv, PTL

(***************************************************************************)
(* A store that keys.lock closed holds nothing the log was decrypted to    *)
(* and no identity, whoever connects meanwhile and after: what the cache   *)
(* holds that store.connect made since was sent since.                     *)
(***************************************************************************)
THEOREM LockLeavesNothing == Spec => []ClosedIsEmpty
<1>1. IInv => ClosedIsEmpty
  <2> SUFFICES ASSUME IInv, fault = {}, file["identity"] # "secret",
                      \A p \in Proc : ~UnderWay(p) /\ pc[p] \notin Clearing
               PROVE  file["cache"] # "replayed" /\ file["part"] = None
    BY DEF ClosedIsEmpty
  <2>1. Plain = {}
    BY DEF IInv, Swept, Clearing
  <2>2. file["part"] \in {"secret", None}
    BY DEF IInv, TInv, TypeOK, Name, Content
  <2> QED  BY <2>1, <2>2 DEF Plain
<1> QED  BY <1>1, AlwaysIInv, PTL

(***************************************************************************)
(* What cmd_unlock prints is so: the store is open until its deadline.     *)
(***************************************************************************)
THEOREM UnlockSucceeds == Spec => []UnlockOpens
<1>1. IInv => UnlockOpens
  BY DEF IInv, TInv, Ordered, Shape, InOrder, Trusted, UnlockOpens, UnderWay, Unlocking
<1> QED  BY <1>1, AlwaysIInv, PTL

-----------------------------------------------------------------------------
(* The inductive invariant about the plaintext of Runtime, in layers.      *)

\* Who renders has a receipt and makes pages; who builds does not.
Making ==
  \A p \in Actor :
    /\ Rendering(p) => work[p].receipt \in Receipt /\ makes[p] = "pages"
    /\ Building(p) => makes[p] = "workspace"

\* A lock that is removing has closed the gate, so nobody begins beside it.
Closed == \A p \in Actor : Locking(p) => ~open /\ ~built

Typed == RuntimeTypeOK /\ Making /\ Closed

\* A build that no other build and no lock has run beside.
Solo(p) == Building(p) /\ p \notin crossed

\* It is alone, and what is in staging is its own work so far.
SoloBuilds ==
  \A p \in Actor : Solo(p) =>
    /\ \A q \in Actor : q # p => ~Building(q) /\ ~Locking(q)
    /\ At(p, "bank") => staging = {}
    /\ At(p, "ledger") => staging = {<<"bank", p>>}
    /\ At(p, "manifest") => staging = {"bank", "ledger"} \X {p}
    /\ work[p].pc \in {"clear", "move", "publish"} => staging = Part \X {p}

\* A lock has found all there is of a workspace that was made alone.
WholeIsListed ==
  \A p \in Actor : At(p, "remove") /\ ~mixed => Files("dest", dest) \subseteq work[p].listed

Built == SoloBuilds /\ WholeIsListed /\ WorkspaceIsWhole

\* Who is at it while the gate is closed was at it when it was closed.
WritersAreLate ==
  ~open => \A p \in Actor :
    /\ Rendering(p) => {Jpg(p), Txt(p)} \subseteq late
    /\ Building(p) => Agent \in late

\* The directories of the workspace and what is in them.
Plaintext == Files("staging", staging) \cup Files("dest", dest) \cup Files("old", old)

\* What a lock has not found is written by one of those.
RestIsLate ==
  \A p \in Actor : At(p, "remove") =>
    /\ \A f \in DOMAIN cache : f \in late \/ <<"render", f>> \in work[p].listed
    /\ Agent \in late \/ Plaintext \subseteq work[p].listed

Late == WritersAreLate /\ RestIsLate /\ LeftIsLate

Writes(p, f) == \/ At(p, "savejpg") /\ f = Jpg(p)
                \/ At(p, "savetxt") /\ f = Txt(p)

\* Who has a page open is writing it, and somebody has every page that is not whole.
Owned ==
  \A f \in DOMAIN cache :
    /\ \A p \in cache[f].by : f \in cut \/ Writes(p, f)
    /\ cache[f].has = "all" \/ f \in cut \/ cache[f].by # {}

\* The files of a directory are finitely many, and what is newer than a newer one is newer.
Aged(c) ==
  /\ IsFiniteSet(DOMAIN c)
  /\ \A f \in DOMAIN c : \A g \in c[f].newer : c[g].newer \subseteq c[f].newer

Renderers == {p \in Actor : makes[p] = "pages"}
Saving == {p \in Actor : At(p, "savejpg")}

\* Beyond the budget there is an image of each renderer, save those about to write theirs.
Room == Size(DOMAIN cache) <= Budget + Cardinality(Renderers \ Saving)

RInv == Typed /\ Built /\ WorkspaceStays /\ Late /\ Owned /\ Aged(cache) /\ Room

-----------------------------------------------------------------------------
(* Types.                                                                  *)

Job == [pc : Pc, receipt : Receipt \cup {Nothing}, listed : SUBSET Listed]

LEMMA GoesTo ==
  ASSUME work \in [Actor -> Job], NEW p \in Actor, NEW x \in Pc, Goes(p, x)
  PROVE  /\ work' \in [Actor -> Job]
         /\ work'[p].pc = x /\ work'[p].receipt = work[p].receipt
         /\ work'[p].listed = work[p].listed
         /\ \A q \in Actor \ {p} : work'[q] = work[q]
BY DEF Goes, Job

LEMMA EndsAt ==
  ASSUME work \in [Actor -> Job], NEW p \in Actor, Ends(p)
  PROVE  /\ work' \in [Actor -> Job]
         /\ work'[p] = NoWork /\ work'[p].pc = "idle"
         /\ \A q \in Actor \ {p} : work'[q] = work[q]
BY DEF Ends, Job, NoWork, Pc

\* The entries of a directory and the order of them.
Entries(c) ==
  /\ DOMAIN c \subseteq Page
  /\ \A f \in DOMAIN c : c[f] \in [has : {"part", "all"}, by : SUBSET Actor, newer : SUBSET (DOMAIN c \ {f})]
  /\ \A f, g \in DOMAIN c : f # g => (f \in c[g].newer <=> g \notin c[f].newer)

LEMMA OnlyOne ==
  ASSUME NEW c, Entries(c), NEW F, F \subseteq DOMAIN c, NEW f \in F
  PROVE  /\ f \in DOMAIN Only(c, F)
         /\ Only(c, F)[f].has = c[f].has
         /\ Only(c, F)[f].by = c[f].by
         /\ Only(c, F)[f].newer = c[f].newer \cap F
<1>1. c[f] \in [has : {"part", "all"}, by : SUBSET Actor, newer : SUBSET (DOMAIN c \ {f})]
  BY DEF Entries
<1> QED
  BY <1>1 DEF Only

LEMMA OnlyEntries ==
  ASSUME NEW c, Entries(c), NEW F, F \subseteq DOMAIN c
  PROVE  DOMAIN Only(c, F) = F /\ Entries(Only(c, F))
<1>1. DOMAIN Only(c, F) = F
  BY DEF Only
<1>2. ASSUME NEW f \in F
      PROVE  Only(c, F)[f] \in [has : {"part", "all"}, by : SUBSET Actor, newer : SUBSET (F \ {f})]
  <2>1. c[f] \in [has : {"part", "all"}, by : SUBSET Actor, newer : SUBSET (DOMAIN c \ {f})]
    BY DEF Entries
  <2>2. c[f].newer \cap F \in SUBSET (F \ {f}) /\ c[f].has \in {"part", "all"} /\ c[f].by \in SUBSET Actor
    BY <2>1
  <2>3. Only(c, F)[f] = [has |-> c[f].has, by |-> c[f].by, newer |-> c[f].newer \cap F]
    BY <2>1 DEF Only
  <2> QED
    BY <2>2, <2>3
<1>3. ASSUME NEW f \in F, NEW g \in F, f # g
      PROVE  f \in Only(c, F)[g].newer <=> g \notin Only(c, F)[f].newer
  <2>1. Only(c, F)[f].newer = c[f].newer \cap F /\ Only(c, F)[g].newer = c[g].newer \cap F
    BY OnlyOne
  <2> QED
    BY <1>3, <2>1 DEF Entries
<1> QED
  BY <1>1, <1>2, <1>3 DEF Entries

LEMMA EvictedIs ==
  ASSUME Entries(cache)
  PROVE  /\ Entries(Evicted) /\ DOMAIN Evicted \subseteq DOMAIN cache
         /\ \A f \in DOMAIN Evicted : Evicted[f].has = cache[f].has /\ Evicted[f].by = cache[f].by
<1> DEFINE F == {f \in DOMAIN cache : Size({f} \cup cache[f].newer) <= Budget}
<1>1. F \subseteq DOMAIN cache /\ Evicted = Only(cache, F)
  BY DEF Evicted
<1> HIDE DEF F
<1>2. DOMAIN Evicted = F /\ Entries(Evicted)
  BY <1>1, OnlyEntries
<1>3. \A f \in F : Evicted[f].has = cache[f].has /\ Evicted[f].by = cache[f].by
  BY <1>1, OnlyOne
<1> QED
  BY <1>1, <1>2, <1>3

LEMMA NewestOne ==
  ASSUME NEW c, NEW f, NEW h, NEW b
  PROVE  /\ DOMAIN Newest(c, f, h, b) = DOMAIN c \cup {f}
         /\ Newest(c, f, h, b)[f] = [has |-> h, by |-> b, newer |-> {}]
BY DEF Newest

LEMMA NewestOther ==
  ASSUME NEW c, Entries(c), NEW f, NEW h, NEW b, NEW g \in DOMAIN c, g # f
  PROVE  /\ g \in DOMAIN Newest(c, f, h, b)
         /\ Newest(c, f, h, b)[g].has = c[g].has
         /\ Newest(c, f, h, b)[g].by = c[g].by
         /\ Newest(c, f, h, b)[g].newer = c[g].newer \cup {f}
<1>1. c[g] \in [has : {"part", "all"}, by : SUBSET Actor, newer : SUBSET (DOMAIN c \ {g})]
  BY DEF Entries
<1> QED
  BY <1>1 DEF Newest

LEMMA NewestEntries ==
  ASSUME NEW c, Entries(c), NEW f \in Page, NEW h \in {"part", "all"}, NEW b \in SUBSET Actor
  PROVE  Entries(Newest(c, f, h, b))
<1> DEFINE n == Newest(c, f, h, b)
           D == DOMAIN c \cup {f}
<1>1. DOMAIN n = D /\ n[f] = [has |-> h, by |-> b, newer |-> {}]
  BY DEF Newest
<1>2. ASSUME NEW g \in DOMAIN c, g # f
      PROVE  /\ n[g].newer = c[g].newer \cup {f}
             /\ n[g] \in [has : {"part", "all"}, by : SUBSET Actor, newer : SUBSET (D \ {g})]
  <2>1. c[g] \in [has : {"part", "all"}, by : SUBSET Actor, newer : SUBSET (DOMAIN c \ {g})]
    BY DEF Entries
  <2>2. n[g] = [has |-> c[g].has, by |-> c[g].by, newer |-> c[g].newer \cup {f}]
    BY <1>2, <2>1 DEF Newest
  <2>3. c[g].newer \cup {f} \in SUBSET (D \ {g}) /\ c[g].has \in {"part", "all"} /\ c[g].by \in SUBSET Actor
    BY <1>2, <2>1
  <2> HIDE DEF n, D
  <2> QED
    BY <2>2, <2>3
<1>3. n[f].newer = {} /\ n[f] \in [has : {"part", "all"}, by : SUBSET Actor, newer : SUBSET (D \ {f})]
  BY <1>1
<1>4. D \subseteq Page
  BY DEF Entries
<1> HIDE DEF n
<1>5. ASSUME NEW g \in D, NEW k \in D, g # k
      PROVE  g \in n[k].newer <=> k \notin n[g].newer
  <2>1. CASE g = f
    <3>1. k \in DOMAIN c /\ k # f
      BY <1>5, <2>1
    <3>2. n[k].newer = c[k].newer \cup {f}
      BY <1>2, <3>1
    <3> QED
      BY <1>3, <2>1, <3>2
  <2>2. CASE k = f
    <3>1. g \in DOMAIN c /\ g # f
      BY <1>5, <2>2
    <3>2. n[g].newer = c[g].newer \cup {f}
      BY <1>2, <3>1
    <3> QED
      BY <1>3, <2>2, <3>2
  <2>3. CASE g # f /\ k # f
    <3>1. n[g].newer = c[g].newer \cup {f} /\ n[k].newer = c[k].newer \cup {f}
      BY <1>2, <2>3
    <3>2. g \in c[k].newer <=> k \notin c[g].newer
      BY <1>5, <2>3 DEF Entries
    <3> QED
      BY <2>3, <3>1, <3>2
  <2> QED
    BY <2>1, <2>2, <2>3
<1>6. \A g \in D : n[g] \in [has : {"part", "all"}, by : SUBSET Actor, newer : SUBSET (D \ {g})]
  BY <1>2, <1>3
<1> QED
  BY <1>1, <1>4, <1>5, <1>6 DEF Entries, n

\* Those who have f open, as open(f, "w") finds them.
Holders(c, f) == IF f \in DOMAIN c THEN c[f].by ELSE {}

LEMMA OpenedIs ==
  ASSUME NEW c, Entries(c), NEW f \in Page, NEW p \in Actor
  PROVE  /\ Opened(c, f, p) = Newest(c, f, "part", {p} \cup Holders(c, f))
         /\ {p} \cup Holders(c, f) \in SUBSET Actor
         /\ DOMAIN Opened(c, f, p) = DOMAIN c \cup {f}
         /\ Entries(Opened(c, f, p))
<1>0. DOMAIN Opened(c, f, p) = DOMAIN c \cup {f}
  BY DEF Opened, Newest
<1>1. Opened(c, f, p) = Newest(c, f, "part", {p} \cup Holders(c, f))
  BY DEF Opened, Holders
<1>2. {p} \cup Holders(c, f) \in SUBSET Actor
  BY DEF Entries, Holders
<1> QED
  BY <1>0, <1>1, <1>2, NewestEntries

LEMMA WrittenIs ==
  ASSUME Entries(cache), NEW f \in Page, NEW p \in Actor
  PROVE  /\ Written(f, p) = IF f \in DOMAIN cache /\ p \in cache[f].by
                            THEN Newest(cache, f, "all", cache[f].by \ {p}) ELSE cache
         /\ DOMAIN Written(f, p) = DOMAIN cache
         /\ Entries(Written(f, p))
<1>0. DOMAIN Written(f, p) = DOMAIN cache
  BY DEF Written, Newest, Cached
<1>1. Written(f, p) = IF f \in DOMAIN cache /\ p \in cache[f].by
                      THEN Newest(cache, f, "all", cache[f].by \ {p}) ELSE cache
  BY DEF Written, Cached
<1>2. f \in DOMAIN cache => cache[f].by \ {p} \in SUBSET Actor
  BY DEF Entries
<1> QED
  BY <1>0, <1>1, <1>2, NewestEntries

\* The kinds of steps, by what they leave alone.
BuilderStep(p) ==
  \/ Begin(p) \/ Stage(p) \/ WriteBank(p) \/ WriteLedger(p) \/ WriteManifest(p)
  \/ ClearOld(p) \/ MoveOld(p) \/ Publish(p) \/ DropOld(p)

RendererStep(p) ==
  \/ \E r \in Receipt : BeginRender(p, r)
  \/ LookJpg(p) \/ NewJpg(p) \/ SaveJpg(p) \/ LookTxt(p) \/ SaveTxt(p) \/ Raises(p)

LEMMA NextIs ==
  RuntimeNext <=> \/ OpenGate
                  \/ \E p \in Actor : \/ BuilderStep(p) \/ RendererStep(p)
                                      \/ CloseGate(p) \/ ListAll(p) \/ Remove(p) \/ Kill(p)
BY DEF RuntimeNext, BuilderStep, RendererStep

LEMMA PagesOf ==
  ASSUME Typed, NEW p \in Actor, Rendering(p)
  PROVE  Jpg(p) \in Page /\ Txt(p) \in Page
BY DEF Typed, Making, Jpg, Txt, Page

LEMMA TypesAre ==
  ASSUME RuntimeTypeOK
  PROVE  work \in [Actor -> Job] /\ Entries(cache)
BY DEF RuntimeTypeOK, Job, Entries

LEMMA BuilderTyped ==
  ASSUME Typed, NEW p \in Actor, BuilderStep(p)
  PROVE  Typed'
<1> USE DEF At
<1>1. RuntimeTypeOK /\ Making /\ Closed /\ work \in [Actor -> Job]
  BY TypesAre DEF Typed
<1>2. /\ UNCHANGED <<makes, open, cache, locks, kills, cut, late>>
      /\ makes[p] = "workspace" /\ ~Locking(p)
      /\ (\E x \in {"stage", "bank", "ledger", "manifest", "clear", "move", "publish", "drop"} : Goes(p, x)) \/ Ends(p)
  BY <1>1 DEF BuilderStep, Begin, Stage, WriteBank, WriteLedger, WriteManifest, ClearOld, MoveOld,
       Publish, DropOld, agent, history, Making, Building, Locking
<1>3. /\ work' \in [Actor -> Job]
      /\ \A q \in Actor \ {p} : work'[q] = work[q]
      /\ Building(p)' \/ work'[p].pc = "idle"
  BY <1>1, <1>2, GoesTo, EndsAt DEF Building, Pc
<1>4. staging' \in Dir /\ dest' \in Dir /\ old' \in Dir
  <2>0. {} \in Dir /\ Nothing \in Dir
    <3>1. {} \in SUBSET (Part \X Actor)
      OBVIOUS
    <3> QED
      BY <3>1 DEF Dir
  <2>1. staging \in Dir /\ dest \in Dir /\ old \in Dir /\ {} \in Dir /\ Nothing \in Dir
    BY <1>1, <2>0 DEF RuntimeTypeOK
  <2>2. \A d \in Dir, s \in Part : (IF d = Nothing THEN {} ELSE d) \cup {<<s, p>>} \in Dir
    BY DEF Dir
  <2>3. CASE WriteBank(p) \/ WriteLedger(p) \/ WriteManifest(p)
    BY <2>1, <2>2, <2>3 DEF WriteBank, WriteLedger, WriteManifest, Part
  <2>4. CASE Stage(p) \/ Publish(p)
    BY <2>1, <2>4 DEF Stage, Publish
  <2>5. CASE ClearOld(p) \/ MoveOld(p) \/ DropOld(p) \/ Begin(p)
    BY <2>1, <2>5 DEF ClearOld, MoveOld, DropOld, Begin, agent
  <2> QED
    BY <2>3, <2>4, <2>5 DEF BuilderStep
<1>5. /\ crossed' \subseteq Actor /\ built' \in BOOLEAN /\ gap' \in BOOLEAN /\ mixed' \in BOOLEAN
      /\ built' => built \/ open
  <2>1. crossed \subseteq Actor /\ built \in BOOLEAN /\ gap \in BOOLEAN /\ mixed \in BOOLEAN /\ open \in BOOLEAN
    BY <1>1 DEF RuntimeTypeOK
  <2>2. CASE Begin(p)
    BY <2>1, <2>2 DEF Begin
  <2>3. CASE Publish(p)
    <3>1. CASE UNCHANGED <<built, mixed>> /\ gap' = TRUE
      BY <2>1, <2>3, <3>1 DEF Publish
    <3>2. CASE built' = open /\ mixed' = (p \in crossed) /\ gap' = FALSE
      <4>1. crossed' = crossed
        BY <2>3 DEF Publish
      <4>2. mixed' \in BOOLEAN
        BY <3>2
      <4> QED
        BY <2>1, <3>2, <4>1, <4>2, Zenon
    <3> QED
      BY <2>3, <3>1, <3>2 DEF Publish
  <2>4. CASE ~Begin(p) /\ ~Publish(p)
    BY <2>1, <2>4 DEF BuilderStep, Stage, WriteBank, WriteLedger, WriteManifest, ClearOld, MoveOld, DropOld, history
  <2> QED
    BY <2>2, <2>3, <2>4
<1>6. RuntimeTypeOK'
  BY <1>1, <1>2, <1>3, <1>4, <1>5 DEF RuntimeTypeOK, Job
<1>7. Making'
  BY <1>1, <1>2, <1>3 DEF Making, Rendering, Building
<1>8. Closed'
  BY <1>1, <1>2, <1>3, <1>5 DEF Closed, Locking, Building
<1> QED
  BY <1>6, <1>7, <1>8 DEF Typed

LEMMA RendererTyped ==
  ASSUME Typed, NEW p \in Actor, RendererStep(p)
  PROVE  Typed'
<1> USE DEF At
<1>1. RuntimeTypeOK /\ Making /\ Closed /\ work \in [Actor -> Job] /\ Entries(cache)
  BY TypesAre DEF Typed
<1>2. UNCHANGED <<makes, open, agent, locks, kills, history>>
  BY DEF RendererStep, BeginRender, LookJpg, NewJpg, SaveJpg, LookTxt, SaveTxt, Raises
<1>3. /\ work' \in [Actor -> Job]
      /\ \A q \in Actor \ {p} : work'[q] = work[q]
      /\ work'[p].pc = "idle" \/ (Rendering(p)' /\ work'[p].receipt \in Receipt)
      /\ makes[p] = "pages"
  <2>1. CASE \E r \in Receipt : BeginRender(p, r)
    BY <1>1, <2>1 DEF BeginRender, NoWork, Job, Pc, Rendering
  <2>2. CASE ~(\E r \in Receipt : BeginRender(p, r))
    <3>1. Rendering(p) /\ ((\E x \in {"newjpg", "savejpg", "txt", "savetxt"} : Goes(p, x)) \/ Ends(p))
      BY <2>2 DEF RendererStep, LookJpg, NewJpg, SaveJpg, LookTxt, SaveTxt, Raises, Rendering
    <3> QED
      BY <1>1, <3>1, GoesTo, EndsAt DEF Rendering, Making, Pc
  <2> QED
    BY <2>1, <2>2
<1>4. Entries(cache')
  <2>1. CASE UNCHANGED cache
    BY <1>1, <2>1
  <2>2. CASE NewJpg(p)
    <3>1. Entries(Evicted) /\ Jpg(p) \in Page
      BY <1>1, <2>2, OnlyEntries, PagesOf DEF Evicted, NewJpg, Rendering
    <3> QED
      BY <2>2, <3>1, OpenedIs DEF NewJpg
  <2>3. CASE SaveJpg(p) \/ SaveTxt(p)
    BY <1>1, <2>3, WrittenIs, PagesOf DEF SaveJpg, SaveTxt, Rendering
  <2>4. CASE LookTxt(p)
    <3>1. Txt(p) \in Page
      BY <2>4, PagesOf DEF LookTxt, Rendering
    <3>2. cache' = cache \/ cache' = Opened(cache, Txt(p), p)
      BY <2>4 DEF LookTxt
    <3>3. Entries(Opened(cache, Txt(p), p))
      BY <1>1, <3>1, OpenedIs
    <3> QED
      BY <1>1, <3>2, <3>3
  <2> QED
    BY <2>1, <2>2, <2>3, <2>4 DEF RendererStep, BeginRender, LookJpg, Raises
<1>5. RuntimeTypeOK'
  BY <1>1, <1>2, <1>3, <1>4 DEF RuntimeTypeOK, Job, agent, history, Entries
<1>6. Making'
  BY <1>1, <1>2, <1>3 DEF Making, Rendering, Building
<1>7. Closed'
  BY <1>1, <1>2, <1>3 DEF Closed, Locking, Rendering, history
<1> QED
  BY <1>5, <1>6, <1>7 DEF Typed

LEMMA FilesListed ==
  ASSUME NEW d \in Dir, NEW name \in {"staging", "dest", "old"}
  PROVE  Files(name, d) \in SUBSET Listed
BY DEF Files, Dir, Listed, Part

LEMMA LeftIs ==
  ASSUME NEW d \in Dir, NEW name, NEW listed
  PROVE  Left(name, d, listed) \in Dir
<1>1. CASE d = Nothing
  BY <1>1 DEF Left, Dir
<1>2. CASE d # Nothing
  <2>1. {f \in d : <<name, f[1]>> \notin listed} \in SUBSET (Part \X Actor)
    BY <1>2 DEF Dir
  <2> QED
    BY <1>2, <2>1 DEF Left, Dir
<1> QED
  BY <1>1, <1>2

LEMMA OpenTyped ==
  ASSUME Typed, OpenGate
  PROVE  Typed'
<1>1. RuntimeTypeOK /\ Making /\ Closed
  BY DEF Typed
<1>2. UNCHANGED <<makes, agent, cache, work, locks, kills, history>> /\ open' = TRUE
      /\ \A q \in Actor : ~Locking(q)
  BY DEF OpenGate
<1>3. RuntimeTypeOK'
  BY <1>1, <1>2 DEF RuntimeTypeOK, agent, history
<1>4. Making' /\ Closed'
  BY <1>1, <1>2 DEF Making, Closed, Rendering, Building, Locking
<1> QED
  BY <1>3, <1>4 DEF Typed

\* What a lock notes of those who are at it.
LEMMA LateIs ==
  ASSUME NEW p \in Actor, CloseGate(p), NEW x
  PROVE  x \in late' <=>
           \/ \E q \in Actor : Rendering(q) /\ x \in {Jpg(q), Txt(q)}
           \/ x = Agent /\ \E q \in Actor : Building(q)
<1> DEFINE U == UNION {{Jpg(q), Txt(q)} : q \in {r \in Actor : Rendering(r)}}
           V == IF \E q \in Actor : Building(q) THEN {Agent} ELSE {}
<1>1. late' = U \cup V
  BY DEF CloseGate
<1>2. x \in U <=> \E q \in Actor : Rendering(q) /\ x \in {Jpg(q), Txt(q)}
  OBVIOUS
<1>3. x \in V <=> x = Agent /\ \E q \in Actor : Building(q)
  OBVIOUS
<1> HIDE DEF U, V
<1> QED
  BY <1>1, <1>2, <1>3

LEMMA LockTyped ==
  ASSUME Typed, NEW p \in Actor, CloseGate(p) \/ ListAll(p) \/ Remove(p) \/ Kill(p)
  PROVE  Typed'
<1> USE DEF At
<1>1. RuntimeTypeOK /\ Making /\ Closed /\ work \in [Actor -> Job] /\ Entries(cache)
  BY TypesAre DEF Typed
<1>2. staging \in Dir /\ dest \in Dir /\ old \in Dir
  BY <1>1 DEF RuntimeTypeOK
<1>4. CASE CloseGate(p)
  <2>1. /\ UNCHANGED <<makes, agent, cache, kills, gap, mixed, cut>>
        /\ open' = FALSE /\ built' = FALSE /\ Goes(p, "scan")
    BY <1>4 DEF CloseGate
  <2>2. /\ work' \in [Actor -> Job] /\ work'[p].pc = "scan"
        /\ \A q \in Actor \ {p} : work'[q] = work[q]
    BY <1>1, <2>1, GoesTo DEF Pc
  <2>3. locks' \in 0..MaxLock /\ crossed' \subseteq Actor
    BY <1>1, <1>4, RuntimeAssumption DEF CloseGate, RuntimeTypeOK
  <2>4. late' \subseteq Page \cup {Agent}
    <3>1. \A q \in Actor : Rendering(q) => {Jpg(q), Txt(q)} \subseteq Page
      BY PagesOf
    <3> QED
      BY <1>4, <3>1, LateIs
  <2>5. RuntimeTypeOK'
    BY <1>1, <2>1, <2>2, <2>3, <2>4 DEF RuntimeTypeOK, agent, Job
  <2>6. Making' /\ Closed'
    BY <1>1, <2>1, <2>2 DEF Making, Closed, Rendering, Building, Locking
  <2> QED
    BY <2>5, <2>6 DEF Typed
<1>5. CASE ListAll(p)
  <2>1. UNCHANGED <<makes, open, agent, cache, locks, kills, history>>
    BY <1>5 DEF ListAll
  <2>2. Listing \in SUBSET Listed
    <3>1. {<<"render", f>> : f \in DOMAIN cache} \subseteq Listed
      BY <1>1 DEF Listed, Entries
    <3>2. /\ Files("staging", staging) \in SUBSET Listed /\ Files("dest", dest) \in SUBSET Listed
          /\ Files("old", old) \in SUBSET Listed
      BY <1>2, FilesListed
    <3> QED
      BY <3>1, <3>2 DEF Listing
  <2>3. /\ work' \in [Actor -> Job] /\ work'[p].pc = "remove" /\ work[p].pc = "scan"
        /\ \A q \in Actor \ {p} : work'[q] = work[q]
    BY <1>1, <1>5, <2>2 DEF ListAll, Job, Pc
  <2>4. RuntimeTypeOK'
    BY <1>1, <2>1, <2>3 DEF RuntimeTypeOK, agent, history, Job
  <2>5. Making' /\ Closed'
    BY <1>1, <2>1, <2>3 DEF Making, Closed, Rendering, Building, Locking, history
  <2> QED
    BY <2>4, <2>5 DEF Typed
<1>6. CASE Remove(p)
  <2>1. UNCHANGED <<makes, open, locks, kills, history>> /\ Ends(p)
    BY <1>6 DEF Remove
  <2>2. /\ work' \in [Actor -> Job] /\ work'[p].pc = "idle"
        /\ \A q \in Actor \ {p} : work'[q] = work[q]
    BY <1>1, <2>1, EndsAt
  <2>3. staging' \in Dir /\ dest' \in Dir /\ old' \in Dir
    BY <1>2, <1>6, LeftIs DEF Remove
  <2>4. Entries(cache')
    BY <1>1, <1>6, OnlyEntries DEF Remove
  <2>5. RuntimeTypeOK'
    BY <1>1, <2>1, <2>2, <2>3, <2>4 DEF RuntimeTypeOK, history, Job, Entries
  <2>6. Making' /\ Closed'
    BY <1>1, <2>1, <2>2 DEF Making, Closed, Rendering, Building, Locking, history
  <2> QED
    BY <2>5, <2>6 DEF Typed
<1>7. CASE Kill(p)
  <2>1. UNCHANGED <<makes, open, agent, cache, locks, crossed, built, mixed, late>> /\ Ends(p)
    BY <1>7 DEF Kill
  <2>2. /\ work' \in [Actor -> Job] /\ work'[p].pc = "idle"
        /\ \A q \in Actor \ {p} : work'[q] = work[q]
    BY <1>1, <2>1, EndsAt
  <2>3. kills' \in 0..MaxKill
    BY <1>1, <1>7, RuntimeAssumption DEF Kill, RuntimeTypeOK
  <2>4. gap' \in BOOLEAN
    BY <1>7 DEF Kill
  <2>5. cut' \subseteq Page
    <3>1. Rendering(p) => Jpg(p) \in Page /\ Txt(p) \in Page
      BY PagesOf
    <3>2. cut \subseteq Page
      BY <1>1 DEF RuntimeTypeOK
    <3>3. CASE work[p].pc = "savejpg"
      BY <1>7, <3>1, <3>2, <3>3 DEF Kill, Rendering
    <3>4. CASE work[p].pc = "savetxt"
      BY <1>7, <3>1, <3>2, <3>4 DEF Kill, Rendering
    <3>5. CASE work[p].pc \notin {"savejpg", "savetxt"}
      BY <1>7, <3>2, <3>5 DEF Kill
    <3> QED
      BY <3>3, <3>4, <3>5
  <2>6. RuntimeTypeOK'
    BY <1>1, <2>1, <2>2, <2>3, <2>4, <2>5 DEF RuntimeTypeOK, agent, Job
  <2>7. Making' /\ Closed'
    BY <1>1, <2>1, <2>2 DEF Making, Closed, Rendering, Building, Locking
  <2> QED
    BY <2>6, <2>7 DEF Typed
<1> QED
  BY <1>4, <1>5, <1>6, <1>7

LEMMA InitTypes == RuntimeInit => Typed
<1> SUFFICES ASSUME RuntimeInit PROVE Typed
  OBVIOUS
<1>1. work \in [Actor -> Job] /\ \A p \in Actor : work[p].pc = "idle"
  BY DEF RuntimeInit, NoWork, Job, Pc
<1>2. DOMAIN cache = {} /\ Nothing \in Dir
  BY DEF RuntimeInit, Dir
<1>3. RuntimeTypeOK
  <2>1. {built, gap, mixed} \subseteq BOOLEAN /\ open \in BOOLEAN /\ crossed = {} /\ cut = {} /\ late = {}
    BY DEF RuntimeInit
  <2>2. /\ locks \in 0..MaxLock /\ kills \in 0..MaxKill /\ {staging, dest, old} \subseteq Dir
        /\ makes \in [Actor -> {"workspace", "pages"}]
    BY <1>2, RuntimeAssumption DEF RuntimeInit
  <2> QED
    BY <1>1, <1>2, <2>1, <2>2 DEF RuntimeTypeOK, Job
<1>4. Making /\ Closed
  BY <1>1 DEF Making, Closed, Rendering, Building, Locking
<1> QED
  BY <1>3, <1>4 DEF Typed

LEMMA StutterTypes == Typed /\ UNCHANGED runtime => Typed'
BY DEF Typed, RuntimeTypeOK, Making, Closed, Rendering, Building, Locking, runtime

LEMMA NextTypes == Typed /\ [RuntimeNext]_runtime => Typed'
BY BuilderTyped, RendererTyped, OpenTyped, LockTyped, StutterTypes, NextIs

-----------------------------------------------------------------------------
(* The workspace.                                                          *)

\* A step is of one process, and leaves what the others are doing.
LEMMA OthersRest ==
  ASSUME Typed, NEW p \in Actor,
         BuilderStep(p) \/ RendererStep(p) \/ CloseGate(p) \/ ListAll(p) \/ Remove(p) \/ Kill(p)
  PROVE  \A q \in Actor \ {p} : work'[q] = work[q]
<1>1. work \in [Actor -> Job]
  BY TypesAre DEF Typed
<1>2. CASE \E x \in Pc : Goes(p, x)
  BY <1>1, <1>2, GoesTo
<1>3. CASE Ends(p)
  BY <1>1, <1>3, EndsAt
<1>4. CASE ListAll(p) \/ \E r \in Receipt : BeginRender(p, r)
  BY <1>1, <1>4 DEF ListAll, BeginRender
<1>5. CASE BuilderStep(p)
  <2>1. (\E x \in {"stage", "bank", "ledger", "manifest", "clear", "move", "publish", "drop"} : Goes(p, x)) \/ Ends(p)
    BY <1>5 DEF BuilderStep, Begin, Stage, WriteBank, WriteLedger, WriteManifest, ClearOld, MoveOld,
         Publish, DropOld
  <2> QED
    BY <1>2, <1>3, <2>1 DEF Pc
<1>6. CASE RendererStep(p) /\ ~\E r \in Receipt : BeginRender(p, r)
  <2>1. (\E x \in {"newjpg", "savejpg", "txt", "savetxt"} : Goes(p, x)) \/ Ends(p)
    BY <1>6 DEF RendererStep, LookJpg, NewJpg, SaveJpg, LookTxt, SaveTxt, Raises
  <2> QED
    BY <1>2, <1>3, <2>1 DEF Pc
<1>7. CASE CloseGate(p) \/ Remove(p) \/ Kill(p)
  <2>1. Goes(p, "scan") \/ Ends(p)
    BY <1>7 DEF CloseGate, Remove, Kill
  <2> QED
    BY <1>2, <1>3, <2>1 DEF Pc
<1> QED
  BY <1>4, <1>5, <1>6, <1>7

LEMMA RendererKeeps ==
  ASSUME Typed, NEW p \in Actor, RendererStep(p)
  PROVE  /\ UNCHANGED <<makes, open, agent, locks, kills, history>>
         /\ ~Building(p) /\ ~Locking(p) /\ ~Building(p)' /\ ~Locking(p)'
<1>1. UNCHANGED <<makes, open, agent, locks, kills, history>>
  BY DEF RendererStep, BeginRender, LookJpg, NewJpg, SaveJpg, LookTxt, SaveTxt, Raises
<1>2. ~Building(p) /\ ~Locking(p)
  BY DEF RendererStep, BeginRender, LookJpg, NewJpg, SaveJpg, LookTxt, SaveTxt, Raises, At, Building, Locking
<1>3. work \in [Actor -> Job]
  BY TypesAre DEF Typed
<1>4. work'[p].pc \in {"idle", "jpg", "newjpg", "savejpg", "txt", "savetxt"}
  <2>1. CASE \E r \in Receipt : BeginRender(p, r)
    BY <1>3, <2>1 DEF BeginRender, NoWork
  <2>2. CASE ~\E r \in Receipt : BeginRender(p, r)
    <3>1. (\E x \in {"newjpg", "savejpg", "txt", "savetxt"} : Goes(p, x)) \/ Ends(p)
      BY <2>2 DEF RendererStep, LookJpg, NewJpg, SaveJpg, LookTxt, SaveTxt, Raises
    <3> QED
      BY <1>3, <3>1, GoesTo, EndsAt DEF Pc
  <2> QED
    BY <2>1, <2>2
<1> QED
  BY <1>1, <1>2, <1>4 DEF Building, Locking

\* What a builder that is alone has to show after its step.
Shown(p) ==
  /\ At(p, "bank") => staging = {}
  /\ At(p, "ledger") => staging = {<<"bank", p>>}
  /\ At(p, "manifest") => staging = {"bank", "ledger"} \X {p}
  /\ work[p].pc \in {"clear", "move", "publish"} => staging = Part \X {p}

LEMMA SoloShows ==
  ASSUME Typed, SoloBuilds, NEW p \in Actor, BuilderStep(p), ~Begin(p), p \notin crossed
  PROVE  Shown(p)'
<1>1. Building(p) /\ work \in [Actor -> Job]
  BY TypesAre DEF BuilderStep, Stage, WriteBank, WriteLedger, WriteManifest, ClearOld, MoveOld,
       Publish, DropOld, At, Building, Typed
<1>2. Shown(p)
  BY <1>1 DEF SoloBuilds, Solo, Shown
<1>3. CASE Ends(p)
  BY <1>1, <1>3, EndsAt DEF Shown, At
<1>4. CASE Stage(p) /\ ~Ends(p)
  <2>1. staging' = {} /\ work'[p].pc = "bank"
    BY <1>1, <1>4, GoesTo DEF Stage, Pc
  <2> QED
    BY <2>1 DEF Shown, At
<1>5. CASE WriteBank(p)
  <2>1. staging' = {<<"bank", p>>} /\ work'[p].pc = "ledger"
    BY <1>1, <1>2, <1>5, GoesTo DEF WriteBank, Pc, Shown
  <2> QED
    BY <2>1 DEF Shown, At
<1>6. CASE WriteLedger(p) /\ ~Ends(p)
  <2>1. staging' = {<<"bank", p>>} \cup {<<"ledger", p>>} /\ work'[p].pc = "manifest"
    BY <1>1, <1>2, <1>6, GoesTo DEF WriteLedger, Pc, Shown
  <2>2. staging' = {"bank", "ledger"} \X {p}
    BY <2>1
  <2> QED
    BY <2>1, <2>2 DEF Shown, At
<1>7. CASE WriteManifest(p) /\ ~Ends(p)
  <2>1. staging' = ({"bank", "ledger"} \X {p}) \cup {<<"manifest", p>>} /\ work'[p].pc = "clear"
    BY <1>1, <1>2, <1>7, GoesTo DEF WriteManifest, Pc, Shown
  <2>2. staging' = Part \X {p}
    BY <2>1 DEF Part
  <2> QED
    BY <2>1, <2>2 DEF Shown, At
<1>8. CASE ClearOld(p) \/ (MoveOld(p) /\ ~Ends(p))
  <2>1. /\ work[p].pc \in {"clear", "move"} /\ staging' = staging
        /\ Goes(p, "move") \/ Goes(p, "publish")
    BY <1>8 DEF ClearOld, MoveOld, At
  <2>2. work'[p].pc \in {"move", "publish"}
    BY <1>1, <2>1, GoesTo DEF Pc
  <2> QED
    BY <1>2, <2>1, <2>2 DEF Shown, At
<1>9. CASE Publish(p) /\ ~Ends(p)
  <2>1. work'[p].pc = "drop"
    BY <1>1, <1>9, GoesTo DEF Publish, Pc
  <2> QED
    BY <2>1 DEF Shown, At
<1> QED
  BY <1>3, <1>4, <1>5, <1>6, <1>7, <1>8, <1>9 DEF BuilderStep, DropOld

LEMMA SoloIs ==
  SoloBuilds <=> \A p \in Actor : Solo(p) =>
                   /\ \A q \in Actor : q # p => ~Building(q) /\ ~Locking(q)
                   /\ Shown(p)
BY DEF SoloBuilds, Shown

LEMMA SoloStays ==
  ASSUME Typed, SoloBuilds, NEW p \in Actor,
         BuilderStep(p) \/ RendererStep(p) \/ CloseGate(p) \/ ListAll(p) \/ Remove(p) \/ Kill(p)
  PROVE  SoloBuilds'
<1>1. \A q \in Actor \ {p} : work'[q] = work[q]
  BY OthersRest
<1>2. \A q \in Actor \ {p} : (Building(q)' <=> Building(q)) /\ (Locking(q)' <=> Locking(q))
  BY <1>1 DEF Building, Locking
<1>3. work \in [Actor -> Job]
  BY TypesAre DEF Typed
<1>4. CASE Begin(p)
  <2> DEFINE others == {q \in Actor : Building(q) \/ Locking(q)}
  <2>1. work'[p].pc = "stage" /\ ~Building(p) /\ ~Locking(p)
    BY <1>3, <1>4, GoesTo DEF Begin, Pc, At, Building, Locking
  <2>2. CASE others = {}
    <3>1. \A q \in Actor \ {p} : ~Building(q)' /\ ~Locking(q)'
      BY <1>2, <2>2
    <3>2. Shown(p)'
      BY <2>1 DEF Shown, At
    <3> QED
      BY <3>1, <3>2, SoloIs DEF SoloBuilds, Shown, Solo
  <2>3. CASE others # {}
    <3>1. crossed' = crossed \cup others \cup {p}
      BY <1>4, <2>3 DEF Begin
    <3>2. \A q \in Actor : ~Solo(q)'
      BY <1>2, <3>1 DEF Solo
    <3> QED
      BY <3>2 DEF SoloBuilds
  <2> QED
    BY <2>2, <2>3
<1>5. CASE BuilderStep(p) /\ ~Begin(p)
  <2>1. Building(p) /\ crossed' = crossed
    BY <1>5 DEF BuilderStep, Stage, WriteBank, WriteLedger, WriteManifest, ClearOld, MoveOld,
         Publish, DropOld, At, Building, history
  <2>2. \A q \in Actor \ {p} : ~Solo(q)'
    BY <1>2, <2>1 DEF SoloBuilds, Solo
  <2>3. ASSUME Solo(p)' PROVE Solo(p) /\ Shown(p)'
    BY <1>5, <2>1, <2>3, SoloShows DEF Solo
  <2>4. ASSUME Solo(p)', NEW q \in Actor, q # p PROVE ~Building(q)' /\ ~Locking(q)'
    BY <1>2, <2>3, <2>4 DEF SoloBuilds
  <2> QED
    BY <2>2, <2>3, <2>4 DEF SoloBuilds, Shown
<1>6. CASE RendererStep(p)
  <2>1. crossed' = crossed /\ staging' = staging /\ ~Building(p)' /\ ~Locking(p)'
    BY <1>6, RendererKeeps DEF history, agent
  <2> QED
    BY <1>1, <1>2, <2>1 DEF SoloBuilds, Solo, At, Building
<1>7. CASE CloseGate(p)
  <2>1. crossed' = crossed \cup {q \in Actor : Building(q)} /\ work'[p].pc = "scan"
    BY <1>3, <1>7, GoesTo DEF CloseGate, Pc
  <2>2. \A q \in Actor : ~Solo(q)'
    BY <1>2, <2>1 DEF Solo, Building
  <2> QED
    BY <2>2 DEF SoloBuilds
<1>8. CASE ListAll(p) \/ Remove(p)
  <2>1. Locking(p) /\ crossed' = crossed
    BY <1>8 DEF ListAll, Remove, Locking, At, history
  <2>2. ~Building(p)'
    <3>1. CASE ListAll(p)
      BY <1>3, <3>1 DEF ListAll, Building, Job
    <3>2. CASE Remove(p)
      BY <1>3, <3>2, EndsAt DEF Remove, Building
    <3> QED
      BY <1>8, <3>1, <3>2
  <2>3. \A q \in Actor : ~Solo(q)'
    BY <1>2, <2>1, <2>2 DEF Solo, SoloBuilds
  <2> QED
    BY <2>3 DEF SoloBuilds
<1>9. CASE Kill(p)
  <2>1. crossed' = crossed /\ staging' = staging /\ work'[p].pc = "idle"
    BY <1>3, <1>9, EndsAt DEF Kill, agent
  <2> QED
    BY <1>1, <1>2, <2>1 DEF SoloBuilds, Solo, At, Building, Locking
<1> QED
  BY <1>4, <1>5, <1>6, <1>7, <1>8, <1>9

LEMMA FilesLeft ==
  ASSUME NEW d, NEW name, NEW listed
  PROVE  /\ Files(name, Left(name, d, listed)) \subseteq Files(name, d)
         /\ Files(name, d) \subseteq listed => Left(name, d, listed) = Nothing
BY DEF Files, Left

LEMMA BuiltStays ==
  ASSUME Typed, Built, NEW p \in Actor,
         BuilderStep(p) \/ RendererStep(p) \/ CloseGate(p) \/ ListAll(p) \/ Remove(p) \/ Kill(p)
  PROVE  Built'
<1>1. SoloBuilds /\ WholeIsListed /\ WorkspaceIsWhole /\ Closed /\ work \in [Actor -> Job]
  BY TypesAre DEF Built, Typed
<1>2. \A q \in Actor \ {p} : work'[q] = work[q]
  BY OthersRest
<1>3. SoloBuilds'
  BY <1>1, SoloStays
<1>4. CASE UNCHANGED <<dest, mixed>> /\ ~At(p, "remove")'
  <2>1. WholeIsListed'
    BY <1>1, <1>2, <1>4 DEF WholeIsListed, At
  <2>2. WorkspaceIsWhole'
    BY <1>1, <1>4 DEF WorkspaceIsWhole
  <2> QED
    BY <1>3, <2>1, <2>2 DEF Built
<1>5. CASE dest' = Nothing
  BY <1>3, <1>5 DEF Built, WholeIsListed, WorkspaceIsWhole, Files
<1>6. CASE BuilderStep(p)
  <2>1. ~At(p, "remove")'
    <3>1. (\E x \in {"stage", "bank", "ledger", "manifest", "clear", "move", "publish", "drop"} : Goes(p, x)) \/ Ends(p)
      BY <1>6 DEF BuilderStep, Begin, Stage, WriteBank, WriteLedger, WriteManifest, ClearOld, MoveOld,
           Publish, DropOld
    <3> QED
      BY <1>1, <3>1, GoesTo, EndsAt DEF Pc, At
  <2>2. CASE ~Publish(p)
    <3>1. UNCHANGED <<dest, mixed>> \/ dest' = Nothing
      BY <1>6, <2>2 DEF BuilderStep, Begin, Stage, WriteBank, WriteLedger, WriteManifest, ClearOld,
           MoveOld, DropOld, history, agent
    <3> QED
      BY <1>4, <1>5, <2>1, <3>1
  <2>3. CASE Publish(p) /\ UNCHANGED <<dest, mixed>>
    BY <1>4, <2>1, <2>3
  <2>4. CASE Publish(p) /\ ~UNCHANGED <<dest, mixed>>
    <3>1. dest' = staging /\ (mixed' <=> p \in crossed) /\ work[p].pc = "publish"
      BY <2>4 DEF Publish, At
    <3>2. ASSUME p \notin crossed
          PROVE  staging = Part \X {p} /\ \A q \in Actor : ~Locking(q)
      <4>1. Solo(p) /\ ~Locking(p)
        BY <3>1, <3>2 DEF Solo, Building, Locking
      <4> QED
        BY <1>1, <3>1, <4>1 DEF SoloBuilds
    <3>3. WorkspaceIsWhole'
      BY <3>1, <3>2 DEF WorkspaceIsWhole
    <3>4. WholeIsListed'
      BY <1>2, <2>1, <3>1, <3>2 DEF WholeIsListed, At, Locking
    <3> QED
      BY <1>3, <3>3, <3>4 DEF Built
  <2> QED
    BY <2>2, <2>3, <2>4
<1>7. CASE RendererStep(p)
  <2>1. UNCHANGED <<dest, mixed>> /\ ~Locking(p)'
    BY <1>7, RendererKeeps DEF agent, history
  <2> QED
    BY <1>4, <2>1 DEF Locking, At
<1>8. CASE CloseGate(p) \/ Kill(p)
  <2>1. UNCHANGED <<dest, mixed>> /\ (Goes(p, "scan") \/ Ends(p))
    BY <1>8 DEF CloseGate, Kill, agent
  <2>2. ~At(p, "remove")'
    BY <1>1, <2>1, GoesTo, EndsAt DEF At, Pc
  <2> QED
    BY <1>4, <2>1, <2>2
<1>9. CASE ListAll(p)
  <2>1. UNCHANGED <<dest, mixed>> /\ work'[p].listed = Listing
    BY <1>1, <1>9 DEF ListAll, agent, history, Job
  <2>2. Files("dest", dest) \subseteq Listing
    BY DEF Listing
  <2>3. WholeIsListed'
    BY <1>1, <1>2, <2>1, <2>2 DEF WholeIsListed, At
  <2>4. WorkspaceIsWhole'
    BY <1>1, <2>1 DEF WorkspaceIsWhole
  <2> QED
    BY <1>3, <2>3, <2>4 DEF Built
<1>10. CASE Remove(p)
  <2>1. dest' = Left("dest", dest, work[p].listed) /\ mixed' = mixed /\ At(p, "remove")
    BY <1>10 DEF Remove, history
  <2>2. CASE ~mixed
    <3>1. dest' = Nothing
      BY <1>1, <2>1, <2>2, FilesLeft DEF WholeIsListed
    <3> QED
      BY <1>5, <3>1
  <2>3. CASE mixed
    BY <1>3, <2>1, <2>3 DEF Built, WholeIsListed, WorkspaceIsWhole
  <2> QED
    BY <2>2, <2>3
<1> QED
  BY <1>6, <1>7, <1>8, <1>9, <1>10

LEMMA WorkspaceKept ==
  ASSUME Typed, WorkspaceStays, NEW p \in Actor,
         BuilderStep(p) \/ RendererStep(p) \/ CloseGate(p) \/ ListAll(p) \/ Remove(p) \/ Kill(p)
  PROVE  WorkspaceStays'
<1>1. Closed /\ work \in [Actor -> Job]
  BY TypesAre DEF Typed
<1>2. \A q \in Actor \ {p} : At(q, "publish") => At(q, "publish")'
  BY OthersRest DEF At
<1>3. CASE UNCHANGED <<dest, gap, built>> /\ ~At(p, "publish")
  BY <1>2, <1>3 DEF WorkspaceStays
<1>4. CASE gap' \/ ~built' \/ dest' # Nothing \/ At(p, "publish")'
  BY <1>4 DEF WorkspaceStays
<1>5. CASE BuilderStep(p)
  <2>1. CASE MoveOld(p)
    <3>1. UNCHANGED <<dest, gap, built>> \/ Goes(p, "publish")
      BY <2>1 DEF MoveOld, history
    <3>2. Goes(p, "publish") => At(p, "publish")'
      BY <1>1, GoesTo DEF Pc, At
    <3> QED
      BY <1>3, <1>4, <2>1, <3>1, <3>2 DEF MoveOld, At
  <2>2. CASE Publish(p)
    BY <1>4, <2>2 DEF Publish
  <2>3. CASE ~MoveOld(p) /\ ~Publish(p)
    <3>1. UNCHANGED <<dest, gap, built>> /\ ~At(p, "publish")
      BY <1>5, <2>3 DEF BuilderStep, Begin, Stage, WriteBank, WriteLedger, WriteManifest, ClearOld,
           DropOld, history, agent, At
    <3> QED
      BY <1>3, <3>1
  <2> QED
    BY <2>1, <2>2, <2>3
<1>6. CASE RendererStep(p)
  BY <1>3, <1>6, RendererKeeps DEF agent, history, Building, At
<1>7. CASE CloseGate(p)
  BY <1>4, <1>7 DEF CloseGate
<1>8. CASE ListAll(p) \/ Remove(p)
  <2>1. ~built /\ built' = built
    BY <1>1, <1>8 DEF Closed, Locking, At, ListAll, Remove, history
  <2> QED
    BY <1>4, <2>1
<1>9. CASE Kill(p)
  <2>1. gap' <=> gap \/ At(p, "publish")
    BY <1>9 DEF Kill
  <2>2. dest' = dest /\ built' = built
    BY <1>9 DEF Kill, agent
  <2> QED
    BY <1>2, <2>1, <2>2 DEF WorkspaceStays
<1> QED
  BY <1>5, <1>6, <1>7, <1>8, <1>9

-----------------------------------------------------------------------------
(* What a lock leaves.                                                     *)

LEMMA LateWriters ==
  ASSUME Typed, WritersAreLate, NEW p \in Actor,
         BuilderStep(p) \/ RendererStep(p) \/ CloseGate(p) \/ ListAll(p) \/ Remove(p) \/ Kill(p)
  PROVE  WritersAreLate'
<1>1. work \in [Actor -> Job]
  BY TypesAre DEF Typed
<1>2. \A q \in Actor \ {p} : work'[q] = work[q]
  BY OthersRest
<1>3. ASSUME UNCHANGED <<open, late>>,
             open \/ ~(Rendering(p)' \/ Building(p)')
             \/ (Rendering(p) /\ Rendering(p)' /\ work'[p].receipt = work[p].receipt)
             \/ (Building(p) /\ Building(p)')
      PROVE  WritersAreLate'
  <2> SUFFICES ASSUME ~open, NEW q \in Actor
               PROVE  /\ Rendering(q)' => {Jpg(q)', Txt(q)'} \subseteq late
                      /\ Building(q)' => Agent \in late
    BY <1>3 DEF WritersAreLate
  <2>1. CASE q # p
    BY <1>2, <2>1 DEF WritersAreLate, Rendering, Building, Jpg, Txt
  <2>2. CASE q = p
    BY <1>3, <2>2 DEF WritersAreLate, Rendering, Building, Jpg, Txt
  <2> QED
    BY <2>1, <2>2
<1>4. CASE BuilderStep(p)
  <2>1. UNCHANGED <<open, late>>
    BY <1>4 DEF BuilderStep, Begin, Stage, WriteBank, WriteLedger, WriteManifest, ClearOld, MoveOld,
         Publish, DropOld, history
  <2>2. open \/ Building(p)
    BY <1>4 DEF BuilderStep, Begin, Stage, WriteBank, WriteLedger, WriteManifest, ClearOld, MoveOld,
         Publish, DropOld, At, Building
  <2>3. (\E x \in {"stage", "bank", "ledger", "manifest", "clear", "move", "publish", "drop"} : Goes(p, x)) \/ Ends(p)
    BY <1>4 DEF BuilderStep, Begin, Stage, WriteBank, WriteLedger, WriteManifest, ClearOld, MoveOld,
         Publish, DropOld
  <2>4. Building(p)' \/ ~(Rendering(p)' \/ Building(p)')
    BY <1>1, <2>3, GoesTo, EndsAt DEF Building, Rendering, Pc
  <2> QED
    BY <1>3, <2>1, <2>2, <2>4
<1>5. CASE \E r \in Receipt : BeginRender(p, r)
  BY <1>3, <1>5 DEF BeginRender, history
<1>6. CASE RendererStep(p) /\ ~\E r \in Receipt : BeginRender(p, r)
  <2>1. UNCHANGED <<open, late>> /\ Rendering(p)
    BY <1>6 DEF RendererStep, LookJpg, NewJpg, SaveJpg, LookTxt, SaveTxt, Raises, history, At, Rendering
  <2>2. (\E x \in {"newjpg", "savejpg", "txt", "savetxt"} : Goes(p, x)) \/ Ends(p)
    BY <1>6 DEF RendererStep, LookJpg, NewJpg, SaveJpg, LookTxt, SaveTxt, Raises
  <2>3. (Rendering(p)' /\ work'[p].receipt = work[p].receipt) \/ ~(Rendering(p)' \/ Building(p)')
    BY <1>1, <2>2, GoesTo, EndsAt DEF Building, Rendering, Pc
  <2> QED
    BY <1>3, <2>1, <2>3
<1>7. CASE CloseGate(p)
  <2>1. work'[p].pc = "scan"
    BY <1>1, <1>7, GoesTo DEF CloseGate, Pc
  <2> SUFFICES ASSUME NEW q \in Actor \ {p}
               PROVE  /\ Rendering(q)' => {Jpg(q)', Txt(q)'} \subseteq late'
                      /\ Building(q)' => Agent \in late'
    BY <2>1 DEF WritersAreLate, Rendering, Building
  <2>2. /\ Rendering(q)' <=> Rendering(q)
        /\ Building(q)' <=> Building(q)
        /\ Jpg(q)' = Jpg(q) /\ Txt(q)' = Txt(q)
    BY <1>2 DEF Rendering, Building, Jpg, Txt
  <2>3. Rendering(q) => Jpg(q) \in late' /\ Txt(q) \in late'
    BY <1>7, LateIs
  <2>4. Building(q) => Agent \in late'
    BY <1>7, LateIs
  <2> QED
    BY <2>2, <2>3, <2>4
<1>8. CASE ListAll(p)
  <2>1. UNCHANGED <<open, late>> /\ work'[p].pc = "remove"
    BY <1>1, <1>8 DEF ListAll, history, Job
  <2> QED
    BY <1>3, <2>1 DEF Rendering, Building
<1>9. CASE Remove(p) \/ Kill(p)
  <2>1. UNCHANGED <<open, late>> /\ work'[p].pc = "idle"
    BY <1>1, <1>9, EndsAt DEF Remove, Kill, history
  <2> QED
    BY <1>3, <2>1 DEF Rendering, Building
<1> QED
  BY <1>4, <1>5, <1>6, <1>7, <1>8, <1>9

\* Whoever renders writes under the two names of its receipt.
LEMMA RendererWrites ==
  ASSUME Typed, NEW p \in Actor, RendererStep(p)
  PROVE  /\ open \/ Rendering(p)
         /\ cache' = cache \/ Rendering(p)
         /\ DOMAIN cache' \subseteq DOMAIN cache \cup {Jpg(p), Txt(p)}
<1>1. Entries(cache)
  BY TypesAre DEF Typed
<1>2. CASE \E r \in Receipt : BeginRender(p, r)
  BY <1>2 DEF BeginRender
<1>3. CASE RendererStep(p) /\ ~\E r \in Receipt : BeginRender(p, r)
  <2>1. Rendering(p)
    BY <1>3 DEF RendererStep, LookJpg, NewJpg, SaveJpg, LookTxt, SaveTxt, Raises, At, Rendering
  <2>2. Jpg(p) \in Page /\ Txt(p) \in Page
    BY <2>1, PagesOf
  <2>3. CASE NewJpg(p)
    <3>1. cache' = Opened(Evicted, Jpg(p), p)
      BY <2>3 DEF NewJpg
    <3>2. Entries(Evicted) /\ DOMAIN Evicted \subseteq DOMAIN cache
      BY <1>1, EvictedIs
    <3>3. DOMAIN cache' = DOMAIN Evicted \cup {Jpg(p)}
      BY <2>2, <3>1, <3>2, OpenedIs
    <3> QED
      BY <2>1, <3>2, <3>3
  <2>4. CASE SaveJpg(p) \/ SaveTxt(p)
    <3>1. PICK f \in {Jpg(p), Txt(p)} : cache' = Written(f, p)
      BY <2>4 DEF SaveJpg, SaveTxt
    <3>2. DOMAIN cache' \subseteq DOMAIN cache \cup {f}
      BY <1>1, <2>2, <3>1, WrittenIs
    <3> QED
      BY <2>1, <3>1, <3>2
  <2>5. CASE LookTxt(p)
    <3>1. cache' = cache \/ cache' = Opened(cache, Txt(p), p)
      BY <2>5 DEF LookTxt
    <3>2. DOMAIN Opened(cache, Txt(p), p) = DOMAIN cache \cup {Txt(p)}
      BY <1>1, <2>2, OpenedIs
    <3> QED
      BY <2>1, <3>1, <3>2
  <2>6. CASE LookJpg(p) \/ Raises(p)
    BY <2>1, <2>6 DEF LookJpg, Raises
  <2> QED
    BY <1>3, <2>3, <2>4, <2>5, <2>6 DEF RendererStep
<1> QED
  BY <1>2, <1>3

LEMMA BuilderKeeps ==
  ASSUME Typed, NEW p \in Actor, BuilderStep(p)
  PROVE  /\ UNCHANGED <<makes, open, cache, locks, kills, cut, late>>
         /\ Building(p) \/ (open /\ UNCHANGED agent)
         /\ ~Locking(p) /\ ~Locking(p)' /\ ~Rendering(p) /\ ~Rendering(p)'
<1>1. work \in [Actor -> Job]
  BY TypesAre DEF Typed
<1>2. UNCHANGED <<makes, open, cache, locks, kills, cut, late>>
  BY DEF BuilderStep, Begin, Stage, WriteBank, WriteLedger, WriteManifest, ClearOld, MoveOld,
       Publish, DropOld, history
<1>3. /\ Building(p) \/ (open /\ UNCHANGED agent)
      /\ ~Locking(p) /\ ~Rendering(p)
  BY DEF BuilderStep, Begin, Stage, WriteBank, WriteLedger, WriteManifest, ClearOld, MoveOld,
       Publish, DropOld, At, Building, Locking, Rendering
<1>4. (\E x \in {"stage", "bank", "ledger", "manifest", "clear", "move", "publish", "drop"} : Goes(p, x)) \/ Ends(p)
  BY DEF BuilderStep, Begin, Stage, WriteBank, WriteLedger, WriteManifest, ClearOld, MoveOld,
       Publish, DropOld
<1>5. ~Locking(p)' /\ ~Rendering(p)'
  BY <1>1, <1>4, GoesTo, EndsAt DEF Locking, Rendering, Pc
<1> QED
  BY <1>2, <1>3, <1>5

LEMMA LateStays ==
  ASSUME Typed, Late, NEW p \in Actor,
         BuilderStep(p) \/ RendererStep(p) \/ CloseGate(p) \/ ListAll(p) \/ Remove(p) \/ Kill(p)
  PROVE  Late'
<1>1. WritersAreLate /\ RestIsLate /\ LeftIsLate /\ Closed /\ work \in [Actor -> Job] /\ Entries(cache)
  BY TypesAre DEF Late, Typed
<1>2. WritersAreLate'
  BY <1>1, LateWriters
<1>3. \A q \in Actor \ {p} : work'[q] = work[q]
  BY OthersRest
<1>4. ASSUME UNCHANGED <<open, late>>, ~Locking(p), ~Locking(p)',
             open \/ DOMAIN cache' \subseteq DOMAIN cache \cup late,
             open \/ Agent \in late \/ UNCHANGED agent
      PROVE  Late'
  <2>1. ASSUME NEW q \in Actor, At(q, "remove")'
        PROVE  q # p /\ At(q, "remove") /\ work'[q] = work[q] /\ ~open
    BY <1>1, <1>3, <1>4, <2>1 DEF At, Locking, Closed
  <2>2. UNCHANGED agent => Plaintext' = Plaintext
    BY DEF agent, Plaintext
  <2>3. RestIsLate'
    BY <1>1, <1>4, <2>1, <2>2 DEF RestIsLate
  <2>4. (\A q \in Actor : ~Locking(q)') => \A q \in Actor : ~Locking(q)
    BY <1>3, <1>4 DEF Locking
  <2>5. LeftIsLate'
    BY <1>1, <1>4, <2>4 DEF LeftIsLate, agent
  <2> QED
    BY <1>2, <2>3, <2>5 DEF Late
<1>5. CASE BuilderStep(p)
  BY <1>1, <1>4, <1>5, BuilderKeeps DEF WritersAreLate
<1>6. CASE RendererStep(p)
  BY <1>1, <1>4, <1>6, RendererKeeps, RendererWrites DEF WritersAreLate, history
<1>7. CASE CloseGate(p)
  <2>1. work'[p].pc = "scan" /\ open
    BY <1>1, <1>7, GoesTo DEF CloseGate, Pc
  <2>2. RestIsLate'
    BY <1>1, <1>3, <2>1 DEF RestIsLate, At, Closed, Locking
  <2>3. LeftIsLate'
    BY <2>1 DEF LeftIsLate, Locking
  <2> QED
    BY <1>2, <2>2, <2>3 DEF Late
<1>8. CASE ListAll(p)
  <2>1. /\ UNCHANGED <<open, agent, cache, late>>
        /\ work'[p].pc = "remove" /\ work'[p].listed = Listing
    BY <1>1, <1>8 DEF ListAll, history, Job
  <2>2. RestIsLate'
    <3>1. Plaintext \subseteq Listing /\ \A f \in DOMAIN cache : <<"render", f>> \in Listing
      BY DEF Plaintext, Listing
    <3>2. Plaintext' = Plaintext
      BY <2>1 DEF agent, Plaintext
    <3>3. \A q \in Actor \ {p} : At(q, "remove")' => At(q, "remove")
      BY <1>3 DEF At
    <3> QED
      BY <1>1, <1>3, <2>1, <3>1, <3>2, <3>3 DEF RestIsLate
  <2>3. LeftIsLate'
    BY <2>1 DEF LeftIsLate, Locking
  <2> QED
    BY <1>2, <2>2, <2>3 DEF Late
<1>9. CASE Remove(p)
  <2> DEFINE listed == work[p].listed
  <2>1. /\ UNCHANGED <<open, late>> /\ At(p, "remove") /\ Ends(p)
        /\ staging' = Left("staging", staging, listed)
        /\ dest' = Left("dest", dest, listed)
        /\ old' = Left("old", old, listed)
    BY <1>9 DEF Remove, history
  <2>2. DOMAIN cache' = {f \in DOMAIN cache : <<"render", f>> \notin listed}
    BY <1>1, <1>9, OnlyEntries DEF Remove
  <2>3. work'[p].pc = "idle"
    BY <1>1, <2>1, EndsAt
  <2>4. RestIsLate'
    <3>1. Plaintext' \subseteq Plaintext
      BY <2>1, FilesLeft DEF Plaintext
    <3>2. ASSUME NEW q \in Actor, At(q, "remove")'
          PROVE  q # p /\ At(q, "remove") /\ work'[q] = work[q]
      BY <1>3, <2>3, <3>2 DEF At
    <3> QED
      BY <1>1, <2>1, <2>2, <3>1, <3>2 DEF RestIsLate
  <2>5. LeftIsLate'
    <3>1. DOMAIN cache' \subseteq late
      BY <1>1, <2>1, <2>2 DEF RestIsLate
    <3>2. Agent \in late \/ (staging' = Nothing /\ dest' = Nothing /\ old' = Nothing)
      BY <1>1, <2>1, FilesLeft DEF RestIsLate, Plaintext
    <3> QED
      BY <2>1, <3>1, <3>2 DEF LeftIsLate
  <2> QED
    BY <1>2, <2>4, <2>5 DEF Late
<1>10. CASE Kill(p)
  <2>1. UNCHANGED <<open, agent, cache, late>> /\ Ends(p) /\ ~Locking(p)
    BY <1>10 DEF Kill, Building, Rendering, Locking
  <2>2. ~Locking(p)'
    BY <1>1, <2>1, EndsAt DEF Locking
  <2> QED
    BY <1>4, <2>1, <2>2
<1> QED
  BY <1>5, <1>6, <1>7, <1>8, <1>9, <1>10

-----------------------------------------------------------------------------
(* The pages.                                                              *)

LEMMA OwnedKept ==
  ASSUME Owned, NEW p \in Actor, cut \subseteq cut',
         \A q \in Actor \ {p} : work'[q] = work[q],
         Entries(cache'),
         \A f \in DOMAIN cache' :
           /\ \A q \in cache'[f].by : IF q = p THEN f \in cut' \/ Writes(p, f)'
                                               ELSE f \in DOMAIN cache /\ q \in cache[f].by
           /\ \/ cache'[f].has = "all" \/ cache'[f].by # {}
              \/ f \in DOMAIN cache /\ cache'[f].has = cache[f].has /\ cache'[f].by = cache[f].by
  PROVE  Owned'
<1> SUFFICES ASSUME NEW f \in DOMAIN cache'
             PROVE  /\ \A q \in cache'[f].by : f \in cut' \/ Writes(q, f)'
                    /\ cache'[f].has = "all" \/ f \in cut' \/ cache'[f].by # {}
  BY DEF Owned
<1>1. cache'[f].by \subseteq Actor
  BY DEF Entries
<1>2. ASSUME NEW q \in cache'[f].by PROVE f \in cut' \/ Writes(q, f)'
  <2>1. CASE q = p
    BY <2>1
  <2>2. CASE q # p
    <3>1. f \in cut \/ Writes(q, f)
      BY <2>2 DEF Owned
    <3>2. Writes(q, f)' <=> Writes(q, f)
      BY <1>1, <2>2 DEF Writes, At, Jpg, Txt
    <3> QED
      BY <3>1, <3>2
  <2> QED
    BY <2>1, <2>2
<1>3. cache'[f].has = "all" \/ f \in cut' \/ cache'[f].by # {}
  BY DEF Owned
<1> QED
  BY <1>2, <1>3

\* A page that p opens.
LEMMA OwnedOpened ==
  ASSUME Owned, Entries(cache), NEW p \in Actor, ~At(p, "savejpg"), ~At(p, "savetxt"), UNCHANGED cut,
         \A q \in Actor \ {p} : work'[q] = work[q],
         NEW c, Entries(c), DOMAIN c \subseteq DOMAIN cache,
         \A g \in DOMAIN c : c[g].has = cache[g].has /\ c[g].by = cache[g].by,
         NEW f \in Page, Writes(p, f)', cache' = Opened(c, f, p)
  PROVE  Owned'
<1>1. /\ Opened(c, f, p) = Newest(c, f, "part", {p} \cup Holders(c, f))
      /\ DOMAIN cache' = DOMAIN c \cup {f} /\ Entries(cache')
  BY OpenedIs
<1>2. \A g \in DOMAIN cache : p \in cache[g].by => g \in cut
  BY DEF Owned, Writes
<1>3. cache'[f] = [has |-> "part", by |-> {p} \cup Holders(c, f), newer |-> {}]
  BY <1>1 DEF Newest
<1>4. ASSUME NEW q \in cache'[f].by
      PROVE  IF q = p THEN f \in cut' \/ Writes(p, f)' ELSE f \in DOMAIN cache /\ q \in cache[f].by
  <2>1. q = p \/ q \in Holders(c, f)
    BY <1>3
  <2> QED
    BY <2>1 DEF Holders
<1>5. cache'[f].by # {}
  BY <1>3
<1>6. ASSUME NEW g \in DOMAIN c, g # f
      PROVE  cache'[g].has = cache[g].has /\ cache'[g].by = cache[g].by
  <2>1. Newest(c, f, "part", {p} \cup Holders(c, f))[g].has = c[g].has
    BY <1>6, NewestOther
  <2>2. Newest(c, f, "part", {p} \cup Holders(c, f))[g].by = c[g].by
    BY <1>6, NewestOther
  <2> QED
    BY <1>1, <2>1, <2>2
<1>7. \A g \in DOMAIN cache' :
        /\ \A q \in cache'[g].by : IF q = p THEN g \in cut' \/ Writes(p, g)'
                                            ELSE g \in DOMAIN cache /\ q \in cache[g].by
        /\ \/ cache'[g].has = "all" \/ cache'[g].by # {}
           \/ g \in DOMAIN cache /\ cache'[g].has = cache[g].has /\ cache'[g].by = cache[g].by
  BY <1>1, <1>2, <1>4, <1>5, <1>6
<1> QED
  BY <1>1, <1>7, OwnedKept

\* A page that p has written.
LEMMA OwnedWritten ==
  ASSUME Owned, Entries(cache), NEW p \in Actor, UNCHANGED cut,
         \A q \in Actor \ {p} : work'[q] = work[q],
         NEW f \in Page, \A g : Writes(p, g) => g = f, cache' = Written(f, p)
  PROVE  Owned'
<1>1. Entries(cache')
  BY WrittenIs
<1>2. \A g \in DOMAIN cache : p \in cache[g].by => g \in cut \/ g = f
  BY DEF Owned
<1>3. CASE ~(f \in DOMAIN cache /\ p \in cache[f].by)
  <2>1. cache' = cache
    BY <1>3, WrittenIs
  <2>2. \A g \in DOMAIN cache' :
          /\ \A q \in cache'[g].by : IF q = p THEN g \in cut' \/ Writes(p, g)'
                                              ELSE g \in DOMAIN cache /\ q \in cache[g].by
          /\ g \in DOMAIN cache /\ cache'[g].has = cache[g].has /\ cache'[g].by = cache[g].by
    BY <1>2, <1>3, <2>1
  <2> QED
    BY <1>1, <2>2, OwnedKept
<1>4. CASE f \in DOMAIN cache /\ p \in cache[f].by
  <2>1. cache' = Newest(cache, f, "all", cache[f].by \ {p})
    BY <1>4, WrittenIs
  <2>2. DOMAIN cache' = DOMAIN cache
    BY WrittenIs
  <2>3. cache'[f] = [has |-> "all", by |-> cache[f].by \ {p}, newer |-> {}]
    BY <1>4, <2>1 DEF Newest
  <2>4. ASSUME NEW g \in DOMAIN cache, g # f
        PROVE  cache'[g].has = cache[g].has /\ cache'[g].by = cache[g].by
    <3>1. Newest(cache, f, "all", cache[f].by \ {p})[g].has = cache[g].has
      BY <2>4, NewestOther
    <3>2. Newest(cache, f, "all", cache[f].by \ {p})[g].by = cache[g].by
      BY <2>4, NewestOther
    <3> QED
      BY <2>1, <3>1, <3>2
  <2>5. \A g \in DOMAIN cache' :
          /\ \A q \in cache'[g].by : IF q = p THEN g \in cut' \/ Writes(p, g)'
                                              ELSE g \in DOMAIN cache /\ q \in cache[g].by
          /\ \/ cache'[g].has = "all"
             \/ g \in DOMAIN cache /\ cache'[g].has = cache[g].has /\ cache'[g].by = cache[g].by
    BY <1>2, <1>4, <2>2, <2>3, <2>4
  <2> QED
    BY <1>1, <2>5, OwnedKept
<1> QED
  BY <1>3, <1>4

\* A step that is not one of writing.
LEMMA OwnedSame ==
  ASSUME Owned, Entries(cache), NEW p \in Actor, cut \subseteq cut',
         \A q \in Actor \ {p} : work'[q] = work[q],
         \A g : Writes(p, g) => g \in cut',
         Entries(cache'), DOMAIN cache' \subseteq DOMAIN cache,
         \A g \in DOMAIN cache' : cache'[g].has = cache[g].has /\ cache'[g].by = cache[g].by
  PROVE  Owned'
<1>1. \A g \in DOMAIN cache : p \in cache[g].by => g \in cut'
  BY DEF Owned
<1>2. \A g \in DOMAIN cache' :
        /\ \A q \in cache'[g].by : IF q = p THEN g \in cut' \/ Writes(p, g)'
                                            ELSE g \in DOMAIN cache /\ q \in cache[g].by
        /\ g \in DOMAIN cache /\ cache'[g].has = cache[g].has /\ cache'[g].by = cache[g].by
  BY <1>1
<1> QED
  BY <1>2, OwnedKept

LEMMA OwnedStays ==
  ASSUME Typed, Owned, NEW p \in Actor,
         BuilderStep(p) \/ RendererStep(p) \/ CloseGate(p) \/ ListAll(p) \/ Remove(p) \/ Kill(p)
  PROVE  Owned'
<1>1. work \in [Actor -> Job] /\ Entries(cache)
  BY TypesAre DEF Typed
<1>2. \A q \in Actor \ {p} : work'[q] = work[q]
  BY OthersRest
<1>3. ASSUME UNCHANGED <<cache, cut>>, ~At(p, "savejpg"), ~At(p, "savetxt")
      PROVE  Owned'
  BY <1>1, <1>2, <1>3, OwnedSame DEF Writes
<1>4. CASE BuilderStep(p)
  BY <1>3, <1>4, BuilderKeeps DEF Rendering, At
<1>5. CASE (\E r \in Receipt : BeginRender(p, r)) \/ LookJpg(p) \/ Raises(p)
  BY <1>3, <1>5 DEF BeginRender, LookJpg, Raises, At, history
<1>6. CASE NewJpg(p)
  <2>1. /\ cache' = Opened(Evicted, Jpg(p), p) /\ At(p, "newjpg") /\ UNCHANGED cut
        /\ Goes(p, "savejpg")
    BY <1>6 DEF NewJpg, history
  <2>2. Jpg(p) \in Page
    BY <2>1, PagesOf DEF At, Rendering
  <2>3. PICK c : c = Evicted
    OBVIOUS
  <2>4. PICK f \in Page : f = Jpg(p)
    BY <2>2
  <2>5. Writes(p, f)'
    BY <1>1, <2>1, <2>4, GoesTo DEF Writes, At, Jpg, Pc
  <2>6. ~At(p, "savejpg") /\ ~At(p, "savetxt")
    BY <2>1 DEF At
  <2>7. /\ Entries(c) /\ DOMAIN c \subseteq DOMAIN cache /\ cache' = Opened(c, f, p)
        /\ \A g \in DOMAIN c : c[g].has = cache[g].has /\ c[g].by = cache[g].by
    BY <1>1, <2>1, <2>3, <2>4, EvictedIs
  <2> QED
    BY <1>1, <1>2, <2>1, <2>5, <2>6, <2>7, OwnedOpened
<1>7. CASE LookTxt(p)
  <2>1. CASE UNCHANGED cache
    BY <1>3, <1>7, <2>1 DEF LookTxt, At, history
  <2>2. CASE ~UNCHANGED cache
    <3>1. /\ cache' = Opened(cache, Txt(p), p) /\ At(p, "txt") /\ UNCHANGED cut
          /\ Goes(p, "savetxt")
      BY <1>7, <2>2 DEF LookTxt, history
    <3>2. Txt(p) \in Page
      BY <3>1, PagesOf DEF At, Rendering
    <3>3. PICK c : c = cache
      OBVIOUS
    <3>4. PICK f \in Page : f = Txt(p)
      BY <3>2
    <3>5. Writes(p, f)'
      BY <1>1, <3>1, <3>4, GoesTo DEF Writes, At, Txt, Pc
    <3>6. ~At(p, "savejpg") /\ ~At(p, "savetxt")
      BY <3>1 DEF At
    <3>7. /\ Entries(c) /\ DOMAIN c \subseteq DOMAIN cache /\ cache' = Opened(c, f, p)
          /\ \A g \in DOMAIN c : c[g].has = cache[g].has /\ c[g].by = cache[g].by
      BY <1>1, <3>1, <3>3, <3>4
    <3> QED
      BY <1>1, <1>2, <3>1, <3>5, <3>6, <3>7, OwnedOpened
  <2> QED
    BY <2>1, <2>2
<1>8. CASE SaveJpg(p)
  <2>1. cache' = Written(Jpg(p), p) /\ At(p, "savejpg") /\ UNCHANGED cut
    BY <1>8 DEF SaveJpg, history
  <2>2. Jpg(p) \in Page
    BY <2>1, PagesOf DEF At, Rendering
  <2>3. \A g : Writes(p, g) => g = Jpg(p)
    BY <2>1 DEF Writes, At
  <2> QED
    BY <1>1, <1>2, <2>1, <2>2, <2>3, OwnedWritten
<1>9. CASE SaveTxt(p)
  <2>1. cache' = Written(Txt(p), p) /\ At(p, "savetxt") /\ UNCHANGED cut
    BY <1>9 DEF SaveTxt, history
  <2>2. Txt(p) \in Page
    BY <2>1, PagesOf DEF At, Rendering
  <2>3. \A g : Writes(p, g) => g = Txt(p)
    BY <2>1 DEF Writes, At
  <2> QED
    BY <1>1, <1>2, <2>1, <2>2, <2>3, OwnedWritten
<1>10. CASE CloseGate(p) \/ ListAll(p)
  BY <1>3, <1>10 DEF CloseGate, ListAll, history, At
<1>11. CASE Remove(p)
  <2> DEFINE F == {f \in DOMAIN cache : <<"render", f>> \notin work[p].listed}
  <2>1. cache' = Only(cache, F) /\ UNCHANGED cut /\ At(p, "remove") /\ F \subseteq DOMAIN cache
    BY <1>11 DEF Remove, history
  <2>2. \A g : ~Writes(p, g)
    BY <2>1 DEF Writes, At
  <2> HIDE DEF F
  <2>3. Entries(Only(cache, F)) /\ DOMAIN Only(cache, F) = F
    BY <1>1, <2>1, OnlyEntries
  <2>4. \A g \in F : Only(cache, F)[g].has = cache[g].has /\ Only(cache, F)[g].by = cache[g].by
    BY <1>1, <2>1, OnlyOne
  <2> QED
    BY <1>1, <1>2, <2>1, <2>2, <2>3, <2>4, OwnedSame
<1>12. CASE Kill(p)
  <2>1. cache' = cache /\ cut \subseteq cut'
    BY <1>12 DEF Kill
  <2>2. ASSUME NEW g, Writes(p, g) PROVE g \in cut'
    BY <1>12, <2>2 DEF Kill, Writes, At
  <2> QED
    BY <1>1, <1>2, <2>1, <2>2, OwnedSame
<1> QED
  BY <1>4, <1>5, <1>6, <1>7, <1>8, <1>9, <1>10, <1>11, <1>12 DEF RendererStep

-----------------------------------------------------------------------------
(* The order of age, and the budget.                                       *)

LEMMA OnlyAged ==
  ASSUME NEW c, Entries(c), Aged(c), NEW F, F \subseteq DOMAIN c
  PROVE  Aged(Only(c, F))
<1>1. IsFiniteSet(F)
  BY FS_Subset DEF Aged
<1>2. DOMAIN Only(c, F) = F /\ \A f \in F : Only(c, F)[f].newer = c[f].newer \cap F
  BY OnlyOne, OnlyEntries
<1> QED
  BY <1>1, <1>2 DEF Aged

LEMMA NewestAged ==
  ASSUME NEW c, Entries(c), Aged(c), NEW f, NEW h, NEW b
  PROVE  Aged(Newest(c, f, h, b))
<1> DEFINE n == Newest(c, f, h, b)
<1>1. DOMAIN n = DOMAIN c \cup {f} /\ n[f].newer = {}
  BY DEF Newest
<1>2. \A g \in DOMAIN c : g # f => n[g].newer = c[g].newer \cup {f}
  BY NewestOther
<1>3. \A g \in DOMAIN c : c[g].newer \subseteq DOMAIN c
  BY DEF Entries
<1> HIDE DEF n
<1>4. IsFiniteSet(DOMAIN n)
  BY <1>1, FS_AddElement DEF Aged
<1>5. ASSUME NEW g \in DOMAIN n, NEW k \in n[g].newer
      PROVE  n[k].newer \subseteq n[g].newer
  <2>1. g # f /\ g \in DOMAIN c
    BY <1>1, <1>5
  <2>2. n[g].newer = c[g].newer \cup {f}
    BY <1>2, <2>1
  <2>3. CASE k = f
    BY <1>1, <2>3
  <2>4. CASE k # f
    <3>1. k \in c[g].newer /\ k \in DOMAIN c
      BY <1>3, <1>5, <2>1, <2>2, <2>4
    <3>2. n[k].newer = c[k].newer \cup {f} /\ c[k].newer \subseteq c[g].newer
      BY <1>2, <2>1, <2>4, <3>1 DEF Aged
    <3> QED
      BY <2>2, <3>2
  <2> QED
    BY <2>3, <2>4
<1> QED
  BY <1>4, <1>5 DEF Aged, n

LEMMA AgedStays ==
  ASSUME Typed, Aged(cache), NEW p \in Actor,
         BuilderStep(p) \/ RendererStep(p) \/ CloseGate(p) \/ ListAll(p) \/ Remove(p) \/ Kill(p)
  PROVE  Aged(cache')
<1>1. Entries(cache)
  BY TypesAre DEF Typed
<1>2. CASE UNCHANGED cache
  BY <1>2
<1>3. CASE NewJpg(p)
  <2>1. Entries(Evicted) /\ Aged(Evicted) /\ Jpg(p) \in Page
    BY <1>1, <1>3, OnlyEntries, OnlyAged, PagesOf DEF Evicted, NewJpg, Rendering, At
  <2> QED
    BY <1>3, <2>1, NewestAged DEF NewJpg, Opened
<1>4. CASE LookTxt(p)
  BY <1>1, <1>2, <1>4, NewestAged DEF LookTxt, Opened
<1>5. CASE SaveJpg(p) \/ SaveTxt(p)
  BY <1>1, <1>2, <1>5, NewestAged DEF SaveJpg, SaveTxt, Written
<1>6. CASE Remove(p)
  BY <1>1, <1>6, OnlyAged DEF Remove
<1>7. CASE BuilderStep(p) \/ CloseGate(p) \/ ListAll(p) \/ Kill(p)
  BY <1>2, <1>7, BuilderKeeps DEF CloseGate, ListAll, Kill
<1> QED
  BY <1>2, <1>3, <1>4, <1>5, <1>6, <1>7 DEF RendererStep, BeginRender, LookJpg, Raises

\* Of some files one is the oldest.
LEMMA Oldest ==
  ASSUME NEW c, Entries(c), Aged(c), NEW K \in SUBSET DOMAIN c, K # {}
  PROVE  \E m \in K : K \subseteq {m} \cup c[m].newer
<1> DEFINE N == Cardinality(DOMAIN c)
           T == {N - Cardinality(c[f].newer) : f \in K}
<1>1. ASSUME NEW f \in DOMAIN c
      PROVE  /\ IsFiniteSet(c[f].newer) /\ c[f].newer \subseteq DOMAIN c \ {f}
             /\ Cardinality(c[f].newer) \in Nat /\ Cardinality(c[f].newer) <= N
  <2>1. c[f].newer \subseteq DOMAIN c \ {f}
    BY DEF Entries
  <2> QED
    BY <2>1, FS_Subset, FS_CardinalityType DEF Aged
<1>2. N \in Nat
  BY FS_CardinalityType DEF Aged
<1>3. T \subseteq Nat /\ T # {}
  BY <1>1, <1>2
<1>4. PICK t \in T : \A y \in T : ~ (<<y, t>> \in OpToRel(<, Nat))
  <2> HIDE DEF T
  <2> QED
    BY <1>3, NatLessThanWellFounded, WFMin
<1>5. PICK m \in K : t = N - Cardinality(c[m].newer)
  OBVIOUS
<1>6. \A f \in K : Cardinality(c[f].newer) <= Cardinality(c[m].newer)
  <2> SUFFICES ASSUME NEW f \in K PROVE Cardinality(c[f].newer) <= Cardinality(c[m].newer)
    OBVIOUS
  <2>1. ~(N - Cardinality(c[f].newer) < t)
    BY <1>3, <1>4 DEF OpToRel
  <2> HIDE DEF N
  <2> QED
    BY <1>1, <1>2, <1>5, <2>1
<1>7. ASSUME NEW f \in K, f # m PROVE f \in c[m].newer
  <2> SUFFICES ASSUME f \notin c[m].newer PROVE FALSE
    OBVIOUS
  <2>1. m \in c[f].newer
    BY <1>7 DEF Entries
  <2>2. c[m].newer \cup {m} \subseteq c[f].newer
    BY <2>1 DEF Aged
  <2>3. Cardinality(c[m].newer \cup {m}) = Cardinality(c[m].newer) + 1
    BY <1>1, FS_AddElement
  <2>4. Cardinality(c[m].newer \cup {m}) <= Cardinality(c[f].newer)
    BY <1>1, <2>2, FS_Subset
  <2> QED
    BY <1>1, <1>6, <2>3, <2>4
<1> QED
  BY <1>7

\* What an eviction leaves is within the budget.
LEMMA EvictedFits ==
  ASSUME Entries(cache), Aged(cache)
  PROVE  Size(DOMAIN Evicted) <= Budget
<1> DEFINE K == {f \in DOMAIN cache : Size({f} \cup cache[f].newer) <= Budget}
<1>1. DOMAIN Evicted = K
  BY DEF Evicted, Only
<1>2. CASE K = {}
  <2>1. Size(K) = 0
    BY <1>2, FS_EmptySet DEF Size
  <2> QED
    BY <1>1, <2>1, RuntimeAssumption
<1>3. CASE K # {}
  <2>1. PICK m \in K : K \subseteq {m} \cup cache[m].newer
    <3> HIDE DEF K
    <3> QED
      BY <1>3, Oldest DEF K
  <2> DEFINE M == {f \in {m} \cup cache[m].newer : IsWhole(f) /\ f[1] = "jpg"}
             W == {f \in K : IsWhole(f) /\ f[1] = "jpg"}
  <2>2. Cardinality(M) <= Budget
    BY DEF Size
  <2>3. M \subseteq DOMAIN cache /\ W \subseteq M
    BY <2>1 DEF IsWhole, Cached
  <2>4. IsFiniteSet(M)
    BY <2>3, FS_Subset DEF Aged
  <2>5. Cardinality(W) <= Cardinality(M) /\ Cardinality(W) \in Nat /\ Cardinality(M) \in Nat
    BY <2>3, <2>4, FS_Subset, FS_CardinalityType
  <2>6. Size(K) = Cardinality(W)
    BY DEF Size
  <2> HIDE DEF K, W, M
  <2> QED
    BY <1>1, <2>2, <2>5, <2>6, RuntimeAssumption
<1> QED
  BY <1>2, <1>3

\* The images that are whole.
Whole == {f \in DOMAIN cache : cache[f].has = "all" /\ f[1] = "jpg"}

LEMMA WholeIs ==
  /\ Room <=> Cardinality(Whole) <= Budget + Cardinality(Renderers \ Saving)
  /\ Room' <=> Cardinality(Whole') <= Budget + Cardinality(Renderers' \ Saving')
<1>1. Whole = {f \in DOMAIN cache : IsWhole(f) /\ f[1] = "jpg"}
  BY DEF Whole, IsWhole, Cached
<1>2. Whole' = {f \in DOMAIN cache' : IsWhole(f)' /\ f[1] = "jpg"}
  BY DEF Whole, IsWhole, Cached
<1> QED
  BY <1>1, <1>2 DEF Room, Size

LEMMA FiniteRenderers ==
  /\ IsFiniteSet(Renderers \ Saving) /\ Cardinality(Renderers \ Saving) \in Nat
  /\ IsFiniteSet(Renderers' \ Saving') /\ Cardinality(Renderers' \ Saving') \in Nat
<1>1. Renderers \ Saving \subseteq Actor /\ Renderers' \ Saving' \subseteq Actor
  BY DEF Renderers
<1> QED
  BY <1>1, FS_Subset, FS_CardinalityType, RuntimeAssumption

LEMMA FiniteWhole ==
  ASSUME Aged(cache)
  PROVE  IsFiniteSet(Whole) /\ Cardinality(Whole) \in Nat
BY FS_Subset, FS_CardinalityType DEF Aged, Whole

\* Neither an image nor one who has still to write it is more.
LEMMA RoomKept ==
  ASSUME Room, Aged(cache), Whole' \subseteq Whole, Saving' \subseteq Saving, UNCHANGED makes
  PROVE  Room'
<1>1. Cardinality(Whole') <= Cardinality(Whole) /\ Cardinality(Whole') \in Nat
  BY FiniteWhole, FS_Subset, FS_CardinalityType
<1>2. Renderers \ Saving \subseteq Renderers' \ Saving'
  BY DEF Renderers
<1>3. Cardinality(Renderers \ Saving) <= Cardinality(Renderers' \ Saving')
  BY <1>2, FiniteRenderers, FS_Subset
<1> QED
  BY <1>1, <1>3, WholeIs, FiniteWhole, FiniteRenderers, RuntimeAssumption

\* A file that is written is whole or not, and the others are what they were.
LEMMA NewestWhole ==
  ASSUME NEW c, Entries(c), NEW f \in Page, NEW h, NEW b, cache' = Newest(c, f, h, b)
  PROVE  \A g \in Whole' : (g = f /\ h = "all" /\ f[1] = "jpg")
                           \/ (g \in DOMAIN c /\ c[g].has = "all" /\ g[1] = "jpg")
<1>1. DOMAIN cache' = DOMAIN c \cup {f} /\ cache'[f].has = h
  BY DEF Newest
<1>2. \A g \in DOMAIN c : g # f => cache'[g].has = c[g].has
  BY NewestOther
<1> QED
  BY <1>1, <1>2 DEF Whole

LEMMA RoomStays ==
  ASSUME Typed, Aged(cache), Room, NEW p \in Actor,
         BuilderStep(p) \/ RendererStep(p) \/ CloseGate(p) \/ ListAll(p) \/ Remove(p) \/ Kill(p)
  PROVE  Room'
<1>1. work \in [Actor -> Job] /\ Entries(cache) /\ Making
  BY TypesAre DEF Typed
<1>2. \A q \in Actor \ {p} : At(q, "savejpg")' <=> At(q, "savejpg")
  BY OthersRest DEF At
<1>3. ASSUME UNCHANGED makes, Whole' \subseteq Whole, ~At(p, "savejpg")'
      PROVE  Room'
  BY <1>2, <1>3, RoomKept DEF Saving
<1>4. ASSUME UNCHANGED cache PROVE Whole' = Whole
  BY <1>4 DEF Whole
<1>5. CASE BuilderStep(p)
  BY <1>3, <1>4, <1>5, BuilderKeeps DEF Rendering, At
<1>6. CASE \E r \in Receipt : BeginRender(p, r)
  BY <1>1, <1>3, <1>4, <1>6 DEF BeginRender, NoWork, Job, At
<1>7. CASE LookJpg(p) \/ Raises(p)
  <2>1. UNCHANGED <<makes, cache>> /\ (Goes(p, "newjpg") \/ Goes(p, "txt") \/ Ends(p))
    BY <1>7 DEF LookJpg, Raises
  <2> QED
    BY <1>1, <1>3, <1>4, <2>1, GoesTo, EndsAt DEF Pc, At
<1>8. CASE NewJpg(p)
  <2>0. Entries(Evicted) /\ DOMAIN Evicted \subseteq DOMAIN cache
    BY <1>1, EvictedIs
  <2>1. /\ cache' = Opened(Evicted, Jpg(p), p) /\ At(p, "newjpg")
        /\ Jpg(p) \in Page /\ Entries(Evicted) /\ DOMAIN Evicted \subseteq DOMAIN cache
    BY <1>8, <2>0, PagesOf DEF NewJpg, Rendering, At
  <2> DEFINE W == {g \in DOMAIN Evicted : IsWhole(g) /\ g[1] = "jpg"}
  <2>2. Whole' \subseteq W
    <3>1. \A g \in Whole' : g \in DOMAIN Evicted /\ Evicted[g].has = "all" /\ g[1] = "jpg"
      BY <2>1, NewestWhole DEF Opened
    <3>2. \A g \in DOMAIN Evicted : Evicted[g].has = cache[g].has
      BY <1>1, EvictedIs
    <3> QED
      BY <2>1, <3>1, <3>2 DEF IsWhole, Cached
  <2>3. Cardinality(W) <= Budget
    BY <1>1, EvictedFits DEF Size
  <2>4. IsFiniteSet(W) /\ Cardinality(W) \in Nat
    BY <2>1, FS_Subset, FS_CardinalityType DEF Aged
  <2>5. Cardinality(Whole') <= Cardinality(W) /\ Cardinality(Whole') \in Nat
    BY <2>2, <2>4, FS_Subset, FS_CardinalityType
  <2> HIDE DEF W
  <2> QED
    BY <2>3, <2>4, <2>5, WholeIs, FiniteRenderers, RuntimeAssumption
<1>9. CASE SaveJpg(p)
  <2>1. /\ cache' = Written(Jpg(p), p) /\ At(p, "savejpg") /\ Goes(p, "txt") /\ UNCHANGED makes
        /\ Jpg(p) \in Page
    BY <1>9, PagesOf DEF SaveJpg, Rendering, At
  <2>2. PICK f \in Page : f = Jpg(p)
    BY <2>1
  <2>3. Whole' \subseteq Whole \cup {f}
    <3>1. CASE UNCHANGED cache
      BY <1>4, <3>1
    <3>2. CASE ~UNCHANGED cache
      <4>1. cache' = Newest(cache, f, "all", cache[f].by \ {p})
        BY <2>1, <2>2, <3>2 DEF Written
      <4>2. \A g \in Whole' : g = f \/ (g \in DOMAIN cache /\ cache[g].has = "all" /\ g[1] = "jpg")
        BY <1>1, <4>1, NewestWhole
      <4> QED
        BY <4>2 DEF Whole
    <3> QED
      BY <3>1, <3>2
  <2>4. Cardinality(Whole') <= Cardinality(Whole) + 1 /\ Cardinality(Whole') \in Nat
    <3>1. IsFiniteSet(Whole \cup {f}) /\ Cardinality(Whole \cup {f}) <= Cardinality(Whole) + 1
      <4>1. IsFiniteSet(Whole) /\ Cardinality(Whole) \in Nat
        BY FiniteWhole
      <4>2. /\ IsFiniteSet(Whole \cup {f})
            /\ Cardinality(Whole \cup {f}) = IF f \in Whole THEN Cardinality(Whole) ELSE Cardinality(Whole) + 1
        BY <4>1, FS_AddElement
      <4> QED
        BY <4>1, <4>2
    <3>2. Cardinality(Whole \cup {f}) \in Nat
      BY <3>1, FS_CardinalityType
    <3>3. Cardinality(Whole') <= Cardinality(Whole \cup {f}) /\ Cardinality(Whole') \in Nat
      BY <2>3, <3>1, FS_Subset, FS_CardinalityType
    <3> QED
      BY <3>1, <3>2, <3>3, FiniteWhole
  <2>5. Cardinality(Renderers' \ Saving') = Cardinality(Renderers \ Saving) + 1
    <3>1. p \in Renderers /\ p \in Saving
      BY <1>1, <2>1 DEF Making, Rendering, Renderers, Saving, At
    <3>2. ~At(p, "savejpg")'
      BY <1>1, <2>1, GoesTo DEF At, Pc
    <3>3. Renderers' \ Saving' = (Renderers \ Saving) \cup {p}
      BY <1>2, <2>1, <3>1, <3>2 DEF Renderers, Saving
    <3> QED
      BY <3>1, <3>3, FiniteRenderers, FS_AddElement
  <2> QED
    BY <2>4, <2>5, WholeIs, FiniteWhole, FiniteRenderers, RuntimeAssumption
<1>10. CASE LookTxt(p)
  <2>1. ~At(p, "savejpg")' /\ UNCHANGED makes
    BY <1>1, <1>10, GoesTo, EndsAt DEF LookTxt, At, Pc
  <2>2. CASE UNCHANGED cache
    BY <1>3, <1>4, <2>1, <2>2
  <2>3. CASE ~UNCHANGED cache
    <3>1. cache' = Opened(cache, Txt(p), p) /\ Txt(p) \in Page
      BY <1>10, <2>3, PagesOf DEF LookTxt, Rendering, At
    <3>2. \A g \in Whole' : g \in DOMAIN cache /\ cache[g].has = "all" /\ g[1] = "jpg"
      BY <1>1, <3>1, NewestWhole DEF Opened
    <3>3. Whole' \subseteq Whole
      BY <3>2 DEF Whole
    <3> QED
      BY <1>3, <2>1, <3>3
  <2> QED
    BY <2>2, <2>3
<1>11. CASE SaveTxt(p)
  <2>1. /\ ~At(p, "savejpg")' /\ UNCHANGED makes
        /\ cache' = Written(Txt(p), p) /\ Txt(p) \in Page /\ Txt(p)[1] # "jpg"
    BY <1>1, <1>11, EndsAt, PagesOf DEF SaveTxt, At, Rendering, Txt
  <2>2. CASE UNCHANGED cache
    BY <1>3, <1>4, <2>1, <2>2
  <2>3. CASE ~UNCHANGED cache
    <3>1. cache' = Newest(cache, Txt(p), "all", cache[Txt(p)].by \ {p})
      BY <2>1, <2>3 DEF Written
    <3>2. \A g \in Whole' : g \in DOMAIN cache /\ cache[g].has = "all" /\ g[1] = "jpg"
      BY <1>1, <2>1, <3>1, NewestWhole
    <3>3. Whole' \subseteq Whole
      BY <3>2 DEF Whole
    <3> QED
      BY <1>3, <2>1, <3>3
  <2> QED
    BY <2>2, <2>3
<1>12. CASE CloseGate(p) \/ Kill(p)
  <2>1. UNCHANGED <<makes, cache>> /\ (Goes(p, "scan") \/ Ends(p))
    BY <1>12 DEF CloseGate, Kill
  <2> QED
    BY <1>1, <1>3, <1>4, <2>1, GoesTo, EndsAt DEF Pc, At
<1>13. CASE ListAll(p)
  BY <1>1, <1>3, <1>4, <1>13 DEF ListAll, Job, At
<1>14. CASE Remove(p)
  <2> DEFINE F == {f \in DOMAIN cache : <<"render", f>> \notin work[p].listed}
  <2>1. cache' = Only(cache, F) /\ F \subseteq DOMAIN cache /\ UNCHANGED makes /\ Ends(p)
    BY <1>14 DEF Remove
  <2> HIDE DEF F
  <2>2. \A f \in F : Only(cache, F)[f].has = cache[f].has
    BY <1>1, <2>1, OnlyOne
  <2>3. Whole' \subseteq Whole
    BY <1>1, <2>1, <2>2, OnlyEntries DEF Whole
  <2> QED
    BY <1>1, <1>3, <2>1, <2>3, EndsAt DEF At
<1> QED
  BY <1>5, <1>6, <1>7, <1>8, <1>9, <1>10, <1>11, <1>12, <1>13, <1>14 DEF RendererStep

-----------------------------------------------------------------------------
(* The theorems.                                                           *)

LEMMA InitRInv == RuntimeInit => RInv
<1> SUFFICES ASSUME RuntimeInit PROVE RInv
  OBVIOUS
<1>1. Typed
  BY InitTypes
<1>2. \A p \in Actor : work[p].pc = "idle"
  BY DEF RuntimeInit, NoWork
<1>3. DOMAIN cache = {} /\ dest = Nothing /\ staging = Nothing /\ old = Nothing /\ ~built
  BY DEF RuntimeInit
<1>4. Built /\ WorkspaceStays
  BY <1>2, <1>3 DEF Built, SoloBuilds, WholeIsListed, WorkspaceIsWhole, WorkspaceStays, Solo, Building, At
<1>5. Late
  BY <1>2, <1>3 DEF Late, WritersAreLate, RestIsLate, LeftIsLate, Rendering, Building, At
<1>6. Owned /\ Aged(cache)
  BY <1>3, FS_EmptySet DEF Owned, Aged
<1>7. Room
  <2>1. Whole = {}
    BY <1>3 DEF Whole
  <2> QED
    BY <2>1, WholeIs, FS_EmptySet, FiniteRenderers, RuntimeAssumption
<1> QED
  BY <1>1, <1>4, <1>5, <1>6, <1>7 DEF RInv

LEMMA ActorRInv ==
  ASSUME RInv, NEW p \in Actor,
         BuilderStep(p) \/ RendererStep(p) \/ CloseGate(p) \/ ListAll(p) \/ Remove(p) \/ Kill(p)
  PROVE  RInv'
<1>1. Typed'
  BY BuilderTyped, RendererTyped, LockTyped DEF RInv
<1>2. Built' /\ WorkspaceStays' /\ Late'
  BY BuiltStays, WorkspaceKept, LateStays DEF RInv
<1>3. Owned' /\ Aged(cache)' /\ Room'
  BY OwnedStays, AgedStays, RoomStays DEF RInv
<1> QED
  BY <1>1, <1>2, <1>3 DEF RInv

\* An unlock finds nobody removing, and makes no work.
LEMMA OpenRInv ==
  ASSUME RInv, OpenGate \/ UNCHANGED runtime
  PROVE  RInv'
<1>1. /\ UNCHANGED <<makes, staging, dest, old, cache, work, crossed, built, gap, mixed, cut, late>>
      /\ open' = TRUE \/ UNCHANGED open
  BY DEF OpenGate, agent, history, runtime
<1>2. Typed'
  BY OpenTyped, StutterTypes DEF RInv
<1>3. \A p \in Actor : \A x : At(p, x)' <=> At(p, x)
  BY <1>1 DEF At
<1>4. \A p \in Actor : /\ Solo(p)' <=> Solo(p)
                       /\ Building(p)' <=> Building(p)
                       /\ Locking(p)' <=> Locking(p)
                       /\ Rendering(p)' <=> Rendering(p)
                       /\ Jpg(p)' = Jpg(p) /\ Txt(p)' = Txt(p)
  BY <1>1 DEF Solo, Building, Locking, Rendering, Jpg, Txt
<1>5. Built' /\ WorkspaceStays'
  <2>1. SoloBuilds'
    BY <1>1, <1>3, <1>4 DEF RInv, Built, SoloBuilds
  <2>2. WholeIsListed' /\ WorkspaceIsWhole' /\ WorkspaceStays'
    BY <1>1, <1>3 DEF RInv, Built, WholeIsListed, WorkspaceIsWhole, WorkspaceStays
  <2> QED
    BY <2>1, <2>2 DEF Built
<1>6. Late'
  <2>1. WritersAreLate'
    BY <1>1, <1>4 DEF RInv, Late, WritersAreLate
  <2>2. RestIsLate'
    BY <1>1, <1>3 DEF RInv, Late, RestIsLate, Plaintext
  <2>3. LeftIsLate'
    BY <1>1, <1>4 DEF RInv, Late, LeftIsLate
  <2> QED
    BY <2>1, <2>2, <2>3 DEF Late
<1>7. Owned' /\ Aged(cache)' /\ Room'
  <2>1. Owned'
    <3>1. \A p \in Actor : \A f : Writes(p, f)' <=> Writes(p, f)
      BY <1>3, <1>4 DEF Writes
    <3>2. \A f \in DOMAIN cache : cache[f].by \subseteq Actor
      BY TypesAre DEF RInv, Typed, Entries
    <3> QED
      BY <1>1, <3>1, <3>2 DEF RInv, Owned
  <2>2. Aged(cache)'
    BY <1>1 DEF RInv, Aged
  <2>3. Whole' = Whole /\ Renderers' = Renderers /\ Saving' = Saving
    BY <1>1, <1>3 DEF Whole, Renderers, Saving
  <2> QED
    BY <2>1, <2>2, <2>3, WholeIs DEF RInv
<1> QED
  BY <1>2, <1>5, <1>6, <1>7 DEF RInv

LEMMA NextRInv == RInv /\ [RuntimeNext]_runtime => RInv'
BY ActorRInv, OpenRInv, NextIs

LEMMA AlwaysRInv == RuntimeSpec => []RInv
BY InitRInv, NextRInv, PTL DEF RuntimeSpec

\* Builders, renderers and locks in one directory keep every variable within its type: what they
\* leave in a directory under another's hands is still parts and files.
THEOREM RuntimeTypeCorrect == RuntimeSpec => []RuntimeTypeOK
<1>1. RInv => RuntimeTypeOK
  BY DEF RInv, Typed
<1> QED
  BY <1>1, AlwaysRInv, PTL

\* However many build, are killed and begin again, the workspace an agent finds is of one builder,
\* unless another build or a lock ran beside it (workspace.py, build).
THEOREM BuildsAreWhole == RuntimeSpec => []WorkspaceIsWhole
<1>1. RInv => WorkspaceIsWhole
  BY DEF RInv, Built
<1> QED
  BY <1>1, AlwaysRInv, PTL

\* A workspace stays until the next lock, save between the two renames (workspace.py, build).
THEOREM BuildsStay == RuntimeSpec => []WorkspaceStays
<1>1. RInv => WorkspaceStays
  BY DEF RInv
<1> QED
  BY <1>1, AlwaysRInv, PTL

\* Nothing is left by a lock but what those at it when it began have written (paths.py,
\* destroy_runtime_dir).
THEOREM LocksLeaveTheLate == RuntimeSpec => []LeftIsLate
<1>1. RInv => LeftIsLate
  BY DEF RInv, Late
<1> QED
  BY <1>1, AlwaysRInv, PTL

\* A file of render/ that is not whole is being written, or its writer was killed (render.py).
THEOREM RendersAreWhole == RuntimeSpec => []PagesAreWhole
<1>1. RInv => PagesAreWhole
  <2> SUFFICES ASSUME RInv, NEW f \in DOMAIN cache, cache[f].has # "all", f \notin cut
               PROVE  \E p \in cache[f].by : work[p].pc \in {"savejpg", "savetxt"}
    BY DEF PagesAreWhole
  <2>1. PICK p \in cache[f].by : Writes(p, f)
    BY DEF RInv, Owned
  <2> QED
    BY <2>1 DEF Writes, At
<1> QED
  BY <1>1, AlwaysRInv, PTL

\* However many render at once, each goes over the budget by the one image that it writes after
\* its eviction (render.py, evict).
THEOREM RendersFit == RuntimeSpec => []CacheIsBounded
<1>1. RInv => CacheIsBounded
  <2> SUFFICES ASSUME RInv PROVE CacheIsBounded
    OBVIOUS
  <2>1. IsFiniteSet(Renderers) /\ Renderers \ Saving \subseteq Renderers
    BY FS_Subset, RuntimeAssumption DEF Renderers
  <2>2. /\ Cardinality(Renderers \ Saving) <= Cardinality(Renderers)
        /\ Cardinality(Renderers) \in Nat /\ Cardinality(Renderers \ Saving) \in Nat
    BY <2>1, FS_Subset, FS_CardinalityType
  <2>3. Size(DOMAIN cache) \in Nat
    <3>1. IsFiniteSet({f \in DOMAIN cache : IsWhole(f) /\ f[1] = "jpg"})
      BY FS_Subset DEF RInv, Aged
    <3> QED
      BY <3>1, FS_CardinalityType DEF Size
  <2> QED
    BY <2>2, <2>3, RuntimeAssumption DEF RInv, Room, CacheIsBounded, Renderers
<1> QED
  BY <1>1, AlwaysRInv, PTL
=============================================================================
