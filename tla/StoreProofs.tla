----------------------------- MODULE StoreProofs -----------------------------
(***************************************************************************)
(* What the receipt path guarantees for any set of receipts, fields,       *)
(* values, handlers, stamps and databases, under every fault.              *)
(***************************************************************************)
EXTENDS MCStore, TLAPS

-----------------------------------------------------------------------------
(* Types. *)

\* The locals of a handler are a task's exactly while it runs.
Working ==
  \A p \in Actor : IF pc[p] = "idle" THEN task[p] = Idle ELSE task[p] \in Task

TInv == TypeOK /\ Working

\* A projected field holds a value or nothing.
LEMMA ShowsType ==
  ASSUME NEW R \in SUBSET Row, NEW f \in Field
  PROVE  Shows(R, f) \in MaybeValue
<1> DEFINE Ed == EditsOf(R, f)
           Re == Read(R)
<1>1. ASSUME NEW r \in Ed PROVE r.body.what.value \in MaybeValue
  BY DEF EditsOf, Row, RowBody, Body, Edit, Requeue
<1>2. ASSUME NEW r \in Re PROVE r.body.what.data[f] \in MaybeValue
  BY DEF Read, Attempts, Row, RowBody, Body, Answer, Requeue, Failed
<1>3. \A r : IsLatest(r, Ed) => r \in Ed
  BY DEF IsLatest
<1>4. \A r : IsLatest(r, Re) => r \in Re
  BY DEF IsLatest
<1>5. CASE \E r \in R : IsLatest(r, Ed)
  <2> DEFINE c == CHOOSE r \in R : IsLatest(r, Ed)
  <2>1. IsLatest(c, Ed)
    BY <1>5
  <2>2. c \in Ed
    BY <2>1, <1>3
  <2>3. c.body.what.value \in MaybeValue
    BY <2>2, <1>1
  <2> QED
    BY <2>3, <1>5 DEF Shows
<1>6. CASE ~ (\E r \in R : IsLatest(r, Ed)) /\ \E r \in R : IsLatest(r, Re)
  <2> DEFINE c == CHOOSE r \in R : IsLatest(r, Re)
  <2>1. IsLatest(c, Re)
    BY <1>6
  <2>2. c \in Re
    BY <2>1, <1>4
  <2>3. c.body.what.data[f] \in MaybeValue
    BY <2>2, <1>2
  <2> QED
    BY <2>3, <1>6 DEF Shows
<1>7. CASE ~ (\E r \in R : IsLatest(r, Ed)) /\ ~ \E r \in R : IsLatest(r, Re)
  BY <1>7 DEF Shows, MaybeValue
<1> QED
  BY <1>5, <1>6, <1>7

LEMMA ProjectType == ASSUME NEW R \in SUBSET Row PROVE Project(R) \in View
<1>1. Status(R) \in {"pending", "failed", "shown"}
  BY DEF Status
<1>2. [f \in Field |-> Shows(R, f)] \in [Field -> MaybeValue]
  BY ShowsType
<1> QED
  BY <1>1, <1>2 DEF Project, View

LEMMA EventTypes ==
  ASSUME NEW b \in Blob
  PROVE  /\ Receipt(b) \in Body
         /\ \A a \in Answer : Extraction(b, a) \in Body
         /\ \A e \in Edit : Correction(b, e) \in Body
         /\ Failed \in Answer
BY DEF Receipt, Extraction, Correction, Body, Failed, Answer

LEMMA ListedType ==
  ASSUME log \in Log, NEW late PROVE Listed(late) \in Log
BY DEF Listed, Log

LEMMA NowType == Now \subseteq Stamp
BY DEF Now

LEMMA ReplayedType ==
  ASSUME NEW R \in SUBSET Row, NEW snap \in Log
  PROVE  Replayed(R, snap) \in SUBSET Row
BY StoreAssumption DEF Replayed, Row, RowBody, Log

LEMMA InitTInv == Init => TInv
<1> SUFFICES ASSUME Init PROVE TInv
  OBVIOUS
<1> USE StoreAssumption
<1>1. NoLog \in Log
  BY DEF NoLog, Log
<1>2. 0 \in 0..MaxGen
  OBVIOUS
<1>3. replaying \in [on: BOOLEAN, snap: Log, gen: 0..MaxGen]
  BY <1>1, <1>2 DEF Init
<1>4. wanted \in [Blob -> [Field -> {<<v>> : v \in MaybeValue} \cup {<<>>}]]
  BY DEF Init
<1>5. /\ pc \in [Actor -> {"idle", "await", "append", "apply", "read", "write"}]
      /\ task \in [Actor -> Task \cup {Idle}]
      /\ Working
  BY DEF Init, Working
<1> QED
  BY <1>1, <1>2, <1>3, <1>4, <1>5 DEF Init, TInv, TypeOK

LEMMA StartType ==
  ASSUME TInv, NEW p \in Actor, NEW b \in Blob, NEW todo \in SUBSET Body,
         NEW kind \in {"receipt", "extraction", "correction"},
         NEW known \in BOOLEAN, NEW next \in {"await", "append"},
         Start(p, kind, b, todo, known, next)
  PROVE  /\ pc' \in [Actor -> {"idle", "await", "append", "apply", "read", "write"}]
         /\ task' \in [Actor -> Task \cup {Idle}]
         /\ Working'
<1> DEFINE t == [kind |-> kind, blob |-> b, todo |-> todo, put |-> {}, gen |-> gen,
                 known |-> known, seen |-> {}]
<1>1. t \in Task
  BY DEF TInv, TypeOK, Task
<1>2. task' = [task EXCEPT ![p] = t] /\ pc' = [pc EXCEPT ![p] = next]
  BY DEF Start
<1> HIDE DEF t
<1> QED
  BY <1>1, <1>2 DEF TInv, TypeOK, Working

LEMMA FinishType ==
  ASSUME TInv, NEW p \in Actor, Finish(p)
  PROVE  /\ pc' \in [Actor -> {"idle", "await", "append", "apply", "read", "write"}]
         /\ task' \in [Actor -> Task \cup {Idle}]
         /\ Working'
BY DEF Finish, TInv, TypeOK, Working

LEMMA NextTInv == ASSUME TInv, [Next]_vars PROVE TInv'
<1> USE StoreAssumption
<1>1. ASSUME NEW p \in Actor, NEW b \in Blob, Ingest(p, b) PROVE TInv'
  <2>1. HasReceipt(b) \in BOOLEAN /\ {Receipt(b)} \in SUBSET Body
    BY EventTypes DEF HasReceipt
  <2>2. Start(p, "receipt", b, {Receipt(b)}, HasReceipt(b), "append")
    BY <1>1 DEF Ingest
  <2>3. /\ pc' \in [Actor -> {"idle", "await", "append", "apply", "read", "write"}]
        /\ task' \in [Actor -> Task \cup {Idle}]
        /\ Working'
    BY <2>1, <2>2, StartType
  <2> QED
    BY <1>1, <2>3 DEF Ingest, cache, history, TInv, TypeOK
<1>2. ASSUME NEW p \in Actor, NEW b \in Blob, IngestLocked(p, b) PROVE TInv'
  BY <1>2 DEF IngestLocked, cache, history, TInv, TypeOK, Working
<1>3. ASSUME NEW p \in Actor, NEW b \in Blob, AskModel(p, b) PROVE TInv'
  <2>1. Start(p, "extraction", b, {}, FALSE, "await")
    BY <1>3 DEF AskModel
  <2> QED
    BY <1>3, <2>1, StartType DEF AskModel, store, cache, history, TInv, TypeOK
<1>4. ASSUME NEW p \in Actor, NEW b \in Blob, CannotRender(p, b) PROVE TInv'
  <2>1. Start(p, "extraction", b, {Extraction(b, Failed)}, FALSE, "append")
    BY <1>4 DEF CannotRender
  <2>2. {Extraction(b, Failed)} \in SUBSET Body
    BY EventTypes
  <2> QED
    BY <1>4, <2>1, <2>2, StartType DEF CannotRender, store, cache, history, TInv, TypeOK
<1>5. ASSUME NEW p \in Actor, NEW b \in Blob, NEW D \in SUBSET Field,
             NEW form \in [D -> MaybeValue], Correct(p, b, D, form)
      PROVE  TInv'
  <2> DEFINE todo == {Correction(b, [field |-> f, value |-> form[f]]) :
                        f \in {g \in D : ~Unchanged(b, g, form[g])}}
  <2>1. Start(p, "correction", b, todo, FALSE, "append")
    BY <1>5 DEF Correct
  <2>2. todo \in SUBSET Body
    <3>1. \A f \in D : [field |-> f, value |-> form[f]] \in Edit
      BY DEF Edit
    <3> QED
      BY <3>1, EventTypes
  <2> HIDE DEF todo
  <2> QED
    BY <1>5, <2>1, <2>2, StartType DEF Correct, store, cache, history, TInv, TypeOK
<1>6. ASSUME NEW p \in Actor, NEW b \in Blob, Reextract(p, b) PROVE TInv'
  <2>1. Requeue(b) \in RowBody
    BY DEF RowBody
  <2> QED
    BY <1>6, <2>1, NowType DEF Reextract, store, TInv, TypeOK, Working, Row
<1>7. ASSUME NEW p \in Actor, Answered(p) PROVE TInv'
  <2>1. task[p] \in Task /\ task[p].blob \in Blob
    BY <1>7 DEF Answered, TInv, Working, Task
  <2>2. PICK a \in Answer :
          task' = [task EXCEPT ![p].todo = {Extraction(task[p].blob, a)}]
    BY <1>7 DEF Answered
  <2>3. {Extraction(task[p].blob, a)} \in SUBSET Body
    BY <2>1, EventTypes
  <2>4. [task[p] EXCEPT !.todo = {Extraction(task[p].blob, a)}] \in Task
    BY <2>1, <2>3 DEF Task
  <2>5. task' = [task EXCEPT ![p] = [task[p] EXCEPT !.todo = {Extraction(task[p].blob, a)}]]
    BY <2>2 DEF TInv, TypeOK
  <2> QED
    BY <1>7, <2>4, <2>5 DEF Answered, store, cache, history, TInv, TypeOK, Working
<1>8. ASSUME NEW p \in Actor, Append(p) PROVE TInv'
  <2>1. task[p] \in Task
    BY <1>8 DEF Append, TInv, Working
  <2>2. PICK e \in task[p].todo, t \in Now :
          /\ stamps' = stamps \cup {t}
          /\ log' = Sealed(e, t)
          /\ task' = [task EXCEPT ![p].todo = @ \ {e},
                                  ![p].put = @ \cup {[body |-> e, at |-> t]}]
          /\ pc' = [pc EXCEPT ![p] = IF task[p].todo = {e} THEN "apply" ELSE "append"]
          /\ drift' = IF \/ log[e] = None /\ ~Current(p)
                         \/ log[e] # None /\ ~task[p].known
                        THEN drift \cup {e.blob} ELSE drift
          /\ beside' = IF Unlocking /\ Current(p) /\ task[p].kind # "receipt"
                         THEN beside \cup {e.blob} ELSE beside
          /\ IF e.kind = "correction"
               THEN /\ wanted' = [wanted EXCEPT ![e.blob][e.what.field] = <<e.what.value>>]
                    /\ repeated' = IF log[e] = None THEN repeated ELSE repeated \cup {e.blob}
               ELSE UNCHANGED <<wanted, repeated>>
    BY <1>8 DEF Append
  <2>3. e \in Body /\ t \in Stamp /\ e.blob \in Blob
    BY <2>1, NowType DEF Task, Body
  <2> DEFINE new == [task[p] EXCEPT !.todo = @ \ {e},
                                    !.put = @ \cup {[body |-> e, at |-> t]}]
  <2>4. new \in Task
    <3>1. [body |-> e, at |-> t] \in Row
      BY <2>3 DEF Row, RowBody
    <3>2. task[p].todo \ {e} \in SUBSET Body
      BY <2>1 DEF Task
    <3>3. task[p].put \cup {[body |-> e, at |-> t]} \in SUBSET Row
      BY <2>1, <3>1 DEF Task
    <3> QED
      BY <2>1, <3>2, <3>3 DEF Task
  <2>5. task' = [task EXCEPT ![p] = new]
    BY <2>2 DEF TInv, TypeOK
  <2> HIDE DEF new
  <2>6. log' \in Log
    BY <2>2, <2>3 DEF Sealed, TInv, TypeOK, Log
  <2>7. e.kind = "correction" =>
          e.what.field \in Field /\ e.what.value \in MaybeValue
    BY <2>3 DEF Body, Edit
  <2>8. /\ wanted' \in [Blob -> [Field -> {<<v>> : v \in MaybeValue} \cup {<<>>}]]
        /\ repeated' \subseteq Blob
    <3>1. CASE e.kind = "correction"
      <4>1. /\ wanted' = [wanted EXCEPT ![e.blob][e.what.field] = <<e.what.value>>]
            /\ repeated' = IF log[e] = None THEN repeated ELSE repeated \cup {e.blob}
        BY <2>2, <3>1
      <4>2. <<e.what.value>> \in {<<v>> : v \in MaybeValue}
        BY <2>7, <3>1
      <4>3. wanted' \in [Blob -> [Field -> {<<v>> : v \in MaybeValue} \cup {<<>>}]]
        BY <2>3, <2>7, <3>1, <4>1, <4>2 DEF TInv, TypeOK
      <4> QED
        BY <2>3, <4>1, <4>3 DEF TInv, TypeOK
    <3>2. CASE e.kind # "correction"
      BY <2>2, <3>2 DEF TInv, TypeOK
    <3> QED
      BY <3>1, <3>2
  <2>9. task' \in [Actor -> Task \cup {Idle}] /\ Working'
    <3>1. pc' = [pc EXCEPT ![p] = IF task[p].todo = {e} THEN "apply" ELSE "append"]
      BY <2>2
    <3> QED
      BY <3>1, <2>4, <2>5 DEF TInv, TypeOK, Working
  <2>10. /\ pc' \in [Actor -> {"idle", "await", "append", "apply", "read", "write"}]
         /\ stamps' \subseteq Stamp
         /\ drift' \subseteq Blob
         /\ beside' \subseteq Blob
    BY <2>2, <2>3 DEF TInv, TypeOK
  <2>11. UNCHANGED <<blobs, key, open, gen, rows, twice, shown, replaying>>
    BY <1>8 DEF Append, cache
  <2> QED
    BY <2>6, <2>8, <2>9, <2>10, <2>11 DEF TInv, TypeOK
<1>9. ASSUME NEW p \in Actor, ApplyReceipt(p) PROVE TInv'
  <2>1. task[p] \in Task /\ task[p].blob \in Blob /\ task[p].put \in SUBSET Row
    BY <1>9 DEF ApplyReceipt, TInv, Working, Task
  <2> DEFINE b == task[p].blob
             added == IF HasReceipt(b) THEN {} ELSE task[p].put
  <2>2. added \in SUBSET Row /\ RowsFor(b) \cup added \in SUBSET Row
    BY <2>1 DEF RowsFor, TInv, TypeOK
  <2>3. rows' \subseteq Row /\ shown' \in [Blob -> View \cup {None}]
    <3>1. CASE Current(p)
      <4>1. Project(RowsFor(b) \cup added) \in View
        BY <2>2, ProjectType
      <4>2. /\ rows' = rows \cup added
            /\ shown' = IF task[p].known THEN shown
                        ELSE [shown EXCEPT ![b] = Project(RowsFor(b) \cup added)]
        BY <1>9, <3>1 DEF ApplyReceipt
      <4> HIDE DEF added
      <4> QED
        BY <2>1, <2>2, <4>1, <4>2 DEF TInv, TypeOK
    <3>2. CASE ~ Current(p)
      BY <1>9, <3>2 DEF ApplyReceipt, TInv, TypeOK
    <3> QED
      BY <3>1, <3>2
  <2>4. Finish(p)
    BY <1>9 DEF ApplyReceipt
  <2> QED
    BY <1>9, <2>3, <2>4, FinishType DEF ApplyReceipt, store, history, TInv, TypeOK
<1>10. ASSUME NEW p \in Actor, ApplyRows(p) PROVE TInv'
  <2>1. task[p] \in Task /\ task[p].put \in SUBSET Row
    BY <1>10 DEF ApplyRows, TInv, Working, Task
  <2> QED
    BY <1>10, <2>1 DEF ApplyRows, store, history, TInv, TypeOK, Working
<1>11. ASSUME NEW p \in Actor, ReadRows(p) PROVE TInv'
  <2>1. task[p] \in Task
    BY <1>11 DEF ReadRows, TInv, Working
  <2> DEFINE R == IF Current(p) THEN RowsFor(task[p].blob) ELSE {}
  <2>2. R \in SUBSET Row
    BY DEF RowsFor, TInv, TypeOK
  <2>3. task' = [task EXCEPT ![p] = [task[p] EXCEPT !.seen = R]]
    BY <1>11 DEF ReadRows, TInv, TypeOK
  <2> HIDE DEF R
  <2>4. [task[p] EXCEPT !.seen = R] \in Task
    BY <2>1, <2>2 DEF Task
  <2> QED
    BY <1>11, <2>3, <2>4 DEF ReadRows, store, cache, history, TInv, TypeOK, Working
<1>12. ASSUME NEW p \in Actor, WriteProjection(p) PROVE TInv'
  <2>1. task[p].blob \in Blob /\ task[p].seen \in SUBSET Row
    BY <1>12 DEF WriteProjection, TInv, Working, Task
  <2>2. Project(task[p].seen) \in View
    BY <2>1, ProjectType
  <2>3. Finish(p)
    BY <1>12 DEF WriteProjection
  <2>4. shown' \in [Blob -> View \cup {None}]
    BY <1>12, <2>1, <2>2 DEF WriteProjection, TInv, TypeOK
  <2> QED
    BY <1>12, <2>3, <2>4, FinishType DEF WriteProjection, store, history, TInv, TypeOK
<1>13. ASSUME NEW p \in Actor, Crash(p) PROVE TInv'
  <2>1. task[p].blob \in Blob
    BY <1>13 DEF Crash, TInv, Working, Task
  <2>2. Finish(p)
    BY <1>13 DEF Crash
  <2> QED
    BY <1>13, <2>1, <2>2, FinishType DEF Crash, store, cache, TInv, TypeOK
<1>14. CASE Lock
  <2>1. gen' \in 0..MaxGen /\ rows' = {} /\ shown' = [b \in Blob |-> None]
    BY <1>14 DEF Lock, TInv, TypeOK
  <2> QED
    BY <1>14, <2>1 DEF Lock, store, history, TInv, TypeOK, Working
<1>15. CASE UnlockFresh
  <2>1. replaying' \in [on: BOOLEAN, snap: Log, gen: 0..MaxGen] /\ gen' \in 0..MaxGen
    BY <1>15 DEF UnlockFresh, TInv, TypeOK
  <2> QED
    BY <1>15, <2>1 DEF UnlockFresh, store, TInv, TypeOK, Working
<1>16. CASE UnlockFinish
  <2>1. rows' \subseteq Row /\ twice' \subseteq Row /\ shown' \in [Blob -> View \cup {None}]
    <3>1. CASE Unlocking
      <4>1. PICK late \in SUBSET Since :
              /\ rows' = Replayed(rows, Listed(late))
              /\ twice' = twice \cup Again(rows, Listed(late))
              /\ shown' = [b \in Blob |->
                   IF \E r \in Replayed(rows, Listed(late)) : r.body = Receipt(b)
                     THEN Project({r \in Replayed(rows, Listed(late)) : r.body.blob = b})
                     ELSE None]
        BY <1>16, <3>1, Zenon DEF UnlockFinish
      <4>2. Replayed(rows, Listed(late)) \in SUBSET Row
        BY ReplayedType, ListedType DEF TInv, TypeOK
      <4>3. \A b \in Blob :
              Project({r \in Replayed(rows, Listed(late)) : r.body.blob = b}) \in View
        BY <4>2, ProjectType
      <4>4. Again(rows, Listed(late)) \subseteq Row
        BY DEF Again, TInv, TypeOK
      <4>5. twice' \subseteq Row
        BY <4>1, <4>4 DEF TInv, TypeOK
      <4> QED
        BY <4>1, <4>2, <4>3, <4>5
    <3>2. CASE ~Unlocking
      BY <1>16, <3>2 DEF UnlockFinish, TInv, TypeOK
    <3> QED
      BY <3>1, <3>2
  <2>2. replaying' \in [on: BOOLEAN, snap: Log, gen: 0..MaxGen]
    BY <1>16 DEF UnlockFinish, NoLog, Log, TInv, TypeOK
  <2> QED
    BY <1>16, <2>1, <2>2 DEF UnlockFinish, store, history, TInv, TypeOK, Working
<1>17. CASE UnlockKilled
  <2>1. replaying' \in [on: BOOLEAN, snap: Log, gen: 0..MaxGen]
    BY <1>17 DEF UnlockKilled, NoLog, Log, TInv, TypeOK
  <2> QED
    BY <1>17, <2>1 DEF UnlockKilled, store, cache, TInv, TypeOK, Working
<1>18. CASE OpenEmpty
  <2>1. gen' \in 0..MaxGen /\ rows' = {} /\ shown' = [b \in Blob |-> None]
    BY <1>18 DEF OpenEmpty, TInv, TypeOK
  <2>2. drift' \subseteq Blob
    BY <1>18 DEF OpenEmpty, Body
  <2> QED
    BY <1>18, <2>1, <2>2 DEF OpenEmpty, store, TInv, TypeOK, Working
<1>19. CASE UnlockKey
  BY <1>19 DEF UnlockKey, store, history, TInv, TypeOK, Working
<1>20. CASE UNCHANGED vars
  BY <1>20 DEF vars, TInv, TypeOK, Working
<1> QED
  BY <1>1, <1>2, <1>3, <1>4, <1>5, <1>6, <1>7, <1>8, <1>9, <1>10, <1>11, <1>12,
     <1>13, <1>14, <1>15, <1>16, <1>17, <1>18, <1>19, <1>20 DEF Next

LEMMA TypeInvariant == Spec => []TInv
<1>1. TInv /\ [Next]_vars => TInv'
  BY NextTInv
<1> QED
  BY <1>1, InitTInv, PTL DEF Spec

(***************************************************************************)
(* Every behaviour keeps its types: only events and requeues become rows,  *)
(* and what is projected from them is a value for each field.              *)
(***************************************************************************)
THEOREM TypeCorrect == Spec => []TypeOK
<1>1. TInv => TypeOK
  BY DEF TInv
<1> QED
  BY <1>1, TypeInvariant, PTL

-----------------------------------------------------------------------------
(* The inductive invariant. *)

\* What is known of a running handler.  Its receipt is sealed and, once it is
\* past ingest, in the log; what it still has to append and what it has
\* appended are about that receipt; and if it found the receipt in a database,
\* it is still there as long as that database is.
Handler(p) ==
  pc[p] # "idle" =>
    /\ task[p].blob \in blobs
    /\ task[p].kind # "receipt" => log[Receipt(task[p].blob)] # None /\ ~task[p].known
    /\ \A e \in task[p].todo :
         /\ e.blob = task[p].blob
         /\ task[p].kind = "receipt" => e = Receipt(task[p].blob)
    /\ \A r \in task[p].put :
         /\ r.body \in Body
         /\ r.body.blob = task[p].blob
         /\ log[r.body] # None
         /\ task[p].kind = "receipt" => r.body = Receipt(task[p].blob)
    /\ pc[p] = "await" => task[p].kind = "extraction"
    /\ task[p].gen <= gen
    /\ Current(p) /\ (task[p].kind # "receipt" \/ task[p].known) =>
         HasReceipt(task[p].blob)

Handlers == \A p \in Actor : Handler(p)

\* What there was when an unlock began is a part of the log that holds whole
\* receipts, and as long as its database is the present one it is there.
Snapshot ==
  /\ \A e \in Body : replaying.snap[e] # None =>
       log[e] = replaying.snap[e] /\ replaying.snap[Receipt(e.blob)] # None
  /\ replaying.gen <= gen
  /\ Unlocking => open

Safe == TInv /\ NothingDangles /\ Handlers /\ Snapshot

\* Outside drift a row is the event of the log, first stamp included.
RowsLogged ==
  \A r \in rows : r.body.blob \notin drift => r.body \in Body /\ log[r.body] = r.at

\* And so is what a handler is about to make a row, unless the row is there.
PutsLogged ==
  \A p \in Actor :
    pc[p] # "idle" /\ Current(p) /\ ~task[p].known /\ task[p].blob \notin drift =>
      \A r \in task[p].put : log[r.body] = r.at

Present(e) == \E r \in rows : r.body = e
Pending(e) ==
  \E p \in Actor : /\ pc[p] \in {"append", "apply"}
                   /\ Current(p)
                   /\ \E r \in task[p].put : r.body = e

\* An event outside drift is a row, or about to become one: by the handler
\* that appended it, or by the unlock that read it.
LogCovered ==
  open => \A e \in Body : log[e] # None /\ e.blob \notin drift =>
    \/ Present(e)
    \/ Pending(e)
    \/ Unlocking /\ replaying.snap[e] # None

\* Stamps are handed out once: every row and every event has one that was,
\* and no two handlers are about to put in the same row.
Dated ==
  /\ \A e \in Body : log[e] # None => log[e] \in stamps
  /\ \A r \in rows : r.at \in stamps
  /\ \A p \in Actor : \A r \in task[p].put : r.at \in stamps
Apart == \A p, q \in Actor : p # q => task[p].put \cap task[q].put = {}

\* What a handler has appended while an unlock is listing the log, the unlock
\* may put into the database first, and only that.
PutBeside(p) ==
  pc[p] # "idle" /\ Current(p) /\ task[p].kind # "receipt" =>
    /\ Unlocking /\ task[p].put # {} => task[p].blob \in beside
    /\ pc[p] \in {"await", "append", "apply"} /\ task[p].put \cap rows # {} =>
         task[p].blob \in beside
PutsBeside == \A p \in Actor : PutBeside(p)

\* What is in the database before the unlock is through, handlers have put
\* there beside it.
RowsBeside ==
  Unlocking => \A r \in rows : r.body \in Body /\ r.body.kind # "receipt" =>
                 r.body.blob \in beside
TwiceBeside == \A r \in twice : r.body.blob \in beside

Once == Dated /\ Apart /\ PutsBeside /\ RowsBeside /\ TwiceBeside

Mirrored == Safe /\ RowsLogged /\ PutsLogged /\ LogCovered /\ Once

-----------------------------------------------------------------------------
(* What the steps leave alone. *)

\* A handler begins, is answered, or reads and shows what the cache holds; or
\* an unlock puts the identity in place.
Begins(p, b) ==
  \/ Ingest(p, b) \/ IngestLocked(p, b) \/ AskModel(p, b) \/ CannotRender(p, b)
  \/ \E D \in SUBSET Field : \E form \in [D -> MaybeValue] : Correct(p, b, D, form)
Quiet ==
  \/ UNCHANGED vars
  \/ UnlockKey
  \/ \E p \in Actor : \/ \E b \in Blob : Begins(p, b)
                     \/ Answered(p) \/ ReadRows(p) \/ WriteProjection(p)

LEMMA QuietFrame == Quiet => UNCHANGED <<log, rows, twice, replaying, open, gen, drift, beside>>
<1>1. CASE UNCHANGED vars
  BY <1>1 DEF vars
<1>2. ASSUME NEW p \in Actor, NEW b \in Blob, Begins(p, b)
      PROVE  UNCHANGED <<log, rows, twice, replaying, open, gen, drift, beside>>
  <2>1. CASE Ingest(p, b)
    BY <2>1 DEF Ingest, cache, history
  <2>2. CASE IngestLocked(p, b)
    BY <2>2 DEF IngestLocked, cache, history
  <2>3. CASE AskModel(p, b)
    BY <2>3 DEF AskModel, store, cache, history
  <2>4. CASE CannotRender(p, b)
    BY <2>4 DEF CannotRender, store, cache, history
  <2>5. ASSUME NEW D \in SUBSET Field, NEW form \in [D -> MaybeValue],
               Correct(p, b, D, form)
        PROVE  UNCHANGED <<log, rows, twice, replaying, open, gen, drift, beside>>
    BY <2>5 DEF Correct, store, cache, history
  <2> QED
    BY <1>2, <2>1, <2>2, <2>3, <2>4, <2>5 DEF Begins
<1>3. ASSUME NEW p \in Actor, Answered(p)
      PROVE  UNCHANGED <<log, rows, twice, replaying, open, gen, drift, beside>>
  BY <1>3 DEF Answered, store, cache, history
<1>4. ASSUME NEW p \in Actor, ReadRows(p)
      PROVE  UNCHANGED <<log, rows, twice, replaying, open, gen, drift, beside>>
  BY <1>4 DEF ReadRows, store, cache, history
<1>5. ASSUME NEW p \in Actor, WriteProjection(p)
      PROVE  UNCHANGED <<log, rows, twice, replaying, open, gen, drift, beside>>
  BY <1>5 DEF WriteProjection, store, history
<1>6. CASE UnlockKey
  BY <1>6 DEF UnlockKey, store, history
<1> QED
  BY <1>1, <1>2, <1>3, <1>4, <1>5, <1>6 DEF Quiet

\* The steps that are not quiet.
LEMMA NextCases ==
  ASSUME [Next]_vars
  PROVE  \/ Quiet
         \/ \E p \in Actor : \E b \in Blob : Reextract(p, b)
         \/ \E p \in Actor : Append(p) \/ ApplyReceipt(p) \/ ApplyRows(p) \/ Crash(p)
         \/ Lock \/ OpenEmpty \/ UnlockFresh \/ UnlockFinish \/ UnlockKilled
BY DEF Next, Quiet, Begins

\* Only a handler's append writes the log.
LEMMA LogFrame == ASSUME [Next]_vars, ~ \E p \in Actor : Append(p) PROVE UNCHANGED log
<1>1. ASSUME NEW p \in Actor, NEW b \in Blob, Reextract(p, b) PROVE UNCHANGED log
  BY <1>1 DEF Reextract, store
<1>2. ASSUME NEW p \in Actor, ApplyReceipt(p) \/ ApplyRows(p) PROVE UNCHANGED log
  BY <1>2 DEF ApplyReceipt, ApplyRows, store
<1>3. ASSUME NEW p \in Actor, Crash(p) PROVE UNCHANGED log
  BY <1>3 DEF Crash, store
<1>4. Lock \/ OpenEmpty \/ UnlockFresh \/ UnlockFinish \/ UnlockKilled => UNCHANGED log
  BY DEF Lock, OpenEmpty, UnlockFresh, UnlockFinish, UnlockKilled, store
<1> QED
  BY NextCases, QuietFrame, <1>1, <1>2, <1>3, <1>4

\* Only an append says what is wanted.
LEMMA WantedFrame ==
  ASSUME TInv, [Next]_vars, ~ \E p \in Actor : Append(p)
  PROVE  UNCHANGED <<log, wanted, repeated>> /\ stamps \subseteq stamps'
<1>1. CASE UNCHANGED vars
  BY <1>1 DEF vars
<1>2. ASSUME NEW p \in Actor, NEW b \in Blob, Begins(p, b)
      PROVE  UNCHANGED <<log, wanted, repeated, stamps>>
  <2>1. CASE Ingest(p, b)
    BY <2>1 DEF Ingest, history
  <2>2. CASE IngestLocked(p, b)
    BY <2>2 DEF IngestLocked, history
  <2>3. CASE AskModel(p, b) \/ CannotRender(p, b)
    BY <2>3 DEF AskModel, CannotRender, store, history
  <2>4. CASE \E D \in SUBSET Field : \E form \in [D -> MaybeValue] : Correct(p, b, D, form)
    BY <2>4 DEF Correct, store, history
  <2> QED
    BY <1>2, <2>1, <2>2, <2>3, <2>4 DEF Begins
<1>3. ASSUME NEW p \in Actor, Answered(p) \/ ReadRows(p) \/ WriteProjection(p)
      PROVE  UNCHANGED <<log, wanted, repeated, stamps>>
  BY <1>3 DEF Answered, ReadRows, WriteProjection, store, history
<1>4. ASSUME NEW p \in Actor, ApplyReceipt(p) \/ ApplyRows(p) \/ Crash(p)
      PROVE  UNCHANGED <<log, wanted, repeated, stamps>>
  BY <1>4 DEF ApplyReceipt, ApplyRows, Crash, store, history
<1>5. ASSUME NEW p \in Actor, NEW b \in Blob, Reextract(p, b)
      PROVE  UNCHANGED <<log, wanted, repeated>> /\ stamps \subseteq stamps'
  BY <1>5 DEF Reextract, store
<1>6. ASSUME \/ Lock \/ OpenEmpty \/ UnlockKey \/ UnlockFresh
             \/ UnlockFinish \/ UnlockKilled
      PROVE  UNCHANGED <<log, wanted, repeated, stamps>>
  BY <1>6 DEF Lock, OpenEmpty, UnlockKey, UnlockFresh, UnlockFinish, UnlockKilled, store, history
<1> QED
  BY NextCases, <1>1, <1>2, <1>3, <1>4, <1>5, <1>6 DEF Quiet

-----------------------------------------------------------------------------
(* Nothing dangles. *)

\* Nothing is sealed twice and nothing is unsealed; a database only grows.
Grows ==
  /\ blobs \subseteq blobs'
  /\ \A e \in Body : log[e] # None => log'[e] = log[e]
  /\ \/ gen' = gen /\ rows \subseteq rows'
     \/ gen' = gen + 1

LEMMA NextGrows == ASSUME Safe, [Next]_vars PROVE Grows
<1> USE StoreAssumption
<1> SUFFICES ASSUME Next PROVE Grows
  BY DEF vars, Grows
<1>1. ASSUME NEW p \in Actor, NEW b \in Blob, Ingest(p, b) PROVE Grows
  BY <1>1 DEF Ingest, cache, Grows
<1>2. ASSUME NEW p \in Actor, NEW b \in Blob, IngestLocked(p, b) PROVE Grows
  BY <1>2 DEF IngestLocked, cache, Grows
<1>3. ASSUME NEW p \in Actor, NEW b \in Blob, AskModel(p, b) PROVE Grows
  BY <1>3 DEF AskModel, store, cache, Grows
<1>4. ASSUME NEW p \in Actor, NEW b \in Blob, CannotRender(p, b) PROVE Grows
  BY <1>4 DEF CannotRender, store, cache, Grows
<1>5. ASSUME NEW p \in Actor, NEW b \in Blob, NEW D \in SUBSET Field,
             NEW form \in [D -> MaybeValue], Correct(p, b, D, form)
      PROVE  Grows
  BY <1>5 DEF Correct, store, cache, Grows
<1>6. ASSUME NEW p \in Actor, NEW b \in Blob, Reextract(p, b) PROVE Grows
  BY <1>6 DEF Reextract, store, Grows
<1>7. ASSUME NEW p \in Actor, Answered(p) PROVE Grows
  BY <1>7 DEF Answered, store, cache, Grows
<1>8. ASSUME NEW p \in Actor, Append(p) PROVE Grows
  <2>1. PICK e \in task[p].todo, t \in Now : log' = Sealed(e, t)
    BY <1>8 DEF Append
  <2>2. task[p] \in Task
    BY <1>8 DEF Append, Safe, TInv, Working
  <2>3. e \in Body
    BY <2>2 DEF Task
  <2>4. \A x \in Body : log[x] # None => log'[x] = log[x]
    BY <2>1, <2>3 DEF Sealed, Safe, TInv, TypeOK, Log
  <2> QED
    BY <1>8, <2>4 DEF Append, cache, Grows
<1>9. ASSUME NEW p \in Actor, ApplyReceipt(p) PROVE Grows
  BY <1>9 DEF ApplyReceipt, store, Grows
<1>10. ASSUME NEW p \in Actor, ApplyRows(p) PROVE Grows
  BY <1>10 DEF ApplyRows, store, Grows
<1>11. ASSUME NEW p \in Actor, ReadRows(p) PROVE Grows
  BY <1>11 DEF ReadRows, store, cache, Grows
<1>12. ASSUME NEW p \in Actor, WriteProjection(p) PROVE Grows
  BY <1>12 DEF WriteProjection, store, Grows
<1>13. ASSUME NEW p \in Actor, Crash(p) PROVE Grows
  BY <1>13 DEF Crash, store, cache, Grows
<1>14. CASE Lock
  BY <1>14 DEF Lock, store, Grows
<1>15. CASE UnlockFresh
  BY <1>15 DEF UnlockFresh, store, Grows
<1>16. CASE UnlockFinish
  BY <1>16 DEF UnlockFinish, Replayed, store, Grows
<1>17. CASE UnlockKilled
  BY <1>17 DEF UnlockKilled, store, cache, Grows
<1>18. CASE OpenEmpty
  BY <1>18 DEF OpenEmpty, store, Grows
<1>19. CASE UnlockKey
  BY <1>19 DEF UnlockKey, store, Grows
<1> QED
  BY <1>1, <1>2, <1>3, <1>4, <1>5, <1>6, <1>7, <1>8, <1>9, <1>10, <1>11, <1>12,
     <1>13, <1>14, <1>15, <1>16, <1>17, <1>18, <1>19 DEF Next

\* What a handler knows survives every step that is not its own.
LEMMA HandlerKept ==
  ASSUME Safe, TInv', Grows, NEW q \in Actor, pc'[q] = pc[q], task'[q] = task[q]
  PROVE  Handler(q)'
<1> SUFFICES ASSUME pc[q] # "idle" PROVE Handler(q)'
  BY DEF Handler
<1> USE StoreAssumption
<1>1. task[q] \in Task /\ Handler(q)
  BY DEF Safe, Handlers, TInv, Working
<1>2. gen \in Nat /\ gen' \in Nat /\ task[q].gen \in Nat /\ task[q].blob \in Blob
  BY <1>1 DEF Safe, TInv, TypeOK, Task
<1>3. Receipt(task[q].blob) \in Body
  BY <1>2, EventTypes
<1>4. \A e \in Body : log[e] # None => log'[e] # None
  BY DEF Grows
<1>5. Current(q)' => Current(q) /\ rows \subseteq rows'
  BY <1>1, <1>2 DEF Current, Handler, Grows
<1>6. HasReceipt(task[q].blob) /\ rows \subseteq rows' => HasReceipt(task[q].blob)'
  BY DEF HasReceipt
<1>7. task'[q].gen <= gen'
  BY <1>1, <1>2 DEF Handler, Grows
<1>8. Current(q)' /\ (task'[q].kind # "receipt" \/ task'[q].known) =>
        HasReceipt(task[q].blob)'
  BY <1>1, <1>5, <1>6 DEF Handler
<1> QED
  BY <1>1, <1>3, <1>4, <1>7, <1>8 DEF Handler, Grows

\* A receipt the cache knows is in the log, and its blob is sealed.
LEMMA KnownIsRooted ==
  ASSUME Safe, NEW b \in Blob, HasReceipt(b)
  PROVE  log[Receipt(b)] # None /\ b \in blobs
<1>1. Receipt(b) \in Body /\ Receipt(b).blob = b
  BY EventTypes DEF Receipt
<1> QED
  BY <1>1 DEF Safe, NothingDangles, EventsRooted, RowsRooted, HasReceipt

LEMMA InitSafe == Init => Safe
<1> SUFFICES ASSUME Init PROVE Safe
  OBVIOUS
<1>1. TInv
  BY InitTInv
<1>2. NothingDangles
  BY DEF Init, NothingDangles, EventsRooted, RowsRooted, NoLog
<1>3. Handlers
  BY DEF Init, Handlers, Handler
<1>4. Snapshot
  BY StoreAssumption DEF Init, Snapshot, NoLog, Unlocking
<1> QED
  BY <1>1, <1>2, <1>3, <1>4 DEF Safe

\* A handler that just started.
LEMMA HandlerStarts ==
  ASSUME Safe, NEW p \in Actor, NEW b \in Blob, NEW todo \in SUBSET Body,
         NEW kind \in {"receipt", "extraction", "correction"},
         NEW known \in BOOLEAN, NEW next \in {"await", "append"},
         Start(p, kind, b, todo, known, next),
         b \in blobs', UNCHANGED <<log, rows, gen>>,
         kind # "receipt" => HasReceipt(b) /\ ~known,
         known => HasReceipt(b),
         next = "await" => kind = "extraction",
         \A e \in todo : e.blob = b,
         kind = "receipt" => todo = {Receipt(b)}
  PROVE  Handler(p)' /\ \A q \in Actor \ {p} : pc'[q] = pc[q] /\ task'[q] = task[q]
<1> DEFINE t == [kind |-> kind, blob |-> b, todo |-> todo, put |-> {}, gen |-> gen,
                 known |-> known, seen |-> {}]
<1>1. /\ task' = [task EXCEPT ![p] = t] /\ pc' = [pc EXCEPT ![p] = next]
      /\ pc \in [Actor -> {"idle", "await", "append", "apply", "read", "write"}]
      /\ task \in [Actor -> Task \cup {Idle}]
      /\ gen \in Nat
  BY StoreAssumption DEF Start, Safe, TInv, TypeOK
<1>2. kind # "receipt" => log'[Receipt(b)] # None
  BY KnownIsRooted
<1>3. HasReceipt(b)' <=> HasReceipt(b)
  BY DEF HasReceipt
<1>4. /\ task'[p].blob = b /\ task'[p].kind = kind /\ task'[p].known = known
      /\ task'[p].todo = todo /\ task'[p].put = {} /\ task'[p].gen = gen
  BY <1>1
<1>5. Handler(p)'
  BY <1>1, <1>2, <1>3, <1>4 DEF Handler, HasReceipt
<1> QED
  BY <1>1, <1>5

\* One more event of a handler is in the log.
LEMMA HandlerAppends ==
  ASSUME Safe, Grows, NEW p \in Actor, Append(p)
  PROVE  Handler(p)' /\ \A q \in Actor \ {p} : pc'[q] = pc[q] /\ task'[q] = task[q]
<1> USE StoreAssumption
<1>1. task[p] \in Task /\ Handler(p) /\ pc[p] = "append"
  BY DEF Append, Safe, Handlers, TInv, Working
<1>2. PICK e \in task[p].todo, t \in Now :
          /\ log' = Sealed(e, t)
          /\ task' = [task EXCEPT ![p].todo = @ \ {e},
                                  ![p].put = @ \cup {[body |-> e, at |-> t]}]
          /\ pc' = [pc EXCEPT ![p] = IF task[p].todo = {e} THEN "apply" ELSE "append"]
  BY <1>1 DEF Append
<1>3. /\ e \in Body /\ t \in Stamp /\ t # None /\ task[p].blob \in Blob
      /\ e.blob = task[p].blob
      /\ task[p].kind = "receipt" => e = Receipt(task[p].blob)
  BY <1>1, NowType DEF Task, Handler
<1>4. log'[e] # None
  BY <1>2, <1>3 DEF Sealed, Safe, TInv, TypeOK, Log
<1>5. \A x \in Body : log[x] # None => log'[x] # None
  BY DEF Grows
<1> DEFINE r == [body |-> e, at |-> t]
<1>6. /\ task'[p].todo = task[p].todo \ {e}
      /\ task'[p].put = task[p].put \cup {r}
      /\ task'[p].blob = task[p].blob /\ task'[p].kind = task[p].kind
      /\ task'[p].known = task[p].known /\ task'[p].gen = task[p].gen
  BY <1>1, <1>2 DEF Safe, TInv, TypeOK, Task
<1>7. gen' = gen /\ rows' = rows /\ blobs' = blobs
  BY DEF Append, cache
<1>8. /\ task'[p].blob \in blobs'
      /\ task'[p].kind # "receipt" =>
           log'[Receipt(task[p].blob)] # None /\ ~task'[p].known
      /\ task'[p].gen <= gen'
  BY <1>1, <1>3, <1>5, <1>6, <1>7, EventTypes DEF Handler
<1>9. \A x \in task'[p].todo :
         /\ x.blob = task'[p].blob
         /\ task'[p].kind = "receipt" => x = Receipt(task[p].blob)
  BY <1>1, <1>6 DEF Handler
<1>10. ASSUME NEW x \in task'[p].put
       PROVE  /\ x.body \in Body
              /\ x.body.blob = task'[p].blob
              /\ log'[x.body] # None
              /\ task'[p].kind = "receipt" => x.body = Receipt(task[p].blob)
  <2>1. CASE x \in task[p].put
    BY <2>1, <1>1, <1>5, <1>6 DEF Handler
  <2>2. CASE x = r
    BY <2>2, <1>3, <1>4, <1>6
  <2> QED
    BY <2>1, <2>2, <1>6
<1>11. Current(p)' /\ (task'[p].kind # "receipt" \/ task'[p].known) =>
         \E x \in rows' : x.body = Receipt(task[p].blob)
  BY <1>1, <1>6, <1>7 DEF Current, Handler, HasReceipt
<1>12. \A q \in Actor \ {p} : pc'[q] = pc[q] /\ task'[q] = task[q]
  BY <1>2 DEF Safe, TInv, TypeOK
<1>13. Receipt(task[p].blob) = Receipt(task'[p].blob)
  BY <1>6
<1>14. pc'[p] # "await"
  BY <1>2 DEF Safe, TInv, TypeOK
<1>15. Handler(p)'
  BY <1>8, <1>9, <1>10, <1>11, <1>13, <1>14 DEF Handler, HasReceipt
<1> QED
  BY <1>12, <1>15

LEMMA NextHandlers == ASSUME Safe, TInv', [Next]_vars PROVE Handlers'
<1> USE StoreAssumption
<1>g. Grows
  BY NextGrows
<1> DEFINE Others(p) == \A q \in Actor \ {p} : pc'[q] = pc[q] /\ task'[q] = task[q]
<1>o. ASSUME NEW p \in Actor, Handler(p)', Others(p) PROVE Handlers'
  BY <1>o, <1>g, HandlerKept DEF Handlers
<1>s. ASSUME UNCHANGED <<pc, task>> PROVE Handlers'
  BY <1>s, <1>g, HandlerKept DEF Handlers
<1>f. ASSUME NEW p \in Actor, Finish(p) PROVE Handlers'
  <2>1. Handler(p)' /\ Others(p)
    BY <1>f DEF Finish, Handler, Safe, TInv, TypeOK
  <2> QED
    BY <2>1, <1>o
<1>1. ASSUME NEW p \in Actor, NEW b \in Blob, Ingest(p, b) PROVE Handlers'
  <2>1. Start(p, "receipt", b, {Receipt(b)}, HasReceipt(b), "append")
    BY <1>1 DEF Ingest
  <2>2. HasReceipt(b) \in BOOLEAN /\ {Receipt(b)} \in SUBSET Body /\ Receipt(b).blob = b
    BY EventTypes DEF HasReceipt, Receipt
  <2>3. b \in blobs' /\ UNCHANGED <<log, rows, gen>>
    BY <1>1 DEF Ingest, cache
  <2> DEFINE known == HasReceipt(b)
  <2>4. \A e \in {Receipt(b)} : e.blob = b
    BY <2>2
  <2>5. known \in BOOLEAN /\ (known => HasReceipt(b))
        /\ Start(p, "receipt", b, {Receipt(b)}, known, "append")
    BY <2>1, <2>2
  <2> HIDE DEF known
  <2>6. Handler(p)' /\ Others(p)
    BY <2>2, <2>3, <2>4, <2>5, HandlerStarts
  <2> QED
    BY <2>6, <1>o
<1>2. ASSUME NEW p \in Actor, NEW b \in Blob, IngestLocked(p, b) PROVE Handlers'
  BY <1>2, <1>s DEF IngestLocked
<1>3. ASSUME NEW p \in Actor, NEW b \in Blob, AskModel(p, b) PROVE Handlers'
  <2>1. /\ Start(p, "extraction", b, {}, FALSE, "await") /\ HasReceipt(b)
        /\ UNCHANGED <<blobs, log, rows, gen>>
    BY <1>3 DEF AskModel, store, cache
  <2>2. Handler(p)' /\ Others(p)
    BY <2>1, KnownIsRooted, HandlerStarts
  <2> QED
    BY <2>2, <1>o
<1>4. ASSUME NEW p \in Actor, NEW b \in Blob, CannotRender(p, b) PROVE Handlers'
  <2>1. /\ Start(p, "extraction", b, {Extraction(b, Failed)}, FALSE, "append")
        /\ HasReceipt(b) /\ UNCHANGED <<blobs, log, rows, gen>>
    BY <1>4 DEF CannotRender, store, cache
  <2>2. {Extraction(b, Failed)} \in SUBSET Body /\ Extraction(b, Failed).blob = b
    BY EventTypes DEF Extraction
  <2> DEFINE todo == {Extraction(b, Failed)}
  <2>4. todo \in SUBSET Body /\ \A e \in todo : e.blob = b
    BY <2>2
  <2>5. Start(p, "extraction", b, todo, FALSE, "append")
    BY <2>1
  <2> HIDE DEF todo
  <2>3. Handler(p)' /\ Others(p)
    BY <2>1, <2>4, <2>5, KnownIsRooted, HandlerStarts
  <2> QED
    BY <2>3, <1>o
<1>5. ASSUME NEW p \in Actor, NEW b \in Blob, NEW D \in SUBSET Field,
             NEW form \in [D -> MaybeValue], Correct(p, b, D, form)
      PROVE  Handlers'
  <2> DEFINE todo == {Correction(b, [field |-> f, value |-> form[f]]) :
                        f \in {g \in D : ~Unchanged(b, g, form[g])}}
  <2>1. /\ Start(p, "correction", b, todo, FALSE, "append")
        /\ HasReceipt(b) /\ UNCHANGED <<blobs, log, rows, gen>>
    BY <1>5 DEF Correct, store, cache
  <2>2. todo \in SUBSET Body
    <3>1. \A f \in D : [field |-> f, value |-> form[f]] \in Edit
      BY DEF Edit
    <3> QED
      BY <3>1, EventTypes
  <2>3. \A e \in todo : e.blob = b
    BY DEF Correction
  <2> HIDE DEF todo
  <2>4. Handler(p)' /\ Others(p)
    BY <2>1, <2>2, <2>3, KnownIsRooted, HandlerStarts
  <2> QED
    BY <2>4, <1>o
<1>6. ASSUME NEW p \in Actor, NEW b \in Blob, Reextract(p, b) PROVE Handlers'
  BY <1>6, <1>s DEF Reextract
<1>7. ASSUME NEW p \in Actor, Answered(p) PROVE Handlers'
  <2>1. task[p] \in Task /\ Handler(p) /\ pc[p] = "await"
    BY <1>7 DEF Answered, Safe, Handlers, TInv, Working
  <2>2. PICK a \in Answer :
          task' = [task EXCEPT ![p].todo = {Extraction(task[p].blob, a)}]
    BY <1>7 DEF Answered
  <2>3. /\ pc'[p] = "append" /\ task[p].kind = "extraction" /\ Others(p)
        /\ UNCHANGED <<blobs, log, gen, rows>>
    BY <1>7, <2>1 DEF Answered, Handler, store, cache, Safe, TInv, TypeOK
  <2>4. /\ task'[p].todo = {Extraction(task[p].blob, a)}
        /\ task'[p].put = task[p].put
        /\ task'[p].blob = task[p].blob /\ task'[p].kind = task[p].kind
        /\ task'[p].known = task[p].known /\ task'[p].gen = task[p].gen
    BY <2>1, <2>2 DEF Safe, TInv, TypeOK, Task
  <2>5. Extraction(task[p].blob, a).blob = task[p].blob
    BY DEF Extraction
  <2>6. Handler(p)'
    BY <2>1, <2>3, <2>4, <2>5 DEF Handler, Current, HasReceipt
  <2> QED
    BY <2>3, <2>6, <1>o
<1>8. ASSUME NEW p \in Actor, Append(p) PROVE Handlers'
  BY <1>8, <1>g, <1>o, HandlerAppends
<1>9. ASSUME NEW p \in Actor, ApplyReceipt(p) PROVE Handlers'
  BY <1>9, <1>f DEF ApplyReceipt
<1>10. ASSUME NEW p \in Actor, ApplyRows(p) PROVE Handlers'
  <2>1. Handler(p) /\ pc[p] = "apply"
    BY <1>10 DEF ApplyRows, Safe, Handlers
  <2>2. /\ UNCHANGED <<blobs, log, gen, task>> /\ rows \subseteq rows'
        /\ pc'[p] = "read" /\ Others(p)
    BY <1>10 DEF ApplyRows, store, Safe, TInv, TypeOK
  <2>3. Handler(p)'
    BY <2>1, <2>2 DEF Handler, Current, HasReceipt
  <2> QED
    BY <2>2, <2>3, <1>o
<1>11. ASSUME NEW p \in Actor, ReadRows(p) PROVE Handlers'
  <2>1. task[p] \in Task /\ Handler(p) /\ pc[p] = "read"
    BY <1>11 DEF ReadRows, Safe, Handlers, TInv, Working
  <2>2. /\ UNCHANGED <<blobs, log, gen, rows>> /\ pc'[p] = "write" /\ Others(p)
    BY <1>11 DEF ReadRows, store, cache, Safe, TInv, TypeOK
  <2>3. /\ task'[p].todo = task[p].todo /\ task'[p].put = task[p].put
        /\ task'[p].blob = task[p].blob /\ task'[p].kind = task[p].kind
        /\ task'[p].known = task[p].known /\ task'[p].gen = task[p].gen
    BY <1>11, <2>1 DEF ReadRows, Safe, TInv, TypeOK, Task
  <2>4. Handler(p)'
    BY <2>1, <2>2, <2>3 DEF Handler, Current, HasReceipt
  <2> QED
    BY <2>2, <2>4, <1>o
<1>12. ASSUME NEW p \in Actor, WriteProjection(p) PROVE Handlers'
  BY <1>12, <1>f DEF WriteProjection
<1>13. ASSUME NEW p \in Actor, Crash(p) PROVE Handlers'
  BY <1>13, <1>f DEF Crash
<1>14. CASE Lock
  BY <1>14, <1>s DEF Lock
<1>15. CASE UnlockFresh
  BY <1>15, <1>s DEF UnlockFresh
<1>16. CASE UnlockFinish
  BY <1>16, <1>s DEF UnlockFinish
<1>17. CASE UnlockKilled
  BY <1>17, <1>s DEF UnlockKilled
<1>18. CASE OpenEmpty
  BY <1>18, <1>s DEF OpenEmpty
<1>19. CASE UnlockKey
  BY <1>19, <1>s DEF UnlockKey
<1>20. CASE UNCHANGED vars
  BY <1>20, <1>s DEF vars
<1> QED
  BY <1>1, <1>2, <1>3, <1>4, <1>5, <1>6, <1>7, <1>8, <1>9, <1>10, <1>11, <1>12,
     <1>13, <1>14, <1>15, <1>16, <1>17, <1>18, <1>19, <1>20 DEF Next

LEMMA NextEventsRooted == ASSUME Safe, TInv', [Next]_vars PROVE EventsRooted'
<1> USE StoreAssumption
<1>1. Grows
  BY NextGrows
<1>2. ASSUME UNCHANGED log PROVE EventsRooted'
  BY <1>1, <1>2 DEF Grows, Safe, NothingDangles, EventsRooted
<1>3. ASSUME NEW p \in Actor, Append(p) PROVE EventsRooted'
  <2>1. task[p] \in Task /\ Handler(p) /\ pc[p] = "append"
    BY <1>3 DEF Append, Safe, Handlers, TInv, Working
  <2>2. PICK e \in task[p].todo, t \in Now : log' = Sealed(e, t)
    BY <1>3 DEF Append
  <2>3. /\ e \in Body /\ t # None /\ e.blob \in Blob /\ e.blob \in blobs
        /\ e = Receipt(e.blob) \/ log[Receipt(e.blob)] # None
    BY <2>1, NowType DEF Task, Handler, Receipt, Body
  <2>4. /\ log'[e] # None
        /\ \A x \in Body : x # e => log'[x] = log[x]
        /\ \A x \in Body : log[x] # None => log'[x] # None
    BY <2>2, <2>3, <1>1 DEF Sealed, Grows, Safe, TInv, TypeOK, Log
  <2>5. /\ e.blob \in blobs' /\ blobs \subseteq blobs'
        /\ log'[Receipt(e.blob)] # None
    BY <2>3, <2>4, <1>1, EventTypes DEF Grows
  <2>6. ASSUME NEW x \in Body, log'[x] # None
        PROVE  x.blob \in blobs' /\ log'[Receipt(x.blob)] # None
    <3>1. CASE x = e
      BY <3>1, <2>5
    <3>2. CASE x # e
      <4>1. x.blob \in blobs /\ log[Receipt(x.blob)] # None
        BY <3>2, <2>4, <2>6 DEF Safe, NothingDangles, EventsRooted
      <4>2. Receipt(x.blob) \in Body
        BY EventTypes DEF Body
      <4> QED
        BY <4>1, <4>2, <2>4, <2>5
    <3> QED
      BY <3>1, <3>2
  <2> QED
    BY <2>6 DEF EventsRooted, Receipt
<1>4. CASE ~ \E p \in Actor : Append(p)
  BY <1>4, <1>2, LogFrame
<1> QED
  BY <1>3, <1>4

LEMMA NextRowsRooted == ASSUME Safe, TInv', [Next]_vars PROVE RowsRooted'
<1> USE StoreAssumption
<1>1. Grows
  BY NextGrows
<1>2. ASSUME UNCHANGED rows PROVE RowsRooted'
  BY <1>1, <1>2 DEF Grows, Safe, NothingDangles, RowsRooted, HasReceipt
<1>3. ASSUME rows' = {} PROVE RowsRooted'
  BY <1>3 DEF RowsRooted
<1>4. ASSUME rows \subseteq rows',
             \A r \in rows' \ rows : /\ HasReceipt(r.body.blob)'
                                     /\ r.body \in Body => log'[r.body] # None
      PROVE  RowsRooted'
  <2>1. ASSUME NEW r \in rows
        PROVE  /\ \E x \in rows' : x.body = Receipt(r.body.blob)
               /\ r.body \in Body => log'[r.body] # None
    BY <1>1, <1>4 DEF Grows, Safe, NothingDangles, RowsRooted, HasReceipt
  <2> QED
    BY <2>1, <1>4 DEF RowsRooted, HasReceipt
<1>5. ASSUME NEW p \in Actor, NEW b \in Blob, Reextract(p, b) PROVE RowsRooted'
  <2>1. HasReceipt(b) /\ \E t : rows' = rows \cup {[body |-> Requeue(b), at |-> t]}
    BY <1>5 DEF Reextract
  <2>2. Requeue(b).blob = b /\ Requeue(b) \notin Body
    BY DEF Requeue, Body
  <2> QED
    BY <2>1, <2>2, <1>4 DEF HasReceipt
<1>6. ASSUME NEW p \in Actor, ApplyReceipt(p) PROVE RowsRooted'
  <2>1. Handler(p) /\ pc[p] = "apply" /\ task[p].kind = "receipt" /\ UNCHANGED log
    BY <1>6 DEF ApplyReceipt, Safe, Handlers, store
  <2>2. rows' = rows \/ rows' = rows \cup task[p].put
    BY <1>6 DEF ApplyReceipt
  <2>3. ASSUME NEW r \in task[p].put
        PROVE  /\ r.body = Receipt(r.body.blob)
               /\ log'[r.body] # None
    BY <2>1 DEF Handler
  <2> QED
    BY <2>2, <2>3, <1>4 DEF HasReceipt
<1>7. ASSUME NEW p \in Actor, ApplyRows(p) PROVE RowsRooted'
  <2>1. Handler(p) /\ pc[p] = "apply" /\ UNCHANGED log
    BY <1>7 DEF ApplyRows, Safe, Handlers, store
  <2>2. rows' = rows \/ (rows' = rows \cup task[p].put /\ HasReceipt(task[p].blob))
    BY <1>7 DEF ApplyRows
  <2>3. ASSUME NEW r \in task[p].put
        PROVE  r.body.blob = task[p].blob /\ log'[r.body] # None
    BY <2>1 DEF Handler
  <2> QED
    BY <2>2, <2>3, <1>4 DEF HasReceipt
<1>8. CASE UnlockFinish
  <2>1. CASE ~Unlocking
    BY <1>8, <2>1, <1>2 DEF UnlockFinish
  <2>2. CASE Unlocking
    <3>1. PICK late \in SUBSET Since : rows' = Replayed(rows, Listed(late))
      BY <1>8, <2>2, Zenon DEF UnlockFinish
    <3>2. UNCHANGED log
      BY <1>8 DEF UnlockFinish, store
    <3>3. ASSUME NEW r \in rows' \ rows
          PROVE  /\ \E x \in rows' : x.body = Receipt(r.body.blob)
                 /\ r.body \in Body => log'[r.body] # None
      <4>1. r.body \in Body /\ Listed(late)[r.body] # None
        BY <3>1, <3>3 DEF Replayed
      <4>2. log'[r.body] # None
        BY <3>2, <4>1 DEF Listed
      <4>3. CASE r.body.kind = "receipt"
        <5>1. r.body = Receipt(r.body.blob)
          BY <4>1, <4>3 DEF Body, Receipt
        <5> QED
          BY <3>3, <4>2, <5>1
      <4>4. CASE r.body.kind # "receipt"
        BY <3>1, <3>3, <4>2, <4>4 DEF Replayed
      <4> QED
        BY <4>3, <4>4
    <3>4. rows \subseteq rows'
      BY <3>1 DEF Replayed
    <3> QED
      BY <3>3, <3>4, <1>4 DEF HasReceipt
  <2> QED
    BY <2>1, <2>2
<1>9. CASE Lock \/ OpenEmpty \/ UnlockFresh
  BY <1>9, <1>3 DEF Lock, OpenEmpty, UnlockFresh
<1>10. CASE Quiet
  BY <1>10, <1>2, QuietFrame
<1>11. ASSUME NEW p \in Actor, Append(p) \/ Crash(p) PROVE RowsRooted'
  BY <1>11, <1>2 DEF Append, Crash, cache
<1>12. CASE UnlockKilled
  BY <1>12, <1>2 DEF UnlockKilled, cache
<1> QED
  BY <1>5, <1>6, <1>7, <1>8, <1>9, <1>10, <1>11, <1>12, NextCases

LEMMA NextSnapshot == ASSUME Safe, TInv', [Next]_vars PROVE Snapshot'
<1> USE StoreAssumption
<1>1. Grows
  BY NextGrows
<1>2. gen \in Nat /\ gen' \in Nat /\ replaying.gen \in Nat
  BY DEF Safe, TInv, TypeOK
<1>3. ASSUME UNCHANGED replaying, (gen' = gen /\ open' = open) \/ gen' = gen + 1
      PROVE  Snapshot'
  <2>1. Unlocking' => Unlocking /\ open' = open
    BY <1>2, <1>3 DEF Safe, Snapshot, Unlocking
  <2> QED
    BY <1>1, <1>2, <1>3, <2>1 DEF Grows, Safe, Snapshot
<1>4. ASSUME replaying' = [on |-> FALSE, snap |-> NoLog, gen |-> 0] PROVE Snapshot'
  BY <1>2, <1>4 DEF Snapshot, NoLog, Unlocking
<1>5. CASE Lock \/ OpenEmpty
  BY <1>5, <1>3 DEF Lock, OpenEmpty
<1>6. CASE UnlockFresh
  <2>1. replaying' = [on |-> TRUE, snap |-> log, gen |-> gen'] /\ UNCHANGED log
    BY <1>6 DEF UnlockFresh, store
  <2>2. \A e \in Body : log[e] # None => log[Receipt(e.blob)] # None
    BY DEF Safe, NothingDangles, EventsRooted
  <2>3. open' = TRUE
    BY <1>6 DEF UnlockFresh
  <2> QED
    BY <1>2, <2>1, <2>2, <2>3 DEF Snapshot, Receipt
<1>7. CASE UnlockFinish \/ UnlockKilled
  BY <1>7, <1>4 DEF UnlockFinish, UnlockKilled
<1>8. CASE Quiet
  BY <1>8, <1>3, QuietFrame
<1>9. ASSUME NEW p \in Actor, NEW b \in Blob, Reextract(p, b) PROVE Snapshot'
  BY <1>9, <1>3 DEF Reextract
<1>10. ASSUME NEW p \in Actor, Append(p) \/ Crash(p) PROVE Snapshot'
  BY <1>10, <1>3 DEF Append, Crash, cache
<1>11. ASSUME NEW p \in Actor, ApplyReceipt(p) \/ ApplyRows(p) PROVE Snapshot'
  BY <1>11, <1>3 DEF ApplyReceipt, ApplyRows
<1> QED
  BY <1>5, <1>6, <1>7, <1>8, <1>9, <1>10, <1>11, NextCases

LEMMA SafeInvariant == Spec => []Safe
<1>1. Safe /\ [Next]_vars => Safe'
  BY NextTInv, NextHandlers, NextEventsRooted, NextRowsRooted, NextSnapshot
     DEF Safe, NothingDangles
<1> QED
  BY <1>1, InitSafe, PTL DEF Spec

(***************************************************************************)
(* Whatever is killed, locked or interleaved, and whichever way the clock  *)
(* steps, nothing points at nothing (service.ingest_bytes).                *)
(***************************************************************************)
THEOREM NothingEverDangles == Spec => []NothingDangles
<1>1. Safe => NothingDangles
  BY DEF Safe
<1> QED
  BY <1>1, SafeInvariant, PTL

-----------------------------------------------------------------------------
(* The log, and what an unlock makes of it. *)

(***************************************************************************)
(* The log of the receipt path is the append-only table of AppendLog:      *)
(* whatever a handler appends twice keeps its first stamp, and no lock,    *)
(* unlock or kill touches it.                                              *)
(***************************************************************************)
THEOREM LogImplementsTable == Spec => TableSpec
<1>1. Init => Table!Init
  BY DEF Init, NoLog, Table!Init
<1>2. Safe /\ [Next]_vars => [log' # log => Table!Next]_log
  <2> SUFFICES ASSUME Safe, Next, ~ UNCHANGED log PROVE Table!Next
    BY DEF vars
  <2>1. PICK p \in Actor : Append(p)
    BY LogFrame
  <2>2. task[p] \in Task
    BY <2>1 DEF Append, Safe, TInv, Working
  <2>3. PICK e \in task[p].todo, t \in Now : log' = Sealed(e, t)
    BY <2>1 DEF Append
  <2>4. e \in Body /\ t \in Stamp
    BY <2>2, NowType DEF Task
  <2> QED
    BY <2>3, <2>4 DEF Sealed, Table!Next, Table!Append
<1> QED
  BY <1>1, <1>2, SafeInvariant, PTL DEF Spec, TableSpec

LEMMA ReplayedHasAll ==
  ASSUME Safe, NEW late \in SUBSET Since, NEW e \in Body, replaying.snap[e] # None
  PROVE  \E r \in Replayed(rows, Listed(late)) : r.body = e
<1> DEFINE snap == Listed(late)
           event(x) == [body |-> x, at |-> snap[x]]
           receipts == rows \cup {event(x) : x \in {y \in Body :
                    /\ snap[y] # None
                    /\ y.kind = "receipt"
                    /\ \A r \in rows : r.body # y}}
           others == {event(x) : x \in {y \in Body :
                    /\ snap[y] # None
                    /\ y.kind # "receipt"
                    /\ \E r \in receipts : r.body = Receipt(y.blob)}}
<1>1. Replayed(rows, snap) = receipts \cup others
  BY DEF Replayed
<1>2. ASSUME NEW x \in Body, snap[x] # None, x.kind = "receipt"
      PROVE  \E r \in receipts : r.body = x
  <2>1. CASE \E r \in rows : r.body = x
    BY <2>1
  <2>2. CASE ~ \E r \in rows : r.body = x
    <3>1. event(x) \in receipts /\ event(x).body = x
      BY <1>2, <2>2
    <3> QED
      BY <3>1
  <2> QED
    BY <2>1, <2>2
<1>3. \A x \in Body : replaying.snap[x] # None => snap[x] # None
  BY DEF Listed, Safe, Snapshot
<1>4. CASE e.kind = "receipt"
  BY <1>1, <1>2, <1>3, <1>4
<1>5. CASE e.kind # "receipt"
  <2>1. snap[Receipt(e.blob)] # None /\ Receipt(e.blob) \in Body
    <3>1. replaying.snap[Receipt(e.blob)] # None /\ e.blob \in Blob
      BY DEF Safe, Snapshot, Body
    <3> QED
      BY <3>1, <1>3, EventTypes
  <2>2. Receipt(e.blob).kind = "receipt"
    BY DEF Receipt
  <2>3. \E r \in receipts : r.body = Receipt(e.blob)
    BY <2>1, <2>2, <1>2
  <2>4. event(e) \in others /\ event(e).body = e
    BY <2>3, <1>3, <1>5
  <2> HIDE DEF receipts, others, event
  <2> QED
    BY <2>4, <1>1
<1> QED
  BY <1>4, <1>5

(***************************************************************************)
(* An unlock leaves every event there was when it began in the cache, in   *)
(* whatever order their stamps are, whatever handlers did to the log and   *)
(* the new database in the meantime, and whatever of that the listing met  *)
(* (replay.run's two passes).                                              *)
(***************************************************************************)
THEOREM UnlockMissesNothing == Spec => UnlockPicksUpEverything
<1>1. Safe /\ [Next]_vars =>
        [UnlockFinish /\ Unlocking =>
           \A e \in Body : replaying.snap[e] # None => \E r \in rows' : r.body = e]_vars
  <2> SUFFICES ASSUME Safe, UnlockFinish, Unlocking, NEW e \in Body,
                      replaying.snap[e] # None
               PROVE  \E r \in rows' : r.body = e
    OBVIOUS
  <2>1. PICK late \in SUBSET Since : rows' = Replayed(rows, Listed(late))
    BY Zenon DEF UnlockFinish
  <2> QED
    BY <2>1, ReplayedHasAll
<1> QED
  BY <1>1, SafeInvariant, PTL DEF Spec, UnlockPicksUpEverything

-----------------------------------------------------------------------------
(* Replay reproduces the cache. *)

LEMMA InitMirrored == Init => Mirrored
<1> SUFFICES ASSUME Init PROVE Mirrored
  OBVIOUS
<1>1. RowsLogged /\ PutsLogged /\ LogCovered
  BY DEF Init, RowsLogged, PutsLogged, LogCovered
<1>2. Once
  BY DEF Init, Once, Dated, Apart, PutsBeside, PutBeside, RowsBeside, TwiceBeside, Unlocking,
     NoLog, Idle
<1> QED
  BY <1>1, <1>2, InitSafe DEF Mirrored

\* Only an empty database forgives.
LEMMA NextDrift ==
  ASSUME Safe, [Next]_vars
  PROVE  drift \subseteq drift' \/ UnlockFresh \/ OpenEmpty
<1>1. ASSUME NEW p \in Actor, Append(p) PROVE drift \subseteq drift'
  BY <1>1 DEF Append
<1>2. ASSUME NEW p \in Actor, Crash(p) PROVE drift \subseteq drift'
  BY <1>2 DEF Crash
<1>3. ASSUME NEW p \in Actor, NEW b \in Blob, Reextract(p, b) PROVE drift \subseteq drift'
  BY <1>3 DEF Reextract
<1>4. ASSUME UnlockKilled PROVE drift \subseteq drift'
  BY <1>4 DEF UnlockKilled, Safe, TInv, TypeOK
<1>5. CASE Quiet
  BY <1>5, QuietFrame
<1>6. ASSUME NEW p \in Actor, ApplyReceipt(p) \/ ApplyRows(p) PROVE drift \subseteq drift'
  BY <1>6 DEF ApplyReceipt, ApplyRows, history
<1>7. Lock \/ UnlockFinish => drift \subseteq drift'
  BY DEF Lock, UnlockFinish, history
<1> QED
  BY <1>1, <1>2, <1>3, <1>4, <1>5, <1>6, <1>7, NextCases

LEMMA NextRowsLogged == ASSUME Mirrored, TInv', [Next]_vars PROVE RowsLogged'
<1> USE StoreAssumption
<1>1. Safe /\ Grows
  BY NextGrows DEF Mirrored
<1>2. ASSUME drift \subseteq drift',
             \A r \in rows' \ rows : r.body.blob \notin drift' =>
               r.body \in Body /\ log'[r.body] = r.at
      PROVE  RowsLogged'
  <2>1. ASSUME NEW r \in rows, r.body.blob \notin drift'
        PROVE  r.body \in Body /\ log'[r.body] = r.at
    <3>1. r.body \in Body /\ log[r.body] = r.at
      BY <2>1, <1>2 DEF Mirrored, RowsLogged
    <3>2. r.at # None
      BY <1>1 DEF Safe, TInv, TypeOK, Row
    <3> QED
      BY <3>1, <3>2, <1>1 DEF Grows
  <2> QED
    BY <2>1, <1>2 DEF RowsLogged
<1>3. ASSUME rows' = {} PROVE RowsLogged'
  BY <1>3 DEF RowsLogged
<1>4. CASE Lock \/ OpenEmpty \/ UnlockFresh
  BY <1>4, <1>3 DEF Lock, OpenEmpty, UnlockFresh
<1>5. ASSUME NEW p \in Actor, NEW b \in Blob, Reextract(p, b) PROVE RowsLogged'
  <2>1. drift' = drift \cup {b} /\ \E t : rows' = rows \cup {[body |-> Requeue(b), at |-> t]}
    BY <1>5 DEF Reextract
  <2> QED
    BY <2>1, <1>2 DEF Requeue
<1>6. ASSUME NEW p \in Actor, ApplyReceipt(p) \/ ApplyRows(p) PROVE RowsLogged'
  <2>1. Handler(p) /\ pc[p] = "apply" /\ UNCHANGED <<log, drift>>
    BY <1>1, <1>6 DEF ApplyReceipt, ApplyRows, Safe, Handlers, store, history
  <2>2. \/ rows' = rows
        \/ /\ rows' = rows \cup task[p].put /\ Current(p)
           /\ task[p].kind # "receipt" \/ ~HasReceipt(task[p].blob)
    BY <1>6 DEF ApplyReceipt, ApplyRows
  <2>3. CASE rows' = rows
    BY <2>1, <2>3, <1>2
  <2>4. CASE /\ rows' = rows \cup task[p].put /\ Current(p)
             /\ task[p].kind # "receipt" \/ ~HasReceipt(task[p].blob)
    <3>1. ~ task[p].known
      BY <2>1, <2>4 DEF Handler
    <3>2. ASSUME NEW r \in task[p].put, r.body.blob \notin drift
          PROVE  r.body \in Body /\ log[r.body] = r.at
      <4>1. r.body \in Body /\ r.body.blob = task[p].blob
        BY <2>1 DEF Handler
      <4> QED
        BY <4>1, <3>1, <3>2, <2>1, <2>4 DEF Mirrored, PutsLogged
    <3> QED
      BY <3>2, <2>1, <2>4, <1>2
  <2> QED
    BY <2>2, <2>3, <2>4
<1>7. CASE UnlockFinish
  <2>1. UNCHANGED <<log, drift>>
    BY <1>7 DEF UnlockFinish, store, history
  <2>2. ASSUME NEW r \in rows' \ rows PROVE r.body \in Body /\ log[r.body] = r.at
    <3>1. PICK late \in SUBSET Since : rows' = Replayed(rows, Listed(late))
      BY <1>7, <2>2, Zenon DEF UnlockFinish
    <3>2. /\ r.body \in Body /\ Listed(late)[r.body] # None
          /\ r.at = Listed(late)[r.body]
      BY <2>2, <3>1 DEF Replayed
    <3> QED
      BY <3>2 DEF Listed
  <2> QED
    BY <2>1, <2>2, <1>2
<1>8. ASSUME UNCHANGED rows, drift \subseteq drift' PROVE RowsLogged'
  BY <1>8, <1>2
<1>9. CASE Quiet
  BY <1>9, <1>8, QuietFrame
<1>10. ASSUME NEW p \in Actor, Append(p) \/ Crash(p) PROVE RowsLogged'
  BY <1>10, <1>8 DEF Append, Crash, cache
<1>11. CASE UnlockKilled
  <2>1. drift \subseteq drift'
    BY <1>11, <1>1 DEF UnlockKilled, Safe, TInv, TypeOK
  <2> QED
    BY <2>1, <1>11, <1>8 DEF UnlockKilled, cache
<1> QED
  BY <1>4, <1>5, <1>6, <1>7, <1>9, <1>10, <1>11, NextCases

PutLogged(p) ==
  pc[p] # "idle" /\ Current(p) /\ ~task[p].known /\ task[p].blob \notin drift =>
    \A r \in task[p].put : log[r.body] = r.at

LEMMA NextPutsLogged == ASSUME Mirrored, TInv', [Next]_vars PROVE PutsLogged'
<1> USE StoreAssumption
<1>1. Safe /\ Grows
  BY NextGrows DEF Mirrored
<1>2. ASSUME NEW q \in Actor, pc[q] # "idle",
             task'[q].put = task[q].put, task'[q].blob = task[q].blob,
             task'[q].known = task[q].known, task'[q].gen = task[q].gen
      PROVE  PutLogged(q)'
  <2>1. /\ Handler(q) /\ task[q] \in Task /\ task[q].gen \in Nat /\ gen \in Nat
        /\ task[q].put \in SUBSET Row
    BY <1>1, <1>2 DEF Safe, Handlers, TInv, TypeOK, Working, Task
  <2>2. SUFFICES ASSUME Current(q)', ~task[q].known, task[q].blob \notin drift',
                        NEW r \in task[q].put
                 PROVE  log'[r.body] = r.at
    BY <1>2 DEF PutLogged
  <2>3. Current(q) /\ gen' = gen
    BY <2>1, <2>2, <1>1, <1>2 DEF Current, Handler, Grows
  <2>4. drift \subseteq drift'
    <3>1. UnlockFresh \/ OpenEmpty => gen' = gen + 1
      BY DEF UnlockFresh, OpenEmpty
    <3> QED
      BY <2>1, <2>3, <3>1, <1>1, NextDrift
  <2>5. log[r.body] = r.at /\ r.at # None /\ r.body \in Body
    BY <2>1, <2>2, <2>3, <2>4, <1>2 DEF Mirrored, PutsLogged, Handler, Row
  <2> QED
    BY <2>5, <1>1 DEF Grows
<1>3. ASSUME NEW q \in Actor, pc'[q] = pc[q], task'[q] = task[q] PROVE PutLogged(q)'
  BY <1>2, <1>3 DEF PutLogged
<1> DEFINE Others(p) == \A q \in Actor \ {p} : pc'[q] = pc[q] /\ task'[q] = task[q]
<1>o. ASSUME NEW p \in Actor, PutLogged(p)', Others(p) PROVE PutsLogged'
  <2>1. \A q \in Actor : PutLogged(q)'
    BY <1>o, <1>3
  <2> QED
    BY <2>1 DEF PutLogged, PutsLogged
<1>s. ASSUME UNCHANGED <<pc, task>> PROVE PutsLogged'
  <2>1. \A q \in Actor : PutLogged(q)'
    BY <1>s, <1>3
  <2> QED
    BY <2>1 DEF PutLogged, PutsLogged
<1>f. ASSUME NEW p \in Actor, Finish(p) PROVE PutsLogged'
  BY <1>f, <1>1, <1>o DEF Finish, PutLogged, Safe, TInv, TypeOK
<1>4. ASSUME NEW p \in Actor,
             \E b, kind, todo, known, next : Start(p, kind, b, todo, known, next)
      PROVE  PutsLogged'
  <2>1. task'[p].put = {} /\ Others(p)
    BY <1>4, <1>1 DEF Start, Safe, TInv, TypeOK
  <2> QED
    BY <2>1, <1>o DEF PutLogged
<1>5. ASSUME NEW p \in Actor, NEW b \in Blob,
             Ingest(p, b) \/ AskModel(p, b) \/ CannotRender(p, b)
      PROVE  PutsLogged'
  BY <1>4, <1>5 DEF Ingest, AskModel, CannotRender
<1>6. ASSUME NEW p \in Actor, NEW b \in Blob, NEW D \in SUBSET Field,
             NEW form \in [D -> MaybeValue], Correct(p, b, D, form)
      PROVE  PutsLogged'
  BY <1>4, <1>6 DEF Correct
<1>7. ASSUME NEW p \in Actor, Answered(p) \/ ReadRows(p) PROVE PutsLogged'
  <2>1. task[p] \in Task /\ pc[p] # "idle"
    BY <1>1, <1>7 DEF Answered, ReadRows, Safe, TInv, Working
  <2>2. /\ task'[p].put = task[p].put /\ task'[p].blob = task[p].blob
        /\ task'[p].known = task[p].known /\ task'[p].gen = task[p].gen
        /\ Others(p)
    BY <1>1, <1>7, <2>1 DEF Answered, ReadRows, Safe, TInv, TypeOK, Task
  <2> QED
    BY <2>1, <2>2, <1>2, <1>o
<1>8. ASSUME NEW p \in Actor, ApplyRows(p) PROVE PutsLogged'
  <2>1. pc[p] # "idle" /\ task' = task /\ Others(p)
    BY <1>1, <1>8 DEF ApplyRows, Safe, TInv, TypeOK
  <2> QED
    BY <2>1, <1>2, <1>o
<1>9. ASSUME NEW p \in Actor, Append(p) PROVE PutsLogged'
  <2>1. task[p] \in Task /\ Handler(p) /\ pc[p] = "append"
    BY <1>1, <1>9 DEF Append, Safe, Handlers, TInv, Working
  <2>2. PICK e \in task[p].todo, t \in Now :
          /\ log' = Sealed(e, t)
          /\ task' = [task EXCEPT ![p].todo = @ \ {e},
                                  ![p].put = @ \cup {[body |-> e, at |-> t]}]
          /\ pc' = [pc EXCEPT ![p] = IF task[p].todo = {e} THEN "apply" ELSE "append"]
          /\ drift' = IF \/ log[e] = None /\ ~Current(p)
                         \/ log[e] # None /\ ~task[p].known
                        THEN drift \cup {e.blob} ELSE drift
    BY <1>9 DEF Append
  <2>3. /\ e \in Body /\ t \in Stamp /\ t # None /\ task[p].blob \in Blob
        /\ e.blob = task[p].blob
    BY <2>1, NowType DEF Task, Handler
  <2> DEFINE x == [body |-> e, at |-> t]
  <2>4. /\ task'[p].put = task[p].put \cup {x}
        /\ task'[p].blob = task[p].blob
        /\ task'[p].known = task[p].known /\ task'[p].gen = task[p].gen
        /\ Others(p)
    BY <2>1, <2>2, <1>1 DEF Safe, TInv, TypeOK, Task
  <2>5. gen' = gen
    BY <1>9 DEF Append, cache
  <2>6. SUFFICES ASSUME Current(p), ~task[p].known, task[p].blob \notin drift',
                        NEW r \in task'[p].put
                 PROVE  log'[r.body] = r.at
    <3>1. Current(p)' <=> Current(p)
      BY <2>4, <2>5 DEF Current
    <3>2. PutLogged(p)'
      BY <2>4, <2>6, <3>1 DEF PutLogged
    <3> QED
      BY <3>2, <2>4, <1>o
  <2>7. log[e] = None /\ task[p].blob \notin drift
    BY <2>2, <2>3, <2>6
  <2>8. CASE r = x
    BY <2>2, <2>3, <2>7, <2>8, <1>1 DEF Sealed, Safe, TInv, TypeOK, Log
  <2>9. CASE r \in task[p].put
    <3>1. log[r.body] = r.at /\ r.at # None /\ r.body \in Body
      BY <2>1, <2>6, <2>7, <2>9 DEF Mirrored, PutsLogged, Handler, Task, Row
    <3> QED
      BY <3>1, <1>1 DEF Grows
  <2> QED
    BY <2>4, <2>8, <2>9
<1>10. ASSUME NEW p \in Actor, ApplyReceipt(p) \/ WriteProjection(p) \/ Crash(p)
       PROVE  PutsLogged'
  BY <1>10, <1>f DEF ApplyReceipt, WriteProjection, Crash
<1>11. CASE \/ UNCHANGED vars
            \/ Lock \/ OpenEmpty \/ UnlockKey \/ UnlockFresh \/ UnlockFinish \/ UnlockKilled
            \/ \E p \in Actor, b \in Blob : IngestLocked(p, b) \/ Reextract(p, b)
  BY <1>11, <1>s DEF vars, Lock, OpenEmpty, UnlockKey, UnlockFresh, UnlockFinish, UnlockKilled, IngestLocked,
     Reextract
<1> QED
  BY <1>5, <1>6, <1>7, <1>8, <1>9, <1>10, <1>11 DEF Next

\* Whatever p does, what the others are about to make rows still is.
LEMMA PendingKept ==
  ASSUME Safe, TInv', NEW p \in Actor, NEW e \in Body, gen' = gen, Pending(e),
         \A q \in Actor \ {p} : pc'[q] = pc[q] /\ task'[q] = task[q]
  PROVE  \/ Pending(e)'
         \/ /\ pc[p] \in {"append", "apply"}
            /\ Current(p)
            /\ \E r \in task[p].put : r.body = e
BY DEF Pending, Current

LEMMA NextLogCovered == ASSUME Mirrored, TInv', [Next]_vars PROVE LogCovered'
<1> USE StoreAssumption
<1>1. Safe /\ Grows
  BY NextGrows DEF Mirrored
<1> DEFINE Others(p) == \A q \in Actor \ {p} : pc'[q] = pc[q] /\ task'[q] = task[q]
           Mine(p, e) == /\ pc[p] \in {"append", "apply"}
                         /\ Current(p)
                         /\ \E r \in task[p].put : r.body = e
\* A step of p over which what was covered stays covered.
<1>2. ASSUME NEW p \in Actor, Others(p), UNCHANGED <<log, gen, replaying, open>>,
             rows \subseteq rows', drift \subseteq drift',
             \A e \in Body : Mine(p, e) /\ e.blob \notin drift' => Present(e)' \/ Pending(e)'
      PROVE  LogCovered'
  <2>1. SUFFICES ASSUME open, NEW e \in Body, log[e] # None, e.blob \notin drift'
                 PROVE  Present(e)' \/ Pending(e)' \/ (Unlocking /\ replaying.snap[e] # None)
    BY <1>2 DEF LogCovered, Unlocking
  <2>2. Present(e) \/ Pending(e) \/ (Unlocking /\ replaying.snap[e] # None)
    BY <2>1, <1>2 DEF Mirrored, LogCovered
  <2>3. Present(e) => Present(e)'
    BY <1>2 DEF Present
  <2>4. Pending(e) => Pending(e)' \/ Mine(p, e)
    BY <1>1, <1>2, PendingKept
  <2> QED
    BY <2>1, <2>2, <2>3, <2>4, <1>2
<1>3. ASSUME UNCHANGED <<log, gen, replaying, open, pc, task>>,
             rows \subseteq rows', drift \subseteq drift'
      PROVE  LogCovered'
  BY <1>3 DEF Mirrored, LogCovered, Present, Pending, Current, Unlocking
<1>4. ASSUME NEW p \in Actor, NEW b \in Blob,
             \/ Ingest(p, b) \/ AskModel(p, b) \/ CannotRender(p, b)
             \/ \E D \in SUBSET Field : \E form \in [D -> MaybeValue] : Correct(p, b, D, form)
      PROVE  LogCovered'
  <2>1. \E kind, todo, known, next : Start(p, kind, b, todo, known, next)
    BY <1>4 DEF Ingest, AskModel, CannotRender, Correct
  <2>2. Others(p) /\ pc[p] = "idle"
    BY <1>1, <2>1 DEF Start, Safe, TInv, TypeOK
  <2>3. UNCHANGED <<log, gen, replaying, open, rows, drift>>
    BY <1>4 DEF Ingest, AskModel, CannotRender, Correct, store, cache, history
  <2> QED
    BY <2>2, <2>3, <1>2
<1>5. ASSUME NEW p \in Actor, Answered(p) \/ ReadRows(p) \/ WriteProjection(p)
      PROVE  LogCovered'
  <2>1. /\ Others(p) /\ pc[p] \notin {"append", "apply"}
    BY <1>1, <1>5 DEF Answered, ReadRows, WriteProjection, Finish, Safe, TInv, TypeOK
  <2>2. UNCHANGED <<log, gen, replaying, open, rows, drift>>
    BY <1>5 DEF Answered, ReadRows, WriteProjection, store, cache, history
  <2> QED
    BY <2>1, <2>2, <1>2
<1>6. ASSUME NEW p \in Actor, ApplyReceipt(p) PROVE LogCovered'
  <2>1. Handler(p) /\ Others(p) /\ task[p].kind = "receipt" /\ pc[p] = "apply"
    BY <1>1, <1>6 DEF ApplyReceipt, Finish, Safe, Handlers, TInv, TypeOK
  <2>2. UNCHANGED <<log, gen, replaying, open, drift>> /\ rows \subseteq rows'
    BY <1>6 DEF ApplyReceipt, store, history
  <2>3. ASSUME NEW e \in Body, Mine(p, e) PROVE Present(e)'
    <3>1. rows' = rows \cup IF HasReceipt(task[p].blob) THEN {} ELSE task[p].put
      BY <1>6, <2>3 DEF ApplyReceipt
    <3>2. e = Receipt(task[p].blob)
      BY <2>1, <2>3 DEF Handler
    <3> QED
      BY <3>1, <3>2, <2>3 DEF HasReceipt, Present
  <2> QED
    BY <2>1, <2>2, <2>3, <1>2
<1>7. ASSUME NEW p \in Actor, ApplyRows(p) PROVE LogCovered'
  <2>1. Handler(p) /\ Others(p) /\ task[p].kind # "receipt" /\ pc[p] = "apply"
    BY <1>1, <1>7 DEF ApplyRows, Safe, Handlers, TInv, TypeOK
  <2>2. UNCHANGED <<log, gen, replaying, open, drift>> /\ rows \subseteq rows'
    BY <1>7 DEF ApplyRows, store, history
  <2>3. ASSUME NEW e \in Body, Mine(p, e) PROVE Present(e)'
    <3>1. HasReceipt(task[p].blob)
      BY <2>1, <2>3 DEF Handler
    <3>2. rows' = rows \cup task[p].put
      BY <1>7, <2>3, <3>1 DEF ApplyRows
    <3> QED
      BY <3>2, <2>3 DEF Present
  <2> QED
    BY <2>1, <2>2, <2>3, <1>2
<1>8. ASSUME NEW p \in Actor, Crash(p) PROVE LogCovered'
  <2>1. Handler(p) /\ Others(p) /\ pc[p] # "idle"
    BY <1>1, <1>8 DEF Crash, Finish, Safe, Handlers, TInv, TypeOK
  <2>2. UNCHANGED <<log, gen, replaying, open, rows>>
    BY <1>8 DEF Crash, store, cache
  <2>3. /\ drift' = IF Current(p) /\ task[p].put # {}
                     THEN drift \cup {task[p].blob} ELSE drift
    BY <1>8 DEF Crash
  <2>4. ASSUME NEW e \in Body, Mine(p, e) PROVE e.blob \in drift'
    BY <2>1, <2>3, <2>4 DEF Handler
  <2> QED
    BY <2>1, <2>2, <2>3, <2>4, <1>2
<1>9. ASSUME NEW p \in Actor, Append(p) PROVE LogCovered'
  <2>1. task[p] \in Task /\ Handler(p) /\ pc[p] = "append"
    BY <1>1, <1>9 DEF Append, Safe, Handlers, TInv, Working
  <2>2. PICK e \in task[p].todo, t \in Now :
          /\ log' = Sealed(e, t)
          /\ task' = [task EXCEPT ![p].todo = @ \ {e},
                                  ![p].put = @ \cup {[body |-> e, at |-> t]}]
          /\ pc' = [pc EXCEPT ![p] = IF task[p].todo = {e} THEN "apply" ELSE "append"]
          /\ drift' = IF \/ log[e] = None /\ ~Current(p)
                         \/ log[e] # None /\ ~task[p].known
                        THEN drift \cup {e.blob} ELSE drift
    BY <1>9 DEF Append
  <2>3. e \in Body /\ UNCHANGED <<gen, replaying, open, rows>>
    BY <2>1, <1>9 DEF Task, Append, cache
  <2>4. /\ task'[p].put = task[p].put \cup {[body |-> e, at |-> t]}
        /\ task'[p].gen = task[p].gen
        /\ pc'[p] \in {"append", "apply"}
        /\ Others(p)
    BY <2>1, <2>2, <1>1 DEF Safe, TInv, TypeOK, Task
  <2>5. \A x \in Body : x # e => log'[x] = log[x]
    BY <2>2, <2>3, <1>1 DEF Sealed, Safe, TInv, TypeOK, Log
  <2>6. SUFFICES ASSUME open, NEW x \in Body, log'[x] # None, x.blob \notin drift'
                 PROVE  Present(x)' \/ Pending(x)' \/ (Unlocking /\ replaying.snap[x] # None)
    BY <2>3 DEF LogCovered, Unlocking
  <2>7. x.blob \notin drift
    BY <2>2, <2>6
  <2>8. CASE log[x] # None
    <3>1. Present(x) \/ Pending(x) \/ (Unlocking /\ replaying.snap[x] # None)
      BY <2>6, <2>7, <2>8 DEF Mirrored, LogCovered
    <3>2. Present(x) => Present(x)'
      BY <2>3 DEF Present
    <3>3. Mine(p, x) => Pending(x)'
      BY <2>3, <2>4 DEF Pending, Current
    <3>4. Pending(x) => Pending(x)' \/ Mine(p, x)
      BY <2>3, <2>4, <1>1, PendingKept
    <3> QED
      BY <3>1, <3>2, <3>3, <3>4
  <2>9. CASE log[x] = None
    <3>1. x = e /\ Current(p)
      BY <2>2, <2>5, <2>6, <2>9
    <3>2. Current(p)'
      BY <3>1, <2>3, <2>4 DEF Current
    <3>3. [body |-> e, at |-> t] \in task'[p].put /\ [body |-> e, at |-> t].body = x
      BY <3>1, <2>4
    <3> QED
      BY <3>2, <3>3, <2>4 DEF Pending
  <2> QED
    BY <2>8, <2>9
<1>10. ASSUME NEW p \in Actor, NEW b \in Blob, IngestLocked(p, b) \/ Reextract(p, b)
       PROVE  LogCovered'
  BY <1>10, <1>3 DEF IngestLocked, Reextract, cache, history, store
<1>11. CASE Lock
  BY <1>11 DEF Lock, LogCovered
<1>12. CASE UnlockFresh
  BY <1>12 DEF UnlockFresh, LogCovered, store, Unlocking
<1>13. CASE UnlockFinish
  <2>1. UNCHANGED <<log, gen, open, pc, task, drift>>
    BY <1>13 DEF UnlockFinish, store, history
  <2>2. \A e \in Body : Pending(e) => Pending(e)'
    BY <2>1 DEF Pending, Current
  <2>3. CASE Unlocking
    <3>1. PICK late \in SUBSET Since : rows' = Replayed(rows, Listed(late))
      BY <1>13, <2>3, Zenon DEF UnlockFinish
    <3>2. \A e \in Body : Present(e) => Present(e)'
      BY <3>1 DEF Present, Replayed
    <3>3. \A e \in Body : replaying.snap[e] # None => Present(e)'
      BY <1>1, <3>1, ReplayedHasAll DEF Present
    <3> QED
      BY <2>1, <2>2, <3>2, <3>3 DEF Mirrored, LogCovered
  <2>4. CASE ~Unlocking
    <3>1. \A e \in Body : Present(e) => Present(e)'
      BY <1>13, <2>4 DEF UnlockFinish, Present
    <3> QED
      BY <2>1, <2>2, <2>4, <3>1 DEF Mirrored, LogCovered
  <2> QED
    BY <2>3, <2>4
<1>14. CASE UnlockKilled
  <2>1. CASE Unlocking
    BY <1>14, <2>1 DEF UnlockKilled, LogCovered, Body
  <2>2. CASE ~Unlocking
    <3>1. UNCHANGED <<log, gen, open, rows, pc, task, drift>>
      BY <1>14, <2>2 DEF UnlockKilled, store, cache
    <3>2. \A e \in Body : (Pending(e) => Pending(e)') /\ (Present(e) => Present(e)')
      BY <3>1 DEF Pending, Current, Present
    <3> QED
      BY <2>2, <3>1, <3>2 DEF Mirrored, LogCovered
  <2> QED
    BY <2>1, <2>2
<1>16. CASE OpenEmpty
  BY <1>16 DEF OpenEmpty, LogCovered, store
<1>17. CASE UnlockKey
  BY <1>17, <1>3 DEF UnlockKey, store, history
<1>15. CASE UNCHANGED vars
  BY <1>15, <1>3 DEF vars
<1> QED
  BY <1>4, <1>5, <1>6, <1>7, <1>8, <1>9, <1>10, <1>11, <1>12, <1>13, <1>14, <1>15,
     <1>16, <1>17 DEF Next

-----------------------------------------------------------------------------
(* And has every event once. *)

\* Over a step that appends nothing, a handler has what it had, or nothing.
Carries(q) ==
  \/ task'[q].put = {}
  \/ /\ pc[q] # "idle"
     /\ task'[q].put = task[q].put /\ task'[q].kind = task[q].kind
     /\ task'[q].blob = task[q].blob /\ task'[q].gen = task[q].gen
     /\ pc'[q] \in {"await", "append", "apply"} => pc[q] \in {"await", "append", "apply"}

LEMMA CarriesOn ==
  ASSUME TInv, [Next]_vars, ~ \E p \in Actor : Append(p), NEW q \in Actor
  PROVE  Carries(q)
<1>1. ASSUME pc'[q] = pc[q], task'[q] = task[q] PROVE Carries(q)
  BY <1>1 DEF Carries, TInv, Working, Idle
<1>2. ASSUME NEW p \in Actor, Finish(p) PROVE Carries(q)
  <2>1. CASE q = p
    BY <1>2, <2>1 DEF Finish, Carries, Idle, TInv, TypeOK
  <2>2. CASE q # p
    BY <1>1, <1>2, <2>2 DEF Finish, TInv, TypeOK
  <2> QED
    BY <2>1, <2>2
<1>3. ASSUME NEW p \in Actor,
             \E b, kind, todo, known, next : Start(p, kind, b, todo, known, next)
      PROVE  Carries(q)
  <2>1. CASE q = p
    BY <1>3, <2>1 DEF Start, Carries, TInv, TypeOK
  <2>2. CASE q # p
    BY <1>1, <1>3, <2>2 DEF Start, TInv, TypeOK
  <2> QED
    BY <2>1, <2>2
<1>4. ASSUME NEW p \in Actor, Answered(p) \/ ReadRows(p) PROVE Carries(q)
  <2>1. task[p] \in Task /\ pc[p] \in {"await", "read"}
    BY <1>4 DEF Answered, ReadRows, TInv, Working
  <2>2. CASE q = p
    BY <1>4, <2>1, <2>2 DEF Answered, ReadRows, Carries, TInv, TypeOK, Task
  <2>3. CASE q # p
    BY <1>1, <1>4, <2>3 DEF Answered, ReadRows, TInv, TypeOK
  <2> QED
    BY <2>2, <2>3
<1>5. ASSUME NEW p \in Actor, ApplyRows(p) PROVE Carries(q)
  <2>1. CASE q = p
    BY <1>5, <2>1 DEF ApplyRows, Carries, TInv, TypeOK
  <2>2. CASE q # p
    BY <1>1, <1>5, <2>2 DEF ApplyRows, TInv, TypeOK
  <2> QED
    BY <2>1, <2>2
<1>6. ASSUME NEW p \in Actor, ApplyReceipt(p) \/ WriteProjection(p) \/ Crash(p)
      PROVE  Carries(q)
  BY <1>2, <1>6 DEF ApplyReceipt, WriteProjection, Crash
<1>7. ASSUME NEW p \in Actor, NEW b \in Blob, Begins(p, b) PROVE Carries(q)
  <2>1. CASE Ingest(p, b)
    BY <1>3, <2>1 DEF Ingest
  <2>2. CASE IngestLocked(p, b)
    BY <1>1, <2>2 DEF IngestLocked
  <2>3. CASE AskModel(p, b) \/ CannotRender(p, b)
    BY <1>3, <2>3 DEF AskModel, CannotRender
  <2>4. CASE \E D \in SUBSET Field : \E form \in [D -> MaybeValue] : Correct(p, b, D, form)
    BY <1>3, <2>4 DEF Correct
  <2> QED
    BY <1>7, <2>1, <2>2, <2>3, <2>4 DEF Begins
<1>8. ASSUME UNCHANGED <<pc, task>> PROVE Carries(q)
  BY <1>1, <1>8
<1>9. CASE \/ UNCHANGED vars \/ UnlockKey
           \/ Lock \/ OpenEmpty \/ UnlockFresh \/ UnlockFinish \/ UnlockKilled
           \/ \E p \in Actor : \E b \in Blob : Reextract(p, b)
  BY <1>8, <1>9 DEF vars, UnlockKey, Lock, OpenEmpty, UnlockFresh, UnlockFinish,
     UnlockKilled, Reextract
<1> QED
  BY NextCases, <1>4, <1>5, <1>6, <1>7, <1>9 DEF Quiet

\* Where a row of the database comes from.
LEMMA NewRows ==
  ASSUME Safe, [Next]_vars, NEW r \in rows' \ rows
  PROVE  \/ \E p \in Actor : (ApplyReceipt(p) \/ ApplyRows(p)) /\ Current(p) /\ r \in task[p].put
         \/ r.body \notin Body /\ r.at \in stamps'
         \/ UnlockFinish /\ Unlocking /\ r.body \in Body /\ log[r.body] # None
              /\ r.at = log[r.body]
<1>1. CASE Quiet
  BY <1>1, QuietFrame
<1>2. ASSUME NEW p \in Actor, NEW b \in Blob, Reextract(p, b)
      PROVE  r.body \notin Body /\ r.at \in stamps'
  <2>1. PICK t \in Now : /\ stamps' = stamps \cup {t}
                         /\ rows' = rows \cup {[body |-> Requeue(b), at |-> t]}
    BY <1>2 DEF Reextract
  <2>2. Requeue(b) \notin Body
    BY DEF Requeue, Body
  <2> QED
    BY <2>1, <2>2
<1>3. ASSUME NEW p \in Actor, ApplyReceipt(p) \/ ApplyRows(p)
      PROVE  Current(p) /\ r \in task[p].put
  BY <1>3 DEF ApplyReceipt, ApplyRows
<1>4. ASSUME NEW p \in Actor, Append(p) \/ Crash(p) PROVE FALSE
  BY <1>4 DEF Append, Crash, cache
<1>5. CASE Lock \/ OpenEmpty \/ UnlockFresh \/ UnlockKilled
  BY <1>5 DEF Lock, OpenEmpty, UnlockFresh, UnlockKilled, cache
<1>6. CASE UnlockFinish
  <2>1. Unlocking
    BY <1>6 DEF UnlockFinish
  <2>2. PICK late \in SUBSET Since : rows' = Replayed(rows, Listed(late))
    BY <1>6, <2>1, Zenon DEF UnlockFinish
  <2>3. r.body \in Body /\ Listed(late)[r.body] # None /\ r.at = Listed(late)[r.body]
    BY <2>2 DEF Replayed
  <2> QED
    BY <1>6, <2>1, <2>3 DEF Listed
<1> QED
  BY NextCases, <1>1, <1>2, <1>3, <1>4, <1>5, <1>6

LEMMA StampsGrow == ASSUME TInv, [Next]_vars PROVE stamps \subseteq stamps'
<1>1. ASSUME NEW p \in Actor, Append(p) PROVE stamps \subseteq stamps'
  BY <1>1 DEF Append
<1> QED
  BY <1>1, WantedFrame

LEMMA NextDated == ASSUME Safe, Once, [Next]_vars, TInv' PROVE Dated' /\ Apart'
<1> USE StoreAssumption
<1>1. TInv /\ Dated /\ Apart /\ stamps \subseteq stamps'
  BY StampsGrow DEF Safe, Once
<1>2. ASSUME \A e \in Body : log'[e] # None => log'[e] \in stamps',
             \A p \in Actor : \A r \in task'[p].put : r.at \in stamps'
      PROVE  Dated'
  <2>1. ASSUME NEW r \in rows' PROVE r.at \in stamps'
    <3>1. CASE r \in rows
      BY <1>1, <3>1 DEF Dated
    <3>2. CASE r \notin rows
      BY <1>1, <3>2, NewRows DEF Dated
    <3> QED
      BY <3>1, <3>2
  <2> QED
    BY <1>2, <2>1 DEF Dated
<1>3. CASE ~ \E p \in Actor : Append(p)
  <2>1. UNCHANGED log
    BY <1>3, LogFrame
  <2>2. \A p \in Actor : task'[p].put = task[p].put \/ task'[p].put = {}
    BY <1>1, <1>3, CarriesOn DEF Carries
  <2>3. Dated'
    BY <1>1, <1>2, <2>1, <2>2 DEF Dated
  <2> QED
    BY <1>1, <2>2, <2>3 DEF Apart
<1>4. ASSUME NEW p \in Actor, Append(p) PROVE Dated' /\ Apart'
  <2>1. task[p] \in Task
    BY <1>1, <1>4 DEF Append, Working, TInv
  <2>2. PICK e \in task[p].todo, t \in Now :
          /\ stamps' = stamps \cup {t}
          /\ log' = Sealed(e, t)
          /\ task' = [task EXCEPT ![p].todo = @ \ {e},
                                  ![p].put = @ \cup {[body |-> e, at |-> t]}]
    BY <1>4 DEF Append
  <2>3. e \in Body /\ t \notin stamps /\ t \in stamps'
    BY <2>1, <2>2 DEF Task, Now
  <2>4. \A x \in Body : log'[x] # None => log'[x] \in stamps'
    <3>1. \A x \in Body : log'[x] = log[x] \/ log'[x] = t
      BY <1>1, <2>2, <2>3 DEF Sealed, TInv, TypeOK, Log
    <3> QED
      BY <1>1, <2>3, <3>1 DEF Dated
  <2>5. /\ task'[p].put = task[p].put \cup {[body |-> e, at |-> t]}
        /\ \A q \in Actor \ {p} : task'[q].put = task[q].put
    BY <1>1, <2>1, <2>2 DEF TInv, TypeOK, Task
  <2>6. \A q \in Actor : \A r \in task'[q].put : r.at \in stamps'
    BY <1>1, <2>3, <2>5 DEF Dated
  <2>7. \A q \in Actor : [body |-> e, at |-> t] \notin task[q].put
    BY <1>1, <2>3 DEF Dated
  <2>8. Apart'
    BY <1>1, <2>5, <2>7 DEF Apart
  <2> QED
    BY <1>2, <2>4, <2>6, <2>8
<1> QED
  BY <1>3, <1>4

\* A handler that carries on in the same database.
LEMMA BesideKept ==
  ASSUME Safe, Once, NEW q \in Actor, Carries(q), gen' = gen, beside \subseteq beside',
         Unlocking' => Unlocking,
         pc'[q] \in {"await", "append", "apply"} /\ Current(q) /\ task[q].kind # "receipt"
           /\ task[q].put \cap (rows' \ rows) # {} => task[q].blob \in beside'
  PROVE  PutBeside(q)'
<1>1. CASE task'[q].put = {}
  BY <1>1 DEF PutBeside
<1>2. CASE task'[q].put # {}
  <2>1. PutBeside(q)
    BY DEF Once, PutsBeside
  <2>2. Current(q)' <=> Current(q)
    BY <1>2 DEF Carries, Current
  <2>3. task[q].put \cap rows' # {} =>
          task[q].put \cap rows # {} \/ task[q].put \cap (rows' \ rows) # {}
    OBVIOUS
  <2> QED
    BY <1>2, <2>1, <2>2, <2>3 DEF Carries, PutBeside
<1> QED
  BY <1>1, <1>2

LEMMA NextPutsBeside == ASSUME Safe, Once, [Next]_vars, TInv' PROVE PutsBeside'
<1> USE StoreAssumption
<1>1. TInv /\ Apart /\ PutsBeside /\ Dated
  BY DEF Safe, Once
<1>2. ASSUME gen' = gen + 1, ~ \E p \in Actor : Append(p) PROVE PutsBeside'
  <2> SUFFICES ASSUME NEW q \in Actor PROVE PutBeside(q)'
    BY DEF PutsBeside
  <2>1. Carries(q)
    BY <1>1, <1>2, CarriesOn
  <2>2. CASE task'[q].put = {}
    BY <2>2 DEF PutBeside
  <2>3. CASE task'[q].put # {}
    <3>1. task[q].gen <= gen /\ task[q].gen \in Nat /\ gen \in Nat /\ task'[q].gen = task[q].gen
      BY <2>1, <2>3 DEF Carries, Safe, Handlers, Handler, TInv, TypeOK, Working, Task
    <3>2. ~Current(q)'
      BY <1>2, <3>1 DEF Current
    <3> QED
      BY <3>2 DEF PutBeside
  <2> QED
    BY <2>2, <2>3
<1>3. ASSUME UNCHANGED <<gen, beside>>, Unlocking' => Unlocking, ~ \E p \in Actor : Append(p),
             \A q \in Actor :
               pc'[q] \in {"await", "append", "apply"} /\ Current(q) /\ task[q].kind # "receipt"
                 /\ task[q].put \cap (rows' \ rows) # {} => task[q].blob \in beside
      PROVE  PutsBeside'
  BY <1>1, <1>3, CarriesOn, BesideKept DEF PutsBeside
<1>h. ASSUME NEW q \in Actor, NEW r \in task[q].put
      PROVE  /\ pc[q] # "idle" /\ r.body \in Body /\ r.body.blob = task[q].blob
  BY <1>h DEF Safe, Handlers, Handler, TInv, Working, Idle
<1>4. CASE ~ \E p \in Actor : Append(p)
  <2>1. CASE Quiet
    <3>1. UNCHANGED <<gen, beside, rows, replaying>>
      BY <2>1, QuietFrame
    <3> QED
      BY <1>3, <1>4, <3>1 DEF Unlocking
  <2>2. ASSUME NEW p \in Actor, Crash(p) PROVE PutsBeside'
    BY <1>3, <1>4, <2>2 DEF Crash, cache, Unlocking
  <2>3. CASE UnlockKilled
    BY <1>3, <1>4, <2>3 DEF UnlockKilled, cache, Unlocking
  <2>4. ASSUME NEW p \in Actor, NEW b \in Blob, Reextract(p, b) PROVE PutsBeside'
    <3>1. \A r \in rows' \ rows : r.body \notin Body
      <4>1. PICK t \in Now : rows' = rows \cup {[body |-> Requeue(b), at |-> t]}
        BY <2>4 DEF Reextract
      <4>2. Requeue(b) \notin Body
        BY DEF Requeue, Body
      <4> QED
        BY <4>1, <4>2
    <3>2. \A q \in Actor : task[q].put \cap (rows' \ rows) = {}
      BY <1>h, <3>1
    <3> QED
      BY <1>3, <1>4, <2>4, <3>2 DEF Reextract, Unlocking
  <2>5. ASSUME NEW p \in Actor, ApplyReceipt(p) \/ ApplyRows(p) PROVE PutsBeside'
    <3>1. UNCHANGED <<gen, beside, replaying>>
      BY <2>5 DEF ApplyReceipt, ApplyRows, history
    <3>2. rows' \ rows \subseteq task[p].put
      BY <2>5 DEF ApplyReceipt, ApplyRows
    <3>3. \A q \in Actor : task[q].put \cap (rows' \ rows) # {} => q = p
      BY <1>1, <3>2 DEF Apart
    <3>4. task[p].kind = "receipt" \/ pc'[p] = "read"
      BY <1>1, <2>5 DEF ApplyReceipt, ApplyRows, TInv, TypeOK
    <3> QED
      BY <1>3, <1>4, <3>1, <3>3, <3>4 DEF Unlocking
  <2>6. CASE UnlockFinish
    <3>1. UNCHANGED <<gen, beside, pc>> /\ ~Unlocking'
      BY <2>6 DEF UnlockFinish, history, Unlocking
    <3>2. ~Unlocking => rows' = rows
      BY <2>6 DEF UnlockFinish
    <3>3. \A q \in Actor :
            Current(q) /\ task[q].kind # "receipt" /\ task[q].put \cap (rows' \ rows) # {}
              => task[q].blob \in beside
      BY <1>1, <1>h, <3>2 DEF PutsBeside, PutBeside
    <3> QED
      BY <1>3, <1>4, <3>1, <3>3
  <2>7. CASE Lock \/ OpenEmpty \/ UnlockFresh
    BY <1>2, <1>4, <2>7 DEF Lock, OpenEmpty, UnlockFresh
  <2> QED
    BY NextCases, <1>4, <2>1, <2>2, <2>3, <2>4, <2>5, <2>6, <2>7
<1>5. ASSUME NEW p \in Actor, Append(p) PROVE PutsBeside'
  <2>1. task[p] \in Task /\ pc[p] = "append" /\ Handler(p)
    BY <1>1, <1>5 DEF Append, Working, TInv, Safe, Handlers
  <2>2. PICK e \in task[p].todo, t \in Now :
          /\ task' = [task EXCEPT ![p].todo = @ \ {e},
                                  ![p].put = @ \cup {[body |-> e, at |-> t]}]
          /\ pc' = [pc EXCEPT ![p] = IF task[p].todo = {e} THEN "apply" ELSE "append"]
          /\ beside' = IF Unlocking /\ Current(p) /\ task[p].kind # "receipt"
                         THEN beside \cup {e.blob} ELSE beside
    BY <1>5 DEF Append
  <2>3. UNCHANGED <<rows, gen, replaying>> /\ beside \subseteq beside'
    BY <1>5, <2>2 DEF Append, cache
  <2>4. Unlocking' <=> Unlocking
    BY <2>3 DEF Unlocking
  <2> SUFFICES ASSUME NEW q \in Actor PROVE PutBeside(q)'
    BY DEF PutsBeside
  <2>5. PutBeside(q)
    BY <1>1 DEF PutsBeside
  <2>6. CASE q # p
    <3>1. task'[q] = task[q] /\ pc'[q] = pc[q]
      BY <1>1, <2>2, <2>6 DEF TInv, TypeOK
    <3> QED
      BY <2>3, <2>4, <2>5, <3>1 DEF PutBeside, Current
  <2>7. CASE q = p
    <3>1. /\ task'[p].put = task[p].put \cup {[body |-> e, at |-> t]}
          /\ task'[p].kind = task[p].kind /\ task'[p].blob = task[p].blob
          /\ task'[p].gen = task[p].gen
      BY <1>1, <2>1, <2>2 DEF TInv, TypeOK, Task
    <3>2. [body |-> e, at |-> t] \notin rows
      BY <1>1, <2>2 DEF Dated, Now
    <3>3. e.blob = task[p].blob
      BY <2>1, <2>2 DEF Handler
    <3>4. Current(p)' <=> Current(p)
      BY <2>3, <3>1 DEF Current
    <3>5. task'[p].put \cap rows' # {} => task[p].put \cap rows # {}
      BY <2>3, <3>1, <3>2
    <3>6. Unlocking /\ Current(p) /\ task[p].kind # "receipt" => task[p].blob \in beside'
      BY <2>2, <3>3
    <3>7. Current(p) /\ task[p].kind # "receipt" /\ task[p].put \cap rows # {}
            => task[p].blob \in beside'
      BY <2>1, <2>3, <2>5, <2>7 DEF PutBeside
    <3>8. PutBeside(p)'
      BY <2>4, <3>1, <3>4, <3>5, <3>6, <3>7 DEF PutBeside
    <3> QED
      BY <2>7, <3>8
  <2> QED
    BY <2>6, <2>7
<1> QED
  BY <1>4, <1>5

\* Only a new unlock forgets what was beside the last one, or begins one.
LEMMA NextBeside ==
  ASSUME Safe, [Next]_vars, ~UnlockFresh
  PROVE  beside \subseteq beside' /\ (Unlocking' => Unlocking /\ ~UnlockFinish)
<1>1. beside \subseteq beside' /\ (replaying' = replaying \/ ~replaying'.on)
  <2>1. CASE Quiet
    BY <2>1, QuietFrame
  <2>2. ASSUME NEW p \in Actor, NEW b \in Blob, Reextract(p, b)
        PROVE  UNCHANGED <<beside, replaying>>
    BY <2>2 DEF Reextract
  <2>3. ASSUME NEW p \in Actor, Append(p)
        PROVE  beside \subseteq beside' /\ replaying' = replaying
    BY <2>3 DEF Append
  <2>4. ASSUME NEW p \in Actor, ApplyReceipt(p) \/ ApplyRows(p) \/ Crash(p)
        PROVE  UNCHANGED <<beside, replaying>>
    BY <2>4 DEF ApplyReceipt, ApplyRows, Crash, history
  <2>5. Lock \/ OpenEmpty => UNCHANGED <<beside, replaying>>
    BY DEF Lock, OpenEmpty, history
  <2>6. UnlockFinish => UNCHANGED beside /\ ~replaying'.on
    BY DEF UnlockFinish, history
  <2>7. UnlockKilled => UNCHANGED beside /\ ~replaying'.on
    BY DEF UnlockKilled
  <2> QED
    BY NextCases, <2>1, <2>2, <2>3, <2>4, <2>5, <2>6, <2>7
<1>2. replaying.gen <= gen /\ replaying.gen \in Nat /\ gen \in Nat
  BY StoreAssumption DEF Safe, Snapshot, TInv, TypeOK
<1>3. gen' = gen \/ gen' = gen + 1
  BY NextGrows DEF Grows
<1>4. Unlocking' => Unlocking
  BY <1>1, <1>2, <1>3 DEF Unlocking
<1>5. UnlockFinish => ~Unlocking'
  BY DEF UnlockFinish, Unlocking
<1> QED
  BY <1>1, <1>4, <1>5

LEMMA NextRowsBeside == ASSUME Safe, Once, [Next]_vars PROVE RowsBeside'
<1>1. CASE UnlockFresh
  BY <1>1 DEF UnlockFresh, RowsBeside
<1>2. CASE ~UnlockFresh
  <2> SUFFICES ASSUME Unlocking', NEW r \in rows', r.body \in Body, r.body.kind # "receipt"
               PROVE  r.body.blob \in beside
    BY <1>2, NextBeside DEF RowsBeside
  <2>1. Unlocking /\ ~UnlockFinish
    BY <1>2, NextBeside
  <2>2. CASE r \in rows
    BY <2>1, <2>2 DEF Once, RowsBeside
  <2>3. CASE r \notin rows
    <3>1. PICK p \in Actor : /\ ApplyReceipt(p) \/ ApplyRows(p)
                             /\ Current(p) /\ r \in task[p].put
      BY <2>1, <2>3, NewRows
    <3>2. pc[p] = "apply" /\ Handler(p) /\ PutBeside(p)
      BY <3>1 DEF ApplyReceipt, ApplyRows, Safe, Handlers, Once, PutsBeside
    <3>3. task[p].kind # "receipt"
      BY <3>1, <3>2 DEF Handler, Receipt
    <3> QED
      BY <2>1, <3>1, <3>2, <3>3 DEF Handler, PutBeside
  <2> QED
    BY <2>2, <2>3
<1> QED
  BY <1>1, <1>2

LEMMA NextTwiceBeside == ASSUME Safe, Once, [Next]_vars PROVE TwiceBeside'
<1>1. CASE Lock \/ OpenEmpty \/ UnlockFresh
  BY <1>1 DEF Lock, OpenEmpty, UnlockFresh, TwiceBeside
<1>2. ASSUME ~UnlockFresh, \A r \in twice' \ twice : r.body.blob \in beside
      PROVE  TwiceBeside'
  BY <1>2, NextBeside DEF Once, TwiceBeside
<1>3. ASSUME NEW p \in Actor, ApplyRows(p), ~UnlockFresh PROVE TwiceBeside'
  <2>1. pc[p] = "apply" /\ task[p].kind # "receipt" /\ Handler(p) /\ PutBeside(p)
    BY <1>3 DEF ApplyRows, Safe, Handlers, Once, PutsBeside
  <2>2. \/ twice' = twice
        \/ twice' = twice \cup (rows \cap task[p].put) /\ Current(p)
    BY <1>3 DEF ApplyRows
  <2>3. \A r \in twice' \ twice : r.body.blob \in beside
    BY <2>1, <2>2 DEF Handler, PutBeside
  <2> QED
    BY <1>2, <1>3, <2>3
<1>4. CASE UnlockFinish /\ ~UnlockFresh
  <2>1. ASSUME NEW r \in twice' \ twice PROVE r.body.blob \in beside
    <3>1. Unlocking
      BY <1>4, <2>1 DEF UnlockFinish
    <3>2. PICK late \in SUBSET Since : twice' = twice \cup Again(rows, Listed(late))
      BY <1>4, <3>1, Zenon DEF UnlockFinish
    <3>3. r \in rows /\ r.body \in Body /\ r.body.kind # "receipt"
      BY <2>1, <3>2 DEF Again
    <3> QED
      BY <3>1, <3>3 DEF Once, RowsBeside
  <2> QED
    BY <1>2, <1>4, <2>1
<1>5. ASSUME UNCHANGED twice, ~UnlockFresh PROVE TwiceBeside'
  BY <1>2, <1>5
<1>6. CASE Quiet /\ ~UnlockFresh
  BY <1>5, <1>6, QuietFrame
<1>7. ASSUME NEW p \in Actor, NEW b \in Blob, Reextract(p, b), ~UnlockFresh
      PROVE  TwiceBeside'
  BY <1>5, <1>7 DEF Reextract
<1>8. ASSUME NEW p \in Actor, Append(p) \/ ApplyReceipt(p) \/ Crash(p), ~UnlockFresh
      PROVE  TwiceBeside'
  BY <1>5, <1>8 DEF Append, ApplyReceipt, Crash, cache
<1>9. CASE UnlockKilled /\ ~UnlockFresh
  BY <1>5, <1>9 DEF UnlockKilled, cache
<1> QED
  BY NextCases, <1>1, <1>3, <1>4, <1>6, <1>7, <1>8, <1>9

LEMMA NextOnce == ASSUME Safe, Once, [Next]_vars, TInv' PROVE Once'
BY NextDated, NextPutsBeside, NextRowsBeside, NextTwiceBeside DEF Once

LEMMA NextMirrored == Mirrored /\ [Next]_vars => Mirrored'
<1> SUFFICES ASSUME Mirrored, [Next]_vars PROVE Mirrored'
  OBVIOUS
<1>1. Safe
  BY DEF Mirrored
<1>2. TInv'
  BY <1>1, NextTInv DEF Safe
<1>3. Safe'
  BY <1>1, <1>2, NextHandlers, NextEventsRooted, NextRowsRooted, NextSnapshot
     DEF Safe, NothingDangles
<1> QED
  BY <1>2, <1>3, NextRowsLogged, NextPutsLogged, NextLogCovered, NextOnce DEF Mirrored

LEMMA MirroredIsReplay == Mirrored => ReplayReproducesCache
<1> SUFFICES ASSUME Mirrored, Ready, NEW b \in Blob \ drift, ~Writing(b)
             PROVE  /\ RowsFor(b) = LogRows(b)
                    /\ b \notin beside => RowsFor(b) \cap twice = {}
  BY DEF ReplayReproducesCache
<1>1. ASSUME NEW r \in RowsFor(b) PROVE r \in LogRows(b)
  <2>1. r \in rows /\ r.body.blob = b /\ r \in Row
    BY <1>1 DEF RowsFor, Mirrored, Safe, TInv, TypeOK
  <2>2. r.body \in Body /\ log[r.body] = r.at /\ r.at # None
    BY <2>1, StoreAssumption DEF Mirrored, RowsLogged, Row
  <2>3. r = [body |-> r.body, at |-> log[r.body]]
    BY <2>1, <2>2 DEF Row
  <2> QED
    BY <2>1, <2>2, <2>3 DEF LogRows
<1>2. ASSUME NEW r \in LogRows(b) PROVE r \in RowsFor(b)
  <2>1. PICK e \in Body : /\ e.blob = b /\ log[e] # None
                          /\ r = [body |-> e, at |-> log[e]]
    BY <1>2 DEF LogRows
  <2>2. ~Pending(e)
    BY <2>1 DEF Pending, Writing, Mirrored, Safe, Handlers, Handler
  <2>3. PICK x \in rows : x.body = e
    BY <2>1, <2>2 DEF Ready, Mirrored, LogCovered, Present, Unlocking
  <2>4. x \in Row /\ x.at = log[e]
    BY <2>1, <2>3 DEF Mirrored, RowsLogged, Safe, TInv, TypeOK
  <2>5. x = [body |-> x.body, at |-> x.at]
    BY <2>4 DEF Row
  <2> QED
    BY <2>1, <2>3, <2>4, <2>5 DEF RowsFor
<1>3. b \notin beside => RowsFor(b) \cap twice = {}
  BY DEF RowsFor, Mirrored, Once, TwiceBeside
<1> QED
  BY <1>1, <1>2, <1>3

(***************************************************************************)
(* Replay reproduces the cache: at rest, and outside the receipts named in *)
(* drift, the rows of a receipt are the events of the log about it, stamps *)
(* included, whatever was killed, locked, unlocked or opened empty on the  *)
(* way; and no row is there twice, but for receipts a handler wrote to     *)
(* while an unlock was listing the log into the same database.             *)
(***************************************************************************)
THEOREM CacheIsReplay == Spec => []ReplayReproducesCache
BY InitMirrored, NextMirrored, MirroredIsReplay, PTL DEF Spec

-----------------------------------------------------------------------------
(* The event loop alone: what its handlers owe the page. *)

Busy(p) == pc[p] \notin {"idle", "await"}

\* From one await to the next, a handler of the loop is by itself.
OneAtATime == \A p, q \in Actor : Busy(p) /\ Busy(q) => p = q

\* A handler that is past its commit has something to show for it, and what
\* it read of the rows is what they are; a receipt that it has appended while
\* an unlock was reading is none of those the unlock read.
Turn(p) ==
  /\ pc[p] = "await" => task[p].put = {}
  /\ pc[p] \in {"apply", "read", "write"} => task[p].put # {}
  /\ pc[p] \in {"read", "write"} => task[p].kind # "receipt"
  /\ pc[p] = "write" /\ Current(p) /\ task[p].blob \notin drift =>
       task[p].seen = RowsFor(task[p].blob)
  /\ /\ Unlocking /\ Current(p) /\ task[p].blob \notin drift
     /\ pc[p] \in {"append", "apply"} /\ task[p].kind = "receipt" /\ task[p].put # {}
     => replaying.snap[Receipt(task[p].blob)] = None

\* The receipts that handlers make beside an unlock are none of those it read.
KnownIsNew ==
  Unlocking => \A b \in Blob \ drift : HasReceipt(b) => replaying.snap[Receipt(b)] = None

\* Rows of b are committed, and not yet projected.
Owes(p, b) == pc[p] \in {"read", "write"} /\ task[p].blob = b /\ Current(p)

ShownIsFresh ==
  \A b \in Blob \ drift : HasReceipt(b) /\ (\A p \in Actor : ~Owes(p, b)) =>
    shown[b] = Project(RowsFor(b))

ShownIsKnown == \A b \in Blob : shown[b] # None => HasReceipt(b)

LoopInv ==
  /\ OneAtATime
  /\ \A p \in Actor : Turn(p)
  /\ KnownIsNew
  /\ ShownIsFresh
  /\ ShownIsKnown

\* What a handler knows, while its database is there and others do not touch its rows.
LEMMA TurnKept ==
  ASSUME NEW q \in Actor, Turn(q), pc'[q] = pc[q], task'[q] = task[q],
         gen' = gen, drift \subseteq drift', replaying' = replaying \/ ~replaying'.on,
         pc[q] = "write" /\ Current(q) /\ task[q].blob \notin drift' =>
           RowsFor(task[q].blob)' = RowsFor(task[q].blob)
  PROVE  Turn(q)'
<1>1. Current(q)' <=> Current(q)
  BY DEF Current
<1>2. pc[q] = "write" /\ Current(q) /\ task[q].blob \notin drift' =>
        task[q].seen = RowsFor(task[q].blob)'
  BY DEF Turn
<1>3. Unlocking' => Unlocking /\ replaying' = replaying
  BY DEF Unlocking
<1> QED
  BY <1>1, <1>2, <1>3 DEF Turn

\* With its database gone, nothing it does matters.
LEMMA TurnOver ==
  ASSUME NEW q \in Actor, Turn(q), pc'[q] = pc[q], task'[q] = task[q], ~Current(q)'
  PROVE  Turn(q)'
BY DEF Turn

LEMMA FreshKept ==
  ASSUME ShownIsFresh, rows' = rows, shown' = shown, drift \subseteq drift',
         \A q \in Actor : \A b \in Blob : Owes(q, b) => Owes(q, b)' \/ b \in drift'
  PROVE  ShownIsFresh'
<1> SUFFICES ASSUME NEW b \in Blob, b \notin drift', HasReceipt(b)',
                    \A p \in Actor : ~Owes(p, b)'
             PROVE  shown'[b] = Project(RowsFor(b))'
  BY DEF ShownIsFresh
<1>1. HasReceipt(b) /\ b \notin drift /\ \A p \in Actor : ~Owes(p, b)
  BY DEF HasReceipt
<1>2. shown[b] = Project(RowsFor(b))
  BY <1>1 DEF ShownIsFresh
<1>3. RowsFor(b)' = RowsFor(b)
  BY DEF RowsFor
<1>4. Project(RowsFor(b))' = Project(RowsFor(b))
  BY <1>3
<1> QED
  BY <1>2, <1>4

\* The rows as they were, fewer receipts to answer for.
LEMMA RowsKept ==
  ASSUME KnownIsNew, ShownIsKnown, rows' = rows, shown' = shown, gen' = gen,
         drift \subseteq drift', replaying' = replaying \/ ~replaying'.on
  PROVE  KnownIsNew' /\ ShownIsKnown'
BY DEF KnownIsNew, ShownIsKnown, HasReceipt, Unlocking

\* The others are as they were.
Alone(p) == \A q \in Actor \ {p} : pc'[q] = pc[q] /\ task'[q] = task[q]

\* What holds after a step of p that leaves the database as it is, and after
\* which p owes what it owed: what is left to show is about p.
LEMMA TurnPassed ==
  ASSUME LoopInv, NEW p \in Actor, Alone(p), Turn(p)', Busy(p)' => \A q \in Actor \ {p} : ~Busy(q),
         UNCHANGED <<rows, shown, gen, replaying>>, drift \subseteq drift',
         \A b \in Blob : Owes(p, b) => Owes(p, b)' \/ b \in drift'
  PROVE  LoopInv'
<1>1. OneAtATime'
  BY DEF LoopInv, OneAtATime, Alone, Busy
<1>2. \A q \in Actor : Turn(q)'
  <2> SUFFICES ASSUME NEW q \in Actor \ {p} PROVE Turn(q)'
    OBVIOUS
  <2>1. RowsFor(task[q].blob)' = RowsFor(task[q].blob)
    BY DEF RowsFor, Alone
  <2> QED
    BY <2>1, TurnKept DEF LoopInv, Alone
<1>3. \A q \in Actor : \A b \in Blob : Owes(q, b) => Owes(q, b)' \/ b \in drift'
  BY DEF Owes, Alone, Current
<1>4. ShownIsFresh'
  BY <1>3, FreshKept DEF LoopInv
<1>5. KnownIsNew' /\ ShownIsKnown'
  BY RowsKept DEF LoopInv
<1> QED
  BY <1>1, <1>2, <1>4, <1>5 DEF LoopInv

\* A handler of the loop that begins, or comes back from the model, is by itself.
LEMMA LoopBegins ==
  ASSUME TInv, LoopInv, LoopAlone, LoopAlone', NEW p \in Actor, Answered(p) \/ \E b \in Blob : Begins(p, b)
  PROVE  LoopInv'
<1>1. UNCHANGED <<rows, shown, gen, replaying, drift>>
  <2>1. CASE Answered(p)
    BY <2>1 DEF Answered, cache, history
  <2>2. ASSUME NEW b \in Blob, Begins(p, b) PROVE UNCHANGED <<rows, shown, gen, replaying, drift>>
    <3>1. CASE Ingest(p, b)
      BY <3>1 DEF Ingest, cache, history
    <3>2. CASE IngestLocked(p, b)
      BY <3>2 DEF IngestLocked, cache, history
    <3>3. CASE AskModel(p, b) \/ CannotRender(p, b)
      BY <3>3 DEF AskModel, CannotRender, cache, history
    <3>4. CASE \E D \in SUBSET Field : \E form \in [D -> MaybeValue] : Correct(p, b, D, form)
      BY <3>4 DEF Correct, cache, history
    <3> QED
      BY <2>2, <3>1, <3>2, <3>3, <3>4 DEF Begins
  <2> QED
    BY <2>1, <2>2
<1>2. CASE UNCHANGED <<pc, task>>
  <2>1. Alone(p) /\ \A b \in Blob : Owes(p, b) => Owes(p, b)'
    BY <1>1, <1>2 DEF Alone, Owes, Current
  <2>2. RowsFor(task[p].blob)' = RowsFor(task[p].blob)
    BY <1>1, <1>2 DEF RowsFor
  <2>3. Turn(p)'
    BY <1>1, <1>2, <2>2, TurnKept DEF LoopInv
  <2>4. Busy(p)' => \A q \in Actor \ {p} : ~Busy(q)
    BY <1>2 DEF LoopInv, OneAtATime, Busy
  <2> QED
    BY <1>1, <2>1, <2>3, <2>4, TurnPassed
<1>3. CASE /\ MayRun(p) /\ ~Busy(p) /\ Alone(p)
           /\ pc'[p] \in {"await", "append"} /\ task'[p].put = {}
  <2>1. Turn(p)' /\ \A b \in Blob : ~Owes(p, b)
    BY <1>3 DEF Turn, Owes, Busy
  <2>2. Busy(p)' => \A q \in Actor \ {p} : ~Busy(q)
    <3> SUFFICES ASSUME Busy(p)', NEW q \in Actor \ {p} PROVE ~Busy(q)
      OBVIOUS
    <3>1. p \in Loop
      BY DEF Busy, LoopAlone, NoThread, Actor
    <3>2. CASE q \in Loop
      BY <1>3, <3>1, <3>2 DEF MayRun, Busy
    <3>3. CASE q \in Pool
      BY <3>3 DEF LoopAlone, NoThread, Busy
    <3> QED
      BY <3>2, <3>3 DEF Actor
  <2> QED
    BY <1>1, <1>3, <2>1, <2>2, TurnPassed
<1>4. CASE Answered(p)
  <2>1. pc[p] = "await" /\ MayRun(p) /\ task[p].put = {} /\ task[p] \in Task
    BY <1>4 DEF Answered, LoopInv, Turn, TInv, Working
  <2>2. PICK a \in Answer : task' = [task EXCEPT ![p].todo = {Extraction(task[p].blob, a)}]
    BY <1>4 DEF Answered
  <2>3. pc' = [pc EXCEPT ![p] = "append"]
    BY <1>4 DEF Answered
  <2>4. Alone(p) /\ pc'[p] = "append" /\ task'[p].put = {}
    BY <2>1, <2>2, <2>3 DEF Alone, TInv, TypeOK, Task
  <2> QED
    BY <1>3, <2>1, <2>4 DEF Busy
<1>5. ASSUME NEW b \in Blob, NEW kind, NEW todo, NEW known, NEW next \in {"await", "append"},
             Start(p, kind, b, todo, known, next)
      PROVE  LoopInv'
  <2>1. MayRun(p) /\ ~Busy(p) /\ Alone(p) /\ pc'[p] = next /\ task'[p].put = {}
    BY <1>5 DEF Start, Busy, Alone, TInv, TypeOK
  <2> QED
    BY <1>3, <2>1
<1>6. ASSUME NEW b \in Blob, Begins(p, b) PROVE LoopInv'
  <2>1. CASE Ingest(p, b)
    BY <1>5, <2>1 DEF Ingest
  <2>2. CASE IngestLocked(p, b)
    BY <1>2, <2>2 DEF IngestLocked
  <2>3. CASE AskModel(p, b) \/ CannotRender(p, b)
    BY <1>5, <2>3 DEF AskModel, CannotRender
  <2>4. CASE \E D \in SUBSET Field : \E form \in [D -> MaybeValue] : Correct(p, b, D, form)
    BY <1>5, <2>4 DEF Correct
  <2> QED
    BY <1>6, <2>1, <2>2, <2>3, <2>4 DEF Begins
<1> QED
  BY <1>4, <1>6

LEMMA LoopAppends ==
  ASSUME Safe, LoopInv, NEW p \in Actor, Append(p)
  PROVE  LoopInv'
<1> USE StoreAssumption
<1>1. TInv /\ task[p] \in Task /\ Handler(p) /\ pc[p] = "append"
  BY DEF Append, Safe, Handlers, TInv, Working
<1>2. PICK e \in task[p].todo, t \in Now :
        /\ log' = Sealed(e, t)
        /\ task' = [task EXCEPT ![p].todo = @ \ {e},
                                ![p].put = @ \cup {[body |-> e, at |-> t]}]
        /\ pc' = [pc EXCEPT ![p] = IF task[p].todo = {e} THEN "apply" ELSE "append"]
        /\ drift' = IF \/ log[e] = None /\ ~Current(p)
                       \/ log[e] # None /\ ~task[p].known
                      THEN drift \cup {e.blob} ELSE drift
  BY DEF Append
<1>3. e \in Body /\ e.blob = task[p].blob /\ task[p].blob \in Blob
      /\ (task[p].kind = "receipt" => e = Receipt(task[p].blob))
  BY <1>1 DEF Handler, Task
<1>4. UNCHANGED <<rows, shown, gen, replaying>> /\ drift \subseteq drift'
  BY <1>2 DEF Append, cache
<1>5. /\ Alone(p) /\ pc'[p] \in {"append", "apply"}
      /\ task'[p].put = task[p].put \cup {[body |-> e, at |-> t]}
      /\ task'[p].kind = task[p].kind /\ task'[p].blob = task[p].blob
      /\ task'[p].gen = task[p].gen
  BY <1>1, <1>2 DEF Alone, TInv, TypeOK, Task
<1>6. ASSUME Unlocking, Current(p), task[p].kind = "receipt", task[p].blob \notin drift'
      PROVE  replaying.snap[Receipt(task[p].blob)] = None
  <2>1. CASE log[e] = None
    BY <1>1, <1>3, <1>6, <2>1 DEF Safe, Snapshot
  <2>2. CASE log[e] # None
    <3>1. task[p].known /\ task[p].blob \notin drift
      BY <1>2, <1>3, <1>6, <2>2
    <3>2. HasReceipt(task[p].blob)
      BY <1>1, <1>6, <3>1 DEF Handler
    <3> QED
      BY <1>3, <1>6, <3>1, <3>2 DEF LoopInv, KnownIsNew
  <2> QED
    BY <2>1, <2>2
<1>7. Turn(p)'
  <2>1. Current(p)' <=> Current(p)
    BY <1>4, <1>5 DEF Current
  <2>2. Unlocking' <=> Unlocking
    BY <1>4 DEF Unlocking
  <2>3. task'[p].put # {}
    BY <1>5
  <2>4. replaying'.snap[Receipt(task'[p].blob)] = replaying.snap[Receipt(task[p].blob)]
    BY <1>4, <1>5
  <2> QED
    BY <1>5, <1>6, <2>1, <2>2, <2>3, <2>4 DEF Turn
<1>8. \A b \in Blob : ~Owes(p, b)
  BY <1>1 DEF Owes
<1>9. \A q \in Actor \ {p} : ~Busy(q)
  BY <1>1 DEF LoopInv, OneAtATime, Busy
<1> QED
  BY <1>4, <1>5, <1>7, <1>8, <1>9, TurnPassed

\* A handler at work is the only one.
LEMMA Only ==
  ASSUME LoopInv, NEW p \in Actor, Busy(p)
  PROVE  \A q \in Actor \ {p} : ~Busy(q) /\ \A b \in Blob : ~Owes(q, b)
BY DEF LoopInv, OneAtATime, Busy, Owes

LEMMA LoopAppliesReceipt ==
  ASSUME Safe, LoopInv, NEW p \in Actor, ApplyReceipt(p)
  PROVE  LoopInv'
<1>0. PICK b \in Blob : b = task[p].blob
  BY DEF ApplyReceipt, Safe, TInv, Working, Task
<1> DEFINE added == IF HasReceipt(b) THEN {} ELSE task[p].put
<1>1. /\ TInv /\ task[p] \in Task /\ Handler(p) /\ Turn(p)
      /\ pc[p] = "apply" /\ task[p].kind = "receipt" /\ b = task[p].blob
  BY <1>0 DEF ApplyReceipt, Safe, Handlers, TInv, Working, LoopInv, Task
<1>2. /\ UNCHANGED <<gen, replaying, drift>> /\ Alone(p) /\ pc'[p] = "idle"
  BY <1>1 DEF ApplyReceipt, Finish, history, Alone, TInv, TypeOK
<1>3. \A q \in Actor \ {p} : ~Busy(q) /\ \A c \in Blob : ~Owes(q, c)
  BY <1>1, Only DEF Busy
<1>4. Turn(p)' /\ ~Busy(p)' /\ \A c \in Blob : ~Owes(p, c)
  BY <1>1, <1>2 DEF Turn, Busy, Owes
<1>5. CASE ~Current(p)
  <2>1. UNCHANGED <<rows, shown>>
    BY <1>5 DEF ApplyReceipt
  <2> QED
    BY <1>2, <1>4, <2>1, TurnPassed
<1>6. CASE Current(p)
  <2>1. /\ rows' = rows \cup added
        /\ shown' = IF task[p].known THEN shown
                    ELSE [shown EXCEPT ![b] = Project(RowsFor(b) \cup added)]
    BY <1>1, <1>6 DEF ApplyReceipt
  <2>2. \A r \in added : r.body = Receipt(b) /\ r.body.blob = b
    BY <1>1 DEF Handler
  <2>3. HasReceipt(b) \/ \E r \in added : r.body = Receipt(b)
    BY <1>1, <2>2 DEF Turn
  <2>4. HasReceipt(b)'
    BY <2>1, <2>3 DEF HasReceipt
  <2>5. RowsFor(b)' = RowsFor(b) \cup added
    BY <2>1, <2>2 DEF RowsFor
  <2>6. ASSUME NEW c \in Blob \ {b} PROVE RowsFor(c)' = RowsFor(c) /\ (HasReceipt(c)' => HasReceipt(c))
    <3>1. Receipt(c).blob # b
      BY DEF Receipt
    <3> HIDE DEF added
    <3> QED
      BY <2>1, <2>2, <3>1 DEF RowsFor, HasReceipt
  <2>7. task[p].known => HasReceipt(b)
    BY <1>1, <1>6 DEF Handler
  <2>8. ASSUME HasReceipt(b) PROVE rows' = rows
    BY <2>1, <2>8
  <2> HIDE DEF added
  <2>9. OneAtATime' /\ \A q \in Actor : Turn(q)'
    <3>1. OneAtATime'
      BY <1>2, <1>3, <1>4 DEF OneAtATime, Alone, Busy
    <3>2. ASSUME NEW q \in Actor \ {p} PROVE Turn(q)'
      <4>1. pc[q] # "write"
        BY <1>3 DEF Busy
      <4> QED
        BY <1>2, <4>1, TurnKept DEF LoopInv, Alone
    <3> QED
      BY <1>4, <3>1, <3>2
  <2>10. KnownIsNew'
    <3> SUFFICES ASSUME Unlocking, NEW c \in Blob \ drift, HasReceipt(c)'
                 PROVE  replaying.snap[Receipt(c)] = None
      BY <1>2 DEF KnownIsNew, Unlocking
    <3>1. CASE HasReceipt(c)
      BY <3>1 DEF LoopInv, KnownIsNew
    <3>2. CASE c = b
      BY <1>1, <1>6, <3>2 DEF Turn
    <3> QED
      BY <2>6, <3>1, <3>2
  <2>11. ShownIsFresh'
    <3> SUFFICES ASSUME NEW c \in Blob \ drift, HasReceipt(c)'
                 PROVE  shown'[c] = Project(RowsFor(c)')
      BY <1>2 DEF ShownIsFresh
    <3>1. HasReceipt(c) => shown[c] = Project(RowsFor(c))
      BY <1>3, <1>4 DEF LoopInv, ShownIsFresh
    <3>2. CASE c # b
      <4>1. shown'[c] = shown[c]
        BY <1>1, <2>1, <3>2 DEF TInv, TypeOK
      <4> QED
        BY <2>6, <3>1, <3>2, <4>1
    <3>3. CASE c = b /\ task[p].known
      <4>1. RowsFor(b)' = RowsFor(b)
        BY <2>7, <2>8, <3>3 DEF RowsFor
      <4> QED
        BY <2>1, <2>7, <3>1, <3>3, <4>1
    <3>4. CASE c = b /\ ~task[p].known
      <4>1. shown'[b] = Project(RowsFor(b) \cup added)
        BY <1>1, <2>1, <3>4 DEF TInv, TypeOK
      <4> QED
        BY <2>5, <3>4, <4>1
    <3> QED
      BY <3>2, <3>3, <3>4
  <2>12. ShownIsKnown'
    <3> SUFFICES ASSUME NEW c \in Blob \ {b}, shown'[c] # None PROVE HasReceipt(c)'
      BY <2>4 DEF ShownIsKnown
    <3>1. shown'[c] = shown[c] /\ rows \subseteq rows'
      BY <1>1, <2>1 DEF TInv, TypeOK
    <3> QED
      BY <3>1 DEF LoopInv, ShownIsKnown, HasReceipt
  <2> QED
    BY <2>9, <2>10, <2>11, <2>12 DEF LoopInv
<1> QED
  BY <1>5, <1>6

LEMMA LoopAppliesRows ==
  ASSUME Safe, LoopInv, NEW p \in Actor, ApplyRows(p)
  PROVE  LoopInv'
<1>0. PICK b \in Blob : b = task[p].blob
  BY DEF ApplyRows, Safe, TInv, Working, Task
<1>1. /\ TInv /\ task[p] \in Task /\ Handler(p) /\ Turn(p)
      /\ pc[p] = "apply" /\ task[p].kind # "receipt" /\ b = task[p].blob
  BY <1>0 DEF ApplyRows, Safe, Handlers, TInv, Working, LoopInv, Task
<1>2. /\ UNCHANGED <<gen, replaying, drift, shown, task>> /\ Alone(p) /\ pc'[p] = "read"
  BY <1>1 DEF ApplyRows, history, Alone, TInv, TypeOK
<1>3. \A q \in Actor \ {p} : ~Busy(q) /\ \A c \in Blob : ~Owes(q, c)
  BY <1>1, Only DEF Busy
<1>4. Turn(p)' /\ \A c \in Blob : ~Owes(p, c)
  BY <1>1, <1>2 DEF Turn, Owes
<1>5. CASE rows' = rows
  BY <1>2, <1>3, <1>4, <1>5, TurnPassed
<1>6. CASE Current(p) /\ HasReceipt(b) /\ rows' = rows \cup task[p].put
  <2>1. Owes(p, b)'
    BY <1>1, <1>2, <1>6 DEF Owes, Current
  <2>2. \A r \in task[p].put : r.body.blob = b
    BY <1>1 DEF Handler
  <2>3. ASSUME NEW c \in Blob \ {b} PROVE RowsFor(c)' = RowsFor(c)
    BY <1>6, <2>2 DEF RowsFor
  <2>4. ASSUME NEW c \in Blob PROVE HasReceipt(c)' <=> HasReceipt(c)
    <3>1. Receipt(c).blob = c
      BY DEF Receipt
    <3> QED
      BY <1>6, <2>2, <3>1 DEF HasReceipt
  <2>5. OneAtATime' /\ \A q \in Actor : Turn(q)'
    <3>1. OneAtATime'
      BY <1>2, <1>3 DEF OneAtATime, Alone, Busy
    <3>2. ASSUME NEW q \in Actor \ {p} PROVE Turn(q)'
      <4>1. pc[q] # "write"
        BY <1>3 DEF Busy
      <4> QED
        BY <1>2, <4>1, TurnKept DEF LoopInv, Alone
    <3> QED
      BY <1>4, <3>1, <3>2
  <2>6. KnownIsNew' /\ ShownIsKnown'
    BY <1>2, <2>4 DEF LoopInv, KnownIsNew, ShownIsKnown, Unlocking
  <2>7. ShownIsFresh'
    <3> SUFFICES ASSUME NEW c \in Blob \ drift, HasReceipt(c)', \A q \in Actor : ~Owes(q, c)'
                 PROVE  shown[c] = Project(RowsFor(c)')
      BY <1>2 DEF ShownIsFresh
    <3>1. c # b
      BY <2>1
    <3>2. shown[c] = Project(RowsFor(c))
      BY <1>3, <1>4, <2>4 DEF LoopInv, ShownIsFresh
    <3> QED
      BY <2>3, <3>1, <3>2
  <2> QED
    BY <2>5, <2>6, <2>7 DEF LoopInv
<1> QED
  BY <1>1, <1>5, <1>6 DEF ApplyRows

LEMMA LoopReads ==
  ASSUME Safe, LoopInv, NEW p \in Actor, ReadRows(p)
  PROVE  LoopInv'
<1>1. /\ TInv /\ task[p] \in Task /\ Turn(p) /\ pc[p] = "read"
  BY DEF ReadRows, Safe, TInv, Working, LoopInv
<1>2. UNCHANGED <<rows, shown, gen, replaying, drift>>
  BY DEF ReadRows, cache, history
<1>3. /\ Alone(p) /\ pc'[p] = "write"
      /\ task'[p].put = task[p].put /\ task'[p].kind = task[p].kind
      /\ task'[p].blob = task[p].blob /\ task'[p].gen = task[p].gen
      /\ task'[p].seen = IF Current(p) THEN RowsFor(task[p].blob) ELSE {}
  BY <1>1 DEF ReadRows, Alone, TInv, TypeOK, Task
<1>4. Current(p)' <=> Current(p)
  BY <1>2, <1>3 DEF Current
<1>5. RowsFor(task[p].blob)' = RowsFor(task[p].blob)
  BY <1>2, <1>3 DEF RowsFor
<1>6. Turn(p)'
  BY <1>1, <1>3, <1>4, <1>5 DEF Turn
<1>7. \A b \in Blob : Owes(p, b) => Owes(p, b)'
  BY <1>3, <1>4 DEF Owes
<1>8. \A q \in Actor \ {p} : ~Busy(q)
  BY <1>1, Only DEF Busy
<1> QED
  BY <1>2, <1>3, <1>6, <1>7, <1>8, TurnPassed

LEMMA LoopWrites ==
  ASSUME Safe, LoopInv, NEW p \in Actor, WriteProjection(p)
  PROVE  LoopInv'
<1> DEFINE b == task[p].blob
<1>1. /\ TInv /\ task[p] \in Task /\ Handler(p) /\ Turn(p)
      /\ pc[p] = "write" /\ task[p].kind # "receipt" /\ b \in Blob
  BY DEF WriteProjection, Safe, Handlers, TInv, Working, LoopInv, Task, Turn
<1>2. /\ UNCHANGED <<gen, replaying, drift, rows>> /\ Alone(p) /\ pc'[p] = "idle"
  BY <1>1 DEF WriteProjection, Finish, history, Alone, TInv, TypeOK
<1>3. \A q \in Actor \ {p} : ~Busy(q) /\ \A c \in Blob : ~Owes(q, c)
  BY <1>1, Only DEF Busy
<1>4. Turn(p)' /\ ~Busy(p)'
  BY <1>2 DEF Turn, Busy
<1>5. CASE ~Current(p)
  <2>1. shown' = shown /\ \A c \in Blob : ~Owes(p, c)
    BY <1>5 DEF WriteProjection, Owes
  <2> QED
    BY <1>2, <1>4, <2>1, TurnPassed
<1>6. CASE Current(p)
  <2>1. shown' = [shown EXCEPT ![b] = Project(task[p].seen)]
    BY <1>6 DEF WriteProjection
  <2>2. HasReceipt(b) /\ (b \notin drift => task[p].seen = RowsFor(b))
    BY <1>1, <1>6 DEF Handler, Turn
  <2>3. shown'[b] = Project(task[p].seen) /\ \A c \in Blob \ {b} : shown'[c] = shown[c]
    BY <1>1, <2>1 DEF TInv, TypeOK
  <2>4. \A c \in Blob : HasReceipt(c)' <=> HasReceipt(c)
    BY <1>2 DEF HasReceipt
  <2>5. OneAtATime' /\ \A q \in Actor : Turn(q)'
    <3>1. OneAtATime'
      BY <1>2, <1>3, <1>4 DEF OneAtATime, Alone, Busy
    <3>2. ASSUME NEW q \in Actor \ {p} PROVE Turn(q)'
      <4>1. pc[q] # "write"
        BY <1>3 DEF Busy
      <4> QED
        BY <1>2, <4>1, TurnKept DEF LoopInv, Alone
    <3> QED
      BY <1>4, <3>1, <3>2
  <2>6. KnownIsNew' /\ ShownIsKnown'
    BY <1>2, <2>2, <2>3, <2>4 DEF LoopInv, KnownIsNew, ShownIsKnown, Unlocking
  <2>7. ShownIsFresh'
    <3> SUFFICES ASSUME NEW c \in Blob \ drift, HasReceipt(c)
                 PROVE  shown'[c] = Project(RowsFor(c)')
      BY <1>2, <2>4 DEF ShownIsFresh
    <3>1. RowsFor(c)' = RowsFor(c)
      BY <1>2 DEF RowsFor
    <3>2. CASE c = b
      BY <2>2, <2>3, <3>1, <3>2
    <3>3. CASE c # b
      <4>1. \A q \in Actor : ~Owes(q, c)
        BY <1>3, <3>3 DEF Owes
      <4> QED
        BY <2>3, <3>1, <3>3, <4>1 DEF LoopInv, ShownIsFresh
    <3> QED
      BY <3>2, <3>3
  <2> QED
    BY <2>5, <2>6, <2>7 DEF LoopInv
<1> QED
  BY <1>5, <1>6

LEMMA LoopCrashes ==
  ASSUME Safe, LoopInv, NEW p \in Actor, Crash(p)
  PROVE  LoopInv'
<1>1. /\ TInv /\ Turn(p) /\ pc[p] # "idle"
  BY DEF Crash, Safe, LoopInv
<1>2. /\ UNCHANGED <<rows, shown, gen, replaying>> /\ Alone(p) /\ pc'[p] = "idle"
  BY <1>1 DEF Crash, Finish, cache, Alone, TInv, TypeOK
<1>3. drift' = IF Current(p) /\ task[p].put # {} THEN drift \cup {task[p].blob} ELSE drift
  BY DEF Crash
<1>4. \A b \in Blob : Owes(p, b) => b \in drift'
  BY <1>1, <1>3 DEF Owes, Turn
<1>5. Turn(p)' /\ ~Busy(p)' /\ drift \subseteq drift'
  BY <1>2, <1>3 DEF Turn, Busy
<1> QED
  BY <1>2, <1>4, <1>5, TurnPassed

\* No handler acts, and the database is as it was.
LEMMA LoopStays ==
  ASSUME LoopInv, UNCHANGED <<pc, task, rows, shown, gen>>, drift \subseteq drift',
         replaying' = replaying \/ ~replaying'.on
  PROVE  LoopInv'
<1>1. OneAtATime'
  BY DEF LoopInv, OneAtATime, Busy
<1>2. ASSUME NEW q \in Actor PROVE Turn(q)'
  <2>1. RowsFor(task[q].blob)' = RowsFor(task[q].blob)
    BY DEF RowsFor
  <2> QED
    BY <2>1, TurnKept DEF LoopInv
<1>3. \A q \in Actor : \A b \in Blob : Owes(q, b) => Owes(q, b)'
  BY DEF Owes, Current
<1>4. ShownIsFresh'
  BY <1>3, FreshKept DEF LoopInv
<1>5. KnownIsNew' /\ ShownIsKnown'
  BY RowsKept DEF LoopInv
<1> QED
  BY <1>1, <1>2, <1>4, <1>5 DEF LoopInv

\* An empty database: whoever was at work was at work on another one.
LEMMA LoopEmptied ==
  ASSUME Safe, LoopInv, Lock \/ OpenEmpty \/ UnlockFresh
  PROVE  LoopInv'
<1> USE StoreAssumption
<1>1. /\ UNCHANGED <<pc, task>> /\ gen' = gen + 1 /\ rows' = {}
      /\ shown' = [b \in Blob |-> None]
  BY DEF Lock, OpenEmpty, UnlockFresh
<1>2. OneAtATime'
  BY <1>1 DEF LoopInv, OneAtATime, Busy
<1>3. ASSUME NEW q \in Actor PROVE Turn(q)'
  <2>1. CASE pc[q] = "idle"
    BY <1>1, <2>1 DEF Turn
  <2>2. CASE pc[q] # "idle"
    <3>1. task[q].gen <= gen /\ task[q].gen \in Nat /\ gen \in Nat
      BY <2>2 DEF Safe, Handlers, Handler, TInv, TypeOK, Working, Task
    <3>2. ~Current(q)'
      BY <1>1, <3>1 DEF Current
    <3> QED
      BY <1>1, <3>2, TurnOver DEF LoopInv
  <2> QED
    BY <2>1, <2>2
<1>4. \A b \in Blob : ~HasReceipt(b)' /\ shown'[b] = None
  BY <1>1 DEF HasReceipt
<1> QED
  BY <1>2, <1>3, <1>4 DEF LoopInv, KnownIsNew, ShownIsFresh, ShownIsKnown

\* What is about a receipt that came after the unlock began is in the database
\* already, when no handler is about to put it there.
LEMMA ReplayedLeaves ==
  ASSUME Mirrored, Unlocking, NEW late \in SUBSET Since, NEW b \in Blob \ drift,
         \A e \in Body : e.blob = b => ~Pending(e),
         replaying.snap[Receipt(b)] = None
  PROVE  {r \in Replayed(rows, Listed(late)) : r.body.blob = b} = RowsFor(b)
<1>1. Safe /\ open
  BY DEF Mirrored, Safe, Snapshot
<1>2. ASSUME NEW e \in Body, e.blob = b, Listed(late)[e] # None
      PROVE  [body |-> e, at |-> Listed(late)[e]] \in rows
  <2>1. Listed(late)[e] = log[e] /\ log[e] # None
    BY <1>2 DEF Listed
  <2>2. replaying.snap[e] = None
    BY <1>1, <1>2 DEF Safe, Snapshot
  <2>3. PICK r \in rows : r.body = e
    BY <1>1, <1>2, <2>1, <2>2 DEF Mirrored, LogCovered, Present
  <2>4. r \in Row /\ r.at = log[e]
    BY <1>1, <1>2, <2>3 DEF Mirrored, RowsLogged, Safe, TInv, TypeOK
  <2>5. r = [body |-> r.body, at |-> r.at]
    BY <2>4 DEF Row
  <2> QED
    BY <2>1, <2>3, <2>4, <2>5
<1>3. \A r \in Replayed(rows, Listed(late)) : r \in rows \/ r.body.blob # b
  BY <1>2 DEF Replayed
<1>4. rows \subseteq Replayed(rows, Listed(late))
  BY DEF Replayed
<1> QED
  BY <1>3, <1>4 DEF RowsFor

LEMMA LoopUnlocks ==
  ASSUME Mirrored, LoopInv, UnlockFinish
  PROVE  LoopInv'
<1>1. UNCHANGED <<pc, task, gen, drift>> /\ ~replaying'.on /\ replaying.on /\ Safe
  BY DEF UnlockFinish, history, Mirrored
<1>2. CASE ~Unlocking
  <2>1. UNCHANGED <<rows, shown>>
    BY <1>2 DEF UnlockFinish
  <2> QED
    BY <1>1, <2>1, LoopStays
<1>3. CASE Unlocking
  <2>0. PICK late \in SUBSET Since :
        /\ rows' = Replayed(rows, Listed(late))
        /\ shown' = [b \in Blob |->
             IF \E r \in Replayed(rows, Listed(late)) : r.body = Receipt(b)
               THEN Project({r \in Replayed(rows, Listed(late)) : r.body.blob = b})
               ELSE None]
    BY <1>3, Zenon DEF UnlockFinish
  <2> DEFINE all == Replayed(rows, Listed(late))
  <2>1. /\ rows' = all
        /\ shown' = [b \in Blob |->
             IF \E r \in all : r.body = Receipt(b)
               THEN Project({r \in all : r.body.blob = b}) ELSE None]
    BY <2>0
  <2>2. OneAtATime'
    BY <1>1 DEF LoopInv, OneAtATime, Busy
  <2>3. ASSUME NEW q \in Actor PROVE Turn(q)'
    <3> SUFFICES ASSUME pc[q] = "write", Current(q), task[q].blob \notin drift
                 PROVE  RowsFor(task[q].blob)' = RowsFor(task[q].blob)
      BY <1>1, TurnKept DEF LoopInv
    <3>1. task[q].blob \in Blob \ drift /\ HasReceipt(task[q].blob)
      BY <1>1 DEF Safe, Handlers, Handler, TInv, Working, Task, LoopInv, Turn
    <3>2. replaying.snap[Receipt(task[q].blob)] = None
      BY <1>1, <1>3, <3>1 DEF LoopInv, KnownIsNew, Unlocking
    <3>5. \A e \in Body : ~Pending(e)
      BY Only DEF Pending, Busy
    <3>6. PICK b \in Blob \ drift : b = task[q].blob
      BY <3>1
    <3>7. replaying.snap[Receipt(b)] = None
      BY <3>2, <3>6
    <3>8. {r \in all : r.body.blob = b} = RowsFor(b)
      BY <1>3, <3>5, <3>7, ReplayedLeaves
    <3>3. {r \in all : r.body.blob = task[q].blob} = RowsFor(task[q].blob)
      BY <3>6, <3>8, Zenon
    <3>4. RowsFor(task[q].blob)' = {r \in rows' : r.body.blob = task'[q].blob}
      BY DEF RowsFor
    <3> QED
      BY <1>1, <2>1, <3>3, <3>4
  <2> HIDE DEF all
  <2>4. KnownIsNew'
    BY <1>1 DEF KnownIsNew, Unlocking
  <2>5. \A b \in Blob : HasReceipt(b)' <=> \E r \in all : r.body = Receipt(b)
    BY <2>1 DEF HasReceipt
  <2>6. \A b \in Blob : RowsFor(b)' = {r \in all : r.body.blob = b}
    BY <2>1 DEF RowsFor
  <2>7. ShownIsFresh' /\ ShownIsKnown'
    BY <2>1, <2>5, <2>6 DEF ShownIsFresh, ShownIsKnown
  <2> QED
    BY <2>2, <2>3, <2>4, <2>7 DEF LoopInv
<1> QED
  BY <1>2, <1>3

LEMMA NextLoop ==
  ASSUME Mirrored, LoopInv, LoopAlone, LoopAlone', [Next]_vars
  PROVE  LoopInv'
<1>0. Safe
  BY DEF Mirrored
<1>1. ASSUME NEW p \in Actor, NEW b \in Blob, Reextract(p, b) PROVE FALSE
  <2>1. PICK t \in Now : rows' = rows \cup {[body |-> Requeue(b), at |-> t]}
    BY <1>1 DEF Reextract
  <2>2. [body |-> Requeue(b), at |-> t].body.kind = "requeue"
    BY DEF Requeue
  <2>3. [body |-> Requeue(b), at |-> t] \in rows'
    BY <2>1
  <2>4. \A r \in rows' : r.body.kind # "requeue"
    BY DEF LoopAlone, Requeued
  <2> QED
    BY <2>2, <2>3, <2>4
<1>2. CASE UNCHANGED vars
  BY <1>2, LoopStays DEF vars
<1>6. CASE UnlockKey
  BY <1>6, LoopStays DEF UnlockKey, history
<1>3. CASE UnlockKilled
  <2>1. drift \subseteq drift'
    BY <1>0, <1>3 DEF UnlockKilled, Safe, TInv, TypeOK
  <2> QED
    BY <1>3, <2>1, LoopStays DEF UnlockKilled, cache
<1>4. ASSUME NEW p \in Actor, Answered(p) \/ \E b \in Blob : Begins(p, b) PROVE LoopInv'
  BY <1>0, <1>4, LoopBegins DEF Safe
<1>5. ASSUME NEW p \in Actor,
             \/ Append(p) \/ ApplyReceipt(p) \/ ApplyRows(p)
             \/ ReadRows(p) \/ WriteProjection(p) \/ Crash(p)
      PROVE  LoopInv'
  BY <1>0, <1>5, LoopAppends, LoopAppliesReceipt, LoopAppliesRows, LoopReads, LoopWrites, LoopCrashes
<1> QED
  BY NextCases, <1>0, <1>1, <1>2, <1>3, <1>4, <1>5, <1>6, LoopEmptied, LoopUnlocks DEF Quiet

-----------------------------------------------------------------------------
(* The last edit.  Of the corrections of a field in the log the last one   *)
(* submitted has the latest stamp, while the clock does not step back.     *)

IsEdit(e, b, f) == e.kind = "correction" /\ e.blob = b /\ e.what.field = f

\* e is later than every other correction of the field.
LastEdit(e, b, f) ==
  /\ e \in Body /\ IsEdit(e, b, f) /\ log[e] # None
  /\ \A d \in Body \ {e} : IsEdit(d, b, f) /\ log[d] # None => log[d] < log[e]

LogStamped == \A e \in Body : log[e] # None => log[e] \in stamps

LastIsWanted ==
  \A b \in Blob \ repeated, f \in Field : wanted[b][f] # <<>> =>
    \E e \in Body : LastEdit(e, b, f) /\ wanted[b][f] = <<e.what.value>>

EditsInv == LogStamped /\ LastIsWanted

LEMMA AppendsEdit ==
  ASSUME Safe, EditsInv, LoopAlone, NEW p \in Actor, Append(p)
  PROVE  EditsInv'
<1> USE StoreAssumption
<1>1. TInv /\ task[p] \in Task
  BY DEF Append, Safe, TInv, Working
<1>2. PICK e \in task[p].todo, t \in Now :
        /\ stamps' = stamps \cup {t}
        /\ log' = Sealed(e, t)
        /\ IF e.kind = "correction"
             THEN /\ wanted' = [wanted EXCEPT ![e.blob][e.what.field] = <<e.what.value>>]
                  /\ repeated' = IF log[e] = None THEN repeated ELSE repeated \cup {e.blob}
             ELSE UNCHANGED <<wanted, repeated>>
  BY DEF Append
<1>3. e \in Body /\ e.blob \in Blob /\ t \in Stamp /\ t \in Nat /\ t # None /\ t \notin stamps
  BY <1>1, NowType DEF Task, Body, Now
<1>4. \A s \in stamps : s \in Nat /\ s < t
  <2> SUFFICES ASSUME NEW s \in stamps PROVE s \in Nat /\ s < t
    OBVIOUS
  <2>1. s \in Stamp /\ s \in Nat
    BY <1>1 DEF TInv, TypeOK
  <2>2. ~(t < s)
    BY <1>3 DEF LoopAlone, InOrder
  <2> QED
    BY <1>3, <2>1, <2>2
<1>5. \A d \in Body : log[d] # None => log[d] \in Nat /\ log[d] < t
  BY <1>4 DEF EditsInv, LogStamped
<1>6. /\ log[e] = None => log' = [log EXCEPT ![e] = t]
      /\ log[e] # None => log' = log
  BY <1>2 DEF Sealed
<1>7. /\ log[e] = None => log'[e] = t /\ \A d \in Body \ {e} : log'[d] = log[d]
      /\ log[e] # None => \A d \in Body : log'[d] = log[d]
  BY <1>1, <1>3, <1>6 DEF TInv, TypeOK, Log
<1>8. LogStamped'
  BY <1>2, <1>7 DEF EditsInv, LogStamped
<1>9. LastIsWanted'
  <2> SUFFICES ASSUME NEW b \in Blob \ repeated', NEW f \in Field, wanted'[b][f] # <<>>
               PROVE  \E x \in Body : LastEdit(x, b, f)' /\ wanted'[b][f] = <<x.what.value>>
    BY DEF LastIsWanted
  <2>1. CASE IsEdit(e, b, f)
    <3>1. log[e] = None
      BY <1>2, <2>1 DEF IsEdit
    <3>2. wanted'[b][f] = <<e.what.value>>
      BY <1>1, <1>2, <2>1 DEF IsEdit, TInv, TypeOK
    <3>3. LastEdit(e, b, f)'
      BY <1>3, <1>5, <1>7, <2>1, <3>1 DEF LastEdit, IsEdit
    <3> QED
      BY <1>3, <3>2, <3>3
  <2>2. CASE ~IsEdit(e, b, f)
    <3>1. b \notin repeated
      BY <1>2
    <3>2. wanted'[b][f] = wanted[b][f]
      BY <1>1, <1>2, <1>3, <2>2 DEF IsEdit, TInv, TypeOK
    <3>3. PICK x \in Body : LastEdit(x, b, f) /\ wanted[b][f] = <<x.what.value>>
      BY <3>1, <3>2 DEF EditsInv, LastIsWanted
    <3>4. \A d \in Body : IsEdit(d, b, f) => log'[d] = log[d]
      BY <1>7, <2>2
    <3>5. LastEdit(x, b, f)'
      BY <3>3, <3>4 DEF LastEdit, IsEdit
    <3> QED
      BY <3>2, <3>3, <3>5
  <2> QED
    BY <2>1, <2>2
<1> QED
  BY <1>8, <1>9 DEF EditsInv

LEMMA NextEdits ==
  ASSUME Safe, EditsInv, LoopAlone, [Next]_vars
  PROVE  EditsInv'
<1>1. CASE \E p \in Actor : Append(p)
  BY <1>1, AppendsEdit
<1>2. CASE ~ \E p \in Actor : Append(p)
  <2>1. UNCHANGED <<log, wanted, repeated>> /\ stamps \subseteq stamps'
    BY <1>2, WantedFrame DEF Safe
  <2> QED
    BY <2>1 DEF EditsInv, LogStamped, LastIsWanted, LastEdit
<1> QED
  BY <1>1, <1>2

\* The events of a receipt show the last correction of each field.
LEMMA LastEditShows ==
  ASSUME TInv, NEW b \in Blob, NEW f \in Field, NEW e \in Body, LastEdit(e, b, f)
  PROVE  Shows(LogRows(b), f) = e.what.value
<1> USE StoreAssumption
<1> DEFINE R == LogRows(b)
           r0 == [body |-> e, at |-> log[e]]
<1>1. \A d \in Body : log[d] # None => log[d] \in Nat
  BY DEF TInv, TypeOK, Log
<1>2. r0 \in R /\ r0 \in EditsOf(R, f)
  BY DEF LogRows, EditsOf, LastEdit, IsEdit
<1>3. ASSUME NEW q \in EditsOf(R, f) PROVE q = r0 \/ (q.at \in Nat /\ q.at < r0.at)
  <2>1. PICK d \in Body : d.blob = b /\ log[d] # None /\ q = [body |-> d, at |-> log[d]]
    BY DEF EditsOf, LogRows
  <2>2. IsEdit(d, b, f)
    BY <2>1 DEF EditsOf, IsEdit
  <2> QED
    BY <1>1, <2>1, <2>2 DEF LastEdit
<1>4. r0.at \in Nat
  BY <1>1 DEF LastEdit
<1> HIDE DEF R, r0
<1>5. IsLatest(r0, EditsOf(R, f))
  BY <1>2, <1>3, <1>4 DEF IsLatest
<1>6. ASSUME NEW r, IsLatest(r, EditsOf(R, f)) PROVE r = r0
  BY <1>2, <1>3, <1>4, <1>6 DEF IsLatest
<1>7. (CHOOSE r \in R : IsLatest(r, EditsOf(R, f))) = r0
  BY <1>2, <1>5, <1>6
<1>8. Shows(R, f) = r0.body.what.value
  BY <1>2, <1>5, <1>7 DEF Shows
<1> QED
  BY <1>8 DEF R, r0

-----------------------------------------------------------------------------
(* Behaviours of the event loop alone. *)

Looping == Mirrored /\ (usage = "loop alone" => LoopAlone /\ LoopInv /\ EditsInv)

LEMMA InitLooping == MCInit => Looping
<1> SUFFICES ASSUME MCInit PROVE Looping
  OBVIOUS
<1>1. Init /\ Mirrored
  BY InitMirrored DEF MCInit
<1>2. LoopAlone /\ LogStamped /\ LastIsWanted
  BY <1>1 DEF Init, LoopAlone, NoThread, InOrder, Requeued, Actor, LogStamped, LastIsWanted, NoLog
<1>3. LoopInv
  BY <1>1 DEF Init, LoopInv, OneAtATime, Busy, Turn, KnownIsNew, Unlocking, ShownIsFresh,
     ShownIsKnown, HasReceipt
<1> QED
  BY <1>1, <1>2, <1>3 DEF Looping, EditsInv

LEMMA NextLooping == Looping /\ [MCNext]_<<vars, usage>> => Looping'
<1> SUFFICES ASSUME Looping, [MCNext]_<<vars, usage>> PROVE Looping'
  OBVIOUS
<1>1. [Next]_vars /\ usage' = usage
  BY DEF MCNext
<1>2. Mirrored'
  BY <1>1, NextMirrored DEF Looping
<1>3. ASSUME usage = "loop alone" PROVE LoopAlone' /\ LoopInv' /\ EditsInv'
  <2>1. Mirrored /\ Safe /\ LoopAlone /\ LoopInv /\ EditsInv
    BY <1>3 DEF Looping, Mirrored
  <2>2. LoopAlone'
    <3>1. CASE MCNext
      BY <1>1, <1>3, <3>1 DEF MCNext, Within
    <3>2. CASE UNCHANGED <<vars, usage>>
      BY <2>1, <3>2 DEF vars, LoopAlone, NoThread, InOrder, Requeued
    <3> QED
      BY <3>1, <3>2
  <2> QED
    BY <1>1, <2>1, <2>2, NextLoop, NextEdits
<1> QED
  BY <1>1, <1>2, <1>3 DEF Looping

LEMMA LoopingIsFresh == ASSUME Looping, usage = "loop alone" PROVE ProjectionIsFresh
<1> SUFFICES ASSUME NEW b \in Blob \ drift, HasReceipt(b), ~Writing(b)
             PROVE  shown[b] = Project(RowsFor(b))
  BY DEF ProjectionIsFresh
<1>1. \A p \in Actor : ~Owes(p, b)
  BY DEF Looping, LoopInv, Turn, Owes, Writing
<1> QED
  BY <1>1 DEF Looping, LoopInv, ShownIsFresh

(***************************************************************************)
(* What is shown is what the rows project to (worker, web.app), for any    *)
(* handlers of the event loop, receipts and fields, with kills, locks and  *)
(* unlocks at any point: a handler comes back from the model to a database *)
(* that may be another one, and runs from there to its projection without  *)
(* another in between.                                                     *)
(***************************************************************************)
THEOREM LoopShowsTheRows == MCSpec => []LoopIsFresh
<1>1. Looping => LoopIsFresh
  BY LoopingIsFresh DEF LoopIsFresh
<1> QED
  BY <1>1, InitLooping, NextLooping, PTL DEF MCSpec

(***************************************************************************)
(* The last edit of a field survives (project, store.now): at rest a page  *)
(* shows it, whatever the model answered before or after, and whether the  *)
(* rows are those the handlers made or those an unlock read from the log.  *)
(***************************************************************************)
THEOREM TheLastEditStays == MCSpec => []LoopKeepsTheLastEdit
<1>1. Looping => LoopKeepsTheLastEdit
  <2> SUFFICES ASSUME Looping, usage = "loop alone", Ready, NEW b \in Blob \ (drift \cup repeated),
                      shown[b] # None, ~Writing(b), NEW f \in Field, wanted[b][f] # <<>>
               PROVE  <<shown[b].fields[f]>> = wanted[b][f]
    BY DEF LoopKeepsTheLastEdit, LastEditWinsUnlessRepeated, LastEditShown
  <2>1. TInv /\ Mirrored /\ LoopInv /\ EditsInv
    BY DEF Looping, Mirrored, Safe
  <2>2. HasReceipt(b)
    BY <2>1 DEF LoopInv, ShownIsKnown
  <2>3. shown[b] = Project(RowsFor(b))
    BY <2>2, LoopingIsFresh DEF ProjectionIsFresh
  <2>4. RowsFor(b) = LogRows(b)
    BY <2>1, MirroredIsReplay DEF ReplayReproducesCache
  <2>5. PICK e \in Body : LastEdit(e, b, f) /\ wanted[b][f] = <<e.what.value>>
    BY <2>1 DEF EditsInv, LastIsWanted
  <2>6. Shows(LogRows(b), f) = e.what.value
    BY <2>1, <2>5, LastEditShows
  <2>7. Project(LogRows(b)).fields[f] = Shows(LogRows(b), f)
    BY DEF Project
  <2> QED
    BY <2>3, <2>4, <2>5, <2>6, <2>7
<1> QED
  BY <1>1, InitLooping, NextLooping, PTL DEF MCSpec
=============================================================================
