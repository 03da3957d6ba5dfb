----------------------------- MODULE WorkerProofs -----------------------------
(***************************************************************************)
(* Theorems about Worker, for any number of receipts and any of them       *)
(* unreadable, any wait and any back-offs; and about Pages: its ledger,    *)
(* for any natives and charges, any order of their keys and any number of  *)
(* corrections; and its receipt, for any readings, any rules and any forms *)
(* the owner may send.                                                     *)
(***************************************************************************)
EXTENDS Worker, Pages, FiniteSetTheorems, NaturalsInduction, SequenceTheorems,
        WellFoundedInduction, TLAPS

LEMMA DoubledIsBackoff ==
  ASSUME backoff = 0 \/ backoff \in FirstBackoff..MaxBackoff
  PROVE  Doubled \in FirstBackoff..MaxBackoff
BY WorkerAssumption DEF Doubled, Larger, Smaller

\* A queue that is not empty has an oldest receipt.
LEMMA OldestIsPending ==
  ASSUME TypeOK, Pending # {}
  PROVE  Oldest \in Receipt /\ Oldest \in Pending
<1>1. Pending \subseteq Nat /\ Pending \subseteq Receipt
  BY WorkerAssumption DEF Pending, TypeOK, Receipt
<1>2. PICK m \in Pending : \A r \in Pending : ~ (<<r, m>> \in OpToRel(<, Nat))
  <2> HIDE DEF Pending
  <2> QED BY <1>1, NatLessThanWellFounded, WFMin
<1>3. \A r \in Pending : m <= r
  <2>1. \A r \in Pending : ~ (r < m)
    <3> HIDE DEF Pending
    <3> QED BY <1>1, <1>2 DEF OpToRel
  <2>. QED BY <1>1, <2>1
<1>. QED
  BY <1>1, <1>3 DEF Oldest

\* The wait that follows a tick is an idle one at least, a back-off at most.
LEMMA RestIsBounded ==
  ASSUME NEW b, b = 0 \/ b \in FirstBackoff..MaxBackoff, Rest(b), pc # "off", TypeOK
  PROVE  /\ pc' = "rest" /\ rid' = Nothing
         /\ backoff' = 0 \/ backoff' \in FirstBackoff..MaxBackoff
         /\ left' \in 0..MaxBackoff
BY WorkerAssumption DEF Rest, Larger

-----------------------------------------------------------------------------
LEMMA TypeStep == TypeOK /\ [Next]_vars => TypeOK'
<1>. SUFFICES ASSUME TypeOK, [Next]_vars
              PROVE  TypeOK'
  OBVIOUS
<1>. USE DEF TypeOK, environment, queue, routes
<1>0. /\ backoff = 0 \/ backoff \in FirstBackoff..MaxBackoff
      /\ 0 = 0 \/ 0 \in FirstBackoff..MaxBackoff
      /\ Nothing \notin Nat /\ MaxId \in Nat /\ Receipt \subseteq Nat
  BY WorkerAssumption DEF Receipt
<1>1. CASE Look
  <2>1. pc = "look" /\ unseen' = {} /\ serving
    BY <1>1 DEF Look
  <2>2. CASE ~open \/ Pending = {}
    <3>1. /\ pc' = "rest" /\ rid' = Nothing
          /\ backoff' = 0 \/ backoff' \in FirstBackoff..MaxBackoff
          /\ left' \in 0..MaxBackoff
      <4>1. CASE ~open
        BY <1>0, <1>1, <2>1, <4>1, RestIsBounded DEF Look
      <4>2. CASE open /\ Pending = {}
        BY <1>0, <1>1, <2>1, <4>2, RestIsBounded DEF Look
      <4>. QED BY <2>2, <4>1, <4>2
    <3>. QED BY <1>1, <2>1, <3>1 DEF Look
  <2>3. CASE open /\ Pending # {}
    <3>1. Oldest \in 1..known
      BY <2>3, OldestIsPending DEF Pending
    <3>3. CASE pc' = "await" /\ rid' = Oldest /\ UNCHANGED <<backoff, left>>
      BY <1>0, <1>1, <2>1, <3>1, <3>3 DEF Look
    <3>4. CASE Rest(Doubled)
      <4>1. /\ pc' = "rest" /\ rid' = Nothing
            /\ backoff' = 0 \/ backoff' \in FirstBackoff..MaxBackoff
            /\ left' \in 0..MaxBackoff
        BY <1>0, <2>1, <3>4, DoubledIsBackoff, RestIsBounded
      <4>. QED BY <1>1, <2>1, <4>1 DEF Look
    <3>. QED BY <1>1, <2>3, <3>3, <3>4 DEF Look
  <2>. QED BY <2>2, <2>3
<1>2. CASE Answered
  <2>1. pc = "await" /\ rid \in 1..known /\ serving
    BY <1>0, <1>2 DEF Answered
  <2>2. CASE up /\ rid \notin bad
    <3>1. read' = read \cup {rid} /\ Rest(0)
      BY <1>2, <2>2 DEF Answered
    <3>2. /\ pc' = "rest" /\ rid' = Nothing
          /\ backoff' = 0 \/ backoff' \in FirstBackoff..MaxBackoff
          /\ left' \in 0..MaxBackoff
      BY <1>0, <2>1, <3>1, RestIsBounded
    <3>3. read' \subseteq (1..known) \ bad
      BY <2>1, <2>2, <3>1
    <3>. QED BY <1>2, <2>1, <3>2, <3>3 DEF Answered
  <2>3. CASE ~(up /\ rid \notin bad)
    <3>1. read' = read /\ Rest(Doubled)
      BY <1>2, <2>3 DEF Answered
    <3>2. /\ pc' = "rest" /\ rid' = Nothing
          /\ backoff' = 0 \/ backoff' \in FirstBackoff..MaxBackoff
          /\ left' \in 0..MaxBackoff
      BY <1>0, <2>1, <3>1, DoubledIsBackoff, RestIsBounded
    <3>. QED BY <1>2, <2>1, <3>1, <3>2 DEF Answered
  <2>. QED BY <2>2, <2>3
<1>3. CASE Wait
  BY <1>3, <1>0 DEF Wait
<1>4. CASE TimePasses
  BY <1>4, WorkerAssumption DEF TimePasses
<1>5. CASE WakeUp
  <2>1. {up', open', serving', wake'} \subseteq BOOLEAN
    BY <1>5 DEF WakeUp
  <2>2. left' \in 0..MaxBackoff
    BY <1>5, WorkerAssumption DEF WakeUp
  <2>. QED BY <1>5, <2>1, <2>2 DEF WakeUp
<1>6. CASE Upload
  <2>1. known' \in 1..MaxId /\ 1..known \subseteq 1..known' /\ known' \in 1..known'
    BY <1>0, <1>6 DEF Upload
  <2>. QED BY <1>6, <2>1 DEF Upload
<1>7. CASE Ingest
  <2>1. known' \in 1..MaxId /\ 1..known \subseteq 1..known'
    BY <1>0, <1>7 DEF Ingest
  <2>. QED BY <1>7, <2>1 DEF Ingest
<1>8. ASSUME NEW r \in Receipt, Reextract(r)
      PROVE  TypeOK'
  <2>1. r \in 1..known
    BY <1>0, <1>8 DEF Reextract, Receipt
  <2>. QED BY <1>8, <2>1 DEF Reextract
<1>9. ASSUME NEW r \in Receipt, Nudge(r)
      PROVE  TypeOK'
  BY <1>9 DEF Nudge
<1>10. ASSUME NEW r \in Receipt, Extract(r)
       PROVE  TypeOK'
  <2>1. r \in 1..known
    BY <1>0, <1>10 DEF Extract, Receipt
  <2>. QED BY <1>10, <2>1 DEF Extract
<1>11. CASE Start
  BY <1>11 DEF Start
<1>12. CASE Stop
  <2>1. {up', open', serving', wake'} \subseteq BOOLEAN
    BY <1>12 DEF Stop
  <2>2. left' \in 0..MaxBackoff
    BY <1>12, WorkerAssumption DEF Stop
  <2>. QED BY <1>12, <2>1, <2>2 DEF Stop
<1>13. CASE Unlocked
  BY <1>13 DEF Unlocked
<1>14. CASE ModelServer
  BY <1>14 DEF ModelServer
<1>15. CASE UNCHANGED vars
  BY <1>15 DEF vars
<1>. QED
  BY <1>1, <1>2, <1>3, <1>4, <1>5, <1>6, <1>7, <1>8, <1>9, <1>10, <1>11, <1>12,
     <1>13, <1>14, <1>15 DEF Next, Task

(***************************************************************************)
(* Every variable keeps its type: what the worker reads is in the cache,   *)
(* and its back-off grows no further than WORKER_BACKOFF_MAX.              *)
(***************************************************************************)
THEOREM TypeCorrect == Spec => []TypeOK
<1>1. Init => TypeOK
  <2>. SUFFICES ASSUME Init PROVE TypeOK
    OBVIOUS
  <2>1. {up, open, serving, wake} \subseteq BOOLEAN
    BY DEF Init
  <2>2. left \in 0..MaxBackoff /\ known \in 0..MaxId
    BY WorkerAssumption DEF Init
  <2>. QED BY <2>1, <2>2 DEF Init, TypeOK
<1>. QED
  BY <1>1, TypeStep, PTL DEF Spec

-----------------------------------------------------------------------------
\* A nudge is not lost during a tick either: only between the wait's end and
\* the query does the worker owe a look at the queue without the event saying so.
Remembered == pc # "look" /\ unseen # {} => wake

LEMMA RememberedStep == TypeOK /\ Remembered /\ [Next]_vars => Remembered'
<1>. SUFFICES ASSUME TypeOK, Remembered, [Next]_vars
              PROVE  Remembered'
  OBVIOUS
<1>. USE DEF TypeOK, Remembered, environment, queue, routes
<1>1. CASE Look
  BY <1>1 DEF Look
<1>2. CASE Answered
  BY <1>2 DEF Answered
<1>3. CASE Wait
  BY <1>3 DEF Wait
<1>4. CASE TimePasses
  BY <1>4 DEF TimePasses
<1>5. CASE WakeUp
  BY <1>5 DEF WakeUp
<1>6. CASE Upload \/ Ingest
  BY <1>6 DEF Upload, Ingest
<1>7. ASSUME NEW r \in Receipt, Reextract(r) \/ Nudge(r) \/ Extract(r)
      PROVE  Remembered'
  BY <1>7 DEF Reextract, Nudge, Extract
<1>8. CASE Start \/ Stop
  BY <1>8 DEF Start, Stop
<1>9. CASE Unlocked \/ ModelServer
  BY <1>9 DEF Unlocked, ModelServer
<1>10. CASE UNCHANGED vars
  BY <1>10 DEF vars
<1>. QED
  BY <1>1, <1>2, <1>3, <1>4, <1>5, <1>6, <1>7, <1>8, <1>9, <1>10 DEF Next, Task

(***************************************************************************)
(* While the worker waits, a nudge since it last looked at the queue is    *)
(* about to wake it up (worker.nudge).                                     *)
(***************************************************************************)
THEOREM NoNudgeIsLost == Spec => []NudgeIsNotLost
<1>1. Init => Remembered
  BY DEF Init, Remembered
<1>2. Remembered => NudgeIsNotLost
  BY DEF Remembered, NudgeIsNotLost
<1>. QED
  BY <1>1, <1>2, TypeCorrect, RememberedStep, PTL DEF Spec
-----------------------------------------------------------------------------
(* Sums over finite sets.                                                  *)

\* Induction, with the set of what it holds of in place of a predicate.
LEMMA SubsetsBySize ==
  ASSUME NEW S, IsFiniteSet(S), NEW G,
         \A s \in SUBSET S : (\A x \in s : s \ {x} \in G) => s \in G
  PROVE  \A s \in SUBSET S : s \in G
<1> SUFFICES ASSUME NEW s0 \in SUBSET S, s0 \notin G PROVE FALSE
  OBVIOUS
<1> DEFINE Bad == {s \in SUBSET S : s \notin G}
           Sizes == {Cardinality(s) : s \in Bad}
<1>1. \A s \in SUBSET S : IsFiniteSet(s) /\ Cardinality(s) \in Nat
  BY FS_Subset, FS_CardinalityType
<1>2. Sizes \subseteq Nat /\ Sizes # {}
  BY <1>1
<1>3. PICK k \in Sizes : \A y \in Sizes : ~ (<<y, k>> \in OpToRel(<, Nat))
  <2> HIDE DEF Sizes
  <2> QED
    BY <1>2, NatLessThanWellFounded, WFMin
<1>4. PICK s \in Bad : Cardinality(s) = k
  OBVIOUS
<1>5. PICK x \in s : s \ {x} \notin G
  OBVIOUS
<1>6. s \ {x} \in Bad /\ Cardinality(s \ {x}) = Cardinality(s) - 1
  BY <1>1, <1>5, FS_RemoveElement
<1>7. Cardinality(s \ {x}) \in Sizes /\ Cardinality(s \ {x}) < k
  BY <1>1, <1>2, <1>4, <1>6
<1>8. <<Cardinality(s \ {x}), k>> \in OpToRel(<, Nat)
  <2> HIDE DEF Sizes
  <2> QED
    BY <1>2, <1>7 DEF OpToRel
<1> QED
  BY <1>3, <1>7, <1>8

Some(s) == CHOOSE x \in s : TRUE

\* What SumFunction adds up, one member of the set after the other.
IsParts(sum, f, S) == sum = [s \in SUBSET S |-> IF s = {} THEN 0 ELSE f[Some(s)] + sum[s \ {Some(s)}]]
Parts(f, S) == CHOOSE sum : IsParts(sum, f, S)

LEMMA SumIsParts ==
  ASSUME NEW f
  PROVE  SumFunction(f) = Parts(f, DOMAIN f)[DOMAIN f]
BY DEF SumFunction, SumFunctionOnSet, FoldFunctionOnSet, MapThenFoldSet, Parts, IsParts, Some

\* They are there, for every size of what is added up.
LEMMA PartsExist ==
  ASSUME NEW S, IsFiniteSet(S), NEW f
  PROVE  \E sum : IsParts(sum, f, S)
<1> DEFINE UpTo(k) == {s \in SUBSET S : Cardinality(s) <= k}
           Good(k, g) == \A s \in UpTo(k) : g[s] = IF s = {} THEN 0 ELSE f[Some(s)] + g[s \ {Some(s)}]
           Bad == {k \in Nat : \A g : ~Good(k, g)}
<1>1. \A s \in SUBSET S : IsFiniteSet(s) /\ Cardinality(s) \in Nat /\ Cardinality(s) <= Cardinality(S)
  BY FS_Subset, FS_CardinalityType
<1>2. Cardinality(S) \in Nat
  BY FS_CardinalityType
<1>3. ASSUME NEW s \in SUBSET S, s # {}
      PROVE  s \ {Some(s)} \in SUBSET S /\ Cardinality(s \ {Some(s)}) = Cardinality(s) - 1
  BY <1>1, <1>3, FS_RemoveElement DEF Some
<1>4. Bad = {}
  <2> SUFFICES ASSUME Bad # {} PROVE FALSE
    OBVIOUS
  <2>1. PICK k \in Bad : \A y \in Bad : ~ (<<y, k>> \in OpToRel(<, Nat))
    <3>1. Bad \subseteq Nat
      OBVIOUS
    <3> HIDE DEF Bad
    <3> QED
      BY <3>1, NatLessThanWellFounded, WFMin
  <2>2. CASE k = 0
    <3> DEFINE g == [s \in SUBSET S |-> 0]
    <3>1. \A s \in UpTo(0) : s = {}
      BY <1>1, FS_EmptySet
    <3>2. Good(0, g)
      BY <3>1
    <3> QED
      BY <2>2, <3>2
  <2>3. CASE k # 0
    <3>1. k \in Nat /\ k - 1 \in Nat /\ k - 1 < k
      BY <2>3
    <3>2. PICK g : Good(k - 1, g)
      <4>1. <<k - 1, k>> \in OpToRel(<, Nat)
        BY <3>1 DEF OpToRel
      <4> HIDE DEF Good
      <4>2. k - 1 \notin Bad
        BY <2>1, <4>1, Zenon
      <4> QED
        BY <3>1, <4>2
    <3> DEFINE h == [s \in SUBSET S |-> IF s = {} THEN 0 ELSE f[Some(s)] + g[s \ {Some(s)}]]
    <3>3. \A s \in UpTo(k - 1) : h[s] = g[s]
      BY <3>2
    <3>4. ASSUME NEW s \in UpTo(k), s # {}
          PROVE  s \ {Some(s)} \in UpTo(k - 1)
      <4>1. /\ s \in SUBSET S /\ Cardinality(s) <= k /\ Cardinality(s) \in Nat
            /\ s \ {Some(s)} \in SUBSET S /\ Cardinality(s \ {Some(s)}) = Cardinality(s) - 1
        BY <1>1, <1>3, <3>4
      <4>2. Cardinality(s \ {Some(s)}) <= k - 1
        BY <3>1, <4>1
      <4> QED
        BY <4>1, <4>2
    <3>5. Good(k, h)
      BY <3>3, <3>4
    <3> QED
      BY <3>5
  <2> QED
    BY <2>2, <2>3
<1>5. PICK g : Good(Cardinality(S), g)
  BY <1>2, <1>4
<1> DEFINE h == [s \in SUBSET S |-> g[s]]
<1>6. \A s \in SUBSET S : s \in UpTo(Cardinality(S))
  BY <1>1
<1>7. \A s \in SUBSET S : h[s] = IF s = {} THEN 0 ELSE f[Some(s)] + h[s \ {Some(s)}]
  BY <1>3, <1>5, <1>6
<1>8. h = [s \in SUBSET S |-> IF s = {} THEN 0 ELSE f[Some(s)] + h[s \ {Some(s)}]]
  <2> HIDE DEF Good
  <2> QED
    BY <1>7
<1> QED
  BY <1>8 DEF IsParts

LEMMA PartsAre ==
  ASSUME NEW S, IsFiniteSet(S), NEW f
  PROVE  \A s \in SUBSET S :
           Parts(f, S)[s] = IF s = {} THEN 0 ELSE f[Some(s)] + Parts(f, S)[s \ {Some(s)}]
<1> DEFINE P == Parts(f, S)
<1>1. P = [s \in SUBSET S |-> IF s = {} THEN 0 ELSE f[Some(s)] + P[s \ {Some(s)}]]
  <2>1. \E sum : IsParts(sum, f, S)
    BY PartsExist
  <2>2. IsParts(P, f, S)
    BY <2>1, Zenon DEF Parts
  <2> QED
    BY <2>2 DEF IsParts
<1> HIDE DEF P
<1>2. \A s \in SUBSET S : P[s] = IF s = {} THEN 0 ELSE f[Some(s)] + P[s \ {Some(s)}]
  BY <1>1
<1> QED
  BY <1>2 DEF P

\* A sum of integers is one, whichever of them is taken first.
LEMMA PartsTyped ==
  ASSUME NEW S, IsFiniteSet(S), NEW f \in [S -> Int]
  PROVE  \A s \in SUBSET S : Parts(f, S)[s] \in Int
<1> DEFINE P == Parts(f, S)
           G == {s \in SUBSET S : P[s] \in Int}
<1>1. \A s \in SUBSET S : P[s] = IF s = {} THEN 0 ELSE f[Some(s)] + P[s \ {Some(s)}]
  BY PartsAre
<1>2. ASSUME NEW s \in SUBSET S, \A x \in s : s \ {x} \in G PROVE s \in G
  <2>1. CASE s = {}
    BY <1>1, <2>1
  <2>2. CASE s # {}
    <3>1. Some(s) \in s
      BY <2>2 DEF Some
    <3>2. f[Some(s)] \in Int /\ P[s \ {Some(s)}] \in Int
      BY <1>2, <3>1
    <3> HIDE DEF P
    <3>3. P[s] = f[Some(s)] + P[s \ {Some(s)}]
      BY <1>1, <2>2
    <3> QED
      BY <3>2, <3>3
  <2> QED
    BY <2>1, <2>2
<1>3. \A s \in SUBSET S : s \in G
  <2> HIDE DEF G
  <2> QED
    BY <1>2, SubsetsBySize
<1> QED
  BY <1>3

IsSumOf(P, f, S) ==
  /\ P[{}] = 0
  /\ \A s \in SUBSET S : P[s] \in Int
  /\ \A s \in SUBSET S : \A x \in s : P[s] = f[x] + P[s \ {x}]

LEMMA PartsAny ==
  ASSUME NEW S, IsFiniteSet(S), NEW f \in [S -> Int]
  PROVE  IsSumOf(Parts(f, S), f, S)
<1> DEFINE P == Parts(f, S)
           G == {s \in SUBSET S : \A x \in s : P[s] = f[x] + P[s \ {x}]}
<1>1. \A s \in SUBSET S : s # {} => P[s] = f[Some(s)] + P[s \ {Some(s)}]
  BY PartsAre
<1>2. \A s \in SUBSET S : P[s] \in Int
  BY PartsTyped
<1> HIDE DEF P
<1>3. ASSUME NEW s \in SUBSET S, \A x \in s : s \ {x} \in G PROVE s \in G
  <2> SUFFICES ASSUME NEW x \in s PROVE P[s] = f[x] + P[s \ {x}]
    BY <1>3
  <2> DEFINE y == Some(s)
  <2>1. y \in s /\ P[s] = f[y] + P[s \ {y}]
    BY <1>1 DEF Some
  <2> HIDE DEF y
  <2>2. CASE x = y
    BY <2>1, <2>2
  <2>3. CASE x # y
    <3>1. P[s \ {y}] = f[x] + P[(s \ {y}) \ {x}]
      BY <1>3, <2>1, <2>3
    <3>2. P[s \ {x}] = f[y] + P[(s \ {x}) \ {y}]
      BY <1>3, <2>1, <2>3
    <3>3. (s \ {y}) \ {x} = (s \ {x}) \ {y}
      OBVIOUS
    <3>4. f[x] \in Int /\ f[y] \in Int /\ P[(s \ {x}) \ {y}] \in Int
      BY <1>2, <2>1
    <3>5. P[s] = f[y] + (f[x] + P[(s \ {x}) \ {y}])
      BY <2>1, <3>1, <3>3
    <3> QED
      BY <3>2, <3>4, <3>5
  <2> QED
    BY <2>2, <2>3
<1>4. \A s \in SUBSET S : s \in G
  <2> HIDE DEF G
  <2> QED
    BY <1>3, SubsetsBySize
<1>5. P[{}] = 0
  BY PartsAre DEF P
<1>6. IsSumOf(P, f, S)
  BY <1>2, <1>4, <1>5 DEF IsSumOf
<1> QED
  BY <1>6 DEF P

\* Two sums are equal when what the one adds up is found in the other, once, and the rest of that
\* is nothing.
LEMMA SumMoved ==
  ASSUME NEW S, IsFiniteSet(S), NEW f \in [S -> Int],
         NEW T, IsFiniteSet(T), NEW g \in [T -> Int],
         NEW h \in [S -> T], \A x, y \in S : h[x] = h[y] => x = y,
         \A x \in S : f[x] = g[h[x]],
         \A z \in T : (\A x \in S : h[x] # z) => g[z] = 0
  PROVE  SumFunction(f) = SumFunction(g)
<1> DEFINE P == Parts(f, S)
           Q == Parts(g, T)
           Image(s) == {h[x] : x \in s}
<1>1. SumFunction(f) = P[S] /\ SumFunction(g) = Q[T]
  BY SumIsParts
<1>2. /\ \A s \in SUBSET S : \A x \in s : P[s] = f[x] + P[s \ {x}]
      /\ \A t \in SUBSET T : \A z \in t : Q[t] = g[z] + Q[t \ {z}]
      /\ \A t \in SUBSET T : Q[t] \in Int
      /\ P[{}] = 0 /\ Q[{}] = 0
  <2>1. IsSumOf(P, f, S)
    BY PartsAny
  <2>2. IsSumOf(Q, g, T)
    BY PartsAny
  <2> HIDE DEF P, Q
  <2> QED
    BY <2>1, <2>2 DEF IsSumOf
<1> HIDE DEF P, Q
<1>3. P[S] = Q[Image(S)]
  <2> DEFINE G == {s \in SUBSET S : P[s] = Q[Image(s)]}
  <2>1. ASSUME NEW s \in SUBSET S, \A x \in s : s \ {x} \in G PROVE s \in G
    <3>1. CASE s = {}
      <4>1. Image(s) = {}
        BY <3>1
      <4> QED
        BY <1>2, <3>1, <4>1
    <3>2. CASE s # {}
      <4>1. PICK x \in s : TRUE
        BY <3>2
      <4>2. Image(s \ {x}) = Image(s) \ {h[x]}
        OBVIOUS
      <4>3. Image(s) \in SUBSET T /\ h[x] \in Image(s)
        OBVIOUS
      <4>4. P[s \ {x}] = Q[Image(s \ {x})]
        BY <2>1
      <4>5. P[s] = f[x] + P[s \ {x}] /\ Q[Image(s)] = g[h[x]] + Q[Image(s) \ {h[x]}]
        <5> HIDE DEF Image
        <5> QED
          BY <1>2, <4>3
      <4>6. P[s] = Q[Image(s)]
        <5> HIDE DEF Image
        <5> QED
          BY <4>2, <4>4, <4>5
      <4> QED
        BY <4>6
    <3> QED
      BY <3>1, <3>2
  <2>2. S \in G
    <3>1. \A s \in SUBSET S : s \in G
      <4> HIDE DEF G
      <4> QED
        BY <2>1, SubsetsBySize
    <3> QED
      BY <3>1
  <2> QED
    BY <2>2
<1>4. Q[T] = Q[Image(S)]
  <2> DEFINE R == T \ Image(S)
             G == {r \in SUBSET R : Q[Image(S) \cup r] = Q[Image(S)]}
  <2>1. ASSUME NEW r \in SUBSET R, \A z \in r : r \ {z} \in G PROVE r \in G
    <3>1. CASE r = {}
      <4>1. Image(S) \cup r = Image(S)
        BY <3>1
      <4> QED
        BY <4>1
    <3>2. CASE r # {}
      <4>1. PICK z \in r : TRUE
        BY <3>2
      <4>2. g[z] = 0 /\ z \in T /\ z \notin Image(S)
        OBVIOUS
      <4>3. (Image(S) \cup r) \ {z} = Image(S) \cup (r \ {z})
        BY <4>2
      <4>4. Q[Image(S) \cup (r \ {z})] = Q[Image(S)]
        BY <2>1, <4>1
      <4>5. (Image(S) \cup r) \in SUBSET T /\ Image(S) \in SUBSET T
        OBVIOUS
      <4>6. Q[Image(S) \cup r] = Q[Image(S)]
        <5> HIDE DEF Image
        <5>1. Q[Image(S) \cup r] = g[z] + Q[(Image(S) \cup r) \ {z}]
          BY <1>2, <4>5
        <5>2. Q[Image(S)] \in Int
          BY <1>2, <4>5
        <5>3. Q[Image(S) \cup r] = 0 + Q[Image(S)]
          BY <4>2, <4>3, <4>4, <5>1
        <5> QED
          BY <5>2, <5>3
      <4> QED
        BY <4>6
    <3> QED
      BY <3>1, <3>2
  <2>2. IsFiniteSet(R)
    BY FS_Subset
  <2>3. R \in G
    <3>1. \A r \in SUBSET R : r \in G
      <4> HIDE DEF G, R
      <4> QED
        BY <2>1, <2>2, SubsetsBySize
    <3> QED
      BY <3>1
  <2>4. Image(S) \cup R = T
    OBVIOUS
  <2>5. Q[Image(S) \cup R] = Q[Image(S)]
    BY <2>3
  <2> HIDE DEF R, G, Image
  <2> QED
    BY <2>4, <2>5
<1> QED
  BY <1>1, <1>3, <1>4

-----------------------------------------------------------------------------
(* The ledger.                                                             *)

\* The flow of a correction is one the owner may give.
FlowsFixed == \A t \in Txn : book.fixed[t].flow \in {None, "transfer", "spend"}

\* A transaction is the one its newest claim is about.
KeysMatch ==
  \A t \in Txn : book.said[t] # None => t = Key(t[1], t[2], book.said[t], book.words[t])

\* Everything the two properties need to know of a book.
LedgerInv ==
  /\ DOMAIN book = {"fact", "named", "said", "words", "fixed"}
  /\ book.fact \in Worlds
  /\ DOMAIN book.said = Txn
  /\ DOMAIN book.words = Txn
  /\ DOMAIN book.fixed = Txn
  /\ \A t \in Txn : DOMAIN book.fixed[t] = DOMAIN Unfixed
  /\ FlowsFixed
  /\ KeysMatch

\* A key names its native and its charge.
LEMMA KeyIs ==
  ASSUME NEW n \in Native, NEW c \in Charge, NEW claim \in Claim, NEW words \in Words
  PROVE  /\ Key(n, c, claim, words) \in Txn
         /\ Key(n, c, claim, words)[1] = n
         /\ Key(n, c, claim, words)[2] = c
<1>1. Key(n, c, claim, words) \in Txn
  BY DEF Txn
<1>2. Key(n, c, claim, words) = <<n, c, IF n \in Export THEN Digest(claim, words) ELSE None>>
  BY DEF Key
<1> QED
  BY <1>1, <1>2

LEMMA LedgerInit == PagesInit => LedgerInv
<1> SUFFICES ASSUME PagesInit PROVE LedgerInv
  OBVIOUS
<1>1. PICK fact \in Worlds :
        book = [fact |-> fact, named |-> {}, said |-> [t \in Txn |-> None],
                words |-> [t \in Txn |-> None], fixed |-> [t \in Txn |-> Unfixed]]
  BY DEF PagesInit
<1>2. /\ DOMAIN book = {"fact", "named", "said", "words", "fixed"}
      /\ book.fact \in Worlds
      /\ DOMAIN book.said = Txn
      /\ DOMAIN book.words = Txn
      /\ DOMAIN book.fixed = Txn
      /\ \A t \in Txn : book.said[t] = None /\ book.fixed[t] = Unfixed
  BY <1>1
<1>3. \A t \in Txn : book.fixed[t].flow = None
  BY <1>2 DEF Unfixed
<1> QED
  BY <1>2, <1>3 DEF LedgerInv, FlowsFixed, KeysMatch

LEMMA LedgerStep == LedgerInv /\ [PagesNext]_pages => LedgerInv'
<1> SUFFICES ASSUME LedgerInv, [PagesNext]_pages PROVE LedgerInv'
  OBVIOUS
<1>1. ASSUME UNCHANGED book PROVE LedgerInv'
  BY <1>1 DEF LedgerInv, FlowsFixed, KeysMatch
<1>2. ASSUME NEW e \in Readings, Read(e) PROVE LedgerInv'
  BY <1>1, <1>2 DEF Read, ledger
<1>3. CASE Open
  BY <1>1, <1>3 DEF Open, ledger
<1>4. ASSUME NEW edits \in Offered, Save(edits) PROVE LedgerInv'
  BY <1>1, <1>4 DEF Save, ledger
<1>5. CASE Delete
  BY <1>1, <1>5 DEF Delete, ledger
<1>6. ASSUME NEW n \in Native, NEW c \in Charge, NEW claim \in Claim, NEW words \in Words,
              Observe(n, c, claim, words)
      PROVE  LedgerInv'
  <2>1. PICK t \in Txn : /\ t = Key(n, c, claim, words) /\ t[1] = n /\ t[2] = c
    BY KeyIs
  <2>2. book' = [book EXCEPT !.said = [book.said EXCEPT ![t] = claim],
                             !.words = [book.words EXCEPT ![t] = words]]
    <3>1. book' = [book EXCEPT !.said = [book.said EXCEPT ![Key(n, c, claim, words)] = claim],
                               !.words = [book.words EXCEPT ![Key(n, c, claim, words)] = words]]
      BY <1>6, Zenon DEF Observe
    <3> QED
      BY <2>1, <3>1
  <2>3. DOMAIN book = {"fact", "named", "said", "words", "fixed"}
    BY DEF LedgerInv
  <2>4. DOMAIN book' = DOMAIN book /\ book'.fact = book.fact /\ book'.fixed = book.fixed
    BY <2>2
  <2>5. /\ book'.said = [book.said EXCEPT ![t] = claim]
        /\ book'.words = [book.words EXCEPT ![t] = words]
    BY <2>2, <2>3
  <2>6. DOMAIN book'.said = Txn /\ DOMAIN book'.words = Txn
    BY <2>5 DEF LedgerInv
  <2>7. KeysMatch'
    <3> SUFFICES ASSUME NEW u \in Txn, book'.said[u] # None
                 PROVE  u = Key(u[1], u[2], book'.said[u], book'.words[u])
      BY DEF KeysMatch
    <3>1. CASE u = t
      <4>1. book'.said[u] = claim /\ book'.words[u] = words
        BY <2>5, <3>1 DEF LedgerInv
      <4> QED
        BY <2>1, <3>1, <4>1
    <3>2. CASE u # t
      <4>1. book'.said[u] = book.said[u] /\ book'.words[u] = book.words[u]
        BY <2>5, <3>2 DEF LedgerInv
      <4> QED
        BY <4>1 DEF LedgerInv, KeysMatch
    <3> QED
      BY <3>1, <3>2
  <2> QED
    BY <2>4, <2>6, <2>7 DEF LedgerInv, FlowsFixed
<1>7. ASSUME NEW n \in Native, Name(n) PROVE LedgerInv'
  <2>1. /\ DOMAIN book' = DOMAIN book /\ book'.fact = book.fact /\ book'.fixed = book.fixed
        /\ book'.said = book.said /\ book'.words = book.words
    BY <1>7 DEF Name
  <2> QED
    BY <2>1 DEF LedgerInv, FlowsFixed, KeysMatch
<1>8. ASSUME NEW t \in Txn, NEW fix \in Fix, CorrectFeed(t, fix) PROVE LedgerInv'
  <2>2. /\ DOMAIN book' = DOMAIN book
        /\ book'.fact = book.fact /\ book'.said = book.said /\ book'.words = book.words
        /\ book'.fixed = [book.fixed EXCEPT ![t][fix[1]] = fix[2]]
    BY <1>8 DEF CorrectFeed
  <2>3. DOMAIN book.fixed = Txn /\ \A u \in Txn : DOMAIN book.fixed[u] = DOMAIN Unfixed
    BY DEF LedgerInv
  <2>4. DOMAIN book'.fixed = Txn /\ \A u \in Txn : DOMAIN book'.fixed[u] = DOMAIN Unfixed
    BY <2>2, <2>3
  <2>5. fix[1] = "flow" => fix[2] \in {"transfer", "spend"}
    <3>1. \/ fix = <<"flow", "transfer">> \/ fix = <<"flow", "spend">> \/ fix = <<"merchant", "other">>
          \/ fix = <<"deleted", TRUE>>
      BY Zenon DEF Fix
    <3>2. fix = <<"deleted", TRUE>> => fix[1] = "deleted"
      OBVIOUS
    <3>3. fix = <<"deleted", TRUE>> => fix[1] # "flow"
      BY <3>2
    <3>4. fix = <<"flow", "transfer">> => fix[2] = "transfer"
      OBVIOUS
    <3>5. fix = <<"flow", "spend">> => fix[2] = "spend"
      OBVIOUS
    <3>6. fix = <<"merchant", "other">> => fix[1] # "flow"
      OBVIOUS
    <3> QED
      BY <3>1, <3>3, <3>4, <3>5, <3>6, Zenon
  <2>6. fix[1] # "flow" => book'.fixed[t].flow = book.fixed[t].flow
    BY <2>2, <2>3
  <2>7. fix[1] = "flow" => book'.fixed[t].flow = fix[2]
    BY <2>2, <2>3 DEF Unfixed
  <2>8. \A u \in Txn : u # t => book'.fixed[u] = book.fixed[u]
    BY <2>2, <2>3
  <2>9. FlowsFixed'
    BY <2>5, <2>6, <2>7, <2>8 DEF LedgerInv, FlowsFixed
  <2> QED
    BY <2>2, <2>4, <2>9 DEF LedgerInv, KeysMatch
<1>9. CASE UNCHANGED pages
  BY <1>1, <1>9 DEF pages, ledger
<1> QED
  BY <1>2, <1>3, <1>4, <1>5, <1>6, <1>7, <1>8, <1>9 DEF PagesNext

\* What the row of a transaction is.
LEMMA RowsAre ==
  /\ DOMAIN TheRows = {t \in Txn : book.said[t] # None}
  /\ \A t \in DOMAIN TheRows :
       /\ TheRows[t].account = IF t[1] \in book.named THEN None ELSE t[1]
       /\ TheRows[t].day = Day(book.said[t])
       /\ TheRows[t].amount = IF book.said[t] = "garbled" THEN None ELSE book.fact[t[2]].amount
       /\ TheRows[t].merchant = IF book.fixed[t].merchant # None THEN book.fixed[t].merchant
                                ELSE book.words[t]
       /\ TheRows[t].status = RowStatus(t, book)
       /\ TheRows[t].net = IF /\ Flow(t, TheRows[t].amount, book) \in SPENDING_FLOWS
                              /\ ~book.fixed[t].deleted
                              /\ TheRows[t].amount # None
                           THEN -TheRows[t].amount ELSE 0
<1>1. DOMAIN TheRows = {t \in Txn : book.said[t] # None}
  BY DEF TheRows, Rows
<1>2. \A t \in DOMAIN TheRows : TheRows[t] = RowOf(t, book)
  BY DEF TheRows, Rows
<1> SUFFICES ASSUME NEW t \in DOMAIN TheRows
             PROVE  /\ TheRows[t].account = IF t[1] \in book.named THEN None ELSE t[1]
                    /\ TheRows[t].day = Day(book.said[t])
                    /\ TheRows[t].amount = IF book.said[t] = "garbled" THEN None ELSE book.fact[t[2]].amount
                    /\ TheRows[t].merchant = IF book.fixed[t].merchant # None THEN book.fixed[t].merchant
                                ELSE book.words[t]
                    /\ TheRows[t].status = RowStatus(t, book)
                    /\ TheRows[t].net = IF /\ Flow(t, TheRows[t].amount, book) \in SPENDING_FLOWS
                                           /\ ~book.fixed[t].deleted
                                           /\ TheRows[t].amount # None
                                        THEN -TheRows[t].amount ELSE 0
  BY <1>1
<1>3. TheRows[t] = RowOf(t, book)
  BY <1>2
<1> HIDE DEF TheRows
<1> QED
  BY <1>3 DEF RowOf

LEMMA TxnIsFinite ==
  IsFiniteSet(Txn) /\ \A t \in Txn : t[1] \in Native /\ t[2] \in Charge /\ t = <<t[1], t[2], t[3]>>
<1> DEFINE Digests == Claim \X Words
           Ids == Digests \cup {None}
           Pairs == (Native \X Charge) \X Ids
           Triples == {<<n, c, i>> : n \in Native, c \in Charge, i \in Ids}
           f == [p \in Pairs |-> <<p[1][1], p[1][2], p[2]>>]
<1>1. IsFiniteSet(Native) /\ IsFiniteSet(Charge)
  BY PagesAssumption
<1>2. IsFiniteSet(Claim) /\ IsFiniteSet(Words)
  <2>1. /\ IsFiniteSet({"bought"}) /\ IsFiniteSet({"posted"}) /\ IsFiniteSet({"undated"})
        /\ IsFiniteSet({"garbled"}) /\ IsFiniteSet({None}) /\ IsFiniteSet({"restated"})
    BY FS_Singleton
  <2>2. IsFiniteSet({"bought"} \cup {"posted"}) /\ IsFiniteSet({"undated"} \cup {"garbled"})
    BY <2>1, FS_Union
  <2>3. IsFiniteSet(({"bought"} \cup {"posted"}) \cup ({"undated"} \cup {"garbled"}))
    BY <2>2, FS_Union
  <2>4. IsFiniteSet({None} \cup {"restated"})
    BY <2>1, FS_Union
  <2>5. /\ Claim = ({"bought"} \cup {"posted"}) \cup ({"undated"} \cup {"garbled"})
        /\ Words = {None} \cup {"restated"}
    BY DEF Claim, Words
  <2> QED
    BY <2>3, <2>4, <2>5
<1>3. IsFiniteSet(Native \X Charge) /\ IsFiniteSet(Digests) /\ IsFiniteSet({None})
  BY <1>1, <1>2, FS_Product, FS_Singleton
<1>4. IsFiniteSet(Ids)
  <2> HIDE DEF Digests
  <2> QED
    BY <1>3, FS_Union
<1>5. IsFiniteSet(Pairs)
  <2> HIDE DEF Ids
  <2> QED
    BY <1>3, <1>4, FS_Product
<1>6. f \in Surjection(Pairs, Triples)
  <2> HIDE DEF Ids
  <2>1. \A p \in Pairs : p[1][1] \in Native /\ p[1][2] \in Charge /\ p[2] \in Ids
    OBVIOUS
  <2>2. f \in [Pairs -> Triples]
    BY <2>1
  <2>3. \A t \in Triples : \E p \in Pairs : f[p] = t
    <3> TAKE t \in Triples
    <3>1. PICK n \in Native, c \in Charge, i \in Ids : t = <<n, c, i>>
      OBVIOUS
    <3>2. <<<<n, c>>, i>> \in Pairs /\ f[<<<<n, c>>, i>>] = <<n, c, i>>
      OBVIOUS
    <3> HIDE DEF f, Pairs
    <3> QED
      BY <3>1, <3>2
  <2> HIDE DEF f, Pairs, Triples
  <2> QED
    BY <2>2, <2>3 DEF Surjection
<1>7. IsFiniteSet(Triples)
  <2> HIDE DEF Pairs, Triples, f
  <2> QED
    BY <1>5, <1>6, FS_Surjection DEF ExistsSurjection
<1>8. \A t \in Txn : /\ t \in Triples
                    /\ t[1] \in Native /\ t[2] \in Charge /\ t = <<t[1], t[2], t[3]>>
  <2> TAKE t \in Txn
  <2>0. PICK n \in Native, c \in Charge, claim \in Claim, words \in Words : t = Key(n, c, claim, words)
    BY DEF Txn
  <2>1. PICK i \in Ids : t = <<n, c, i>>
    <3>1. Digest(claim, words) \in Digests
      BY DEF Digest, Claim
    <3>2. t = <<n, c, Digest(claim, words)>> \/ t = <<n, c, None>>
      BY <2>0 DEF Key
    <3> QED
      BY <3>1, <3>2
  <2> HIDE DEF Ids
  <2> QED
    BY <2>1
<1>9. Txn \subseteq Triples
  BY <1>8
<1> HIDE DEF Triples
<1> QED
  BY <1>7, <1>8, <1>9, FS_Subset

\* All rows are in an order of them, and a set of places has a first one.
LEMMA OrderIsWhole ==
  ASSUME NEW order \in Orders
  PROVE  /\ DOMAIN order \subseteq Nat
         /\ \A t \in DOMAIN TheRows : \E i \in DOMAIN order : order[i] = t
<1> DEFINE R == DOMAIN TheRows
           D == 1..Cardinality(R)
<1>1. order \in [D -> R] /\ \A i, j \in D : i # j => order[i] # order[j]
  BY DEF SetToSeqs, Orders
<1>2. IsFiniteSet(R) /\ Cardinality(R) \in Nat
  <2>1. R \subseteq Txn
    BY RowsAre
  <2> QED
    BY <2>1, TxnIsFinite, FS_Subset, FS_CardinalityType
<1>3. Cardinality(D) = Cardinality(R)
  BY <1>2, FS_Interval
<1>4. order \in Injection(D, R)
  BY <1>1 DEF Injection, IsInjective
<1>5. order \in Surjection(D, R)
  <2> HIDE DEF D, R
  <2> QED
    BY <1>2, <1>3, <1>4, FS_Injection
<1> QED
  BY <1>1, <1>2, <1>5 DEF Surjection

LEMMA MinIsIn ==
  ASSUME NEW A \in SUBSET Nat, A # {}
  PROVE  Min(A) \in A
<1>1. PICK m \in A : \A y \in A : ~ (<<y, m>> \in OpToRel(<, Nat))
  BY NatLessThanWellFounded, WFMin
<1>2. \A y \in A : ~ (y < m)
  BY <1>1 DEF OpToRel
<1>3. \A y \in A : m <= y
  BY <1>2
<1> QED
  BY <1>3 DEF Min

LEMMA CountedRight ==
  ASSUME LedgerInv
  PROVE  AsManyAsThereWere
<1> DEFINE row == TheRows
<1> SUFFICES ASSUME NEW c \in Charge,
                    NEW equal, equal = {d \in Charge : book.fact[d].amount = book.fact[c].amount},
                    NEW told, told = {t \in DOMAIN row : t[2] \in equal},
                    told # {}, \A t \in told : Clean(t),
                    \A t \in told, d \in equal : <<t[1], d, t[3]>> \in told,
                    NEW order \in Orders
             PROVE  Cardinality({t \in told : ~Suspect(t, row, order)}) = Cardinality(equal)
  BY DEF AsManyAsThereWere
<1> DEFINE Suspected(t) == Suspect(t, row, order)
           a == book.fact[c].amount
<1>0. /\ DOMAIN row \subseteq Txn
      /\ \A t \in DOMAIN row : t[2] \in Charge /\ book.said[t] # None
  BY RowsAre, TxnIsFinite
<1>1. \A d \in Charge : book.fact[d].amount \in Int /\ book.fact[d].amount # None
  BY PagesAssumption, WorldsAssumption DEF LedgerInv
<1>2. \A t \in told : /\ row[t].account = None /\ row[t].merchant = None
                      /\ row[t].day = 1 /\ row[t].amount = a
  BY RowsAre DEF Clean, Day
<1>3. \A t \in DOMAIN row : row[t].amount = a => t \in told
  <2> SUFFICES ASSUME NEW t \in DOMAIN row, row[t].amount = a PROVE t \in told
    OBVIOUS
  <2>1. a # None
    BY <1>1
  <2>2. row[t].amount = book.fact[t[2]].amount
    BY <2>1, RowsAre
  <2> QED
    BY <1>0, <2>2
<1>4. \A t \in told, u \in DOMAIN row :
        Fingerprint(u, row) = Fingerprint(t, row) <=> u \in told
  BY <1>2, <1>3 DEF Fingerprint
<1> DEFINE A == {i \in DOMAIN order : order[i] \in told}
<1>6. A # {} /\ A \in SUBSET Nat
  BY <1>0, OrderIsWhole
<1>7. Min(A) \in A
  <2> HIDE DEF A
  <2> QED
    BY <1>6, MinIsIn
<1> DEFINE f == order[Min(A)]
<1>8. f \in told
  BY <1>7
<1>9. \A t \in told : First(t, row, order) = f
  <2> SUFFICES ASSUME NEW t \in told PROVE First(t, row, order) = f
    OBVIOUS
  <2>1. A = {i \in DOMAIN order : /\ order[i] \in DOMAIN row
                                       /\ Fingerprint(order[i], row) = Fingerprint(t, row)}
    BY <1>4
  <2> HIDE DEF A
  <2> QED
    BY <2>1 DEF First
<1> HIDE DEF f
<1>10. \A t \in told : Suspected(t) <=> f[1] # t[1]
  <2>1. a # None /\ 1 # None
    BY <1>1, PagesAssumption
  <2> QED
    BY <1>2, <1>9, <2>1 DEF Suspect
<1> HIDE DEF row, Suspected, a, A
<1> DEFINE N == {t \in told : ~Suspected(t)}
           h == [d \in equal |-> <<f[1], d, f[3]>>]
<1>11. h \in Bijection(equal, N)
  <2>1. \A t \in told : t = <<t[1], t[2], t[3]>> /\ t[2] \in equal
    BY <1>0, TxnIsFinite
  <2>2. \A d \in equal : <<f[1], d, f[3]>> \in told
    BY <1>8
  <2>3. \A t \in told : t[1] = f[1] => t[3] = f[3]
    <3> SUFFICES ASSUME NEW t \in told, t[1] = f[1] PROVE t[3] = f[3]
      OBVIOUS
    <3>1. \A u \in told : u = Key(u[1], u[2], "bought", None)
      BY <1>0 DEF Clean, LedgerInv, KeysMatch
    <3>2. \A u \in told : u[3] = IF u[1] \in Export THEN Digest("bought", None) ELSE None
      BY <3>1 DEF Key
    <3> QED
      BY <1>8, <3>2
  <2>4. \A d \in equal : h[d] \in N
    BY <1>10, <2>2
  <2>5. \A t \in N : t[2] \in equal /\ h[t[2]] = t
    BY <1>10, <2>1, <2>3
  <2>6. \A d, e \in equal : h[d] = h[e] => d = e
    OBVIOUS
  <2>7. h \in [equal -> N]
    BY <2>4
  <2> HIDE DEF h, N
  <2> QED
    BY <2>5, <2>6, <2>7 DEF Bijection, Injection, IsInjective, Surjection
<1>12. IsFiniteSet(equal)
  <2>1. equal \subseteq Charge /\ IsFiniteSet(Charge)
    BY PagesAssumption
  <2> QED
    BY <2>1, FS_Subset
<1>13. Cardinality(equal) = Cardinality(N)
  <2> HIDE DEF h, N
  <2> QED
    BY <1>11, <1>12, FS_Bijection DEF ExistsBijection
<1> QED
  BY <1>13 DEF N, Suspected, row

LEMMA LeftIsNotDeleted ==
  ASSUME NEW t \in Left(TheRows), TheRows[t].status # "needs_review"
  PROVE  /\ t \in DOMAIN TheRows /\ t \in Txn
         /\ ~book.fixed[t].deleted
         /\ book.said[t] \notin {"garbled", "undated"}
         /\ t[1] \in book.named
<1>1. t \in DOMAIN TheRows /\ TheRows[t].status # "ignored"
  BY DEF Left
<1>2. t \in Txn /\ TheRows[t].status = RowStatus(t, book)
  BY <1>1, RowsAre
<1>3. ~book.fixed[t].deleted
  BY <1>1, <1>2 DEF RowStatus
<1>4. book.said[t] \notin {"garbled", "undated"} /\ t[1] \in book.named
  BY <1>2, <1>3 DEF RowStatus
<1> QED
  BY <1>1, <1>2, <1>3, <1>4

\* What counts of a row that is left, and asks for nothing, is what was spent.
LEMMA RowCounts ==
  ASSUME LedgerInv, NEW t \in Left(TheRows), TheRows[t].status # "needs_review"
  PROVE  /\ TheRows[t].amount = book.fact[t[2]].amount
         /\ TheRows[t].net =
              IF book.fixed[t].flow = "transfer" THEN 0
              ELSE IF book.fixed[t].flow = "spend" THEN -book.fact[t[2]].amount
              ELSE book.fact[t[2]].spent
<1> DEFINE fact == book.fact[t[2]]
           amount == TheRows[t].amount
<1>1. /\ t \in DOMAIN TheRows /\ t \in Txn
      /\ ~book.fixed[t].deleted
      /\ book.said[t] \notin {"garbled", "undated"}
      /\ t[1] \in book.named
  BY LeftIsNotDeleted
<1>2. amount = fact.amount
  BY <1>1, RowsAre
<1>3. /\ fact.amount \in Int /\ fact.amount # None
      /\ fact.spent = IF \/ fact.flow \in SPENDING_FLOWS
                         \/ fact.flow = None /\ (fact.amount < 0 \/ Kind = "credit")
                      THEN -fact.amount ELSE 0
  <2>1. book.fact \in Worlds /\ t[2] \in Charge
    BY <1>1, TxnIsFinite DEF LedgerInv
  <2> QED
    BY <2>1, PagesAssumption, WorldsAssumption
<1>4. TheRows[t].net = IF Flow(t, amount, book) \in SPENDING_FLOWS THEN -fact.amount ELSE 0
  BY <1>1, <1>2, <1>3, RowsAre
<1>5. book.fixed[t].flow \in {None, "transfer", "spend"} /\ None \notin {"transfer", "spend"}
  BY <1>1, PagesAssumption DEF LedgerInv, FlowsFixed, SPENDING_FLOWS
<1> HIDE DEF fact, amount
<1>6. CASE book.fixed[t].flow # None
  <2>1. Flow(t, amount, book) = book.fixed[t].flow
    BY <1>6 DEF Flow
  <2> QED
    BY <1>2, <1>4, <1>5, <1>6, <2>1 DEF SPENDING_FLOWS, fact, amount
<1>7. CASE book.fixed[t].flow = None
  <2>1. Flow(t, amount, book) = IF fact.flow # None THEN fact.flow ELSE StructuralFlow(amount, Kind)
    BY <1>1, <1>7 DEF Flow, fact
  <2>2. StructuralFlow(amount, Kind) \in SPENDING_FLOWS <=> fact.amount < 0 \/ Kind = "credit"
    BY <1>2, <1>3 DEF StructuralFlow, SPENDING_FLOWS
  <2>3. Flow(t, amount, book) \in SPENDING_FLOWS
          <=> \/ fact.flow \in SPENDING_FLOWS
              \/ fact.flow = None /\ (fact.amount < 0 \/ Kind = "credit")
    <3>1. CASE fact.flow = None
      <4>1. None \notin SPENDING_FLOWS
        BY PagesAssumption
      <4> QED
        BY <2>1, <2>2, <3>1, <4>1
    <3>2. CASE fact.flow # None
      BY <2>1, <3>2
    <3> QED
      BY <3>1, <3>2
  <2> QED
    BY <1>2, <1>3, <1>4, <1>5, <1>7, <2>3 DEF fact, amount
<1> QED
  BY <1>6, <1>7

LEMMA QuietIsRight ==
  ASSUME LedgerInv
  PROVE  QuietMeansRight
<1> DEFINE row == TheRows
           settled == \A t \in Left(row) : row[t].status # "needs_review"
           alike == \A t, u \in Left(row) : t # u /\ t[2] = u[2] => Alike(t, u)
<1>1. Left(row) \subseteq DOMAIN row /\ DOMAIN row \subseteq Txn
  BY RowsAre DEF Left
<1>2. ASSUME settled PROVE Builds(row)
  <2> SUFFICES ASSUME NEW t \in Left(row), row[t].day = None PROVE FALSE
    BY DEF Builds
  <2>1. row[t].status # "needs_review"
    BY <1>2
  <2>2. book.said[t] # "undated" /\ row[t].day = Day(book.said[t])
    BY <1>1, <2>1, LeftIsNotDeleted, RowsAre
  <2>3. Day(book.said[t]) \in Int
    BY <2>2 DEF Day
  <2> QED
    BY <2>2, <2>3, PagesAssumption
<1>3. ASSUME settled, alike, NEW order \in Orders,
             \A t \in Left(row) : ~Suspect(t, row, order)
      PROVE  Total(row) = SumFunction([c \in Charge |-> Spent(c)])
  <2> DEFINE S == Left(row)
             f == [t \in S |-> row[t].net]
             g == [c \in Charge |-> Spent(c)]
             h == [t \in S |-> t[2]]
  <2>1. \A t \in S : /\ t \in DOMAIN row /\ t \in Txn /\ t[2] \in Charge
                     /\ row[t].status # "needs_review" /\ ~Suspect(t, row, order)
    BY <1>1, <1>3, TxnIsFinite
  <2>2. \A t \in S : /\ t[1] \in book.named /\ book.said[t] # "undated"
                     /\ row[t].amount = book.fact[t[2]].amount
                     /\ row[t].net = IF book.fixed[t].flow = "transfer" THEN 0
                                     ELSE IF book.fixed[t].flow = "spend" THEN -book.fact[t[2]].amount
                                     ELSE book.fact[t[2]].spent
    <3> HIDE DEF row
    <3> SUFFICES ASSUME NEW t \in S
                 PROVE  /\ t[1] \in book.named /\ book.said[t] # "undated"
                        /\ row[t].amount = book.fact[t[2]].amount
                        /\ row[t].net = IF book.fixed[t].flow = "transfer" THEN 0
                                        ELSE IF book.fixed[t].flow = "spend" THEN -book.fact[t[2]].amount
                                        ELSE book.fact[t[2]].spent
      OBVIOUS
    <3>1. row[t].status # "needs_review"
      BY <2>1
    <3>2. t[1] \in book.named /\ book.said[t] \notin {"garbled", "undated"}
      BY <3>1, LeftIsNotDeleted DEF row
    <3> QED
      BY <3>1, <3>2, RowCounts DEF row
  <2>3. \A c \in Charge : book.fact[c].amount \in Int /\ book.fact[c].spent \in Int
    BY WorldsAssumption DEF LedgerInv
  <2>4. \A t \in S : book.fixed[t].flow \in {None, "transfer", "spend"}
    BY <2>1 DEF LedgerInv, FlowsFixed
  <2>5. ASSUME NEW t \in S, NEW u \in S, t[2] = u[2] PROVE t = u
    <3> SUFFICES ASSUME t # u PROVE FALSE
      OBVIOUS
    <3>1. t[1] # u[1] /\ row[t].day = row[u].day /\ row[t].merchant = row[u].merchant
      BY <1>3, <2>5 DEF Alike
    <3>2. Fingerprint(t, row) = Fingerprint(u, row)
      <4>1. row[t].account = None /\ row[u].account = None
        BY <2>1, <2>2, RowsAre
      <4>2. row[t].amount = row[u].amount
        BY <2>2, <2>5
      <4> QED
        BY <3>1, <4>1, <4>2 DEF Fingerprint
    <3>3. First(t, row, order) = First(u, row, order)
      BY <3>2 DEF First
    <3>4. /\ row[t].day # None /\ row[t].amount # None
          /\ row[u].day # None /\ row[u].amount # None
      <4>1. \A v \in S : row[v].day = Day(book.said[v]) /\ Day(book.said[v]) \in Int
        BY <2>1, <2>2, RowsAre DEF Day
      <4>2. \A v \in S : row[v].amount \in Int
        BY <2>1, <2>2, <2>3
      <4> QED
        BY <4>1, <4>2, PagesAssumption
    <3>5. t[1] = First(t, row, order)[1] /\ u[1] = First(u, row, order)[1]
      BY <2>1, <3>4 DEF Suspect
    <3> QED
      BY <3>1, <3>3, <3>5
  <2>6. \A t \in S : row[t].net = Spent(t[2])
    <3> SUFFICES ASSUME NEW t \in S PROVE row[t].net = Spent(t[2])
      OBVIOUS
    <3>1. {u \in Left(TheRows) : u[2] = t[2]} = {t}
      BY <2>5
    <3>2. {book.fixed[u].flow : u \in {v \in Left(TheRows) : v[2] = t[2]}} = {book.fixed[t].flow}
      BY <3>1
    <3>3. Spent(t[2]) = IF "transfer" = book.fixed[t].flow THEN 0
                        ELSE IF "spend" = book.fixed[t].flow THEN -book.fact[t[2]].amount
                        ELSE book.fact[t[2]].spent
      BY <3>2 DEF Spent
    <3> QED
      BY <2>2, <3>3
  <2>7. ASSUME NEW c \in Charge, \A t \in S : t[2] # c PROVE Spent(c) = 0
    <3>1. {u \in Left(TheRows) : u[2] = c} = {}
      BY <2>7
    <3> QED
      BY <3>1 DEF Spent
  <2>8. \A c \in Charge : Spent(c) \in Int
    BY <2>3 DEF Spent
  <2>9. IsFiniteSet(S) /\ IsFiniteSet(Charge)
    <3>1. S \subseteq Txn
      BY <1>1
    <3> QED
      BY <3>1, TxnIsFinite, FS_Subset, PagesAssumption
  <2> HIDE DEF row
  <2>10. /\ f \in [S -> Int] /\ g \in [Charge -> Int] /\ h \in [S -> Charge]
         /\ \A x, y \in S : h[x] = h[y] => x = y
         /\ \A x \in S : f[x] = g[h[x]]
         /\ \A z \in Charge : (\A x \in S : h[x] # z) => g[z] = 0
    <3>1. \A t \in S : row[t].net \in Int
      BY <2>1, <2>6, <2>8
    <3> HIDE DEF S
    <3> QED
      BY <2>1, <2>5, <2>6, <2>7, <2>8, <3>1
  <2>11. SumFunction(f) = SumFunction(g)
    <3> HIDE DEF f, g, h, S
    <3> QED
      BY <2>9, <2>10, SumMoved
  <2> QED
    BY <2>11 DEF Total
<1> QED
  BY <1>2, <1>3 DEF QuietMeansRight

-----------------------------------------------------------------------------
LEMMA LedgerHolds == PagesSpec => []LedgerInv
<1> QED
  BY LedgerInit, LedgerStep, PTL DEF PagesSpec

\* Of equal charges on one day as many rows stay without a flag as there were charges,
\* whatever the order of their keys (feed.mark_duplicates).
THEOREM EqualChargesAreCounted == PagesSpec => []AsManyAsThereWere
<1>1. LedgerInv => AsManyAsThereWere
  BY CountedRight
<1> QED
  BY <1>1, LedgerHolds, PTL

\* A workspace nothing asks to be looked at can be built, and its sum is what was spent
\* (feed.project_one, mark_duplicates, workspace.BANK_COLUMNS).
THEOREM QuietLedgersAddUp == PagesSpec => []QuietMeansRight
<1>1. LedgerInv => QuietMeansRight
  BY QuietIsRight
<1> QED
  BY <1>1, LedgerHolds, PTL

\* Induction on numbers, with a set in place of a predicate.
LEMMA NatBySuccessor ==
  ASSUME NEW G, 0 \in G, \A k \in Nat : k \in G => k + 1 \in G
  PROVE  \A k \in Nat : k \in G
<1> SUFFICES ASSUME NEW k0 \in Nat, k0 \notin G PROVE FALSE
  OBVIOUS
<1> DEFINE Bad == {k \in Nat : k \notin G}
<1>1. Bad \in SUBSET Nat /\ Bad # {}
  OBVIOUS
<1>2. PICK k \in Bad : \A y \in Bad : ~ (<<y, k>> \in OpToRel(<, Nat))
  <2> HIDE DEF Bad
  <2> QED
    BY <1>1, NatLessThanWellFounded, WFMin
<1>3. k \in Nat /\ k # 0 /\ k \notin G
  OBVIOUS
<1>4. k - 1 \in Nat /\ (k - 1) + 1 = k /\ k - 1 < k
  BY <1>3
<1>5. k - 1 \in Bad
  BY <1>3, <1>4
<1>6. <<k - 1, k>> \in OpToRel(<, Nat)
  BY <1>3, <1>4 DEF OpToRel
<1> HIDE DEF Bad
<1> QED
  BY <1>2, <1>5, <1>6

\* A concatenation has the entries of both.
LEMMA RangeConcat ==
  ASSUME NEW X, NEW s \in Seq(X), NEW t \in Seq(X)
  PROVE  Range(s \o t) = Range(s) \cup Range(t)
<1> DEFINE m == Len(s)
           n == Len(t)
<1>1. /\ m \in Nat /\ n \in Nat /\ DOMAIN s = 1..m /\ DOMAIN t = 1..n /\ DOMAIN (s \o t) = 1..(m + n)
      /\ \A i \in 1..(m + n) : (s \o t)[i] = IF i <= m THEN s[i] ELSE t[i - m]
  OBVIOUS
<1> HIDE DEF m, n
<1>2. \A i \in 1..(m + n) : IF i <= m THEN i \in 1..m ELSE i - m \in 1..n
  BY <1>1
<1>3. \A i \in 1..m : i \in 1..(m + n) /\ (s \o t)[i] = s[i]
  BY <1>1
<1>4. \A i \in 1..n : m + i \in 1..(m + n) /\ (s \o t)[m + i] = t[i]
  <2> SUFFICES ASSUME NEW i \in 1..n PROVE m + i \in 1..(m + n) /\ (s \o t)[m + i] = t[i]
    OBVIOUS
  <2>1. m + i \in 1..(m + n) /\ ~(m + i <= m) /\ (m + i) - m = i
    BY <1>1
  <2> QED
    BY <1>1, <2>1
<1>5. \A x \in Range(s \o t) : x \in Range(s) \cup Range(t)
  BY <1>1, <1>2 DEF Range
<1>6. \A x \in Range(s) \cup Range(t) : x \in Range(s \o t)
  <2>1. ASSUME NEW i \in DOMAIN s PROVE s[i] \in Range(s \o t)
    <3>1. i \in DOMAIN (s \o t) /\ s[i] = (s \o t)[i]
      BY <1>1, <1>3
    <3> QED
      BY <3>1 DEF Range
  <2>2. ASSUME NEW i \in DOMAIN t PROVE t[i] \in Range(s \o t)
    <3>1. m + i \in DOMAIN (s \o t) /\ t[i] = (s \o t)[m + i]
      BY <1>1, <1>4
    <3> QED
      BY <3>1 DEF Range
  <2> QED
    BY <2>1, <2>2 DEF Range
<1> QED
  BY <1>5, <1>6

\* Append adds one entry.
LEMMA RangeAppend ==
  ASSUME NEW X, NEW s \in Seq(X), NEW c \in X
  PROVE  Range(Append(s, c)) = Range(s) \cup {c}
<1> DEFINE n == Len(s)
           t == Append(s, c)
<1>1. /\ n \in Nat /\ DOMAIN s = 1..n /\ DOMAIN t = 1..(n + 1)
      /\ t[n + 1] = c /\ \A i \in 1..n : t[i] = s[i]
  OBVIOUS
<1> HIDE DEF n, t
<1>2. n + 1 \in DOMAIN t
  BY <1>1
<1>3. \A i \in DOMAIN t : (i \in DOMAIN s /\ t[i] = s[i]) \/ t[i] = c
  BY <1>1
<1>4. \A i \in DOMAIN s : i \in DOMAIN t /\ t[i] = s[i]
  BY <1>1
<1>5. Range(t) = Range(s) \cup {c}
  <2>1. \A x \in Range(t) : x \in Range(s) \cup {c}
    BY <1>3 DEF Range
  <2>2. \A x \in Range(s) : x \in Range(t)
    BY <1>4 DEF Range
  <2>3. c \in Range(t)
    BY <1>1, <1>2 DEF Range
  <2> QED
    BY <2>1, <2>2, <2>3
<1> QED
  BY <1>5 DEF t

-----------------------------------------------------------------------------
(* Sequences, by induction on their length, with a set in place of a        *)
(* predicate.                                                               *)

\* What holds of the empty sequence and of Append holds of every sequence.
LEMMA SequencesByLength ==
  ASSUME NEW C, NEW G, <<>> \in G,
         \A s \in Seq(C), c \in C : s \in G => Append(s, c) \in G
  PROVE  \A s \in Seq(C) : s \in G
<1> SUFFICES ASSUME NEW s0 \in Seq(C), s0 \notin G PROVE FALSE
  OBVIOUS
<1> DEFINE Bad == {s \in Seq(C) : s \notin G}
           Lengths == {Len(s) : s \in Bad}
<1>1. Lengths \in SUBSET Nat /\ Lengths # {}
  <2>1. Len(s0) \in Lengths
    OBVIOUS
  <2>2. \A s \in Seq(C) : Len(s) \in Nat
    OBVIOUS
  <2> QED
    BY <2>1, <2>2
<1>2. PICK k \in Lengths : \A y \in Lengths : ~ (<<y, k>> \in OpToRel(<, Nat))
  <2> HIDE DEF Lengths
  <2> QED
    BY <1>1, NatLessThanWellFounded, WFMin
<1>3. PICK s \in Bad : Len(s) = k
  OBVIOUS
<1>4. CASE s = <<>>
  BY <1>3, <1>4
<1>5. CASE s # <<>>
  <2> DEFINE n == Len(s) - 1
             r == [i \in 1..n |-> s[i]]
             c == s[Len(s)]
  <2>1. n \in Nat /\ Len(s) = n + 1 /\ s \in Seq(C) /\ \A i \in 1..(n + 1) : s[i] \in C
    BY <1>5
  <2>2. r \in Seq(C) /\ c \in C /\ s = Append(r, c) /\ Len(r) = n
    <3> HIDE DEF n
    <3>1. r \in Seq(C) /\ Len(r) = n /\ c \in C
      BY <2>1
    <3>2. /\ Append(r, c) \in Seq(C) /\ Len(Append(r, c)) = n + 1
          /\ \A i \in 1..(n + 1) : Append(r, c)[i] = s[i]
      BY <2>1, <3>1
    <3> QED
      BY <2>1, <3>1, <3>2
  <2>3. r \notin G
    <3> HIDE DEF n, r, c
    <3> QED
      BY <1>3, <2>2
  <2>4. Len(r) \in Lengths /\ Len(r) < k /\ Len(r) \in Nat /\ k \in Nat
    <3> HIDE DEF n, r, c
    <3> QED
      BY <1>3, <2>1, <2>2, <2>3
  <2>5. <<Len(r), k>> \in OpToRel(<, Nat)
    <3> HIDE DEF Lengths, r
    <3> QED
      BY <2>4 DEF OpToRel
  <2> HIDE DEF r, Lengths
  <2> QED
    BY <1>2, <2>4, <2>5
<1> QED
  BY <1>4, <1>5

\* Max of a finite set of places is one of them, and the last.
LEMMA MaxIsIn ==
  ASSUME NEW n \in Nat, NEW A \in SUBSET (1..n), A # {}
  PROVE  Max(A) \in A /\ \A y \in A : y <= Max(A)
<1> DEFINE Turned == {n - a : a \in A}
<1>1. Turned \in SUBSET Nat /\ Turned # {}
  <2>1. \A a \in A : n - a \in Nat
    OBVIOUS
  <2> QED
    BY <2>1
<1>2. PICK d \in Turned : \A y \in Turned : ~ (<<y, d>> \in OpToRel(<, Nat))
  <2> HIDE DEF Turned
  <2> QED
    BY <1>1, NatLessThanWellFounded, WFMin
<1>3. \A y \in Turned : ~ (y < d)
  <2> HIDE DEF Turned
  <2> QED
    BY <1>1, <1>2 DEF OpToRel
<1>4. PICK a \in A : d = n - a
  OBVIOUS
<1>5. \A y \in A : a >= y
  <2> SUFFICES ASSUME NEW y \in A, ~(a >= y) PROVE FALSE
    OBVIOUS
  <2>1. n - y \in Turned /\ n - y < d
    BY <1>4
  <2> QED
    BY <1>3, <2>1
<1>6. Max(A) \in A /\ \A y \in A : Max(A) >= y
  BY <1>5 DEF Max
<1> QED
  BY <1>6

\* The last place is the maximum.
LEMMA MaxOfPrefix ==
  ASSUME NEW n \in Nat, NEW A \in SUBSET (1..(n + 1)), n + 1 \in A
  PROVE  Max(A) = n + 1
<1>1. n + 1 \in Nat
  OBVIOUS
<1>2. Max(A) \in A /\ \A y \in A : y <= Max(A)
  BY <1>1, MaxIsIn
<1> DEFINE m == Max(A)
<1>3. m \in 1..(n + 1) /\ n + 1 <= m
  BY <1>2
<1> HIDE DEF m
<1>4. m = n + 1
  BY <1>1, <1>3
<1> QED
  BY <1>4 DEF m

-----------------------------------------------------------------------------
(* What the corrections make of a row, one after the other.                 *)

\* FoldLeft goes by sets of places: what b becomes by the entries of s at S.
IsFold(g, b, s) ==
  g = [S \in SUBSET DOMAIN s |-> IF S = {} THEN b ELSE Applied(g[S \ {Max(S)}], s[Max(S)])]
Fold(b, s) == CHOOSE g : IsFold(g, b, s)

\* FoldLeft is that function, at all places.
LEMMA FoldIs ==
  ASSUME NEW b, NEW s
  PROVE  FoldLeft(Applied, b, s) = Fold(b, s)[DOMAIN s]
BY DEF FoldLeft, MapThenFoldSet, Fold, IsFold

\* The function there is, so that CHOOSE finds it.
LEMMA FoldExists ==
  ASSUME NEW b, NEW C
  PROVE  \A s \in Seq(C) : \E g : IsFold(g, b, s)
<1> DEFINE G == {s \in Seq(C) : \E g : IsFold(g, b, s)}
<1>1. <<>> \in G
  <2> DEFINE g == [S \in SUBSET DOMAIN <<>> |-> b]
  <2>1. \A S \in SUBSET DOMAIN <<>> : S = {}
    OBVIOUS
  <2>2. g = [S \in SUBSET DOMAIN <<>> |-> IF S = {} THEN b ELSE Applied(g[S \ {Max(S)}], (<<>>)[Max(S)])]
    BY <2>1
  <2>3. IsFold(g, b, <<>>)
    BY <2>2 DEF IsFold
  <2> QED
    BY <2>3
<1>2. ASSUME NEW s \in Seq(C), NEW c \in C, s \in G PROVE Append(s, c) \in G
  <2> DEFINE n == Len(s)
             t == Append(s, c)
  <2>1. PICK g : IsFold(g, b, s)
    BY <1>2
  <2>2. /\ n \in Nat /\ DOMAIN s = 1..n /\ DOMAIN t = 1..(n + 1) /\ t \in Seq(C)
        /\ t[n + 1] = c /\ \A i \in 1..n : t[i] = s[i]
    OBVIOUS
  <2> HIDE DEF n, t
  <2>3. \A S \in SUBSET (1..n) : g[S] = IF S = {} THEN b ELSE Applied(g[S \ {Max(S)}], s[Max(S)])
    BY <2>1, <2>2 DEF IsFold
  <2> DEFINE h == [S \in SUBSET (1..(n + 1)) |-> IF n + 1 \in S THEN Applied(g[S \ {n + 1}], c) ELSE g[S]]
  <2>4. ASSUME NEW S \in SUBSET (1..(n + 1))
        PROVE  h[S] = IF S = {} THEN b ELSE Applied(h[S \ {Max(S)}], t[Max(S)])
    <3>1. CASE n + 1 \in S
      <4>1. Max(S) = n + 1
        BY <2>2, <3>1, MaxOfPrefix
      <4>2. h[S] = Applied(g[S \ {n + 1}], c)
        BY <3>1
      <4>3. h[S \ {n + 1}] = g[S \ {n + 1}]
        OBVIOUS
      <4> HIDE DEF h
      <4> QED
        BY <2>2, <3>1, <4>1, <4>2, <4>3
    <3>2. CASE n + 1 \notin S
      <4>1. S \in SUBSET (1..n) /\ h[S] = g[S]
        BY <2>2, <3>2
      <4>2. CASE S = {}
        BY <2>3, <4>1, <4>2
      <4>3. CASE S # {}
        <5>1. Max(S) \in S
          BY <2>2, <4>1, <4>3, MaxIsIn
        <5>2. h[S \ {Max(S)}] = g[S \ {Max(S)}]
          BY <3>2
        <5>3. t[Max(S)] = s[Max(S)]
          BY <2>2, <4>1, <5>1
        <5> HIDE DEF h
        <5> QED
          BY <2>3, <4>1, <4>3, <5>2, <5>3
      <4> QED
        BY <4>2, <4>3
    <3> QED
      BY <3>1, <3>2
  <2>5. h = [S \in SUBSET (1..(n + 1)) |-> IF S = {} THEN b ELSE Applied(h[S \ {Max(S)}], t[Max(S)])]
    BY <2>4
  <2>6. IsFold(h, b, t)
    <3> HIDE DEF h
    <3> QED
      BY <2>2, <2>5 DEF IsFold
  <2>7. t \in G
    <3> HIDE DEF h
    <3> QED
      BY <2>2, <2>6
  <2> QED
    BY <2>7 DEF t
<1>3. \A s \in Seq(C) : s \in G
  <2> HIDE DEF G
  <2> QED
    BY <1>1, <1>2, SequencesByLength
<1> QED
  BY <1>3

\* What CHOOSE finds is the function.
LEMMA FoldIsFold ==
  ASSUME NEW b, NEW C, NEW s \in Seq(C)
  PROVE  IsFold(Fold(b, s), b, s)
BY FoldExists, Zenon DEF Fold

\* Its equation, the last place first.
LEMMA FoldEquation ==
  ASSUME NEW b, NEW C, NEW s \in Seq(C)
  PROVE  \A S \in SUBSET DOMAIN s :
           Fold(b, s)[S] = IF S = {} THEN b ELSE Applied(Fold(b, s)[S \ {Max(S)}], s[Max(S)])
<1>1. IsFold(Fold(b, s), b, s)
  BY FoldIsFold
<1> DEFINE g == Fold(b, s)
<1>2. g = [S \in SUBSET DOMAIN s |-> IF S = {} THEN b ELSE Applied(g[S \ {Max(S)}], s[Max(S)])]
  BY <1>1 DEF IsFold
<1> HIDE DEF g
<1>3. \A S \in SUBSET DOMAIN s : g[S] = IF S = {} THEN b ELSE Applied(g[S \ {Max(S)}], s[Max(S)])
  BY <1>2
<1> QED
  BY <1>3 DEF g

\* No correction changes nothing.
LEMMA FoldEmpty ==
  ASSUME NEW b
  PROVE  FoldLeft(Applied, b, <<>>) = b
<1>1. <<>> \in Seq({})
  OBVIOUS
<1>2. DOMAIN <<>> = {}
  OBVIOUS
<1>3. Fold(b, <<>>)[{}] = b
  BY <1>1, <1>2, FoldEquation
<1> QED
  BY <1>2, <1>3, FoldIs

\* The last correction comes last.
LEMMA FoldAppend ==
  ASSUME NEW b, NEW C, NEW s \in Seq(C), NEW c \in C
  PROVE  FoldLeft(Applied, b, Append(s, c)) = Applied(FoldLeft(Applied, b, s), c)
<1> DEFINE n == Len(s)
           t == Append(s, c)
           g == Fold(b, s)
           h == Fold(b, t)
<1>1. /\ n \in Nat /\ DOMAIN s = 1..n /\ DOMAIN t = 1..(n + 1) /\ t \in Seq(C)
      /\ t[n + 1] = c /\ \A i \in 1..n : t[i] = s[i]
  OBVIOUS
<1>2. FoldLeft(Applied, b, s) = g[DOMAIN s] /\ FoldLeft(Applied, b, t) = h[DOMAIN t]
  BY FoldIs
<1>3. IsFold(g, b, s) /\ IsFold(h, b, t)
  <2>1. IsFold(g, b, s)
    BY FoldIsFold
  <2>2. IsFold(h, b, t)
    BY <1>1, FoldIsFold
  <2> QED
    BY <2>1, <2>2
<1> HIDE DEF n, t, g, h
<1>4. /\ \A S \in SUBSET (1..n) : g[S] = IF S = {} THEN b ELSE Applied(g[S \ {Max(S)}], s[Max(S)])
      /\ \A S \in SUBSET (1..(n + 1)) : h[S] = IF S = {} THEN b ELSE Applied(h[S \ {Max(S)}], t[Max(S)])
  BY <1>1, <1>3 DEF IsFold
<1>5. 1..n \in SUBSET (1..(n + 1))
  BY <1>1
<1>6. \A S \in SUBSET (1..n) : h[S] = g[S]
  <2> DEFINE G == {S \in SUBSET (1..n) : h[S] = g[S]}
  <2>1. ASSUME NEW S \in SUBSET (1..n), \A x \in S : S \ {x} \in G PROVE S \in G
    <3>1. CASE S = {}
      BY <1>4, <1>5, <3>1
    <3>2. CASE S # {}
      <4>1. Max(S) \in S
        BY <1>1, <3>2, MaxIsIn
      <4>2. h[S \ {Max(S)}] = g[S \ {Max(S)}]
        BY <2>1, <4>1
      <4>3. t[Max(S)] = s[Max(S)]
        BY <1>1, <4>1
      <4>4. S \in SUBSET (1..(n + 1))
        BY <1>5
      <4> QED
        BY <1>4, <3>2, <4>2, <4>3, <4>4
    <3> QED
      BY <3>1, <3>2
  <2>2. IsFiniteSet(1..n)
    BY <1>1, FS_Interval
  <2>3. \A S \in SUBSET (1..n) : S \in G
    <3> HIDE DEF G
    <3> QED
      BY <2>1, <2>2, SubsetsBySize
  <2> QED
    BY <2>3
<1>7. Max(1..(n + 1)) = n + 1
  <2>1. n + 1 \in 1..(n + 1)
    BY <1>1
  <2> QED
    BY <1>1, <2>1, MaxOfPrefix
<1>8. (1..(n + 1)) \ {n + 1} = 1..n /\ 1..(n + 1) # {}
  BY <1>1
<1>9. h[1..(n + 1)] = Applied(h[1..n], t[n + 1])
  BY <1>4, <1>7, <1>8
<1>10. h[1..(n + 1)] = Applied(g[1..n], c)
  BY <1>1, <1>6, <1>9
<1> QED
  BY <1>1, <1>2, <1>10 DEF t

-----------------------------------------------------------------------------
(* Sequences of sequences, one after the other.                             *)

\* FlattenSeq goes by prefixes.
IsFlat(g, ss) == g = [i \in 1..Len(ss) |-> IF i = 1 THEN ss[i] ELSE g[i - 1] \o ss[i]]
Flat(ss) == CHOOSE g : IsFlat(g, ss)

\* FlattenSeq is that function, at the last place.
LEMMA FlatIs ==
  ASSUME NEW ss
  PROVE  FlattenSeq(ss) = IF Len(ss) = 0 THEN ss ELSE Flat(ss)[Len(ss)]
BY DEF FlattenSeq, Flat, IsFlat

\* The function there is, so that CHOOSE finds it.
LEMMA FlatExists ==
  ASSUME NEW C
  PROVE  \A ss \in Seq(C) : \E g : IsFlat(g, ss)
<1> DEFINE G == {ss \in Seq(C) : \E g : IsFlat(g, ss)}
<1>1. <<>> \in G
  <2> DEFINE g == [i \in 1..Len(<<>>) |-> {}]
  <2>1. 1..Len(<<>>) = {}
    OBVIOUS
  <2>2. g = [i \in 1..Len(<<>>) |-> IF i = 1 THEN (<<>>)[i] ELSE g[i - 1] \o (<<>>)[i]]
    BY <2>1
  <2>3. IsFlat(g, <<>>)
    BY <2>2 DEF IsFlat
  <2> QED
    BY <2>3
<1>2. ASSUME NEW ss \in Seq(C), NEW c \in C, ss \in G PROVE Append(ss, c) \in G
  <2> DEFINE n == Len(ss)
             tt == Append(ss, c)
  <2>1. PICK g : IsFlat(g, ss)
    BY <1>2
  <2>2. /\ n \in Nat /\ Len(ss) = n /\ Len(tt) = n + 1 /\ tt \in Seq(C)
        /\ tt[n + 1] = c /\ \A i \in 1..n : tt[i] = ss[i]
    OBVIOUS
  <2> HIDE DEF n, tt
  <2>3. \A i \in 1..n : g[i] = IF i = 1 THEN ss[i] ELSE g[i - 1] \o ss[i]
    BY <2>1, <2>2 DEF IsFlat
  <2> DEFINE h == [i \in 1..(n + 1) |-> IF i # n + 1 THEN g[i] ELSE IF i = 1 THEN c ELSE g[n] \o c]
  <2>4. ASSUME NEW i \in 1..(n + 1)
        PROVE  h[i] = IF i = 1 THEN tt[i] ELSE h[i - 1] \o tt[i]
    <3>1. CASE i = n + 1
      <4>1. CASE i = 1
        BY <2>2, <3>1, <4>1
      <4>2. CASE i # 1
        <5>1. i - 1 = n /\ n \in 1..(n + 1) /\ n # n + 1
          BY <2>2, <3>1, <4>2
        <5>2. h[n] = g[n]
          BY <5>1
        <5>3. h[i] = g[n] \o c
          BY <3>1, <4>2
        <5> HIDE DEF h
        <5> QED
          BY <2>2, <3>1, <4>2, <5>1, <5>2, <5>3
      <4> QED
        BY <4>1, <4>2
    <3>2. CASE i # n + 1
      <4>1. i \in 1..n /\ h[i] = g[i]
        BY <2>2, <3>2
      <4>2. CASE i = 1
        BY <2>2, <2>3, <4>1, <4>2
      <4>3. CASE i # 1
        <5>1. i - 1 \in 1..(n + 1) /\ i - 1 # n + 1
          BY <2>2, <4>1, <4>3
        <5>2. h[i - 1] = g[i - 1]
          BY <5>1
        <5> HIDE DEF h
        <5> QED
          BY <2>2, <2>3, <4>1, <4>3, <5>2
      <4> QED
        BY <4>2, <4>3
    <3> QED
      BY <3>1, <3>2
  <2>5. h = [i \in 1..(n + 1) |-> IF i = 1 THEN tt[i] ELSE h[i - 1] \o tt[i]]
    BY <2>4
  <2>6. IsFlat(h, tt)
    <3> HIDE DEF h
    <3> QED
      BY <2>2, <2>5 DEF IsFlat
  <2>7. tt \in G
    <3> HIDE DEF h
    <3> QED
      BY <2>2, <2>6
  <2> QED
    BY <2>7 DEF tt
<1>3. \A ss \in Seq(C) : ss \in G
  <2> HIDE DEF G
  <2> QED
    BY <1>1, <1>2, SequencesByLength
<1> QED
  BY <1>3

\* What CHOOSE finds is the function.
LEMMA FlatIsFlat ==
  ASSUME NEW C, NEW ss \in Seq(C)
  PROVE  IsFlat(Flat(ss), ss)
BY FlatExists, Zenon DEF Flat

\* Nothing is flattened to nothing.
LEMMA FlattenEmpty == FlattenSeq(<<>>) = <<>>
BY FlatIs

\* The last sequence comes last.
LEMMA FlattenAppend ==
  ASSUME NEW X, NEW ss \in Seq(Seq(X)), NEW c \in Seq(X)
  PROVE  FlattenSeq(Append(ss, c)) = FlattenSeq(ss) \o c
<1> DEFINE n == Len(ss)
           tt == Append(ss, c)
           g == Flat(ss)
           h == Flat(tt)
<1>1. /\ n \in Nat /\ Len(ss) = n /\ Len(tt) = n + 1 /\ tt \in Seq(Seq(X))
      /\ tt[n + 1] = c /\ \A i \in 1..n : tt[i] = ss[i]
  OBVIOUS
<1>2. FlattenSeq(ss) = IF n = 0 THEN ss ELSE g[n]
  BY FlatIs
<1>3. FlattenSeq(tt) = h[n + 1]
  <2>1. FlattenSeq(tt) = IF Len(tt) = 0 THEN tt ELSE h[Len(tt)]
    BY FlatIs
  <2> HIDE DEF tt, h
  <2> QED
    BY <1>1, <2>1
<1>4. IsFlat(g, ss) /\ IsFlat(h, tt)
  <2>1. IsFlat(g, ss)
    BY FlatIsFlat
  <2>2. IsFlat(h, tt)
    BY <1>1, FlatIsFlat
  <2> QED
    BY <2>1, <2>2
<1>5. n = 0 => ss = <<>>
  OBVIOUS
<1> HIDE DEF n, tt, g, h
<1>6. /\ \A i \in 1..n : g[i] = IF i = 1 THEN ss[i] ELSE g[i - 1] \o ss[i]
      /\ \A i \in 1..(n + 1) : h[i] = IF i = 1 THEN tt[i] ELSE h[i - 1] \o tt[i]
  BY <1>1, <1>4 DEF IsFlat
<1>7. CASE n = 0
  <2>1. h[1] = tt[1] /\ tt[1] = c
    BY <1>1, <1>6, <1>7
  <2>2. FlattenSeq(ss) = <<>>
    BY <1>2, <1>5, <1>7
  <2>3. <<>> \o c = c
    OBVIOUS
  <2> QED
    BY <1>3, <1>7, <2>1, <2>2, <2>3 DEF tt
<1>8. CASE n # 0
  <2> DEFINE Same == {k \in Nat : k + 1 \in 1..n => h[k + 1] = g[k + 1]}
  <2>1. \A k \in Nat : k \in Same
    <3>1. 0 \in Same
      BY <1>1, <1>6
    <3>2. ASSUME NEW k \in Nat, k \in Same PROVE k + 1 \in Same
      <4> SUFFICES ASSUME k + 2 \in 1..n PROVE h[k + 2] = g[k + 2]
        OBVIOUS
      <4>1. k + 1 \in 1..n /\ h[k + 1] = g[k + 1]
        BY <1>1, <3>2
      <4>2. k + 2 # 1 /\ (k + 2) - 1 = k + 1 /\ k + 2 \in 1..(n + 1)
        BY <1>1
      <4>3. h[k + 2] = h[k + 1] \o tt[k + 2] /\ g[k + 2] = g[k + 1] \o ss[k + 2]
        BY <1>6, <4>2
      <4> QED
        BY <1>1, <4>1, <4>3
    <3> HIDE DEF Same
    <3>3. \A k \in Nat : k \in Same => k + 1 \in Same
      BY <3>2
    <3> QED
      BY <3>1, <3>3, NatBySuccessor
  <2>2. n - 1 \in Nat /\ (n - 1) + 1 = n /\ n \in 1..n
    BY <1>1, <1>8
  <2>3. h[n] = g[n]
    BY <2>1, <2>2
  <2>4. h[n + 1] = h[n] \o tt[n + 1]
    <3>1. n + 1 \in 1..(n + 1) /\ n + 1 # 1 /\ (n + 1) - 1 = n
      BY <1>1, <1>8
    <3> QED
      BY <1>6, <3>1
  <2> QED
    BY <1>1, <1>2, <1>3, <1>8, <2>3, <2>4 DEF tt
<1> QED
  BY <1>7, <1>8

\* A flattened sequence has entries of the sequences, and no others.
LEMMA FlattenIs ==
  ASSUME NEW X
  PROVE  \A ss \in Seq(Seq(X)) : /\ FlattenSeq(ss) \in Seq(X)
                                 /\ \A x \in Range(FlattenSeq(ss)) : \E i \in DOMAIN ss : x \in Range(ss[i])
<1> DEFINE F(ss) == FlattenSeq(ss)
           From(x, ss) == \E i \in DOMAIN ss : x \in Range(ss[i])
           G == {ss \in Seq(Seq(X)) : F(ss) \in Seq(X) /\ \A x \in Range(F(ss)) : From(x, ss)}
<1>1. <<>> \in G
  <2>1. <<>> \in Seq(X) /\ <<>> \in Seq(Seq(X)) /\ Range(<<>>) = {}
    BY DEF Range
  <2>2. F(<<>>) = <<>>
    BY FlattenEmpty
  <2> HIDE DEF F, From
  <2>3. F(<<>>) \in Seq(X) /\ Range(F(<<>>)) = {}
    BY <2>1, <2>2, Zenon
  <2> QED
    BY <2>1, <2>3
<1>2. ASSUME NEW ss \in Seq(Seq(X)), NEW c \in Seq(X), ss \in G PROVE Append(ss, c) \in G
  <2> DEFINE tt == Append(ss, c)
  <2>1. F(tt) = F(ss) \o c
    BY FlattenAppend
  <2>2. F(ss) \in Seq(X) /\ \A x \in Range(F(ss)) : From(x, ss)
    <3> HIDE DEF F, From
    <3> QED
      BY <1>2
  <2>3. /\ Len(ss) \in Nat /\ DOMAIN ss = 1..Len(ss) /\ DOMAIN tt = 1..(Len(ss) + 1) /\ tt \in Seq(Seq(X))
        /\ tt[Len(ss) + 1] = c /\ \A i \in 1..Len(ss) : tt[i] = ss[i]
    OBVIOUS
  <2> HIDE DEF F, tt
  <2>4. F(tt) \in Seq(X) /\ Range(F(tt)) = Range(F(ss)) \cup Range(c)
    <3>1. Range(F(ss) \o c) = Range(F(ss)) \cup Range(c) /\ F(ss) \o c \in Seq(X)
      BY <2>2, RangeConcat
    <3> QED
      BY <2>1, <3>1, Zenon
  <2>5. \A x \in Range(c) : From(x, tt)
    <3>1. Len(ss) + 1 \in DOMAIN tt
      BY <2>3
    <3> QED
      BY <2>3, <3>1
  <2>6. \A x : From(x, ss) => From(x, tt)
    <3>1. \A i \in DOMAIN ss : i \in DOMAIN tt /\ tt[i] = ss[i]
      BY <2>3
    <3> QED
      BY <3>1
  <2> HIDE DEF From
  <2>7. tt \in G
    BY <2>2, <2>3, <2>4, <2>5, <2>6
  <2> QED
    BY <2>7 DEF tt
<1>3. \A ss \in Seq(Seq(X)) : ss \in G
  <2> HIDE DEF G
  <2> QED
    BY <1>1, <1>2, SequencesByLength
<1> QED
  BY <1>3

-----------------------------------------------------------------------------
(* The entries of a sequence at some of its places.                         *)

\* One more entry comes last, if it is wanted.
LEMMA AtAppend ==
  ASSUME NEW X, NEW s \in Seq(X), NEW c \in X, NEW places
  PROVE  At(Append(s, c), places) = At(s, places) \o IF Len(s) + 1 \in places THEN <<c>> ELSE <<>>
<1> DEFINE Each(r) == [i \in DOMAIN r |-> IF i \in places THEN <<r[i]>> ELSE <<>>]
           n == Len(s)
           t == Append(s, c)
           last == IF n + 1 \in places THEN <<c>> ELSE <<>>
<1>1. /\ n \in Nat /\ DOMAIN s = 1..n /\ DOMAIN t = 1..(n + 1)
      /\ t[n + 1] = c /\ (\A i \in 1..n : t[i] = s[i]) /\ \A i \in 1..n : s[i] \in X
  OBVIOUS
<1>2. last \in Seq(X)
  OBVIOUS
<1> HIDE DEF n, t
<1>3. Each(s) \in Seq(Seq(X)) /\ Len(Each(s)) = n
  <2>1. Each(s) \in [1..n -> Seq(X)]
    BY <1>1
  <2> HIDE DEF Each
  <2> QED
    BY <1>1, <2>1
<1>4. Each(t) = Append(Each(s), last)
  <2>1. Each(t) = [i \in 1..(n + 1) |-> IF i = n + 1 THEN last ELSE Each(s)[i]]
    BY <1>1
  <2>2. Each(t) \in [1..(n + 1) -> Seq(X)]
    <3>1. \A i \in 1..(n + 1) : t[i] \in X
      BY <1>1
    <3> QED
      BY <1>1, <3>1
  <2> HIDE DEF Each, last
  <2>3. \A i \in 1..(n + 1) : Each(t)[i] = IF i = n + 1 THEN last ELSE Each(s)[i]
    BY <2>1
  <2>4. /\ Append(Each(s), last) \in Seq(Seq(X)) /\ Len(Append(Each(s), last)) = n + 1
        /\ \A i \in 1..(n + 1) : Append(Each(s), last)[i] = IF i = n + 1 THEN last ELSE Each(s)[i]
    BY <1>1, <1>2, <1>3
  <2>5. Each(t) \in Seq(Seq(X)) /\ Len(Each(t)) = n + 1
    BY <1>1, <2>2
  <2> QED
    BY <1>1, <2>3, <2>4, <2>5
<1>5. FlattenSeq(Append(Each(s), last)) = FlattenSeq(Each(s)) \o last
  <2> HIDE DEF Each, last
  <2> QED
    BY <1>2, <1>3, FlattenAppend
<1>6. At(s, places) = FlattenSeq(Each(s)) /\ At(t, places) = FlattenSeq(Each(t))
  BY DEF At
<1> HIDE DEF Each
<1>7. At(t, places) = At(s, places) \o last
  BY <1>4, <1>5, <1>6
<1> QED
  BY <1>7 DEF t, n

\* There is nothing at any place of nothing.
LEMMA AtEmpty ==
  ASSUME NEW places
  PROVE  At(<<>>, places) = <<>>
<1>1. [i \in DOMAIN <<>> |-> IF i \in places THEN <<(<<>>)[i]>> ELSE <<>>] = <<>>
  OBVIOUS
<1> QED
  BY <1>1, FlattenEmpty DEF At

\* What is at some places has the entries that are there.
LEMMA AtIs ==
  ASSUME NEW X, NEW places
  PROVE  \A s \in Seq(X) : /\ At(s, places) \in Seq(X)
                           /\ Range(At(s, places)) = {s[i] : i \in places \cap DOMAIN s}
<1> DEFINE G == {s \in Seq(X) : /\ At(s, places) \in Seq(X)
                                /\ Range(At(s, places)) = {s[i] : i \in places \cap DOMAIN s}}
<1>1. <<>> \in G
  <2>1. At(<<>>, places) = <<>>
    BY AtEmpty
  <2>2. Range(<<>>) = {} /\ {(<<>>)[i] : i \in places \cap DOMAIN <<>>} = {}
    BY DEF Range
  <2>3. At(<<>>, places) \in Seq(X) /\ <<>> \in Seq(X)
    <3>1. <<>> \in Seq(X)
      OBVIOUS
    <3> QED
      BY <2>1, <3>1, Zenon
  <2>4. Range(At(<<>>, places)) = {(<<>>)[i] : i \in places \cap DOMAIN <<>>}
    BY <2>1, <2>2, Zenon
  <2> QED
    BY <2>3, <2>4
<1>2. ASSUME NEW s \in Seq(X), NEW c \in X, s \in G PROVE Append(s, c) \in G
  <2> DEFINE n == Len(s)
             t == Append(s, c)
             a == At(s, places)
             last == IF n + 1 \in places THEN <<c>> ELSE <<>>
  <2>1. /\ n \in Nat /\ DOMAIN s = 1..n /\ DOMAIN t = 1..(n + 1) /\ t \in Seq(X)
        /\ t[n + 1] = c /\ (\A i \in 1..n : t[i] = s[i])
    OBVIOUS
  <2>2. a \in Seq(X) /\ Range(a) = {s[i] : i \in places \cap DOMAIN s}
    BY <1>2
  <2>3. At(t, places) = a \o last
    BY AtAppend
  <2> HIDE DEF n, t, a
  <2>4. last \in Seq(X)
    OBVIOUS
  <2>5. Range(a \o last) = Range(a) \cup Range(last)
    <3> HIDE DEF last
    <3> QED
      BY <2>2, <2>4, RangeConcat
  <2>6. Range(last) = IF n + 1 \in places THEN {c} ELSE {}
    BY DEF Range
  <2>7. {t[i] : i \in places \cap DOMAIN t} = {s[i] : i \in places \cap DOMAIN s} \cup Range(last)
    <3>1. \A i \in places \cap DOMAIN t :
            \/ i \in places \cap DOMAIN s /\ t[i] = s[i]
            \/ i = n + 1 /\ t[i] = c /\ n + 1 \in places
      BY <2>1
    <3>2. \A i \in places \cap DOMAIN s : i \in places \cap DOMAIN t /\ t[i] = s[i]
      BY <2>1
    <3>3. n + 1 \in places => n + 1 \in places \cap DOMAIN t /\ t[n + 1] = c
      BY <2>1
    <3> HIDE DEF last
    <3> QED
      BY <2>6, <3>1, <3>2, <3>3
  <2>8. a \o last \in Seq(X)
    <3> HIDE DEF last
    <3> QED
      BY <2>2, <2>4
  <2>9. t \in G
    <3> HIDE DEF last
    <3> QED
      BY <2>1, <2>2, <2>3, <2>5, <2>7, <2>8
  <2> QED
    BY <2>9 DEF t
<1>3. \A s \in Seq(X) : s \in G
  <2> HIDE DEF G
  <2> QED
    BY <1>1, <1>2, SequencesByLength
<1> QED
  BY <1>3

\* All entries are the sequence, and all but one are what RemoveAt leaves.
LEMMA AtAll ==
  ASSUME NEW X, NEW places
  PROVE  \A s \in Seq(X) : DOMAIN s \subseteq places => At(s, places) = s
<1> DEFINE G == {s \in Seq(X) : DOMAIN s \subseteq places => At(s, places) = s}
<1>1. <<>> \in G
  <2>1. At(<<>>, places) = <<>> /\ <<>> \in Seq(X)
    BY AtEmpty
  <2> QED
    BY <2>1
<1>2. ASSUME NEW s \in Seq(X), NEW c \in X, s \in G PROVE Append(s, c) \in G
  <2>1. At(Append(s, c), places) = At(s, places) \o IF Len(s) + 1 \in places THEN <<c>> ELSE <<>>
    BY AtAppend
  <2>2. /\ Append(s, c) = s \o <<c>> /\ Append(s, c) \in Seq(X)
        /\ DOMAIN Append(s, c) = DOMAIN s \cup {Len(s) + 1}
    OBVIOUS
  <2>3. DOMAIN s \subseteq places => At(s, places) = s
    BY <1>2
  <2> QED
    BY <2>1, <2>2, <2>3
<1>3. \A s \in Seq(X) : s \in G
  <2> HIDE DEF G
  <2> QED
    BY <1>1, <1>2, SequencesByLength
<1> QED
  BY <1>3

\* RemoveAt leaves what is behind.
LEMMA RemoveAtAppend ==
  ASSUME NEW X, NEW s \in Seq(X), NEW c \in X, NEW k \in DOMAIN s
  PROVE  RemoveAt(Append(s, c), k) = Append(RemoveAt(s, k), c)
<1> DEFINE n == Len(s)
           t == Append(s, c)
           front == SubSeq(s, 1, k - 1)
           back == SubSeq(s, k + 1, n)
<1>1. n \in Nat /\ k \in 1..n /\ Len(t) = n + 1 /\ t \in Seq(X)
      /\ t[n + 1] = c /\ \A i \in 1..n : t[i] = s[i] /\ s[i] \in X
  OBVIOUS
<1>2. SubSeq(t, 1, k - 1) = front
  BY <1>1
<1>3. SubSeq(t, k + 1, n + 1) = Append(back, c)
  <2>0. k + 1 \in Int /\ n \in Int /\ n + 1 \in Int /\ k + 1 <= n + 1 /\ (n + 1) - 1 = n
    BY <1>1
  <2>1. SubSeq(t, k + 1, n + 1) = SubSeq(t, k + 1, (n + 1) - 1) \o <<t[n + 1]>>
    <3> DEFINE i == k + 1
               j == n + 1
    <3>1. i \in 1..Len(t) /\ j \in i..Len(t) /\ t \in Seq(X)
      BY <1>1
    <3> HIDE DEF t, n, i, j
    <3>2. SubSeq(t, i, j) = SubSeq(t, i, j - 1) \o <<t[j]>>
      BY <3>1, SubSeqRecursiveSecond
    <3> QED
      BY <3>2 DEF i, j
  <2>2. SubSeq(t, k + 1, n) = back
    BY <1>1
  <2>3. back \in Seq(X)
    BY <1>1
  <2>4. back \o <<c>> = Append(back, c)
    <3> HIDE DEF back
    <3> QED
      BY <2>3
  <2> HIDE DEF t, n, back
  <2> QED
    BY <1>1, <2>0, <2>1, <2>2, <2>4
<1>4. front \in Seq(X) /\ back \in Seq(X)
  BY <1>1
<1>5. front \o Append(back, c) = Append(front \o back, c)
  <2> HIDE DEF front, back
  <2> QED
    BY <1>4
<1> QED
  BY <1>1, <1>2, <1>3, <1>5, Zenon DEF RemoveAt

\* RemoveAt of the last entry leaves those before it.
LEMMA RemoveAtLast ==
  ASSUME NEW X, NEW s \in Seq(X), NEW c \in X
  PROVE  RemoveAt(Append(s, c), Len(s) + 1) = s
<1> DEFINE n == Len(s)
           t == Append(s, c)
<1>1. n \in Nat /\ Len(t) = n + 1 /\ (n + 1) - 1 = n /\ \A i \in 1..n : t[i] = s[i]
  OBVIOUS
<1>2. SubSeq(t, 1, n) = s
  BY <1>1
<1>3. SubSeq(t, n + 2, n + 1) = <<>>
  BY <1>1
<1>4. s \o <<>> = s
  OBVIOUS
<1> QED
  BY <1>1, <1>2, <1>3, <1>4 DEF RemoveAt

\* All entries but one are what RemoveAt leaves.
LEMMA AtButOne ==
  ASSUME NEW X, NEW k, NEW places
  PROVE  \A s \in Seq(X) :
           k \in DOMAIN s /\ places \cap DOMAIN s = DOMAIN s \ {k} => At(s, places) = RemoveAt(s, k)
<1> DEFINE But(s) == k \in DOMAIN s /\ places \cap DOMAIN s = DOMAIN s \ {k}
           G == {s \in Seq(X) : But(s) => At(s, places) = RemoveAt(s, k)}
<1>1. <<>> \in G
  <2>1. <<>> \in Seq(X) /\ DOMAIN <<>> = {}
    OBVIOUS
  <2> QED
    BY <2>1
<1>2. ASSUME NEW s \in Seq(X), NEW c \in X, s \in G PROVE Append(s, c) \in G
  <2> DEFINE t == Append(s, c)
             n == Len(s)
  <2>1. n \in Nat /\ DOMAIN s = 1..n /\ DOMAIN t = 1..(n + 1) /\ t \in Seq(X)
    OBVIOUS
  <2>2. At(t, places) = At(s, places) \o IF n + 1 \in places THEN <<c>> ELSE <<>>
    BY AtAppend
  <2>3. ASSUME But(t), k = n + 1 PROVE At(t, places) = RemoveAt(t, k)
    <3>1. n + 1 \notin places /\ DOMAIN s \subseteq places
      BY <2>1, <2>3
    <3>2. At(s, places) = s
      BY <3>1, AtAll
    <3>3. At(t, places) = s
      BY <2>2, <3>1, <3>2
    <3> QED
      BY <2>3, <3>3, RemoveAtLast
  <2>4. ASSUME But(t), k # n + 1 PROVE At(t, places) = RemoveAt(t, k)
    <3>1. n + 1 \in places /\ But(s) /\ k \in DOMAIN s
      BY <2>1, <2>4
    <3>2. At(s, places) = RemoveAt(s, k)
      BY <1>2, <3>1
    <3>3. At(s, places) \in Seq(X)
      BY AtIs
    <3>4. At(t, places) = Append(At(s, places), c)
      BY <2>2, <3>1, <3>3
    <3> QED
      BY <3>1, <3>2, <3>4, RemoveAtAppend
  <2> QED
    BY <2>1, <2>3, <2>4
<1>3. \A s \in Seq(X) : s \in G
  <2> HIDE DEF G
  <2> QED
    BY <1>1, <1>2, SequencesByLength
<1> QED
  BY <1>3

-----------------------------------------------------------------------------
(* A correction, and what a row is after some of them.                      *)

\* A line whose cents were read.
Item == [name : Text, cents : Int \cup {None}]

\* What the corrections of a field may hold.
May(field) ==
  CASE field = "merchant" -> Merchant
    [] field \in {"date", "category", "name"} -> Text
    [] field \in {"total", "tax", "cents"} -> Amount
    [] field = "deleted" -> {TRUE}

Fields == {"merchant", "date", "total", "tax", "category", "deleted"}
Value == Merchant \cup Text \cup Amount \cup {TRUE}
\* A correction is of a field of the receipt or of a line, with a value that may be typed there.
Correction ==
  {c \in [field : Fields \cup {"name", "cents"}, line : Nat, value : Value] :
     /\ c.value \in May(c.field)
     /\ c.field \in Fields <=> c.line = 0}

\* manual and deleted, which no type is needed of, are left out.
RowOK(row) ==
  /\ DOMAIN row = DOMAIN Absent
  /\ row.merchant \in Merchant
  /\ row.date \in Text /\ row.category \in Text
  /\ row.total \in Int \cup {None} /\ row.tax \in Int \cup {None}
  /\ row.items \in Seq(Item)

\* Cents of an amount are a number or none, and only Garbage is read as something else.
LEMMA CentsAre ==
  ASSUME NEW v \in Amount
  PROVE  Cents(v) \in Int \cup {None} /\ (v # Garbage => Cents(v) = v)
BY DEF Cents, Amount

\* What a correction says is of the type of its field.
LEMMA CorrectionIs ==
  ASSUME NEW c \in Correction
  PROVE  /\ c.line \in Nat
         /\ c.line = 0 => c.field \in Fields
         /\ c.line # 0 => c.field \in {"name", "cents"}
         /\ c.field = "merchant" => Means(c) \in Merchant
         /\ c.field \in {"date", "category", "name"} => Means(c) \in Text
         /\ c.field \in {"total", "tax", "cents"} => Means(c) \in Int \cup {None}
         /\ c.value # Garbage => Means(c) = c.value
<1>1. /\ c \in [field : Fields \cup {"name", "cents"}, line : Nat, value : Value]
      /\ c.value \in May(c.field)
      /\ c.field \in Fields <=> c.line = 0
  BY DEF Correction
<1>2. c.line \in Nat /\ c.field \in Fields \cup {"name", "cents"}
  BY <1>1
<1>3. c.field = "merchant" => c.value \in Merchant
  BY <1>1 DEF May
<1>4. c.field \in {"date", "category", "name"} => c.value \in Text
  BY <1>1 DEF May
<1>5. c.field \in {"total", "tax", "cents"} => c.value \in Amount
  BY <1>1 DEF May
<1>6. c.field \in {"total", "tax", "cents"} => Means(c) = Cents(c.value)
  BY DEF Means
<1>7. c.field \notin {"total", "tax", "cents"} => Means(c) = c.value
  BY DEF Means
<1>8. c.field \in {"total", "tax", "cents"} => /\ Means(c) \in Int \cup {None}
                                               /\ c.value # Garbage => Means(c) = c.value
  BY <1>5, <1>6, CentsAre
<1> QED
  BY <1>1, <1>2, <1>3, <1>4, <1>7, <1>8

\* Padding adds lines behind those there are.
LEMMA PaddedIs ==
  ASSUME NEW items \in Seq(Item), NEW n \in Nat
  PROVE  /\ Padded(items, n) \in Seq(Item)
         /\ Len(Padded(items, n)) = IF n > Len(items) THEN n ELSE Len(items)
         /\ \A i \in 1..Len(items) : Padded(items, n)[i] = items[i]
<1> DEFINE m == IF n > Len(items) THEN n - Len(items) ELSE 0
           blanks == [i \in 1..m |-> Blank]
<1>1. m \in Nat /\ Len(items) \in Nat
  OBVIOUS
<1>2. Blank \in Item
  BY TextAssumption DEF Blank, Item
<1> HIDE DEF m
<1>3. blanks \in Seq(Item) /\ Len(blanks) = m
  BY <1>1, <1>2
<1> HIDE DEF blanks
<1>4. /\ items \o blanks \in Seq(Item) /\ Len(items \o blanks) = Len(items) + m
      /\ \A i \in 1..Len(items) : (items \o blanks)[i] = items[i]
  BY <1>1, <1>3
<1>5. Len(items) + m = IF n > Len(items) THEN n ELSE Len(items)
  BY <1>1 DEF m
<1>6. Padded(items, n) = items \o blanks
  BY DEF Padded, blanks, m
<1> QED
  BY <1>4, <1>5, <1>6

\* A correction of the receipt.
LEMMA HeaderApplied ==
  ASSUME NEW row, RowOK(row), NEW c \in Correction, c.line = 0
  PROVE  /\ RowOK(Applied(row, c))
         /\ Applied(row, c).items = row.items
         /\ \A f \in Fields : Applied(row, c)[f] = IF f = c.field THEN Means(c) ELSE row[f]
<1> DEFINE new == Applied(row, c)
<1>1. new = [row EXCEPT ![c.field] = Means(c), !.manual = @ \/ c.field = "category"]
  BY DEF Applied
<1>2. DOMAIN row = {"merchant", "date", "total", "tax", "category", "items", "manual", "deleted"}
  BY DEF RowOK, Absent
<1> HIDE DEF new
<1>3. c.field \in Fields
  BY CorrectionIs
<1>4. DOMAIN new = DOMAIN row
  BY <1>1
<1>5. new.items = row.items
  BY <1>1, <1>2, <1>3 DEF Fields
<1>6. \A f \in Fields : new[f] = IF f = c.field THEN Means(c) ELSE row[f]
  BY <1>1, <1>2, <1>3 DEF Fields
<1>7. RowOK(new)
  <2>1. /\ new.merchant = IF "merchant" = c.field THEN Means(c) ELSE row.merchant
        /\ new.date = IF "date" = c.field THEN Means(c) ELSE row.date
        /\ new.category = IF "category" = c.field THEN Means(c) ELSE row.category
        /\ new.total = IF "total" = c.field THEN Means(c) ELSE row.total
        /\ new.tax = IF "tax" = c.field THEN Means(c) ELSE row.tax
    BY <1>6 DEF Fields
  <2> QED
    BY <1>4, <1>5, <2>1, CorrectionIs DEF RowOK
<1> QED
  BY <1>5, <1>6, <1>7 DEF new

\* A correction of a line.
LEMMA LineApplied ==
  ASSUME NEW row, RowOK(row), NEW c \in Correction, c.line # 0
  PROVE  /\ RowOK(Applied(row, c))
         /\ \A f \in Fields : Applied(row, c)[f] = row[f]
<1> DEFINE new == Applied(row, c)
           old == Padded(row.items, c.line)
           items == AppliedToLines(row.items, c)
<1>1. new = [row EXCEPT !.items = items]
  BY Zenon DEF Applied
<1>2. /\ DOMAIN row = {"merchant", "date", "total", "tax", "category", "items", "manual", "deleted"}
      /\ row.items \in Seq(Item)
  BY DEF RowOK, Absent
<1>3. c.line \in Nat \ {0} /\ c.field \in {"name", "cents"}
  BY CorrectionIs
<1>4. old \in Seq(Item)
  BY <1>2, <1>3, PaddedIs
<1> HIDE DEF old, items
<1>5. items = [old EXCEPT ![c.line] = [@ EXCEPT ![c.field] = Means(c)]]
  BY DEF AppliedToLines, old, items
<1>6. items \in Seq(Item)
  <2>1. \A i \in DOMAIN old : old[i] \in Item
    BY <1>4
  <2>2. \A x \in Item : [x EXCEPT ![c.field] = Means(c)] \in Item
    <3> SUFFICES ASSUME NEW x \in Item PROVE [x EXCEPT ![c.field] = Means(c)] \in Item
      OBVIOUS
    <3>1. CASE c.field = "name"
      <4>1. Means(c) \in Text
        BY <3>1, CorrectionIs
      <4> QED
        BY <3>1, <4>1 DEF Item
    <3>2. CASE c.field = "cents"
      <4>1. Means(c) \in Int \cup {None}
        BY <3>2, CorrectionIs
      <4> QED
        BY <3>2, <4>1 DEF Item
    <3> QED
      BY <1>3, <3>1, <3>2
  <2>3. DOMAIN old = 1..Len(old) /\ Len(old) \in Nat
    BY <1>4
  <2>4. items \in [1..Len(old) -> Item]
    BY <1>5, <2>1, <2>2, <2>3
  <2> QED
    BY <2>3, <2>4
<1> HIDE DEF new
<1>7. DOMAIN new = DOMAIN row /\ new.items = items
  BY <1>1, <1>2
<1>8. \A f \in Fields : new[f] = row[f]
  BY <1>1, <1>2 DEF Fields
<1>9. RowOK(new)
  <2>1. /\ new.merchant = row.merchant /\ new.date = row.date /\ new.category = row.category
        /\ new.total = row.total /\ new.tax = row.tax
    BY <1>8 DEF Fields
  <2> QED
    BY <1>6, <1>7, <2>1 DEF RowOK
<1> QED
  BY <1>8, <1>9 DEF new

\* Corrections are applied in their order.
LEMMA FoldConcat ==
  ASSUME NEW b, NEW C, NEW s \in Seq(C)
  PROVE  \A t \in Seq(C) : FoldLeft(Applied, b, s \o t) = FoldLeft(Applied, FoldLeft(Applied, b, s), t)
<1> DEFINE a == FoldLeft(Applied, b, s)
           Whole(t) == FoldLeft(Applied, b, s \o t)
           Then(t) == FoldLeft(Applied, a, t)
           G == {t \in Seq(C) : Whole(t) = Then(t)}
<1>1. <<>> \in G
  <2>1. s \o <<>> = s /\ <<>> \in Seq(C)
    OBVIOUS
  <2>2. Then(<<>>) = a
    <3> HIDE DEF a
    <3> QED
      BY FoldEmpty
  <2>3. Whole(<<>>) = a
    BY <2>1, Zenon
  <2> HIDE DEF Whole, Then
  <2> QED
    BY <2>1, <2>2, <2>3
<1>2. ASSUME NEW t \in Seq(C), NEW c \in C, t \in G PROVE Append(t, c) \in G
  <2>1. s \o Append(t, c) = Append(s \o t, c) /\ s \o t \in Seq(C) /\ Append(t, c) \in Seq(C)
    OBVIOUS
  <2>2. FoldLeft(Applied, b, Append(s \o t, c)) = Applied(Whole(t), c)
    BY <2>1, FoldAppend
  <2>3. Then(Append(t, c)) = Applied(Then(t), c)
    <3> HIDE DEF a
    <3> QED
      BY FoldAppend
  <2>4. Whole(Append(t, c)) = FoldLeft(Applied, b, Append(s \o t, c))
    BY <2>1, Zenon
  <2>5. Whole(t) = Then(t)
    <3> HIDE DEF Whole, Then
    <3> QED
      BY <1>2
  <2> HIDE DEF Whole, Then
  <2> QED
    BY <2>1, <2>2, <2>3, <2>4, <2>5
<1>3. \A t \in Seq(C) : t \in G
  <2> HIDE DEF G
  <2> QED
    BY <1>1, <1>2, SequencesByLength
<1> QED
  BY <1>3

\* Corrections keep a row in shape.
LEMMA FoldOK ==
  ASSUME NEW b, RowOK(b)
  PROVE  \A s \in Seq(Correction) : RowOK(FoldLeft(Applied, b, s))
<1> DEFINE F(s) == FoldLeft(Applied, b, s)
           G == {s \in Seq(Correction) : RowOK(F(s))}
<1>1. <<>> \in G
  <2>1. <<>> \in Seq(Correction)
    OBVIOUS
  <2>2. F(<<>>) = b
    BY FoldEmpty
  <2> HIDE DEF F
  <2> QED
    BY <2>1, <2>2
<1>2. ASSUME NEW s \in Seq(Correction), NEW c \in Correction, s \in G PROVE Append(s, c) \in G
  <2>1. F(Append(s, c)) = Applied(F(s), c)
    BY FoldAppend
  <2> HIDE DEF F
  <2>2. RowOK(Applied(F(s), c))
    <3>1. RowOK(F(s))
      BY <1>2
    <3>2. CASE c.line = 0
      BY <3>1, <3>2, HeaderApplied
    <3>3. CASE c.line # 0
      BY <3>1, <3>3, LineApplied
    <3> QED
      BY <3>2, <3>3
  <2> QED
    BY <2>1, <2>2
<1>3. \A s \in Seq(Correction) : s \in G
  <2> HIDE DEF G
  <2> QED
    BY <1>1, <1>2, SequencesByLength
<1> QED
  BY <1>3

\* The row after some corrections.
After(row, cs) == FoldLeft(Applied, row, cs)

\* The field f of b is v after s, if s says so each time it speaks of it.
Follows(b, s, f, v) ==
  (\A x \in Range(s) : x.line = 0 /\ x.field = f => Means(x) = v)
  => After(b, s)[f] = IF \E x \in Range(s) : x.line = 0 /\ x.field = f THEN v ELSE b[f]

\* A field is what the corrections of it say, which agree, or what it was.
LEMMA FoldField ==
  ASSUME NEW b, RowOK(b), NEW f \in Fields, NEW v
  PROVE  \A s \in Seq(Correction) : Follows(b, s, f, v)
<1> DEFINE F(s) == After(b, s)
           Here(x) == x.line = 0 /\ x.field = f
           Agree(s) == \A x \in Range(s) : Here(x) => Means(x) = v
           Found(s) == \E x \in Range(s) : Here(x)
           G == {s \in Seq(Correction) : Agree(s) => F(s)[f] = IF Found(s) THEN v ELSE b[f]}
<1>1. <<>> \in G
  <2>1. <<>> \in Seq(Correction) /\ Range(<<>>) = {}
    BY DEF Range
  <2>2. F(<<>>) = b
    BY FoldEmpty DEF After
  <2>3. ~Found(<<>>)
    BY <2>1
  <2> HIDE DEF F, Found, Agree
  <2> QED
    BY <2>1, <2>2, <2>3
<1>2. ASSUME NEW s \in Seq(Correction), NEW c \in Correction, s \in G PROVE Append(s, c) \in G
  <2>1. F(Append(s, c)) = Applied(F(s), c)
    BY FoldAppend DEF After
  <2>2. Range(Append(s, c)) = Range(s) \cup {c} /\ Append(s, c) \in Seq(Correction)
    BY RangeAppend
  <2>3. RowOK(F(s))
    BY FoldOK DEF After
  <2> HIDE DEF F
  <2>4. Agree(Append(s, c)) => Agree(s) /\ (Here(c) => Means(c) = v)
    BY <2>2
  <2>5. Found(Append(s, c)) <=> Found(s) \/ Here(c)
    BY <2>2
  <2>6. Applied(F(s), c)[f] = IF Here(c) THEN Means(c) ELSE F(s)[f]
    <3>1. CASE c.line = 0
      BY <2>3, <3>1, HeaderApplied
    <3>2. CASE c.line # 0
      BY <2>3, <3>2, LineApplied
    <3> QED
      BY <3>1, <3>2
  <2>7. Agree(s) => F(s)[f] = IF Found(s) THEN v ELSE b[f]
    BY <1>2
  <2> HIDE DEF Agree, Found, Here
  <2> QED
    BY <2>1, <2>2, <2>4, <2>5, <2>6, <2>7
<1>3. \A s \in Seq(Correction) : s \in G
  <2> HIDE DEF G
  <2> QED
    BY <1>1, <1>2, SequencesByLength
<1> QED
  BY <1>3 DEF Follows

-----------------------------------------------------------------------------
(* The row, the form and what it records.                                   *)

\* A row that was read is in shape (project.project).
LEMMA BaseOK ==
  ASSUME NEW rs \in Seq(Readings)
  PROVE  RowOK(Base(rs))
<1> DEFINE ok == Successes(rs)
           e == rs[Max(ok)]
<1>1. None \in Text /\ None \in Merchant
  BY TextAssumption DEF Merchant
<1>2. RowOK(Absent)
  BY <1>1 DEF RowOK, Absent
<1>3. CASE ok = {}
  BY <1>2, <1>3 DEF Base
<1>4. CASE ok # {}
  <2>1. Len(rs) \in Nat /\ ok \in SUBSET (1..Len(rs))
    BY DEF Successes
  <2>2. Max(ok) \in ok
    <3> HIDE DEF ok
    <3> QED
      BY <1>4, <2>1, MaxIsIn
  <2>3. e \in Readings /\ e # Garbage
    BY <2>2 DEF Successes
  <2>4. e \in Reading
    BY <2>3, TextAssumption
  <2> DEFINE items == [i \in DOMAIN e.items |-> [e.items[i] EXCEPT !.cents = Cents(@)]]
             new == [Absent EXCEPT !.merchant = e.merchant, !.date = e.date, !.category = e.category,
                       !.total = Cents(e.total), !.tax = Cents(e.tax), !.items = items]
  <2>5. Base(rs) = new
    BY <1>4, Zenon DEF Base
  <2> HIDE DEF e
  <2>6. /\ e.merchant \in Merchant /\ e.date \in Text /\ e.category \in Text
        /\ e.total \in Amount /\ e.tax \in Amount
        /\ e.items \in Seq([name : Text, cents : Amount])
    BY <2>4 DEF Reading
  <2>7. items \in Seq(Item)
    <3>1. \A x \in [name : Text, cents : Amount] : [x EXCEPT !.cents = Cents(@)] \in Item
      BY CentsAre DEF Item
    <3>2. Len(e.items) \in Nat /\ DOMAIN e.items = 1..Len(e.items)
          /\ \A i \in 1..Len(e.items) : e.items[i] \in [name : Text, cents : Amount]
      <4> DEFINE q == e.items
                 Q == [name : Text, cents : Amount]
      <4>1. q \in Seq(Q)
        BY <2>6
      <4> HIDE DEF q, Q
      <4>2. Len(q) \in Nat /\ DOMAIN q = 1..Len(q) /\ \A i \in 1..Len(q) : q[i] \in Q
        BY <4>1
      <4> QED
        BY <4>2 DEF q, Q
    <3>3. items \in [1..Len(e.items) -> Item]
      BY <3>1, <3>2
    <3> HIDE DEF items
    <3> QED
      BY <3>2, <3>3
  <2> HIDE DEF items
  <2>8. /\ DOMAIN new = DOMAIN Absent
        /\ new.merchant = e.merchant /\ new.date = e.date /\ new.category = e.category
        /\ new.total = Cents(e.total) /\ new.tax = Cents(e.tax) /\ new.items = items
    BY DEF Absent
  <2> HIDE DEF new
  <2>9. RowOK(new)
    BY <2>6, <2>7, <2>8, CentsAre DEF RowOK
  <2> QED
    BY <2>5, <2>9
<1> QED
  BY <1>3, <1>4

\* The lines that are kept have names.
LEMMA KeptOK ==
  ASSUME NEW items \in Seq(Item)
  PROVE  Kept(items) \in Seq(Item) /\ \A x \in Range(Kept(items)) : x.name # None
<1> DEFINE places == {i \in DOMAIN items : items[i].name # None}
<1>1. Kept(items) = At(items, places)
  BY DEF Kept
<1>2. /\ At(items, places) \in Seq(Item)
      /\ Range(At(items, places)) = {items[i] : i \in places \cap DOMAIN items}
  <2> HIDE DEF places
  <2> QED
    BY AtIs
<1>3. \A x \in Range(Kept(items)) : x.name # None
  BY <1>1, <1>2
<1> QED
  BY <1>1, <1>2, <1>3

\* A row that was read and corrected is in shape.
LEMMA CorrectedOK ==
  ASSUME NEW rs \in Seq(Readings), NEW cs \in Seq(Correction)
  PROVE  RowOK(Corrected(rs, cs))
BY BaseOK, FoldOK DEF Corrected

\* A row that is shown is in shape, and is the corrected one but for lines and category.
LEMMA ProjectedOK ==
  ASSUME NEW rs \in Seq(Readings), NEW cs \in Seq(Correction)
  PROVE  /\ RowOK(Projected(rs, cs).row)
         /\ Projected(rs, cs).row.items = Kept(Corrected(rs, cs).items)
         /\ \A f \in Fields \ {"category"} : Projected(rs, cs).row[f] = Corrected(rs, cs)[f]
<1> DEFINE row == Corrected(rs, cs)
           named == ~row.manual /\ row.merchant # None /\ Rule[row.merchant] # None
           items == Kept(row.items)
           category == IF named THEN Rule[row.merchant] ELSE row.category
           new == [row EXCEPT !.items = items, !.category = category]
<1>1. Projected(rs, cs).row = new
  BY Zenon DEF Projected
<1>2. RowOK(row)
  BY CorrectedOK
<1> HIDE DEF row
<1>3. items \in Seq(Item)
  BY <1>2, KeptOK DEF RowOK
<1>4. category \in Text
  <2>1. named => Rule[row.merchant] \in Text
    BY <1>2, TextAssumption DEF RowOK, Merchant
  <2>2. row.category \in Text
    BY <1>2 DEF RowOK
  <2> HIDE DEF named
  <2> QED
    BY <2>1, <2>2
<1> HIDE DEF items, category
<1>5. DOMAIN row = {"merchant", "date", "total", "tax", "category", "items", "manual", "deleted"}
  BY <1>2 DEF RowOK, Absent
<1>6. /\ DOMAIN new = DOMAIN row /\ new.items = items /\ new.category = category
      /\ \A f \in Fields \ {"category"} : new[f] = row[f]
  BY <1>5 DEF Fields
<1> HIDE DEF new
<1>7. RowOK(new)
  <2>1. /\ new.merchant = row.merchant /\ new.date = row.date
        /\ new.total = row.total /\ new.tax = row.tax
    BY <1>6 DEF Fields
  <2> QED
    BY <1>2, <1>3, <1>4, <1>6, <2>1 DEF RowOK
<1> QED
  BY <1>1, <1>6, <1>7 DEF items, row

\* An entry of the form has its place, and what the row has there.
Entry(row) ==
  {c \in Correction : /\ c.line = 0 => c.field \in Range(Header) /\ c.value = row[c.field]
                      /\ c.line # 0 => c.line \in DOMAIN row.items /\ c.value = row.items[c.line][c.field]}

\* A form consists of entries of its row.
LEMMA FormIs ==
  ASSUME NEW row, RowOK(row)
  PROVE  Form(row) \in Seq(Entry(row))
<1> DEFINE head == [i \in DOMAIN Header |-> [field |-> Header[i], line |-> 0, value |-> row[Header[i]]]]
           NameOf(n) == [field |-> "name", line |-> n, value |-> row.items[n].name]
           Price(n) == [field |-> "cents", line |-> n, value |-> row.items[n].cents]
           lines == [n \in DOMAIN row.items |-> <<NameOf(n), Price(n)>>]
<1>1. DOMAIN Header = 1..5 /\ Range(Header) = {"merchant", "date", "category", "tax", "total"}
  BY DEF Header, Range
<1>2. \A f \in Range(Header) : row[f] \in May(f) /\ row[f] \in Value /\ f \in Fields
  BY <1>1 DEF May, Value, RowOK, Amount, Fields
<1>3. \A i \in DOMAIN Header : head[i] \in Entry(row)
  <2> SUFFICES ASSUME NEW i \in DOMAIN Header PROVE head[i] \in Entry(row)
    OBVIOUS
  <2>1. Header[i] \in Range(Header)
    BY DEF Range
  <2> QED
    BY <1>2, <2>1 DEF Entry, Correction
<1>4. head \in Seq(Entry(row))
  BY <1>1, <1>3
<1>5. row.items \in Seq(Item) /\ DOMAIN row.items = 1..Len(row.items) /\ Len(row.items) \in Nat
  BY DEF RowOK
<1>6. \A n \in DOMAIN row.items : NameOf(n) \in Entry(row) /\ Price(n) \in Entry(row)
  <2> SUFFICES ASSUME NEW n \in DOMAIN row.items PROVE NameOf(n) \in Entry(row) /\ Price(n) \in Entry(row)
    OBVIOUS
  <2>1. row.items[n] \in Item /\ n \in Nat /\ n # 0
    BY <1>5
  <2>2. row.items[n].name \in Text /\ row.items[n].cents \in Amount
    BY <2>1 DEF Item, Amount
  <2>3. NameOf(n) \in Correction /\ Price(n) \in Correction
    BY <2>1, <2>2 DEF Correction, May, Value, Fields
  <2> QED
    BY <2>1, <2>3 DEF Entry
<1>7. lines \in Seq(Seq(Entry(row)))
  <2> HIDE DEF NameOf, Price
  <2>1. \A n \in DOMAIN row.items : <<NameOf(n), Price(n)>> \in Seq(Entry(row))
    BY <1>6
  <2>2. lines \in [1..Len(row.items) -> Seq(Entry(row))]
    BY <1>5, <2>1
  <2> HIDE DEF lines
  <2> QED
    BY <1>5, <2>2
<1>8. FlattenSeq(lines) \in Seq(Entry(row))
  <2> HIDE DEF lines
  <2> QED
    BY <1>7, FlattenIs
<1>9. Form(row) = head \o FlattenSeq(lines)
  BY Zenon DEF Form
<1> HIDE DEF head, lines
<1> QED
  BY <1>4, <1>8, <1>9

\* The form has an entry for a place at most once.
LEMMA EntryIs ==
  ASSUME NEW row
  PROVE  /\ \A c \in Entry(row) : c \in Correction /\ c.field \in Range(Header) \cup {"name", "cents"}
         /\ \A x, y \in Entry(row) : x.line = y.line /\ x.field = y.field => x = y
<1>1. \A c \in Entry(row) : c \in Correction /\ c.field \in Range(Header) \cup {"name", "cents"}
  BY CorrectionIs DEF Entry
<1>2. ASSUME NEW x \in Entry(row), NEW y \in Entry(row), x.line = y.line, x.field = y.field
      PROVE  x = y
  <2>1. x.value = y.value
    BY <1>2 DEF Entry
  <2>2. /\ x \in [field : Fields \cup {"name", "cents"}, line : Nat, value : Value]
        /\ y \in [field : Fields \cup {"name", "cents"}, line : Nat, value : Value]
    BY DEF Entry, Correction
  <2> QED
    BY <1>2, <2>1, <2>2
<1> QED
  BY <1>1, <1>2

\* An edit is an entry with another value that may be typed there.
LEMMA EditIs ==
  ASSUME NEW row, RowOK(row), NEW edits \in Edits(row), NEW e \in edits
  PROVE  /\ edits = {e}
         /\ e \in Correction
         /\ \E c \in Range(Form(row)) : /\ c \in Entry(row) /\ c.field = e.field /\ c.line = e.line
                                        /\ c.value = e.value => c = e
<1>1. PICK c \in Range(Form(row)) : \E v \in Typed[c.field] : edits = {[c EXCEPT !.value = v]}
  BY DEF Edits
<1>2. PICK v \in Typed[c.field] : edits = {[c EXCEPT !.value = v]}
  BY <1>1
<1>3. e = [c EXCEPT !.value = v] /\ edits = {e}
  BY <1>2
<1>4. c \in Entry(row)
  <2> DEFINE shape == Form(row)
  <2>1. shape \in Seq(Entry(row))
    BY FormIs
  <2>2. c \in Range(shape)
    OBVIOUS
  <2> HIDE DEF shape
  <2> QED
    BY <2>1, <2>2 DEF Range
<1>5. c \in Correction /\ c.field \in Range(Header) \cup {"name", "cents"}
  BY <1>4, EntryIs
<1>6. Range(Header) = {"merchant", "date", "category", "tax", "total"}
  BY DEF Header, Range
<1>7. v \in May(c.field) /\ v \in Value
  BY <1>5, <1>6, TextAssumption DEF May, Value
<1>8. /\ c \in [field : Fields \cup {"name", "cents"}, line : Nat, value : Value]
      /\ c.field \in Fields <=> c.line = 0
  BY <1>5 DEF Correction
<1>9. /\ e \in [field : Fields \cup {"name", "cents"}, line : Nat, value : Value]
      /\ e.field = c.field /\ e.line = c.line /\ e.value = v
  BY <1>3, <1>7, <1>8
<1>10. e \in Correction
  BY <1>7, <1>8, <1>9 DEF Correction
<1>11. c.value = e.value => c = e
  BY <1>8, <1>9
<1> QED
  BY <1>3, <1>4, <1>9, <1>10, <1>11

\* What is sent is the form with at most one entry of another value.
LEMMA SentIs ==
  ASSUME NEW row, RowOK(row), NEW edits \in Edits(row)
  PROVE  /\ Sent(Form(row), edits) \in Seq(Correction)
         /\ \A x, y \in Range(Sent(Form(row), edits)) : x.line = y.line /\ x.field = y.field => x = y
         /\ \A x \in Range(Sent(Form(row), edits)) :
              \/ x \in edits
              \/ x \in Entry(row) /\ \A e \in edits : ~(e.field = x.field /\ e.line = x.line)
         /\ edits \subseteq Range(Sent(Form(row), edits))
<1> DEFINE shape == Form(row)
           sent == Sent(shape, edits)
           Match(i) == \E e \in edits : e.field = shape[i].field /\ e.line = shape[i].line
<1>1. /\ shape \in Seq(Entry(row)) /\ Len(shape) \in Nat /\ DOMAIN shape = 1..Len(shape)
      /\ \A i \in DOMAIN shape : shape[i] \in Entry(row)
  BY FormIs
<1>2. \A i \in DOMAIN shape : sent[i] = IF Match(i) THEN CHOOSE e \in edits : TRUE ELSE shape[i]
  BY DEF Sent
<1>3. DOMAIN sent = DOMAIN shape /\ sent = [i \in 1..Len(shape) |-> sent[i]]
  BY <1>1 DEF Sent
<1>4. \A e \in edits : edits = {e} /\ e \in Correction
  BY EditIs
<1>5. \A i \in DOMAIN shape : sent[i] = shape[i] \/ (sent[i] \in edits /\ Match(i))
  BY <1>2, <1>4
<1>6. \A i \in DOMAIN shape : sent[i] \in Correction
  BY <1>1, <1>4, <1>5, EntryIs
<1> HIDE DEF sent, shape
<1>7. sent \in Seq(Correction)
  <2>1. sent \in [1..Len(shape) -> Correction]
    BY <1>1, <1>3, <1>6
  <2> QED
    BY <1>1, <2>1
<1>8. \A x \in Range(sent) :
        \/ x \in edits
        \/ x \in Entry(row) /\ \A e \in edits : ~(e.field = x.field /\ e.line = x.line)
  <2> SUFFICES ASSUME NEW i \in DOMAIN shape, sent[i] \notin edits
               PROVE  /\ sent[i] \in Entry(row)
                      /\ \A e \in edits : ~(e.field = sent[i].field /\ e.line = sent[i].line)
    BY <1>3 DEF Range
  <2>1. sent[i] = shape[i]
    BY <1>5
  <2>2. ~Match(i)
    BY <1>2, <1>4
  <2> QED
    BY <1>1, <2>1, <2>2
<1>9. \A x, y \in Range(sent) : x.line = y.line /\ x.field = y.field => x = y
  BY <1>4, <1>8, EntryIs
<1>10. ASSUME NEW e \in edits PROVE e \in Range(sent)
  <2>1. PICK c \in Range(shape) : c.field = e.field /\ c.line = e.line
    BY EditIs DEF shape
  <2>2. PICK i \in DOMAIN shape : shape[i] = c
    BY DEF Range
  <2>3. Match(i) /\ edits = {e}
    BY <1>4, <2>1, <2>2
  <2>4. sent[i] = e
    BY <1>2, <2>3
  <2> QED
    BY <1>3, <2>4 DEF Range
<1> QED
  BY <1>7, <1>8, <1>9, <1>10 DEF sent, shape

\* What is recorded of a form is what is not so already.
LEMMA RecordedIs ==
  ASSUME NEW row, NEW sent \in Seq(Correction)
  PROVE  /\ Recorded(row, sent) \in Seq(Correction)
         /\ Range(Recorded(row, sent)) = {c \in Range(sent) : ~Unchanged(row, c)}
<1> DEFINE places == {i \in DOMAIN sent : ~Unchanged(row, sent[i])}
<1>1. Recorded(row, sent) = At(sent, places)
  BY DEF Recorded
<1>2. /\ At(sent, places) \in Seq(Correction)
      /\ Range(At(sent, places)) = {sent[i] : i \in places \cap DOMAIN sent}
  <2> HIDE DEF places
  <2> QED
    BY AtIs
<1>3. {sent[i] : i \in places \cap DOMAIN sent} = {c \in Range(sent) : ~Unchanged(row, c)}
  BY DEF Range
<1> QED
  BY <1>1, <1>2, <1>3

\* A field that is sent is shown, whether it is recorded or was so already.
LEMMA SavedField ==
  ASSUME NEW rs \in Seq(Readings), NEW cs \in Seq(Correction), NEW old, RowOK(old),
         NEW edits \in Edits(old), NEW c \in Range(Sent(Form(old), edits)),
         c.line = 0, c.field # "category"
  PROVE  Projected(rs, cs \o Recorded(Projected(rs, cs).row, Sent(Form(old), edits))).row[c.field] = Means(c)
<1> DEFINE sent == Sent(Form(old), edits)
           row == Projected(rs, cs).row
           rec == Recorded(row, sent)
           f == c.field
           before == Corrected(rs, cs)
           Here(x) == x.line = 0 /\ x.field = f
<1>1. sent \in Seq(Correction) /\ \A x, y \in Range(sent) : x.line = y.line /\ x.field = y.field => x = y
  BY SentIs
<1>2. c \in Range(sent) /\ c \in Correction
  <2> HIDE DEF sent
  <2>1. c \in Range(sent)
    BY DEF sent
  <2> QED
    BY <1>1, <2>1 DEF Range
<1> HIDE DEF sent
<1>3. rec \in Seq(Correction) /\ Range(rec) = {x \in Range(sent) : ~Unchanged(row, x)}
  <2> HIDE DEF row
  <2> QED
    BY <1>1, RecordedIs
<1> HIDE DEF rec
<1>4. cs \o rec \in Seq(Correction)
  BY <1>3
<1>5. f \in Fields \ {"category"}
  BY <1>2, CorrectionIs
<1>6. Projected(rs, cs \o rec).row[f] = Corrected(rs, cs \o rec)[f] /\ row[f] = before[f]
  BY <1>4, <1>5, ProjectedOK
<1>7. Corrected(rs, cs \o rec) = After(before, rec)
  BY <1>3, FoldConcat DEF Corrected, After
<1>8. RowOK(before)
  BY CorrectedOK
<1> HIDE DEF row, before
<1>9. \A x \in Range(rec) : x.line = 0 /\ x.field = f => Means(x) = Means(c)
  BY <1>1, <1>2, <1>3
<1>10. After(before, rec)[f] =
         IF \E x \in Range(rec) : x.line = 0 /\ x.field = f THEN Means(c) ELSE before[f]
  <2>1. f \in Fields
    BY <1>5
  <2> DEFINE v == Means(c)
  <2> HIDE DEF f, v
  <2>2. Follows(before, rec, f, v)
    BY <1>3, <1>8, <2>1, FoldField
  <2>3. \A x \in Range(rec) : x.line = 0 /\ x.field = f => Means(x) = v
    BY <1>9 DEF v
  <2>4. After(before, rec)[f]
          = IF \E x \in Range(rec) : x.line = 0 /\ x.field = f THEN v ELSE before[f]
    BY <2>2, <2>3 DEF Follows
  <2> QED
    BY <2>4 DEF v
<1>11. CASE \E x \in Range(rec) : x.line = 0 /\ x.field = f
  BY <1>6, <1>7, <1>10, <1>11 DEF rec, row, sent
<1>12. CASE ~ \E x \in Range(rec) : x.line = 0 /\ x.field = f
  <2>1. c \notin Range(rec)
    BY <1>12
  <2>2. c.value # Garbage /\ row[f] = c.value
    BY <1>2, <1>3, <2>1 DEF Unchanged
  <2>3. Means(c) = c.value
    BY <1>2, <2>2, CorrectionIs
  <2> QED
    BY <1>6, <1>7, <1>10, <1>12, <2>2, <2>3 DEF rec, row, sent
<1> QED
  BY <1>11, <1>12

-----------------------------------------------------------------------------
\* The log holds corrections, the page shows their projection, a screen holds a row.
ReceiptInv ==
  /\ readings \in Seq(Readings)
  /\ corrections \in Seq(Correction)
  /\ shown = Projected(readings, corrections)
  /\ form # None => RowOK(form)

\* No reading and no correction are projected at first.
LEMMA ReceiptInit == PagesInit => ReceiptInv
<1> SUFFICES ASSUME PagesInit PROVE ReceiptInv
  OBVIOUS
<1>1. <<>> \in Seq(Readings) /\ <<>> \in Seq(Correction)
  OBVIOUS
<1> QED
  BY <1>1, Zenon DEF PagesInit, ReceiptInv

\* Each command projects again (service.reproject).
LEMMA ReceiptStep == ReceiptInv /\ [PagesNext]_pages => ReceiptInv'
<1> SUFFICES ASSUME ReceiptInv, [PagesNext]_pages PROVE ReceiptInv'
  OBVIOUS
<1>0. RowOK(shown.row)
  BY ProjectedOK DEF ReceiptInv
<1>1. ASSUME UNCHANGED <<readings, corrections, shown>>, form' # None => RowOK(form') PROVE ReceiptInv'
  BY <1>1 DEF ReceiptInv
<1>2. ASSUME NEW e \in Readings, Read(e) PROVE ReceiptInv'
  <2>1. readings' = Append(readings, e) /\ UNCHANGED <<corrections, form>> /\ shown' = Projected(readings', corrections')
    BY <1>2 DEF Read, Reproject
  <2>2. readings' \in Seq(Readings)
    BY <2>1 DEF ReceiptInv
  <2> QED
    BY <2>1, <2>2 DEF ReceiptInv
<1>3. CASE Open
  <2>1. UNCHANGED <<readings, corrections, shown>> /\ form' = shown.row
    BY <1>3 DEF Open
  <2> QED
    BY <1>0, <1>1, <2>1
<1>4. ASSUME NEW edits \in Offered, Save(edits) PROVE ReceiptInv'
  <2>1. form # None /\ edits \in Edits(form)
    BY DEF Offered
  <2>2. /\ readings' = readings /\ corrections' = corrections \o Recorded(shown.row, Sent(Form(form), edits))
        /\ shown' = Projected(readings', corrections') /\ form' = shown'.row
    BY <1>4 DEF Save, Saved, Reproject
  <2>3. Sent(Form(form), edits) \in Seq(Correction)
    BY <2>1, SentIs DEF ReceiptInv
  <2>4. corrections' \in Seq(Correction)
    BY <2>2, <2>3, RecordedIs DEF ReceiptInv
  <2>5. RowOK(form')
    BY <2>2, <2>4, ProjectedOK DEF ReceiptInv
  <2> QED
    BY <2>2, <2>4, <2>5 DEF ReceiptInv
<1>5. CASE Delete
  <2> DEFINE c == [field |-> "deleted", line |-> 0, value |-> TRUE]
  <2>1. /\ readings' = readings /\ corrections' = Append(corrections, c)
        /\ shown' = Projected(readings', corrections') /\ form' = None
    BY <1>5 DEF Delete, Reproject
  <2>2. c \in Correction
    BY DEF Correction, Fields, Value, May
  <2> HIDE DEF c
  <2>3. corrections' \in Seq(Correction)
    BY <2>1, <2>2 DEF ReceiptInv
  <2> QED
    BY <2>1, <2>3 DEF ReceiptInv
<1>6. ASSUME UNCHANGED receipt PROVE ReceiptInv'
  BY <1>1, <1>6 DEF receipt, ReceiptInv
<1>7. ASSUME NEW n \in Native, NEW c \in Charge, NEW claim \in Claim, NEW words \in Words,
              Observe(n, c, claim, words)
      PROVE  ReceiptInv'
  BY <1>6, <1>7 DEF Observe
<1>8. ASSUME NEW n \in Native, Name(n) PROVE ReceiptInv'
  BY <1>6, <1>8 DEF Name
<1>9. ASSUME NEW t \in Txn, NEW fix \in Fix, CorrectFeed(t, fix) PROVE ReceiptInv'
  BY <1>6, <1>9 DEF CorrectFeed
<1>10. CASE UNCHANGED pages
  BY <1>6, <1>10 DEF pages
<1> QED
  BY <1>2, <1>3, <1>4, <1>5, <1>7, <1>8, <1>9, <1>10 DEF PagesNext

\* ReceiptInv in every state.
LEMMA ReceiptHolds == PagesSpec => []ReceiptInv
<1> QED
  BY ReceiptInit, ReceiptStep, PTL DEF PagesSpec

\* What the owner saw and sent is what the page shows afterwards, even over a newer reading
\* (service.correct).
THEOREM WhatWasSentIsShown == PagesSpec => SavedIsShown
<1>1. ASSUME ReceiptInv, [PagesNext]_pages, saves' # saves,
             NEW c \in Range(Sent(Form(form), edited')), c.line = 0, c.field # "category"
      PROVE  shown'.row[c.field] = Means(c)
  <2>0. ASSUME NEW n \in Native, NEW d \in Charge, NEW claim \in Claim, NEW words \in Words,
               Observe(n, d, claim, words)
        PROVE  UNCHANGED saves
    BY <2>0 DEF Observe, receipt
  <2>1. PICK edits \in Offered : Save(edits)
    BY <1>1, <2>0 DEF PagesNext, pages, receipt, Read, Open, Delete, Name, CorrectFeed
  <2>2. form # None /\ edits \in Edits(form)
    BY DEF Offered
  <2>3. /\ readings' = readings /\ corrections' = corrections \o Recorded(shown.row, Sent(Form(form), edits))
        /\ shown' = Projected(readings', corrections') /\ edited' = edits
    BY <2>1 DEF Save, Saved, Reproject
  <2>4. /\ readings \in Seq(Readings) /\ corrections \in Seq(Correction)
        /\ shown = Projected(readings, corrections) /\ RowOK(form)
    BY <1>1, <2>2 DEF ReceiptInv
  <2>5. Projected(readings, corrections \o Recorded(Projected(readings, corrections).row, Sent(Form(form), edits))).row[c.field]
          = Means(c)
    BY <1>1, <2>2, <2>3, <2>4, SavedField
  <2> QED
    BY <2>3, <2>4, <2>5
<1>2. ReceiptInv /\ [PagesNext]_pages
      => [saves' # saves =>
            \A c \in Range(Sent(Form(form), edited')) :
              c.line = 0 /\ c.field # "category" => shown'.row[c.field] = Means(c)]_pages
  BY <1>1
<1> QED
  BY <1>2, ReceiptHolds, PTL DEF PagesSpec, SavedIsShown

\* The numbers of steps, and what the sources said.
Counted ==
  /\ about \in {"receipt", "ledger"}
  /\ saves \in 0..MaxSave
  /\ fixes \in 0..MaxFix
  /\ DOMAIN book = {"fact", "named", "said", "words", "fixed"}
  /\ book.said \in [Txn -> Claim \cup {None}]
  /\ book.words \in [Txn -> Words]
  /\ book.named \subseteq Native

\* Counted at first.
LEMMA CountedInit == PagesInit => Counted
<1> SUFFICES ASSUME PagesInit PROVE Counted
  OBVIOUS
<1>1. PICK fact \in Worlds :
        book = [fact |-> fact, named |-> {}, said |-> [t \in Txn |-> None],
                words |-> [t \in Txn |-> None], fixed |-> [t \in Txn |-> Unfixed]]
  BY DEF PagesInit
<1>2. /\ DOMAIN book = {"fact", "named", "said", "words", "fixed"}
      /\ book.said = [t \in Txn |-> None]
      /\ book.words = [t \in Txn |-> None]
      /\ book.named = {}
  BY <1>1
<1> QED
  BY <1>2, PagesAssumption DEF PagesInit, Counted, Words

\* Each command keeps to its bound and its arguments.
LEMMA CountedStep == Counted /\ [PagesNext]_pages => Counted'
<1> SUFFICES ASSUME Counted, [PagesNext]_pages PROVE Counted'
  OBVIOUS
<1>0. saves \in Nat /\ fixes \in Nat /\ MaxSave \in Nat /\ MaxFix \in Nat
  BY PagesAssumption DEF Counted
<1>1. ASSUME UNCHANGED <<about, saves, ledger>> PROVE Counted'
  BY <1>1 DEF Counted, ledger
<1>2. ASSUME NEW e \in Readings, Read(e) PROVE Counted'
  BY <1>1, <1>2 DEF Read
<1>3. CASE Open
  BY <1>1, <1>3 DEF Open
<1>4. ASSUME NEW edits \in Offered, Save(edits) PROVE Counted'
  <2>1. saves < MaxSave /\ saves' = saves + 1 /\ UNCHANGED <<about, ledger>>
    BY <1>4 DEF Save
  <2> QED
    BY <1>0, <2>1 DEF Counted, ledger
<1>5. CASE Delete
  BY <1>1, <1>5 DEF Delete
<1>6. ASSUME NEW n \in Native, NEW c \in Charge, NEW claim \in Claim, NEW words \in Words,
              Observe(n, c, claim, words)
      PROVE  Counted'
  <2>1. PICK t \in Txn : t = Key(n, c, claim, words)
    BY KeyIs
  <2>2. book' = [book EXCEPT !.said = [book.said EXCEPT ![t] = claim],
                             !.words = [book.words EXCEPT ![t] = words]]
    <3>1. book' = [book EXCEPT !.said = [book.said EXCEPT ![Key(n, c, claim, words)] = claim],
                               !.words = [book.words EXCEPT ![Key(n, c, claim, words)] = words]]
      BY <1>6, Zenon DEF Observe
    <3> QED
      BY <2>1, <3>1
  <2>3. UNCHANGED <<about, fixes>> /\ saves' = saves
    BY <1>6 DEF Observe, receipt
  <2>4. /\ DOMAIN book' = DOMAIN book /\ book'.named = book.named
        /\ book'.said = [book.said EXCEPT ![t] = claim]
        /\ book'.words = [book.words EXCEPT ![t] = words]
    BY <2>2 DEF Counted
  <2>5. book'.said \in [Txn -> Claim \cup {None}] /\ book'.words \in [Txn -> Words]
    BY <2>4 DEF Counted
  <2> QED
    BY <2>3, <2>4, <2>5 DEF Counted
<1>7. ASSUME NEW n \in Native, Name(n) PROVE Counted'
  <2>1. book' = [book EXCEPT !.named = @ \cup {n}] /\ UNCHANGED <<about, fixes>> /\ saves' = saves
    BY <1>7 DEF Name, receipt
  <2>2. /\ DOMAIN book' = DOMAIN book /\ book'.said = book.said /\ book'.words = book.words
        /\ book'.named = book.named \cup {n}
    BY <2>1 DEF Counted
  <2> QED
    BY <2>1, <2>2 DEF Counted
<1>8. ASSUME NEW t \in Txn, NEW fix \in Fix, CorrectFeed(t, fix) PROVE Counted'
  <2>1. /\ book' = [book EXCEPT !.fixed[t][fix[1]] = fix[2]] /\ about' = about
        /\ fixes < MaxFix /\ fixes' = fixes + 1 /\ saves' = saves
    BY <1>8 DEF CorrectFeed, receipt
  <2>2. /\ DOMAIN book' = DOMAIN book /\ book'.said = book.said /\ book'.words = book.words
        /\ book'.named = book.named
    BY <2>1 DEF Counted
  <2>3. fixes' \in 0..MaxFix
    BY <1>0, <2>1
  <2> QED
    BY <2>1, <2>2, <2>3 DEF Counted
<1>9. CASE UNCHANGED pages
  BY <1>1, <1>9 DEF pages, receipt
<1> QED
  BY <1>2, <1>3, <1>4, <1>5, <1>6, <1>7, <1>8, <1>9 DEF PagesNext

\* The cases of _status leave none out.
LEMMA StatusIs ==
  ASSUME NEW row, NEW rs
  PROVE  Status(row, rs) \in {"failed", "pending", "needs_review", "ok"}
<1> DEFINE parts == {row.merchant, row.total, row.date}
           failed == rs # <<>> /\ Successes(rs) = {}
           priced == \A i \in DOMAIN row.items : row.items[i].cents # None
           unpaid == row.items # <<>> /\ priced /\ ~AddsUp(row)
<1>1. Status(row, rs) =
        CASE parts = {None} /\ failed -> "failed"
          [] parts = {None} /\ ~failed -> "pending"
          [] parts # {None} /\ None \in parts -> "needs_review"
          [] None \notin parts -> IF unpaid THEN "needs_review" ELSE "ok"
  BY Zenon DEF Status
<1>2. parts = {None} => None \in parts
  OBVIOUS
<1> HIDE DEF parts, failed, unpaid
<1> QED
  BY <1>1, <1>2

\* Every variable of the pages keeps its type, the rows shown among them.
THEOREM PagesTypeCorrect == PagesSpec => []PagesTypeOK
<1>1. ReceiptInv /\ Counted => PagesTypeOK
  <2> SUFFICES ASSUME ReceiptInv, Counted PROVE PagesTypeOK
    OBVIOUS
  <2>1. /\ readings \in Seq(Readings) /\ corrections \in Seq(Correction)
        /\ shown = Projected(readings, corrections)
    BY DEF ReceiptInv
  <2>2. RowOK(shown.row) /\ shown.row.items = Kept(Corrected(readings, corrections).items)
    BY <2>1, ProjectedOK
  <2>3. shown.status \in {"failed", "pending", "needs_review", "ok"}
    <3> DEFINE row == shown.row
    <3>1. shown.status = Status(row, readings)
      BY <2>1, Zenon DEF Projected
    <3> HIDE DEF row
    <3> QED
      BY <3>1, StatusIs
  <2>4. \A i \in Range(shown.row.items) : i.name # None
    BY <2>1, <2>2, CorrectedOK, KeptOK DEF RowOK
  <2>5. Amounts(shown.row) \subseteq Int \cup {None}
    <3> DEFINE items == shown.row.items
    <3>1. items \in Seq(Item) /\ {shown.row.total, shown.row.tax} \subseteq Int \cup {None}
      BY <2>2 DEF RowOK
    <3>2. Amounts(shown.row) = {shown.row.total, shown.row.tax} \cup {i.cents : i \in Range(items)}
      BY DEF Amounts
    <3> HIDE DEF items
    <3>3. \A i \in Range(items) : i.cents \in Int \cup {None}
      <4>1. \A i \in Range(items) : i \in Item
        BY <3>1 DEF Range
      <4> QED
        BY <4>1 DEF Item
    <3> QED
      BY <3>1, <3>2, <3>3
  <2>6. shown.row.merchant \in DOMAIN Rule \cup {None}
    BY <2>2 DEF RowOK, Merchant
  <2>7. form # None => DOMAIN form = DOMAIN shown.row
    BY <2>2 DEF ReceiptInv, RowOK
  <2> QED
    BY <2>1, <2>3, <2>4, <2>5, <2>6, <2>7 DEF PagesTypeOK, Counted
<1>2. PagesSpec => []Counted
  BY CountedInit, CountedStep, PTL DEF PagesSpec
<1> QED
  BY <1>1, <1>2, ReceiptHolds, PTL

-----------------------------------------------------------------------------
(* What corrections of the lines that are there, and of the category, do.   *)

\* A correction of a line that is there changes its field of it.
LEMMA LineSet ==
  ASSUME NEW row, RowOK(row), NEW c \in Correction, c.line # 0, c.line <= Len(row.items)
  PROVE  /\ Len(Applied(row, c).items) = Len(row.items)
         /\ \A n \in DOMAIN row.items : \A f \in {"name", "cents"} :
              Applied(row, c).items[n][f] = IF c.line = n /\ c.field = f THEN Means(c) ELSE row.items[n][f]
<1> DEFINE old == Padded(row.items, c.line)
           items == AppliedToLines(row.items, c)
           len == Len(row.items)
<1>1. Applied(row, c).items = items
  <2>1. Applied(row, c) = [row EXCEPT !.items = items]
    BY Zenon DEF Applied
  <2>2. "items" \in DOMAIN row
    BY DEF RowOK, Absent
  <2> HIDE DEF items
  <2> QED
    BY <2>1, <2>2
<1>2. row.items \in Seq(Item) /\ len \in Nat /\ DOMAIN row.items = 1..len
  BY DEF RowOK
<1>3. c.line \in 1..len /\ c.field \in {"name", "cents"}
  BY <1>2, CorrectionIs
<1>4. /\ old \in Seq(Item) /\ Len(old) = len
      /\ \A i \in 1..len : old[i] = row.items[i]
  BY <1>2, <1>3, PaddedIs
<1> HIDE DEF old, items, len
<1>5. items = [old EXCEPT ![c.line] = [@ EXCEPT ![c.field] = Means(c)]]
  BY DEF AppliedToLines, old, items
<1>6. DOMAIN items = 1..len /\ Len(items) = len
  <2>1. DOMAIN items = 1..len
    BY <1>4, <1>5
  <2>2. items \in Seq(Item)
    BY <1>1, LineApplied DEF RowOK
  <2> QED
    BY <1>2, <2>1, <2>2
<1>7. \A n \in 1..len : items[n] = IF n = c.line THEN [old[n] EXCEPT ![c.field] = Means(c)] ELSE old[n]
  BY <1>3, <1>4, <1>5
<1>8. \A n \in 1..len : DOMAIN old[n] = {"name", "cents"}
  <2> SUFFICES ASSUME NEW n \in 1..len PROVE DOMAIN old[n] = {"name", "cents"}
    OBVIOUS
  <2>1. old[n] \in Item
    BY <1>2, <1>4
  <2> QED
    BY <2>1 DEF Item
<1>9. ASSUME NEW n \in 1..len, NEW f \in {"name", "cents"}
      PROVE  items[n][f] = IF c.line = n /\ c.field = f THEN Means(c) ELSE row.items[n][f]
  <2>1. old[n] = row.items[n] /\ DOMAIN old[n] = {"name", "cents"}
    BY <1>4, <1>8
  <2>2. CASE n = c.line
    <3>1. items[n] = [old[n] EXCEPT ![c.field] = Means(c)]
      BY <1>7, <2>2
    <3> QED
      BY <1>3, <2>1, <2>2, <3>1
  <2>3. CASE n # c.line
    BY <1>7, <2>1, <2>3
  <2> QED
    BY <2>2, <2>3
<1> QED
  BY <1>1, <1>2, <1>6, <1>9 DEF len

\* The field f of line n of b is v after s, if s says so each time it speaks of it.
LineFollows(b, s, n, f, v) ==
  (\A x \in Range(s) : x.line <= Len(b.items))
  => /\ Len(After(b, s).items) = Len(b.items)
     /\ n \in DOMAIN b.items /\ (\A x \in Range(s) : x.line = n /\ x.field = f => Means(x) = v)
        => After(b, s).items[n][f] = IF \E x \in Range(s) : x.line = n /\ x.field = f THEN v ELSE b.items[n][f]

\* A line is what the corrections of it say, which agree, or what it was.
LEMMA FoldLine ==
  ASSUME NEW b, RowOK(b), NEW n, NEW f \in {"name", "cents"}, NEW v
  PROVE  \A s \in Seq(Correction) : LineFollows(b, s, n, f, v)
<1> DEFINE F(s) == After(b, s)
           len == Len(b.items)
           Here(x) == x.line = n /\ x.field = f
           Within(s) == \A x \in Range(s) : x.line <= len
           Agree(s) == \A x \in Range(s) : Here(x) => Means(x) = v
           Found(s) == \E x \in Range(s) : Here(x)
           Says(s) == /\ Len(F(s).items) = len
                      /\ n \in 1..len /\ Agree(s) => F(s).items[n][f] = IF Found(s) THEN v ELSE b.items[n][f]
           G == {s \in Seq(Correction) : Within(s) => Says(s)}
<1>0. b.items \in Seq(Item) /\ len \in Nat /\ DOMAIN b.items = 1..len
  BY DEF RowOK
<1>1. <<>> \in G
  <2>1. <<>> \in Seq(Correction) /\ Range(<<>>) = {}
    BY DEF Range
  <2>2. F(<<>>) = b
    BY FoldEmpty DEF After
  <2>3. ~Found(<<>>)
    BY <2>1
  <2> HIDE DEF F, Found, Agree, Within
  <2>4. Says(<<>>)
    BY <2>2, <2>3
  <2> QED
    BY <2>1, <2>4
<1>2. ASSUME NEW s \in Seq(Correction), NEW c \in Correction, s \in G PROVE Append(s, c) \in G
  <2>1. F(Append(s, c)) = Applied(F(s), c)
    BY FoldAppend DEF After
  <2>2. Range(Append(s, c)) = Range(s) \cup {c} /\ Append(s, c) \in Seq(Correction)
    BY RangeAppend
  <2>3. RowOK(F(s))
    BY FoldOK DEF After
  <2> HIDE DEF F
  <2>4. /\ Within(Append(s, c)) => Within(s) /\ c.line <= len
        /\ Agree(Append(s, c)) => Agree(s) /\ (Here(c) => Means(c) = v)
    BY <2>2
  <2>5. Found(Append(s, c)) <=> Found(s) \/ Here(c)
    BY <2>2
  <2>6. ASSUME Len(F(s).items) = len, c.line <= len
        PROVE  /\ Len(Applied(F(s), c).items) = len
               /\ n \in 1..len
                  => Applied(F(s), c).items[n][f] = IF Here(c) THEN Means(c) ELSE F(s).items[n][f]
    <3>1. CASE c.line = 0
      <4>1. Applied(F(s), c).items = F(s).items
        BY <2>3, <3>1, HeaderApplied
      <4> QED
        BY <1>0, <2>6, <3>1, <4>1
    <3>2. CASE c.line # 0
      <4>1. n \in 1..len => n \in DOMAIN F(s).items
        <5>1. F(s).items \in Seq(Item)
          BY <2>3 DEF RowOK
        <5> QED
          BY <1>0, <2>6, <5>1
      <4> QED
        BY <2>3, <2>6, <3>2, <4>1, LineSet
    <3> QED
      BY <3>1, <3>2
  <2>7. Within(s) => Says(s)
    BY <1>2
  <2>8. Within(Append(s, c)) => Says(Append(s, c))
    <3> SUFFICES ASSUME Within(Append(s, c)) PROVE Says(Append(s, c))
      OBVIOUS
    <3>1. Within(s) /\ c.line <= len
      BY <2>4
    <3>2. /\ Len(F(s).items) = len
          /\ n \in 1..len /\ Agree(s) => F(s).items[n][f] = IF Found(s) THEN v ELSE b.items[n][f]
      BY <2>7, <3>1
    <3>3. /\ Len(Applied(F(s), c).items) = len
          /\ n \in 1..len
             => Applied(F(s), c).items[n][f] = IF Here(c) THEN Means(c) ELSE F(s).items[n][f]
      BY <2>6, <3>1, <3>2
    <3> HIDE DEF Agree, Found, Here, len, Within
    <3> QED
      BY <2>1, <2>4, <2>5, <3>2, <3>3
  <2> HIDE DEF Within, Says
  <2> QED
    BY <2>2, <2>8
<1>3. \A s \in Seq(Correction) : s \in G
  <2> HIDE DEF G
  <2> QED
    BY <1>1, <1>2, SequencesByLength
<1> QED
  BY <1>0, <1>3 DEF LineFollows

\* The category is the owner's after s, or was.
ManualAfter(b, s) ==
  After(b, s).manual = (b.manual \/ \E x \in Range(s) : x.line = 0 /\ x.field = "category")

\* A correction of the category makes it the owner's, and no other does.
LEMMA ManualApplied ==
  ASSUME NEW row, RowOK(row), row.manual \in BOOLEAN, NEW c \in Correction
  PROVE  Applied(row, c).manual = (row.manual \/ (c.line = 0 /\ c.field = "category"))
<1>1. "manual" \in DOMAIN row /\ "items" \in DOMAIN row /\ "items" # "manual"
  BY DEF RowOK, Absent
<1>2. CASE c.line = 0
  <2>1. Applied(row, c) = [row EXCEPT ![c.field] = Means(c), !.manual = @ \/ c.field = "category"]
    BY <1>2, Zenon DEF Applied
  <2>2. c.field # "manual"
    BY <1>2, CorrectionIs DEF Fields
  <2> DEFINE f == c.field
             m == Means(c)
  <2>3. Applied(row, c) = [row EXCEPT ![f] = m, !.manual = @ \/ f = "category"]
    BY <2>1
  <2> HIDE DEF f, m
  <2>4. f # "manual"
    BY <2>2 DEF f
  <2>5. Applied(row, c).manual = (row.manual \/ c.field = "category")
    <3>1. [row EXCEPT ![f] = m, !.manual = @ \/ f = "category"].manual = (row.manual \/ f = "category")
      BY <1>1, <2>4
    <3> QED
      BY <2>3, <3>1, Zenon DEF f
  <2> QED
    BY <1>2, <2>5, Zenon
<1>3. CASE c.line # 0
  <2>1. Applied(row, c) = [row EXCEPT !.items = AppliedToLines(@, c)]
    BY <1>3, Zenon DEF Applied
  <2>2. Applied(row, c).manual = row.manual
    BY <1>1, <2>1
  <2> QED
    BY <1>3, <2>2, Zenon
<1> QED
  BY <1>2, <1>3

\* The owner has set the category when a correction of it was made.
LEMMA FoldManual ==
  ASSUME NEW b, RowOK(b), b.manual \in BOOLEAN
  PROVE  \A s \in Seq(Correction) : ManualAfter(b, s)
<1> DEFINE Says(s) == ManualAfter(b, s)
           G == {s \in Seq(Correction) : Says(s)}
           Here(x) == x.line = 0 /\ x.field = "category"
           Found(s) == \E x \in Range(s) : Here(x)
<1>1. <<>> \in G
  <2>1. <<>> \in Seq(Correction) /\ Range(<<>>) = {}
    BY DEF Range
  <2>2. After(b, <<>>) = b
    BY FoldEmpty DEF After
  <2>3. ~Found(<<>>)
    BY <2>1
  <2>4. After(b, <<>>).manual = (b.manual \/ Found(<<>>))
    BY <2>2, <2>3, Zenon
  <2>5. Says(<<>>)
    BY <2>4, Zenon DEF ManualAfter
  <2> HIDE DEF Says
  <2> QED
    BY <2>1, <2>5
<1>2. ASSUME NEW s \in Seq(Correction), NEW c \in Correction, s \in G PROVE Append(s, c) \in G
  <2> DEFINE a == After(b, s)
  <2>1. After(b, Append(s, c)) = Applied(a, c)
    BY FoldAppend DEF After
  <2>2. Range(Append(s, c)) = Range(s) \cup {c} /\ Append(s, c) \in Seq(Correction)
    BY RangeAppend
  <2>3. RowOK(a)
    BY FoldOK DEF After
  <2>4. Says(s)
    <3> HIDE DEF Says
    <3> QED
      BY <1>2
  <2>5. a.manual = (b.manual \/ Found(s))
    BY <2>4, Zenon DEF ManualAfter
  <2>6. a.manual \in BOOLEAN
    BY <2>5, Zenon
  <2> HIDE DEF a
  <2>7. Applied(a, c).manual = (a.manual \/ Here(c))
    BY <2>3, <2>6, ManualApplied
  <2>8. Found(Append(s, c)) <=> Found(s) \/ Here(c)
    BY <2>2
  <2>9. After(b, Append(s, c)).manual = (b.manual \/ Found(Append(s, c)))
    <3> HIDE DEF Found, Here
    <3> QED
      BY <2>1, <2>5, <2>7, <2>8, Zenon
  <2>10. Says(Append(s, c))
    BY <2>9, Zenon DEF ManualAfter
  <2> HIDE DEF Says
  <2> QED
    BY <2>2, <2>10
<1>3. \A s \in Seq(Correction) : s \in G
  <2> HIDE DEF G
  <2> QED
    BY <1>1, <1>2, SequencesByLength
<1> QED
  BY <1>3

-----------------------------------------------------------------------------
(* A form that is as the row is, and is sent.                               *)

\* P is the row before its projection R; of what is sent, D is edited.
Starting(P, R) ==
  /\ RowOK(P) /\ RowOK(R)
  /\ P.items = R.items
  /\ \A f \in Fields \ {"category"} : P[f] = R[f]

Differs(R, D, sent) ==
  /\ sent \in Seq(Correction)
  /\ \A x \in Range(sent) : x \in D \/ (x \in Entry(R) /\ \A e \in D : ~(e.field = x.field /\ e.line = x.line))
  /\ \A e \in D : /\ e \in Correction /\ e \in Range(sent)
                  /\ e.line = 0 => e.field \in Range(Header) /\ e.value # R[e.field]
                  /\ e.line # 0 => e.line \in DOMAIN R.items
  /\ \A d, e \in D : d = e

\* The edit is recorded, and besides it only what is as the row is.
LEMMA RecordedParts ==
  ASSUME NEW R, RowOK(R), NEW D, NEW sent, Differs(R, D, sent)
  PROVE  /\ Recorded(R, sent) \in Seq(Correction)
         /\ D \subseteq Range(Recorded(R, sent))
         /\ \A x \in Range(Recorded(R, sent)) :
              \/ x \in D
              \/ /\ x \in Entry(R) /\ \A e \in D : ~(e.field = x.field /\ e.line = x.line)
                 /\ x.line = 0 => x.field = "merchant"
<1>1. /\ Recorded(R, sent) \in Seq(Correction)
      /\ Range(Recorded(R, sent)) = {x \in Range(sent) : ~Unchanged(R, x)}
  BY RecordedIs DEF Differs
<1>2. ASSUME NEW e \in D PROVE e \in Range(Recorded(R, sent))
  <2>1. ~Unchanged(R, e)
    BY DEF Differs, Unchanged
  <2> QED
    BY <1>1, <2>1 DEF Differs
<1>3. ASSUME NEW x \in Range(Recorded(R, sent)), x \notin D
      PROVE  /\ x \in Entry(R) /\ \A e \in D : ~(e.field = x.field /\ e.line = x.line)
             /\ x.line = 0 => x.field = "merchant"
  <2>1. /\ x \in Entry(R) /\ \A e \in D : ~(e.field = x.field /\ e.line = x.line)
        /\ ~Unchanged(R, x)
    BY <1>1, <1>3 DEF Differs
  <2>2. ASSUME x.line = 0, x.field # "merchant" PROVE FALSE
    <3>1. x.value = Garbage /\ x.field \in Range(Header) /\ x.value = R[x.field]
      BY <2>1, <2>2 DEF Unchanged, Entry
    <3>2. x.field \in {"date", "category", "tax", "total"}
      BY <2>2, <3>1 DEF Header, Range
    <3>3. R[x.field] \in Text \cup Int
      BY <3>2, TextAssumption DEF RowOK
    <3> QED
      BY <3>1, <3>3, TextAssumption
  <2> QED
    BY <2>1, <2>2
<1> QED
  BY <1>1, <1>2, <1>3

\* The fields of the receipt: what is edited, and nothing else.
LEMMA SavedFields ==
  ASSUME NEW P, NEW R, Starting(P, R), NEW D, NEW sent, Differs(R, D, sent), NEW f \in Fields
  PROVE  /\ \A e \in D : e.line = 0 /\ e.field = f => After(P, Recorded(R, sent))[f] = Means(e)
         /\ (\A e \in D : ~(e.line = 0 /\ e.field = f)) => After(P, Recorded(R, sent))[f] = P[f]
<1> DEFINE rec == Recorded(R, sent)
           Here(x) == x.line = 0 /\ x.field = f
<1>0. RowOK(P) /\ RowOK(R)
  BY DEF Starting
<1>1. /\ rec \in Seq(Correction) /\ D \subseteq Range(rec)
      /\ \A x \in Range(rec) : \/ x \in D
                               \/ /\ x \in Entry(R) /\ \A e \in D : ~(e.field = x.field /\ e.line = x.line)
                                  /\ x.line = 0 => x.field = "merchant"
  BY <1>0, RecordedParts
<1> HIDE DEF rec
<1>2. ASSUME NEW e \in D, Here(e) PROVE After(P, rec)[f] = Means(e)
  <2> DEFINE v == Means(e)
  <2>1. \A x \in Range(rec) : x.line = 0 /\ x.field = f => Means(x) = v
    BY <1>1, <1>2 DEF Differs
  <2>2. e \in Range(rec)
    BY <1>1
  <2> HIDE DEF v
  <2>3. Follows(P, rec, f, v)
    BY <1>0, <1>1, FoldField
  <2>4. \E x \in Range(rec) : x.line = 0 /\ x.field = f
    BY <1>2, <2>2
  <2> QED
    BY <2>1, <2>3, <2>4 DEF Follows, v
<1>3. ASSUME \A e \in D : ~Here(e) PROVE After(P, rec)[f] = P[f]
  <2> DEFINE v == P[f]
  <2>1. ASSUME NEW x \in Range(rec), x.line = 0, x.field = f PROVE Means(x) = v
    <3>1. x \in Entry(R) /\ x.field = "merchant"
      BY <1>1, <1>3, <2>1
    <3>2. x.value = R[f] /\ f = "merchant"
      BY <2>1, <3>1 DEF Entry
    <3>3. Means(x) = x.value
      BY <3>1 DEF Means
    <3> QED
      BY <3>2, <3>3 DEF Starting
  <2> HIDE DEF v
  <2>2. Follows(P, rec, f, v)
    BY <1>0, <1>1, FoldField
  <2>3. After(P, rec)[f] = IF \E x \in Range(rec) : x.line = 0 /\ x.field = f THEN v ELSE P[f]
    BY <2>1, <2>2 DEF Follows
  <2> QED
    BY <2>3 DEF v
<1> QED
  BY <1>2, <1>3 DEF rec

\* The lines, likewise.
LEMMA SavedLines ==
  ASSUME NEW P, NEW R, Starting(P, R), NEW D, NEW sent, Differs(R, D, sent),
         NEW n, NEW f \in {"name", "cents"}
  PROVE  /\ Len(After(P, Recorded(R, sent)).items) = Len(R.items)
         /\ \A e \in D : e.line = n /\ e.field = f /\ n # 0 => After(P, Recorded(R, sent)).items[n][f] = Means(e)
         /\ n \in DOMAIN R.items /\ (\A e \in D : ~(e.line = n /\ e.field = f))
            => After(P, Recorded(R, sent)).items[n][f] = R.items[n][f]
<1> DEFINE rec == Recorded(R, sent)
           Here(x) == x.line = n /\ x.field = f
<1>0. RowOK(P) /\ RowOK(R) /\ P.items = R.items
  BY DEF Starting
<1>1. /\ rec \in Seq(Correction) /\ D \subseteq Range(rec)
      /\ \A x \in Range(rec) : \/ x \in D
                               \/ /\ x \in Entry(R) /\ \A e \in D : ~(e.field = x.field /\ e.line = x.line)
                                  /\ x.line = 0 => x.field = "merchant"
  BY <1>0, RecordedParts
<1> HIDE DEF rec
<1>2. R.items \in Seq(Item) /\ DOMAIN R.items = 1..Len(R.items) /\ Len(R.items) \in Nat
  BY <1>0 DEF RowOK
<1>3. \A x \in Range(rec) : x.line <= Len(P.items)
  <2> SUFFICES ASSUME NEW x \in Range(rec) PROVE x.line <= Len(R.items)
    BY <1>0
  <2>1. x.line = 0 \/ x.line \in DOMAIN R.items
    BY <1>1 DEF Entry, Differs
  <2> QED
    BY <1>2, <2>1
<1>4. \A v : LineFollows(P, rec, n, f, v)
  BY <1>0, <1>1, FoldLine
<1>5. Len(After(P, rec).items) = Len(P.items)
  <2>1. LineFollows(P, rec, n, f, None)
    BY <1>4
  <2> QED
    BY <1>3, <2>1 DEF LineFollows
<1>6. ASSUME NEW e \in D, Here(e), n # 0 PROVE After(P, rec).items[n][f] = Means(e)
  <2> DEFINE v == Means(e)
  <2>1. \A x \in Range(rec) : x.line = n /\ x.field = f => Means(x) = v
    BY <1>1, <1>6 DEF Differs
  <2>2. e \in Range(rec) /\ n \in DOMAIN P.items
    BY <1>0, <1>1, <1>6 DEF Differs
  <2> HIDE DEF v
  <2>3. LineFollows(P, rec, n, f, v)
    BY <1>4
  <2>4. \E x \in Range(rec) : x.line = n /\ x.field = f
    BY <1>6, <2>2
  <2> QED
    BY <1>3, <2>1, <2>2, <2>3, <2>4 DEF LineFollows, v
<1>7. ASSUME n \in DOMAIN R.items, \A e \in D : ~Here(e)
      PROVE  After(P, rec).items[n][f] = R.items[n][f]
  <2> DEFINE v == R.items[n][f]
  <2>1. ASSUME NEW x \in Range(rec), x.line = n, x.field = f PROVE Means(x) = v
    <3>1. x \in Entry(R)
      BY <1>1, <1>7, <2>1
    <3>2. n # 0
      BY <1>2, <1>7
    <3>3. x.value = v
      BY <2>1, <3>1, <3>2 DEF Entry
    <3>4. R.items[n] \in Item
      BY <1>2, <1>7
    <3>5. v \in Text \cup Int
      BY <3>4, TextAssumption DEF Item
    <3>6. x.value # Garbage
      <4> HIDE DEF v
      <4> QED
        BY <3>3, <3>5, TextAssumption
    <3>7. x \in Correction
      BY <3>1, EntryIs
    <3> QED
      BY <3>3, <3>6, <3>7, CorrectionIs
  <2> HIDE DEF v
  <2>2. LineFollows(P, rec, n, f, v)
    BY <1>4
  <2>3. After(P, rec).items[n][f]
          = IF \E x \in Range(rec) : x.line = n /\ x.field = f THEN v ELSE P.items[n][f]
    BY <1>0, <1>3, <1>7, <2>1, <2>2 DEF LineFollows
  <2> QED
    BY <1>0, <2>3 DEF v
<1> QED
  BY <1>0, <1>5, <1>6, <1>7 DEF rec

\* A form makes the category the owner's only if the edit is of it.
ManualSaved(P, R, D, sent) ==
  After(P, Recorded(R, sent)).manual = (P.manual \/ \E e \in D : e.line = 0 /\ e.field = "category")

\* ManualSaved of every form.
LEMMA SavedManual ==
  ASSUME NEW P, NEW R, Starting(P, R), NEW D, NEW sent, Differs(R, D, sent)
  PROVE  P.manual \in BOOLEAN => ManualSaved(P, R, D, sent)
<1> SUFFICES ASSUME P.manual \in BOOLEAN PROVE ManualSaved(P, R, D, sent)
  BY Zenon
<1> DEFINE rec == Recorded(R, sent)
           Here(x) == x.line = 0 /\ x.field = "category"
<1>0. RowOK(P) /\ RowOK(R)
  BY DEF Starting
<1>1. /\ rec \in Seq(Correction) /\ D \subseteq Range(rec)
      /\ \A x \in Range(rec) : \/ x \in D
                               \/ /\ x \in Entry(R) /\ \A e \in D : ~(e.field = x.field /\ e.line = x.line)
                                  /\ x.line = 0 => x.field = "merchant"
  BY <1>0, RecordedParts
<1> HIDE DEF rec
<1>2. (\E x \in Range(rec) : Here(x)) <=> \E e \in D : Here(e)
  BY <1>1
<1>3. ManualAfter(P, rec)
  BY <1>0, <1>1, FoldManual
<1>4. After(P, rec).manual = (P.manual \/ \E x \in Range(rec) : Here(x))
  BY <1>3, Zenon DEF ManualAfter
<1>5. After(P, rec).manual = (P.manual \/ \E e \in D : Here(e))
  <2> HIDE DEF Here
  <2> QED
    BY <1>2, <1>4, Zenon
<1> QED
  BY <1>5, Zenon DEF rec, ManualSaved

\* Lines are the same if their names and cents are.
LEMMA ItemsAre ==
  ASSUME NEW s \in Seq(Item), NEW t \in Seq(Item), Len(s) = Len(t),
         \A n \in DOMAIN s : s[n].name = t[n].name /\ s[n].cents = t[n].cents
  PROVE  s = t
<1>1. /\ DOMAIN s = 1..Len(s) /\ DOMAIN t = 1..Len(s) /\ Len(s) \in Nat
      /\ \A n \in 1..Len(s) : s[n] \in Item /\ t[n] \in Item
  OBVIOUS
<1>2. \A x, y \in Item : x.name = y.name /\ x.cents = y.cents => x = y
  BY DEF Item
<1>3. \A n \in 1..Len(s) : s[n] = t[n]
  BY <1>1, <1>2
<1> QED
  BY <1>1, <1>3

\* What RemoveAt leaves does not depend on the entry it removes.
LEMMA RemoveAtSame ==
  ASSUME NEW X, NEW s \in Seq(X), NEW t \in Seq(X), Len(s) = Len(t), NEW k \in DOMAIN s,
         \A n \in DOMAIN s : n # k => s[n] = t[n]
  PROVE  RemoveAt(s, k) = RemoveAt(t, k)
<1> DEFINE n == Len(s)
<1>1. n \in Nat /\ k \in 1..n /\ DOMAIN s = 1..n /\ DOMAIN t = 1..n
  OBVIOUS
<1>2. SubSeq(s, 1, k - 1) = SubSeq(t, 1, k - 1)
  BY <1>1
<1>3. SubSeq(s, k + 1, n) = SubSeq(t, k + 1, n)
  BY <1>1
<1> QED
  BY <1>2, <1>3 DEF RemoveAt

\* Lines that have names are kept.
LEMMA KeptAll ==
  ASSUME NEW items \in Seq(Item), \A i \in DOMAIN items : items[i].name # None
  PROVE  Kept(items) = items
<1> DEFINE places == {i \in DOMAIN items : items[i].name # None}
<1>1. DOMAIN items \subseteq places
  OBVIOUS
<1>2. Kept(items) = At(items, places)
  BY DEF Kept
<1> HIDE DEF places
<1> QED
  BY <1>1, <1>2, AtAll

\* A line whose name was cleared is left out.
LEMMA KeptButOne ==
  ASSUME NEW items \in Seq(Item), NEW k \in DOMAIN items, items[k].name = None,
         \A i \in DOMAIN items : i # k => items[i].name # None
  PROVE  Kept(items) = RemoveAt(items, k)
<1> DEFINE places == {i \in DOMAIN items : items[i].name # None}
<1>1. places \cap DOMAIN items = DOMAIN items \ {k}
  OBVIOUS
<1>2. Kept(items) = At(items, places)
  BY DEF Kept
<1> HIDE DEF places
<1> QED
  BY <1>1, <1>2, AtButOne

\* The lines, with the one that is edited.
LEMMA SavedItems ==
  ASSUME NEW P, NEW R, Starting(P, R), NEW D, NEW sent, Differs(R, D, sent)
  PROVE  /\ (\A e \in D : e.line = 0) => After(P, Recorded(R, sent)).items = R.items
         /\ \A e \in D : e.line # 0
              => After(P, Recorded(R, sent)).items = [R.items EXCEPT ![e.line][e.field] = Means(e)]
<1> DEFINE N == After(P, Recorded(R, sent))
<1>1. RowOK(N)
  <2>1. Recorded(R, sent) \in Seq(Correction)
    BY RecordedParts DEF Starting
  <2> QED
    BY <2>1, FoldOK DEF Starting, After
<1>2. /\ N.items \in Seq(Item) /\ R.items \in Seq(Item) /\ DOMAIN R.items = 1..Len(R.items)
      /\ Len(R.items) \in Nat /\ DOMAIN N.items = 1..Len(N.items)
  BY <1>1 DEF Starting, RowOK
<1>3. /\ Len(N.items) = Len(R.items)
      /\ \A n : \A f \in {"name", "cents"} :
           /\ \A e \in D : e.line = n /\ e.field = f /\ n # 0 => N.items[n][f] = Means(e)
           /\ n \in DOMAIN R.items /\ (\A e \in D : ~(e.line = n /\ e.field = f)) => N.items[n][f] = R.items[n][f]
  BY SavedLines
<1> HIDE DEF N
<1>4. ASSUME \A e \in D : e.line = 0 PROVE N.items = R.items
  <2>1. ASSUME NEW n \in DOMAIN R.items
        PROVE  N.items[n].name = R.items[n].name /\ N.items[n].cents = R.items[n].cents
    <3>1. n # 0
      BY <1>2
    <3>2. \A f \in {"name", "cents"} : N.items[n][f] = R.items[n][f]
      BY <1>3, <1>4, <3>1
    <3> QED
      BY <3>2
  <2> QED
    BY <1>2, <1>3, <2>1, ItemsAre
<1>5. ASSUME NEW e \in D, e.line # 0 PROVE N.items = [R.items EXCEPT ![e.line][e.field] = Means(e)]
  <2> DEFINE k == e.line
             g == e.field
             m == Means(e)
             new == [R.items EXCEPT ![k][g] = m]
  <2>1. e \in Correction /\ k \in DOMAIN R.items /\ D = {e}
    BY <1>5 DEF Differs
  <2>2. g \in {"name", "cents"} /\ (g = "name" => m \in Text) /\ (g = "cents" => m \in Int \cup {None})
    BY <1>5, <2>1, CorrectionIs
  <2>3. \A n : \A f \in {"name", "cents"} :
          /\ n = k /\ f = g => N.items[n][f] = m
          /\ n \in DOMAIN R.items /\ ~(n = k /\ f = g) => N.items[n][f] = R.items[n][f]
    BY <1>3, <1>5, <2>1
  <2> HIDE DEF k, g, m
  <2>4. \A n \in DOMAIN R.items : R.items[n] \in Item
    BY <1>2
  <2>5. \A n \in DOMAIN R.items : new[n] = IF n = k THEN [R.items[n] EXCEPT ![g] = m] ELSE R.items[n]
    OBVIOUS
  <2>6. \A x \in Item : /\ [x EXCEPT ![g] = m] \in Item
                        /\ \A f \in {"name", "cents"} : [x EXCEPT ![g] = m][f] = IF f = g THEN m ELSE x[f]
    <3> SUFFICES ASSUME NEW x \in Item
                 PROVE  /\ [x EXCEPT ![g] = m] \in Item
                        /\ \A f \in {"name", "cents"} : [x EXCEPT ![g] = m][f] = IF f = g THEN m ELSE x[f]
      OBVIOUS
    <3>1. CASE g = "name"
      BY <2>2, <3>1 DEF Item
    <3>2. CASE g = "cents"
      BY <2>2, <3>2 DEF Item
    <3> QED
      BY <2>2, <3>1, <3>2
  <2>7. new \in Seq(Item) /\ Len(new) = Len(R.items) /\ DOMAIN new = DOMAIN R.items
    <3>1. new \in [1..Len(R.items) -> Item]
      BY <1>2, <2>4, <2>5, <2>6
    <3> HIDE DEF new
    <3> QED
      BY <1>2, <3>1
  <2>8. ASSUME NEW n \in DOMAIN new
        PROVE  new[n].name = N.items[n].name /\ new[n].cents = N.items[n].cents
    <3>1. \A f \in {"name", "cents"} : new[n][f] = IF n = k /\ f = g THEN m ELSE R.items[n][f]
      <4>1. n \in DOMAIN R.items /\ R.items[n] \in Item
        BY <2>4, <2>7, <2>8
      <4>2. new[n] = IF n = k THEN [R.items[n] EXCEPT ![g] = m] ELSE R.items[n]
        BY <2>5, <4>1
      <4>3. \A f \in {"name", "cents"} : [R.items[n] EXCEPT ![g] = m][f] = IF f = g THEN m ELSE R.items[n][f]
        BY <2>6, <4>1
      <4> HIDE DEF new
      <4>4. CASE n = k
        <5>1. new[n] = [R.items[n] EXCEPT ![g] = m]
          BY <4>2, <4>4
        <5> QED
          BY <4>3, <4>4, <5>1, Zenon
      <4>5. CASE n # k
        BY <4>2, <4>5
      <4> QED
        BY <4>4, <4>5
    <3>2. \A f \in {"name", "cents"} : new[n][f] = N.items[n][f]
      BY <2>3, <2>7, <2>8, <3>1
    <3> QED
      BY <3>2
  <2> HIDE DEF new
  <2>9. new = N.items
    BY <1>2, <1>3, <2>7, <2>8, ItemsAre
  <2> QED
    BY <2>9 DEF new, k, g, m
<1> QED
  BY <1>4, <1>5 DEF N

\* The rules name the category.
Named(row) == ~row.manual /\ row.merchant # None /\ Rule[row.merchant] # None

\* The row that is shown, but for its fields (ProjectedOK).
LEMMA ProjectedMore ==
  ASSUME NEW rs \in Seq(Readings), NEW cs \in Seq(Correction)
  PROVE  /\ Corrected(rs, cs).manual \in BOOLEAN
         /\ Projected(rs, cs).row.manual = Corrected(rs, cs).manual
         /\ Projected(rs, cs).row.category
              = IF Named(Corrected(rs, cs)) THEN Rule[Corrected(rs, cs).merchant] ELSE Corrected(rs, cs).category
         /\ Projected(rs, cs).row = [f \in DOMAIN Absent |-> Projected(rs, cs).row[f]]
<1> DEFINE row == Corrected(rs, cs)
           items == Kept(row.items)
           category == IF Named(row) THEN Rule[row.merchant] ELSE row.category
           new == [row EXCEPT !.items = items, !.category = category]
<1>1. Projected(rs, cs).row = new
  BY Zenon DEF Projected, Named
<1>2. DOMAIN row = DOMAIN Absent
  BY CorrectedOK DEF RowOK
<1>3. row.manual \in BOOLEAN
  <2> DEFINE b == Base(rs)
  <2>1. b.manual = FALSE
    BY Zenon DEF Base, Absent
  <2>2. RowOK(b)
    BY BaseOK
  <2>3. row = After(b, cs)
    BY DEF Corrected, After
  <2> HIDE DEF b, row
  <2>4. ManualAfter(b, cs)
    BY <2>1, <2>2, FoldManual
  <2>5. row.manual = (b.manual \/ \E x \in Range(cs) : x.line = 0 /\ x.field = "category")
    BY <2>3, <2>4, Zenon DEF ManualAfter
  <2> QED
    BY <2>5, Zenon
<1> HIDE DEF row, items, category
<1>4. /\ DOMAIN new = DOMAIN Absent /\ new.manual = row.manual /\ new.category = category
      /\ new = [f \in DOMAIN Absent |-> new[f]]
  BY <1>2 DEF Absent
<1> QED
  BY <1>1, <1>3, <1>4, Zenon DEF category, row

\* The row with the edit.
EditedParts(R, e) ==
  /\ e.line = 0 => /\ Edited(R, e).items = R.items
                   /\ Edited(R, e).manual = (R.manual \/ e.field = "category")
                   /\ \A f \in Fields : Edited(R, e)[f] = IF f = e.field THEN Means(e) ELSE R[f]
  /\ e.line # 0 => /\ Edited(R, e).items = IF e.field = "name" /\ e.value = None
                                           THEN RemoveAt(R.items, e.line)
                                           ELSE [R.items EXCEPT ![e.line][e.field] = Means(e)]
                   /\ Edited(R, e).manual = R.manual
                   /\ \A f \in Fields : Edited(R, e)[f] = R[f]
  /\ DOMAIN Edited(R, e) = DOMAIN Absent

\* EditedParts of every edit.
LEMMA EditedIs ==
  ASSUME NEW R, RowOK(R), NEW e \in Correction
  PROVE  R.manual \in BOOLEAN => EditedParts(R, e)
<1> SUFFICES ASSUME R.manual \in BOOLEAN PROVE EditedParts(R, e)
  BY Zenon
<1>0. DOMAIN R = DOMAIN Absent
  BY DEF RowOK
<1>1. CASE e.line = 0
  <2>1. Edited(R, e) = Applied(R, e)
    BY <1>1 DEF Edited, Applied
  <2>2. /\ RowOK(Applied(R, e)) /\ Applied(R, e).items = R.items
        /\ \A f \in Fields : Applied(R, e)[f] = IF f = e.field THEN Means(e) ELSE R[f]
    BY <1>1, HeaderApplied
  <2>3. Applied(R, e).manual = (R.manual \/ (e.line = 0 /\ e.field = "category"))
    BY ManualApplied
  <2>4. Applied(R, e).manual = (R.manual \/ e.field = "category")
    BY <1>1, <2>3, Zenon
  <2>5. DOMAIN Applied(R, e) = DOMAIN Absent
    BY <2>2 DEF RowOK
  <2> QED
    BY <1>1, <2>1, <2>2, <2>4, <2>5, Zenon DEF EditedParts
<1>2. CASE e.line # 0
  <2> DEFINE items == IF e.field = "name" /\ e.value = None THEN RemoveAt(R.items, e.line)
                      ELSE [R.items EXCEPT ![e.line][e.field] = Means(e)]
  <2>1. Edited(R, e) = [R EXCEPT !.items = items]
    <3>1. CASE e.field = "name" /\ e.value = None
      BY <1>2, <3>1, Zenon DEF Edited
    <3>2. CASE ~(e.field = "name" /\ e.value = None)
      BY <1>2, <3>2, Zenon DEF Edited
    <3> QED
      BY <3>1, <3>2
  <2> HIDE DEF items
  <2>2. /\ DOMAIN Edited(R, e) = DOMAIN Absent /\ Edited(R, e).items = items
        /\ Edited(R, e).manual = R.manual
        /\ \A f \in Fields : Edited(R, e)[f] = R[f]
    BY <1>0, <2>1 DEF Absent, Fields
  <2> QED
    BY <1>2, <2>2, Zenon DEF items, EditedParts
<1> QED
  BY <1>1, <1>2

\* The lines that are shown are the lines of the row with the edit.
KeptSaved(P, R, D, sent) ==
  /\ (\A e \in D : e.line = 0) => Kept(After(P, Recorded(R, sent)).items) = R.items
  /\ \A e \in D : e.line # 0
       => Kept(After(P, Recorded(R, sent)).items)
            = IF e.field = "name" /\ e.value = None THEN RemoveAt(R.items, e.line)
              ELSE [R.items EXCEPT ![e.line][e.field] = Means(e)]

\* KeptSaved of every form.
LEMMA SavedKept ==
  ASSUME NEW P, NEW R, Starting(P, R), NEW D, NEW sent, Differs(R, D, sent),
         \A i \in DOMAIN R.items : R.items[i].name # None
  PROVE  KeptSaved(P, R, D, sent)
<1> DEFINE N == After(P, Recorded(R, sent))
<1>1. RowOK(N)
  <2>1. Recorded(R, sent) \in Seq(Correction)
    BY RecordedParts DEF Starting
  <2> QED
    BY <2>1, FoldOK DEF Starting, After
<1>2. /\ N.items \in Seq(Item) /\ R.items \in Seq(Item) /\ DOMAIN R.items = 1..Len(R.items)
      /\ \A i \in DOMAIN R.items : R.items[i] \in Item
  BY <1>1 DEF Starting, RowOK
<1>3. /\ (\A e \in D : e.line = 0) => N.items = R.items
      /\ \A e \in D : e.line # 0 => N.items = [R.items EXCEPT ![e.line][e.field] = Means(e)]
  BY SavedItems
<1> HIDE DEF N
<1>4. ASSUME \A e \in D : e.line = 0 PROVE Kept(N.items) = R.items
  BY <1>2, <1>3, <1>4, KeptAll
<1>5. ASSUME NEW e \in D, e.line # 0
      PROVE  Kept(N.items) = IF e.field = "name" /\ e.value = None THEN RemoveAt(R.items, e.line)
                             ELSE [R.items EXCEPT ![e.line][e.field] = Means(e)]
  <2> DEFINE k == e.line
             g == e.field
             m == Means(e)
             new == [R.items EXCEPT ![k][g] = m]
  <2>1. e \in Correction /\ k \in DOMAIN R.items
    BY <1>5 DEF Differs
  <2>2. g \in {"name", "cents"} /\ (g = "name" => m = e.value)
    BY <1>5, <2>1, CorrectionIs DEF Means
  <2>3. N.items = new
    BY <1>3, <1>5
  <2> HIDE DEF k, g, m
  <2>4. \A i \in DOMAIN R.items : new[i] = IF i = k THEN [R.items[i] EXCEPT ![g] = m] ELSE R.items[i]
    OBVIOUS
  <2>5. DOMAIN new = DOMAIN R.items
    OBVIOUS
  <2>6. new[k].name = IF g = "name" THEN m ELSE R.items[k].name
    <3>1. new[k] = [R.items[k] EXCEPT ![g] = m] /\ R.items[k] \in Item
      BY <1>2, <2>1, <2>4
    <3> HIDE DEF new
    <3> QED
      BY <2>2, <3>1 DEF Item
  <2>7. \A i \in DOMAIN new : i # k => new[i] = R.items[i] /\ new[i].name # None
    <3> SUFFICES ASSUME NEW i \in DOMAIN new, i # k PROVE new[i] = R.items[i] /\ R.items[i].name # None
      BY Zenon
    <3>1. i \in DOMAIN R.items
      BY <2>5
    <3> HIDE DEF new
    <3> QED
      BY <2>4, <3>1
  <2> HIDE DEF new
  <2>8. new \in Seq(Item)
    BY <1>2, <2>3
  <2>9. CASE g = "name" /\ e.value = None
    <3>1. new[k].name = None
      BY <2>2, <2>6, <2>9
    <3>2. Kept(new) = RemoveAt(new, k)
      BY <2>1, <2>5, <2>7, <2>8, <3>1, KeptButOne
    <3>3. Len(new) = Len(R.items)
      BY <1>2, <2>5, <2>8
    <3>4. RemoveAt(new, k) = RemoveAt(R.items, k)
      BY <1>2, <2>1, <2>5, <2>7, <2>8, <3>3, RemoveAtSame
    <3> QED
      BY <2>3, <2>9, <3>2, <3>4 DEF k, g
  <2>10. CASE ~(g = "name" /\ e.value = None)
    <3>1. new[k].name # None
      BY <2>1, <2>2, <2>6, <2>10
    <3>2. Kept(new) = new
      BY <2>7, <2>8, <3>1, KeptAll
    <3> QED
      BY <2>3, <2>10, <3>2 DEF k, g, m, new
  <2> QED
    BY <2>9, <2>10
<1> QED
  BY <1>4, <1>5 DEF N, KeptSaved

\* What is sent is the row and the edit.
LEMMA ChangesAre ==
  ASSUME NEW R, RowOK(R), NEW edits \in Edits(R)
  PROVE  Differs(R, {e \in edits : e \notin Range(Form(R))}, Sent(Form(R), edits))
<1> DEFINE D == {e \in edits : e \notin Range(Form(R))}
           sent == Sent(Form(R), edits)
<1>1. /\ sent \in Seq(Correction)
      /\ \A x \in Range(sent) :
           \/ x \in edits
           \/ x \in Entry(R) /\ \A e \in edits : ~(e.field = x.field /\ e.line = x.line)
      /\ edits \subseteq Range(sent)
  BY SentIs
<1>2. \A e \in edits : edits = {e} /\ e \in Correction
  BY EditIs
<1>3. \A x \in Range(Form(R)) : x \in Entry(R)
  <2> DEFINE shape == Form(R)
  <2>1. shape \in Seq(Entry(R))
    BY FormIs
  <2> HIDE DEF shape
  <2>2. \A x \in Range(shape) : x \in Entry(R)
    BY <2>1 DEF Range
  <2> QED
    BY <2>2 DEF shape
<1> HIDE DEF sent
<1>4. \A x \in Range(sent) : x \in D \/ (x \in Entry(R) /\ \A e \in D : ~(e.field = x.field /\ e.line = x.line))
  BY <1>1, <1>2, <1>3
<1>5. ASSUME NEW e \in D
      PROVE  /\ e \in Correction /\ e \in Range(sent)
             /\ e.line = 0 => e.field \in Range(Header) /\ e.value # R[e.field]
             /\ e.line # 0 => e.line \in DOMAIN R.items
  <2>1. PICK c \in Range(Form(R)) : /\ c \in Entry(R) /\ c.field = e.field /\ c.line = e.line
                                    /\ c.value = e.value => c = e
    BY EditIs
  <2>2. c.value # e.value
    BY <2>1
  <2> QED
    BY <1>1, <1>2, <2>1, <2>2 DEF Entry
<1>6. \A d, e \in D : d = e
  BY <1>2
<1> HIDE DEF D
<1>7. Differs(R, D, sent)
  BY <1>1, <1>4, <1>5, <1>6 DEF Differs
<1> QED
  BY <1>7 DEF D, sent

\* S is the row with the edit, but for a category that follows a new merchant.
IsRow(S, row, R) ==
  S = [row EXCEPT !.category = IF row.manual \/ row.merchant = R.merchant THEN @ ELSE S.category]

\* A form that is as the row is saves the row with the edit.
LEMMA SaveChanges ==
  ASSUME NEW rs \in Seq(Readings), NEW cs \in Seq(Correction),
         NEW R, R = Projected(rs, cs).row, Corrected(rs, cs).items = R.items,
         NEW edits \in Edits(R),
         NEW D, D = {e \in edits : e \notin Range(Form(R))},
         NEW S, S = Projected(rs, cs \o Recorded(R, Sent(Form(R), edits))).row,
         NEW row, row = IF D = {} THEN R ELSE Edited(R, CHOOSE e \in D : TRUE)
  PROVE  IsRow(S, row, R)
<1> DEFINE P == Corrected(rs, cs)
           sent == Sent(Form(R), edits)
           rec == Recorded(R, sent)
           N == After(P, rec)
           Category(e) == e.line = 0 /\ e.field = "category"
<1>1. /\ RowOK(P) /\ RowOK(R) /\ R.items = Kept(P.items)
      /\ \A f \in Fields \ {"category"} : R[f] = P[f]
  BY ProjectedOK, CorrectedOK
<1>2. /\ P.manual \in BOOLEAN /\ R.manual = P.manual
      /\ R.category = IF Named(P) THEN Rule[P.merchant] ELSE P.category
      /\ R = [f \in DOMAIN Absent |-> R[f]]
  BY ProjectedMore
<1>3. Starting(P, R)
  <2> HIDE DEF P
  <2>1. P.items = R.items
    BY DEF P
  <2> QED
    BY <1>1, <2>1 DEF Starting
<1>4. Differs(R, D, sent)
  BY <1>1, ChangesAre
<1> HIDE DEF sent, P
<1>5. rec \in Seq(Correction)
  BY <1>1, <1>4, RecordedParts
<1>6. Corrected(rs, cs \o rec) = N
  <2> HIDE DEF rec
  <2> QED
    BY <1>5, FoldConcat DEF Corrected, After, P
<1>7. cs \o rec \in Seq(Correction)
  <2> HIDE DEF rec
  <2> QED
    BY <1>5
<1>8. /\ RowOK(S) /\ S.items = Kept(N.items)
      /\ \A f \in Fields \ {"category"} : S[f] = N[f]
      /\ S.manual = N.manual
      /\ S.category = IF Named(N) THEN Rule[N.merchant] ELSE N.category
      /\ S = [f \in DOMAIN Absent |-> S[f]]
  <2> DEFINE ks == cs \o rec
  <2>1. S = Projected(rs, ks).row
    BY DEF sent
  <2>2. ks \in Seq(Correction) /\ Corrected(rs, ks) = N
    BY <1>6, <1>7
  <2> HIDE DEF ks, N
  <2>3. /\ RowOK(Projected(rs, ks).row) /\ Projected(rs, ks).row.items = Kept(N.items)
        /\ \A f \in Fields \ {"category"} : Projected(rs, ks).row[f] = N[f]
    BY <2>2, ProjectedOK
  <2>4. /\ Projected(rs, ks).row.manual = N.manual
        /\ Projected(rs, ks).row.category = IF Named(N) THEN Rule[N.merchant] ELSE N.category
        /\ Projected(rs, ks).row = [f \in DOMAIN Absent |-> Projected(rs, ks).row[f]]
    BY <2>2, ProjectedMore
  <2> QED
    BY <2>1, <2>3, <2>4, Zenon
<1>9. ASSUME NEW f \in Fields
      PROVE  /\ \A e \in D : e.line = 0 /\ e.field = f => N[f] = Means(e)
             /\ (\A e \in D : ~(e.line = 0 /\ e.field = f)) => N[f] = P[f]
  BY <1>3, <1>4, SavedFields
<1>10. N.manual = (P.manual \/ \E e \in D : Category(e))
  <2>1. P.manual \in BOOLEAN
    BY <1>2, Zenon
  <2>2. P.manual \in BOOLEAN => ManualSaved(P, R, D, sent)
    BY <1>3, <1>4, SavedManual
  <2>3. ManualSaved(P, R, D, sent)
    BY <2>1, <2>2, Zenon
  <2> QED
    BY <2>3, Zenon DEF ManualSaved
<1>11. \A i \in DOMAIN R.items : R.items[i].name # None
  <2>1. P.items \in Seq(Item)
    BY <1>1 DEF RowOK
  <2>2. R.items \in Seq(Item) /\ \A x \in Range(R.items) : x.name # None
    BY <1>1, <2>1, KeptOK
  <2> QED
    BY <2>2 DEF Range
<1>12. /\ (\A e \in D : e.line = 0) => Kept(N.items) = R.items
       /\ \A e \in D : e.line # 0
            => Kept(N.items) = IF e.field = "name" /\ e.value = None THEN RemoveAt(R.items, e.line)
                               ELSE [R.items EXCEPT ![e.line][e.field] = Means(e)]
  <2>1. KeptSaved(P, R, D, sent)
    <3> HIDE DEF N, rec
    <3> QED
      BY <1>3, <1>4, <1>11, SavedKept
  <2> QED
    BY <2>1, Zenon DEF KeptSaved
<1> HIDE DEF N, rec
\* What the row is to be.
<1>13. /\ row.items = S.items /\ row.manual = (R.manual \/ \E e \in D : Category(e))
       /\ DOMAIN row = DOMAIN Absent
       /\ \A f \in Fields : /\ \A e \in D : e.line = 0 /\ e.field = f => row[f] = Means(e)
                            /\ (\A e \in D : ~(e.line = 0 /\ e.field = f)) => row[f] = R[f]
  <2>1. CASE D = {}
    <3>1. row = R
      BY <2>1
    <3>2. R.manual = (R.manual \/ \E e \in D : Category(e))
      <4>1. ~ \E e \in D : Category(e)
        BY <2>1
      <4> QED
        BY <1>2, <4>1, Zenon
    <3>3. S.items = R.items /\ DOMAIN R = DOMAIN Absent
      BY <1>1, <1>8, <1>12, <2>1 DEF RowOK
    <3> QED
      BY <2>1, <3>1, <3>2, <3>3, Zenon
  <2>2. CASE D # {}
    <3> DEFINE e == CHOOSE d \in D : TRUE
    <3>1. e \in D
      BY <2>2
    <3>2. row = Edited(R, e)
      BY <2>2
    <3> HIDE DEF e
    <3>3. e \in Correction /\ \A d \in D : d = e
      BY <1>4, <3>1 DEF Differs
    <3>4. R.manual \in BOOLEAN
      BY <1>2, Zenon
    <3>5. EditedParts(R, e)
      <4>1. R.manual \in BOOLEAN => EditedParts(R, e)
        BY <1>1, <3>3, EditedIs
      <4> QED
        BY <3>4, <4>1, Zenon
    <3>6. CASE e.line = 0
      <4>1. /\ row.items = R.items /\ row.manual = (R.manual \/ e.field = "category")
            /\ \A f \in Fields : row[f] = IF f = e.field THEN Means(e) ELSE R[f]
            /\ DOMAIN row = DOMAIN Absent
        <5>1. /\ Edited(R, e).items = R.items /\ Edited(R, e).manual = (R.manual \/ e.field = "category")
              /\ \A f \in Fields : Edited(R, e)[f] = IF f = e.field THEN Means(e) ELSE R[f]
              /\ DOMAIN Edited(R, e) = DOMAIN Absent
          BY <3>6, <3>5, Zenon DEF EditedParts
        <5> QED
          BY <3>2, <5>1, Zenon
      <4>2. row.items = S.items
        BY <1>8, <1>12, <3>3, <3>6, <4>1
      <4>3. (\E d \in D : Category(d)) <=> e.field = "category"
        BY <3>1, <3>3, <3>6
      <4>4. row.manual = (R.manual \/ \E d \in D : Category(d))
        <5> HIDE DEF Category
        <5> QED
          BY <4>1, <4>3, Zenon
      <4>5. \A f \in Fields : /\ \A d \in D : d.line = 0 /\ d.field = f => row[f] = Means(d)
                              /\ (\A d \in D : ~(d.line = 0 /\ d.field = f)) => row[f] = R[f]
        BY <3>1, <3>3, <3>6, <4>1
      <4> QED
        BY <4>1, <4>2, <4>4, <4>5, Zenon
    <3>7. CASE e.line # 0
      <4>1. /\ row.items = IF e.field = "name" /\ e.value = None THEN RemoveAt(R.items, e.line)
                           ELSE [R.items EXCEPT ![e.line][e.field] = Means(e)]
            /\ row.manual = R.manual
            /\ \A f \in Fields : row[f] = R[f]
            /\ DOMAIN row = DOMAIN Absent
        <5>1. /\ Edited(R, e).items = IF e.field = "name" /\ e.value = None THEN RemoveAt(R.items, e.line)
                                       ELSE [R.items EXCEPT ![e.line][e.field] = Means(e)]
              /\ Edited(R, e).manual = R.manual
              /\ \A f \in Fields : Edited(R, e)[f] = R[f]
              /\ DOMAIN Edited(R, e) = DOMAIN Absent
          BY <3>7, <3>5, Zenon DEF EditedParts
        <5> QED
          BY <3>2, <5>1, Zenon
      <4>2. row.items = S.items
        BY <1>8, <1>12, <3>1, <3>7, <4>1, Zenon
      <4>3. ~ \E d \in D : Category(d)
        BY <3>3, <3>7
      <4>4. row.manual = (R.manual \/ \E d \in D : Category(d))
        <5> HIDE DEF Category
        <5> QED
          BY <3>4, <4>1, <4>3, Zenon
      <4>5. \A f \in Fields : /\ \A d \in D : d.line = 0 /\ d.field = f => row[f] = Means(d)
                              /\ (\A d \in D : ~(d.line = 0 /\ d.field = f)) => row[f] = R[f]
        BY <3>3, <3>7, <4>1
      <4> QED
        BY <4>1, <4>2, <4>4, <4>5, Zenon
    <3> QED
      BY <3>6, <3>7
  <2> QED
    BY <2>1, <2>2
<1>14. \A f \in Fields \ {"category"} : S[f] = row[f]
  BY <1>1, <1>8, <1>9, <1>13
<1>15. S.manual = row.manual
  <2> HIDE DEF Category
  <2> QED
    BY <1>2, <1>8, <1>10, <1>13, Zenon
\* The rules keep the category until the owner sets it.
<1>16. row.manual \/ row.merchant = R.merchant => S.category = row.category
  <2>0. "category" \in Fields /\ "merchant" \in Fields \ {"category"}
    BY DEF Fields
  <2>1. ASSUME NEW e \in D, Category(e) PROVE S.category = row.category
    <3>1. N.category = Means(e) /\ row.category = Means(e)
      BY <1>9, <1>13, <2>0, <2>1
    <3>2. ~Named(N)
      <4> HIDE DEF Category
      <4> QED
        BY <1>10, <2>1, Zenon DEF Named
    <3> QED
      BY <1>8, <3>1, <3>2, Zenon
  <2>2. ASSUME ~ \E e \in D : Category(e), row.manual \/ row.merchant = R.merchant
        PROVE  S.category = row.category
    <3>1. N.category = P.category /\ row.category = R.category
      BY <1>9, <1>13, <2>0, <2>2
    <3>2. /\ N.manual = P.manual /\ row.manual = P.manual
      <4> HIDE DEF Category
      <4> QED
        BY <1>2, <1>10, <1>13, <2>2, Zenon
    <3>3. CASE row.manual
      <4>1. ~Named(N) /\ ~Named(P)
        BY <3>2, <3>3, Zenon DEF Named
      <4> QED
        BY <1>2, <1>8, <3>1, <4>1, Zenon
    <3>4. CASE row.merchant = R.merchant
      <4>1. N.merchant = P.merchant
        BY <1>1, <1>8, <1>14, <2>0, <3>4
      <4>2. Named(N) <=> Named(P)
        BY <3>2, <4>1, Zenon DEF Named
      <4> QED
        BY <1>2, <1>8, <3>1, <4>1, <4>2, Zenon
    <3> QED
      BY <2>2, <3>3, <3>4, Zenon
  <2> QED
    BY <2>1, <2>2, Zenon
<1> DEFINE category == IF row.manual \/ row.merchant = R.merchant THEN row.category ELSE S.category
           new == [row EXCEPT !.category = category]
<1>17. S.category = category
  BY <1>16, Zenon
<1> HIDE DEF category
<1>18. /\ new = [f \in DOMAIN Absent |-> new[f]] /\ new.category = category
       /\ \A f \in DOMAIN Absent : f # "category" => new[f] = row[f]
  BY <1>13 DEF Absent
<1>19. \A f \in DOMAIN Absent : new[f] = S[f]
  <2> SUFFICES ASSUME NEW f \in DOMAIN Absent PROVE new[f] = S[f]
    OBVIOUS
  <2>1. \/ f = "category" \/ f = "items" \/ f = "manual" \/ f \in Fields \ {"category"}
    BY DEF Absent, Fields
  <2>2. CASE f = "category"
    BY <1>17, <1>18, <2>2, Zenon
  <2>3. CASE f = "items"
    BY <1>13, <1>18, <2>3
  <2>4. CASE f = "manual"
    <3>1. "manual" # "category"
      OBVIOUS
    <3> QED
      BY <1>15, <1>18, <2>4, <3>1, Zenon
  <2>5. CASE f \in Fields \ {"category"}
    BY <1>14, <1>18, <2>5
  <2> QED
    BY <2>1, <2>2, <2>3, <2>4, <2>5
<1>20. S = new
  <2> HIDE DEF new
  <2> QED
    BY <1>8, <1>18, <1>19
<1> QED
  BY <1>20, Zenon DEF category, IsRow

\* A form that is as the row is changes the field that was edited, and no other, though every
\* line goes to the log (service.correct, project.project).
THEOREM OnlyTheEditIsSaved == PagesSpec => SaveChangesOnlyTheEdit
<1> DEFINE Changes == {e \in edited' : e \notin Range(Form(form))}
           Row == IF Changes = {} THEN form ELSE Edited(form, CHOOSE e \in Changes : TRUE)
<1>1. ASSUME ReceiptInv, [PagesNext]_pages, saves' # saves, form = shown.row, NumberedAsShown
      PROVE  shown'.row = [Row EXCEPT !.category =
               IF Row.manual \/ Row.merchant = form.merchant THEN @ ELSE shown'.row.category]
  <2>0. ASSUME NEW n \in Native, NEW d \in Charge, NEW claim \in Claim, NEW words \in Words,
               Observe(n, d, claim, words)
        PROVE  UNCHANGED saves
    BY <2>0 DEF Observe, receipt
  <2>1. PICK edits \in Offered : Save(edits)
    BY <1>1, <2>0 DEF PagesNext, pages, receipt, Read, Open, Delete, Name, CorrectFeed
  <2>2. form # None /\ edits \in Edits(form)
    BY DEF Offered
  <2>3. PICK R, rs, cs, S, D, row :
          /\ R = form /\ rs = readings /\ cs = corrections /\ S = shown'.row
          /\ D = Changes /\ row = Row
    OBVIOUS
  <2>4. /\ readings' = readings /\ corrections' = corrections \o Recorded(shown.row, Sent(Form(form), edits))
        /\ shown' = Projected(readings', corrections') /\ edited' = edits
    BY <2>1 DEF Save, Saved, Reproject
  <2>5. /\ rs \in Seq(Readings) /\ cs \in Seq(Correction)
        /\ R = Projected(rs, cs).row /\ Corrected(rs, cs).items = R.items
    BY <1>1, <2>3 DEF ReceiptInv, NumberedAsShown
  <2>6. D = {e \in edits : e \notin Range(Form(R))}
    BY <2>3, <2>4
  <2>7. row = IF D = {} THEN R ELSE Edited(R, CHOOSE e \in D : TRUE)
    BY <2>3
  <2>8. S = Projected(rs, cs \o Recorded(R, Sent(Form(R), edits))).row
    BY <1>1, <2>3, <2>4
  <2>9. edits \in Edits(R)
    BY <2>2, <2>3
  <2>10. IsRow(S, row, R)
    BY <2>5, <2>6, <2>7, <2>8, <2>9, SaveChanges
  <2> HIDE DEF Row, Changes
  <2> QED
    BY <2>3, <2>10, Zenon DEF IsRow
<1>2. ReceiptInv /\ [PagesNext]_pages
      => [saves' # saves /\ form = shown.row /\ NumberedAsShown =>
            shown'.row = [Row EXCEPT !.category =
              IF Row.manual \/ Row.merchant = form.merchant THEN @ ELSE shown'.row.category]]_pages
  BY <1>1
<1> QED
  BY <1>2, ReceiptHolds, PTL DEF PagesSpec, SaveChangesOnlyTheEdit
=============================================================================
