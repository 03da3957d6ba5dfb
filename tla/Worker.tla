-------------------------------- MODULE Worker --------------------------------
(***************************************************************************)
(* The background worker: one task of the server's event loop that reads   *)
(* the oldest receipt without a successful extraction, and backs off while *)
(* it fails.                                                               *)
(*                                                                         *)
(* The queue is not stored: it follows from the receipts and extractions   *)
(* (store.pending_receipt_ids).  Routes that add to it set an event that   *)
(* ends the worker's wait.  A receipt's id is its number here.  Deleted    *)
(* receipts stay in the queue, so there is no delete; what is read while   *)
(* the cache is gone comes back with the next unlock (Store).              *)
(***************************************************************************)
EXTENDS Naturals

CONSTANTS
  MaxId,        \* how many receipts there may be; a bound
  Hopeless,     \* those that may turn out to be unreadable
  Idle,         \* WORKER_IDLE_SECONDS, in some unit
  FirstBackoff, \* the wait after the first failure
  MaxBackoff,   \* WORKER_BACKOFF_MAX
  Nothing       \* no receipt is being read

Receipt == 1..MaxId

ASSUME WorkerAssumption ==
  /\ MaxId \in Nat
  /\ Hopeless \subseteq Receipt
  /\ {Idle, FirstBackoff, MaxBackoff} \subseteq Nat \ {0}
  /\ Idle <= FirstBackoff /\ FirstBackoff <= MaxBackoff
  /\ Nothing \notin Nat

VARIABLES
  bad,        \* the receipts that cannot be rendered, or read by the model; fixed
  up,         \* the model server answers
  open,       \* there is a cache
  serving,    \* the server runs
  known,      \* receipts 1..known are in the cache
  read,       \* those with a successful extraction
  pc,         \* where the worker is, or "off"
  rid,        \* the receipt it is reading
  wake,       \* its asyncio.Event
  backoff, left, \* its back-off, and how long it will still wait
  owed,       \* receipts a route has committed something about, before its nudge
  unseen      \* history: receipts nudged for since the worker last read the queue

environment == <<bad, up, open, serving>>
queue == <<known, read>>
routes == <<owed, unseen>>
vars == <<bad, up, open, serving, known, read, pc, rid, wake, backoff, left, owed, unseen>>

TypeOK ==
  /\ bad \subseteq Hopeless
  /\ {up, open, serving, wake} \subseteq BOOLEAN
  /\ known \in 0..MaxId
  /\ read \subseteq 1..known \ bad
  /\ pc \in {"off", "look", "await", "rest", "wait"}
  /\ (pc = "off") = ~serving
  /\ rid \in (1..known) \cup {Nothing}
  /\ (pc = "await") = (rid # Nothing)
  /\ backoff = 0 \/ backoff \in FirstBackoff..MaxBackoff
  /\ left \in 0..MaxBackoff
  /\ {owed, unseen} \subseteq SUBSET (1..known)

Init ==
  /\ bad \in SUBSET Hopeless
  /\ up \in BOOLEAN
  /\ open = FALSE
  /\ known = 0
  /\ read = {}
  /\ serving = FALSE /\ pc = "off" /\ rid = Nothing
  /\ wake = FALSE /\ backoff = 0 /\ left = 0
  /\ owed = {} /\ unseen = {}

-----------------------------------------------------------------------------
Pending == 1..known \ read

\* Mutant: newest first.
Oldest_Newest == CHOOSE r \in Pending : \A q \in Pending : q <= r

Oldest == CHOOSE r \in Pending : \A q \in Pending : r <= q

Larger(a, b) == IF a > b THEN a ELSE b
Smaller(a, b) == IF a < b THEN a ELSE b

\* worker._run: the wait begins, for at least Idle.
Rest(b) ==
  /\ pc' = "rest"
  /\ rid' = Nothing
  /\ backoff' = b
  /\ left' = Larger(Idle, b)

Doubled == Smaller(Larger(2 * backoff, FirstBackoff), MaxBackoff)

\* worker._tick up to the model's call.  Without a cache the query raises, and
\* _run goes on as after a failure.
Look ==
  /\ pc = "look"
  /\ unseen' = {}
  /\ IF ~open THEN Rest(backoff)
     ELSE IF Pending = {} THEN Rest(0)
     ELSE \/ /\ pc' = "await"
             /\ rid' = Oldest
             /\ UNCHANGED <<backoff, left>>
          \/ Oldest \in bad /\ Rest(Doubled)
  /\ UNCHANGED <<environment, queue, wake, owed>>

\* The model's call ends, within EXTRACT_TIMEOUT, with or without an answer.
Answered ==
  /\ pc = "await"
  /\ IF up /\ rid \notin bad
       THEN read' = read \cup {rid} /\ Rest(0)
       ELSE Rest(Doubled) /\ UNCHANGED read
  /\ UNCHANGED <<environment, known, wake, routes>>

\* Mutant: the event is cleared before the wait.
Wait_Clears ==
  /\ pc = "rest"
  /\ pc' = "wait"
  /\ wake' = FALSE
  /\ UNCHANGED <<environment, queue, rid, backoff, left, routes>>

\* wait_for(self._wake.wait(), delay) begins.
Wait ==
  /\ pc = "rest"
  /\ pc' = "wait"
  /\ UNCHANGED <<environment, queue, rid, wake, backoff, left, routes>>

TimePasses ==
  /\ pc = "wait" /\ left > 0
  /\ left' = left - 1
  /\ UNCHANGED <<environment, queue, pc, rid, wake, backoff, routes>>

\* ... and ends; the event is cleared, and the queue looked at.
WakeUp ==
  /\ pc = "wait"
  /\ wake \/ left = 0
  /\ wake' = FALSE
  /\ left' = 0
  /\ pc' = "look"
  /\ UNCHANGED <<environment, queue, rid, backoff, routes>>

-----------------------------------------------------------------------------
(* The routes commit, then nudge.  /speak and /reextract run in threads,   *)
(* and an upload of several files waits for each.                          *)

Upload ==
  /\ serving /\ open
  /\ known < MaxId
  /\ known' = known + 1
  /\ owed' = owed \cup {known'}
  /\ UNCHANGED <<environment, read, pc, rid, wake, backoff, left, unseen>>

\* The row that asks for another read. It is no reading, and the queue is of receipts without a
\* successful one: one that has been read does not enter it again.
Reextract(r) ==
  /\ serving /\ open
  /\ r <= known
  /\ owed' = owed \cup {r}
  /\ UNCHANGED <<environment, queue, pc, rid, wake, backoff, left, unseen>>

Nudge(r) ==
  /\ r \in owed
  /\ owed' = owed \ {r}
  /\ unseen' = unseen \cup {r}
  /\ wake' = TRUE
  /\ UNCHANGED <<environment, queue, pc, rid, backoff, left>>

-----------------------------------------------------------------------------
(* Other processes: `spend ingest' and `spend extract', which nudge nobody. *)

Ingest ==
  /\ open
  /\ known < MaxId
  /\ known' = known + 1
  /\ UNCHANGED <<environment, read, pc, rid, wake, backoff, left, routes>>

Extract(r) ==
  /\ open
  /\ r <= known
  /\ read' = IF up /\ r \notin bad THEN read \cup {r} ELSE read
  /\ UNCHANGED <<environment, known, pc, rid, wake, backoff, left, routes>>

-----------------------------------------------------------------------------
(* The server starts and stops (api.lifespan), the store is unlocked and   *)
(* locked, the model server comes and goes.                                *)

Start ==
  /\ ~serving
  /\ serving' = TRUE
  /\ pc' = "look"
  /\ UNCHANGED <<bad, up, open, queue, rid, wake, backoff, left, routes>>

\* The task is cancelled at its await, or the process killed anywhere.
Stop ==
  /\ serving
  /\ serving' = FALSE /\ pc' = "off" /\ rid' = Nothing
  /\ wake' = FALSE /\ backoff' = 0 /\ left' = 0
  /\ owed' = {} /\ unseen' = {}
  /\ UNCHANGED <<bad, up, open, queue>>

Unlocked ==
  /\ open' = ~open
  /\ UNCHANGED <<bad, up, serving, queue, pc, rid, wake, backoff, left, routes>>

ModelServer ==
  /\ up' = ~up
  /\ UNCHANGED <<bad, open, serving, queue, pc, rid, wake, backoff, left, routes>>

Task == Look \/ Answered \/ Wait \/ WakeUp

Next ==
  \/ Task \/ TimePasses
  \/ Upload \/ Ingest
  \/ \E r \in Receipt : Reextract(r) \/ Nudge(r) \/ Extract(r)
  \/ Start \/ Stop \/ Unlocked \/ ModelServer

\* The event loop runs its task, time passes, a route that committed goes on.
\* Nothing is assumed of the model server, the user, or who locks.
Fairness ==
  /\ WF_vars(Task)
  /\ WF_vars(TimePasses)
  /\ \A r \in Receipt : WF_vars(Nudge(r))

Spec == Init /\ [][Next]_vars /\ Fairness

-----------------------------------------------------------------------------
(***************************************************************************)
(* A nudge is not lost (worker.nudge): while the worker waits, either it   *)
(* is about to wake up or it has looked at the queue since.                *)
(***************************************************************************)
NudgeIsNotLost == pc = "wait" /\ unseen # {} => wake

(***************************************************************************)
(* "A receipt is retried until it succeeds and nothing has to be           *)
(* re-enqueued by hand" (worker): once the server, the cache and the model *)
(* server stay, every receipt is read, unless it or one before it cannot   *)
(* be.                                                                     *)
(***************************************************************************)
QueueDrains ==
  <>[](serving /\ open /\ up) =>
    \A r \in Receipt :
      r <= known /\ bad \cap 1..r = {} ~> r \in read
=============================================================================
