----------------------------- MODULE FeedProject ----------------------------
(***************************************************************************)
(* feed.py: the row made of the newest claim about a transaction, of the   *)
(* owner's corrections and of accounts.toml; the duplicates among the      *)
(* rows; and the sum of the workspace.                                     *)
(*                                                                         *)
(* There is one account, and several natives stand for it: the feed before *)
(* and after a reconnect, a file import.  A charge happened once, and each *)
(* native may tell of it, in its own words; an export whose format has no  *)
(* ids tells of it under an id made of what it says.  A book is what the   *)
(* rows are made of:                                                       *)
(*   fact[c]   what charge c was: its amount, the flow that its            *)
(*             description implies in whatever words, what was spent       *)
(*   said[t]   the newest claim about transaction t, or None               *)
(*   words[t]  what that claim calls the charge                            *)
(*   named     the natives that accounts.toml names                        *)
(*   fixed[t]  the last correction of each field of t                      *)
(***************************************************************************)
EXTENDS Project, FiniteSets

CONSTANTS Native, Charge,
          Export,   \* the natives whose format has no ids
          Kind      \* what accounts.toml says the account is

\* A claim dates a charge by the day of the purchase, by the day it was posted, or not at
\* all; the amount of a garbled one does not parse. (A pending one is shown as pending where
\* another is shown as ok, and nothing else depends on that.)
Claim == {"bought", "posted", "undated", "garbled"}

\* The payee or the description, as far as merchant_key tells it apart: None is how most natives
\* call the charge. Equal charges are called alike.
Words == {None, "restated"}

\* What an export's id is a digest of, beside the charge: the day it was posted, whether there
\* is an amount, the description (drop._synthesise_ids). The day of the purchase is not in it.
Digest(claim, words) == <<IF claim = "posted" THEN "bought" ELSE claim, words>>

\* The transaction that a claim is about.
Key(n, c, claim, words) == <<n, c, IF n \in Export THEN Digest(claim, words) ELSE None>>

Txn == {Key(n, c, claim, words) : n \in Native, c \in Charge, claim \in Claim, words \in Words}

SPENDING_FLOWS == {"spend", "refund", "fee"}

StructuralFlow(amount, kind) ==
  CASE amount = None -> "unknown"
    [] amount # None -> IF amount < 0 THEN "spend"
                        ELSE IF kind = "credit" THEN "refund"
                        ELSE IF kind \in {"checking", "savings"} THEN "income" ELSE "unknown"

Flow(t, amount, book) ==
  IF book.fixed[t].flow # None THEN book.fixed[t].flow
  ELSE IF book.fact[t[2]].flow # None THEN book.fact[t[2]].flow
  ELSE StructuralFlow(amount, IF t[1] \in book.named THEN Kind ELSE "other")

RowStatus(t, book) ==
  CASE book.fixed[t].deleted -> "ignored"
    [] ~book.fixed[t].deleted ->
         IF book.said[t] \in {"garbled", "undated"} \/ t[1] \notin book.named THEN "needs_review" ELSE "ok"

Day(claim) ==
  CASE claim = "undated" -> None [] claim = "posted" -> 2 [] OTHER -> 1

\* feed.project_one, with _amounts. The account is None when its native has a name.
RowOf(t, book) ==
  LET amount == IF book.said[t] = "garbled" THEN None ELSE book.fact[t[2]].amount
      counts == Flow(t, amount, book) \in SPENDING_FLOWS /\ ~book.fixed[t].deleted /\ amount # None
  IN  [account  |-> IF t[1] \in book.named THEN None ELSE t[1],
       day      |-> Day(book.said[t]),
       amount   |-> amount,
       merchant |-> IF book.fixed[t].merchant # None THEN book.fixed[t].merchant ELSE book.words[t],
       net      |-> IF counts THEN -amount ELSE 0,
       status   |-> RowStatus(t, book)]

Rows(book) == [t \in {u \in Txn : book.said[u] # None} |-> RowOf(t, book)]

\* Mutant: the native itself is in the fingerprint.
Fingerprint_Native(t, row) == <<t[1], row[t].day, row[t].amount, row[t].merchant>>

Fingerprint(t, row) == <<row[t].account, row[t].day, row[t].amount, row[t].merchant>>

\* The first row, in the order mark_duplicates takes them, that looks like that of t.
First(t, row, order) ==
  LET alike == {i \in DOMAIN order : /\ order[i] \in DOMAIN row
                                     /\ Fingerprint(order[i], row) = Fingerprint(t, row)}
  IN  order[Min(alike)]

\* Mutant: whatever looks like a row before it is flagged.
Suspect_Always(t, row, order) ==
  row[t].day # None /\ row[t].amount # None /\ First(t, row, order) # t

Suspect(t, row, order) ==
  row[t].day # None /\ row[t].amount # None /\ First(t, row, order)[1] # t[1]

\* The lines of the workspace (bank_rows): the rows that are not deleted; a receipt's adds nothing.
Left(row) == {t \in DOMAIN row : row[t].status # "ignored"}

\* Its ledger takes no line without a date, and with it the whole workspace is refused.
Builds(row) == \A t \in Left(row) : row[t].day # None

Total(row) == SumFunction([t \in Left(row) |-> row[t].net])
=============================================================================
