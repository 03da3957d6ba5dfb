-------------------------------- MODULE Pages -------------------------------
(***************************************************************************)
(* What the owner does to the pages: reads, corrects and deletes a receipt *)
(* while the model reads it again; names accounts and corrects the rows of *)
(* the ledger while sources report them.  Store and Feeds have how that is *)
(* written and replayed, by whom and in which order; here every command    *)
(* runs to its end, and what is at stake is what it means (Project,        *)
(* FeedProject).  A receipt and the ledger share nothing, so a behaviour   *)
(* is about one of them.                                                   *)
(***************************************************************************)
EXTENDS FeedProject

CONSTANTS Text,     \* what a date, a category or the name of a line may be
          Readings, \* what the model may answer: records, or Garbage for a failure
          Typed,    \* Typed[f]: what the owner may type in field f
          Worlds,   \* what the charges may be: of each its amount, its flow, and what was spent
          MaxRead, MaxSave, MaxFix, \* bounds: readings, forms sent, corrections of the ledger,
          MaxTold, MaxOdd           \* transactions told of, and those told of otherwise than usual

Merchant == DOMAIN Rule \cup {None}
Amount == Int \cup {None, Garbage}
Reading == [merchant : Merchant, date : Text, total : Amount, tax : Amount, category : Text,
            items : Seq([name : Text, cents : Amount])]

\* Which fields are amounts and which are not (ReceiptData, LineItem): only an amount may be
\* Garbage, since only amounts are parsed.
ASSUME TextAssumption ==
  /\ None \in Text /\ Garbage \notin Text \cup Int
  /\ \A m \in DOMAIN Rule : Rule[m] \in Text
  /\ Readings \subseteq Reading \cup {Garbage}
  /\ Typed.merchant \subseteq Merchant
  /\ Typed.date \subseteq Text /\ Typed.category \subseteq Text /\ Typed.name \subseteq Text
  /\ Typed.total \subseteq Amount /\ Typed.tax \subseteq Amount /\ Typed.cents \subseteq Amount

ASSUME PagesAssumption ==
  /\ IsFiniteSet(Native) /\ IsFiniteSet(Charge)
  /\ None \notin Native \cup Charge
  /\ None \notin Int
  /\ None \notin SPENDING_FLOWS \cup {"transfer"}
  /\ MaxRead \in Nat /\ MaxSave \in Nat /\ MaxFix \in Nat /\ MaxTold \in Nat /\ MaxOdd \in Nat

\* What was spent is what left the account, or came back to a card, unless the description
\* says what it was: flows.toml knows each charge for what it is.
ASSUME WorldsAssumption ==
  \A w \in Worlds : \A c \in Charge :
    /\ w[c].amount \in Int
    /\ w[c].spent = IF \/ w[c].flow \in SPENDING_FLOWS
                       \/ w[c].flow = None /\ (w[c].amount < 0 \/ Kind = "credit")
                    THEN -w[c].amount ELSE 0

VARIABLES
  about,        \* "receipt" or "ledger"
  readings, corrections,  \* of the receipt, oldest first
  shown,        \* its row and status in the cache, projected again by each command
  form,         \* the row that is on the owner's screen, or None
  edited,       \* history: the edit of the last form sent, if there was one
  saves, fixes, \* how many forms were sent, how many rows of the ledger corrected
  book          \* the ledger

receipt == <<readings, corrections, shown, form, edited, saves>>
ledger == <<fixes, book>>
pages == <<about, receipt, ledger>>

Unfixed == [flow |-> None, merchant |-> None, deleted |-> FALSE]
Fix == {<<"flow", "transfer">>, <<"flow", "spend">>, <<"merchant", "other">>, <<"deleted", TRUE>>}

Amounts(row) == {row.total, row.tax} \cup {i.cents : i \in Range(row.items)}

PagesTypeOK ==
  /\ about \in {"receipt", "ledger"}
  /\ readings \in Seq(Readings)
  /\ shown.status \in {"failed", "pending", "needs_review", "ok"}
  /\ shown.row.merchant \in DOMAIN Rule \cup {None}
  /\ Amounts(shown.row) \subseteq Int \cup {None}
  /\ \A i \in Range(shown.row.items) : i.name # None
  /\ form # None => DOMAIN form = DOMAIN shown.row
  /\ saves \in 0..MaxSave
  /\ fixes \in 0..MaxFix
  /\ book.said \in [Txn -> Claim \cup {None}]
  /\ book.words \in [Txn -> Words]
  /\ book.named \subseteq Native

PagesInit ==
  /\ about \in {"receipt", "ledger"}
  /\ readings = <<>>
  /\ corrections = <<>>
  /\ shown = Projected(readings, corrections)
  /\ form = None
  /\ edited = {}
  /\ saves = 0
  /\ fixes = 0
  /\ \E fact \in Worlds :
       book = [fact |-> fact, named |-> {}, said |-> [t \in Txn |-> None],
               words |-> [t \in Txn |-> None], fixed |-> [t \in Txn |-> Unfixed]]

-----------------------------------------------------------------------------
(* The receipt. *)

\* service.reproject.
Reproject == shown' = Projected(readings', corrections')

\* service.extract_one, up to what its page shows.
Read(e) ==
  /\ about = "receipt"
  /\ Len(readings) < MaxRead
  /\ readings' = Append(readings, e)
  /\ UNCHANGED <<about, corrections, form, edited, saves, ledger>>
  /\ Reproject

\* GET /r/<id>.
Open ==
  /\ about = "receipt"
  /\ form' = shown.row
  /\ UNCHANGED <<about, readings, corrections, shown, edited, saves, ledger>>

\* The ways to edit the form: one field, or none.
Edits(row) ==
  {{}} \cup UNION {{{[c EXCEPT !.value = v]} : v \in Typed[c.field]} : c \in Range(Form(row))}

Offered == IF form = None THEN {} ELSE Edits(form)

\* Mutant: what is as it was on the screen is dropped.
Saved_Screen(edits) == corrections \o Recorded(form, Sent(Form(form), edits))

Saved(edits) == corrections \o Recorded(shown.row, Sent(Form(form), edits))

\* POST /r/<id>/correct, and the page it redirects to.
Save(edits) ==
  /\ about = "receipt"
  /\ saves < MaxSave
  /\ saves' = saves + 1
  /\ corrections' = Saved(edits)
  /\ edited' = edits
  /\ UNCHANGED <<about, readings, ledger>>
  /\ Reproject
  /\ form' = shown'.row

\* POST /r/<id>/delete, and back to the list.
Delete ==
  /\ about = "receipt"
  /\ ~shown.row.deleted  \* bound: a second time would say the same again
  /\ corrections' = Append(corrections, [field |-> "deleted", line |-> 0, value |-> TRUE])
  /\ form' = None
  /\ UNCHANGED <<about, readings, edited, saves, ledger>>
  /\ Reproject

-----------------------------------------------------------------------------
(* The ledger, up to the last correction of it: a book keeps the newest of  *)
(* each thing, so that what came before what makes no other books.          *)

\* A source tells of a charge, for the first time or once more: a feed under the bank's id,
\* an export under the one that is made of what it says.
Observe(n, c, claim, words) ==
  /\ about = "ledger"
  /\ fixes < MaxFix
  /\ LET t == Key(n, c, claim, words)
         said == [book.said EXCEPT ![t] = claim]
         called == [book.words EXCEPT ![t] = words]
         told == {u \in Txn : said[u] # None}
     IN  /\ Cardinality(told) <= MaxTold
         /\ Cardinality({u \in told : <<said[u], called[u]>> # <<"bought", None>>}) <= MaxOdd
         /\ book' = [book EXCEPT !.said = said, !.words = called]
  /\ UNCHANGED <<about, receipt, fixes>>

\* A native is added to accounts.toml, and the cache is rebuilt.
Name(n) ==
  /\ about = "ledger"
  /\ fixes < MaxFix
  /\ book' = [book EXCEPT !.named = @ \cup {n}]
  /\ UNCHANGED <<about, receipt, fixes>>

\* service.correct_feed, of one field.
CorrectFeed(t, fix) ==
  /\ about = "ledger"
  /\ fixes < MaxFix
  /\ fixes' = fixes + 1
  /\ book.said[t] # None
  /\ book' = [book EXCEPT !.fixed[t][fix[1]] = fix[2]]
  /\ UNCHANGED <<about, receipt>>

PagesNext ==
  \/ \E e \in Readings : Read(e)
  \/ Open
  \/ \E edits \in Offered : Save(edits)
  \/ Delete
  \/ \E n \in Native, c \in Charge, claim \in Claim, words \in Words : Observe(n, c, claim, words)
  \/ \E n \in Native : Name(n)
  \/ \E t \in Txn, fix \in Fix : CorrectFeed(t, fix)

PagesSpec == PagesInit /\ [][PagesNext]_pages

-----------------------------------------------------------------------------
(***************************************************************************)
(* What the owner saw and sent is what the page shows afterwards, even if  *)
(* the model has read the receipt again meanwhile and the row they saw is  *)
(* gone (service.correct compares with the row that is there, not with the *)
(* one on the screen).  A category is excepted, which may follow the       *)
(* merchant.                                                               *)
(***************************************************************************)
SavedIsShown ==
  [][saves' # saves =>
       \A c \in Range(Sent(Form(form), edited')) :
         c.line = 0 /\ c.field # "category" => shown'.row[c.field] = Means(c)]_pages

\* The lines of the row as the model numbered them, before the nameless ones are left out.
NumberedAsShown == Corrected(readings, corrections).items = shown.row.items

\* The row with the edit, and nothing else.
Edited(row, e) ==
  IF e.line = 0 THEN [row EXCEPT ![e.field] = Means(e), !.manual = @ \/ e.field = "category"]
  ELSE IF e.field = "name" /\ e.value = None THEN [row EXCEPT !.items = RemoveAt(@, e.line)]
  ELSE [row EXCEPT !.items = [@ EXCEPT ![e.line][e.field] = Means(e)]]

(***************************************************************************)
(* A form that is as the row is and is sent with one field edited changes  *)
(* that field, one that is not edited changes nothing (service.correct):   *)
(* though every line goes to the log each time, by its number, the lines   *)
(* stay what and where they are, and the rules keep the category until the *)
(* owner sets it.  Excepted are receipts one line of which has no name: it *)
(* is not shown, and those after it are sent under other numbers.          *)
(***************************************************************************)
SaveChangesOnlyTheEdit ==
  [][saves' # saves /\ form = shown.row /\ NumberedAsShown =>
       LET changes == {e \in edited' : e \notin Range(Form(form))}
           row == IF changes = {} THEN form ELSE Edited(form, CHOOSE e \in changes : TRUE)
       IN  shown'.row = [row EXCEPT !.category =
             IF row.manual \/ row.merchant = form.merchant THEN @ ELSE shown'.row.category]]_pages

-----------------------------------------------------------------------------
TheRows == Rows(book)

\* The orders the rows may have by txn_key, which is a digest.
Orders == SetToSeqs(DOMAIN TheRows)

\* Told of as most natives do, and not corrected in what the flag looks at.
Clean(t) ==
  /\ book.said[t] = "bought" /\ book.words[t] = None
  /\ t[1] \in book.named /\ book.fixed[t].merchant = None

\* What was spent on charge c, as far as the owner says of the rows that are left.
Spent(c) ==
  LET flows == {book.fixed[t].flow : t \in {u \in Left(TheRows) : u[2] = c}}
  IN  IF flows = {} \/ "transfer" \in flows THEN 0
      ELSE IF "spend" \in flows THEN -book.fact[c].amount
      ELSE book.fact[c].spent

\* The pairs that the flag sees: two natives tell of a charge, under one day and one merchant.
Alike(t, u) == t[1] # u[1] /\ TheRows[t].day = TheRows[u].day /\ TheRows[t].merchant = TheRows[u].merchant

(***************************************************************************)
(* When no row that is left in asks to be looked at, the workspace can be  *)
(* built: no row without a date is in its way (workspace.BANK_COLUMNS).    *)
(* When none is flagged either, whatever the order of the keys, its sum is *)
(* what was spent: no charge counts twice because two natives tell of it,  *)
(* none is missing because its account has no name or its amount does not  *)
(* parse, payments and refunds count as what they are (feed.project_one,   *)
(* mark_duplicates).  Of the sum, the charges are excepted two rows of     *)
(* which the flag does not see as one: natives that date it by different   *)
(* days or call it by different names, a merchant that was corrected in    *)
(* one of them, and an export that told it twice, because it restated it   *)
(* and so made it a new id (drop._synthesise_ids says the flag is for      *)
(* that, but two rows of one native are never flagged).                    *)
(***************************************************************************)
QuietMeansRight ==
  LET row == TheRows
      settled == \A t \in Left(row) : row[t].status # "needs_review"
      alike == \A t, u \in Left(row) : t # u /\ t[2] = u[2] => Alike(t, u)
  IN  /\ settled => Builds(row)
      /\ settled /\ alike =>
           \A order \in Orders :
             (\A t \in Left(row) : ~Suspect(t, row, order)) =>
               Total(row) = SumFunction([c \in Charge |-> Spent(c)])

(***************************************************************************)
(* Of equal charges on one day exactly as many rows stay without a flag as *)
(* there were charges, whatever the order of their keys, when every native *)
(* that tells of one of them tells of them all, and they all call them     *)
(* alike (feed.mark_duplicates): two coffees of one feed are two, and a    *)
(* reconnect or an import does not make them four.                         *)
(***************************************************************************)
AsManyAsThereWere ==
  LET row == TheRows IN
  \A c \in Charge :
    LET equal == {d \in Charge : book.fact[d].amount = book.fact[c].amount}
        told  == {t \in DOMAIN row : t[2] \in equal}
    IN  /\ told # {} /\ \A t \in told : Clean(t)
        /\ \A t \in told, d \in equal : <<t[1], d, t[3]>> \in told
        => \A order \in Orders : Cardinality({t \in told : ~Suspect(t, row, order)}) = Cardinality(equal)
=============================================================================
