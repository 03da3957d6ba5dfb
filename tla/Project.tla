------------------------------- MODULE Project ------------------------------
(***************************************************************************)
(* project.py: what a receipt's page shows, as a function of the readings  *)
(* of the model and the corrections of the owner, in the order they were   *)
(* made; and what service.correct records of a form.  The location and the *)
(* currency behave as the merchant does, the subtotal and the tip as the   *)
(* tax, a quantity as the name of its line: they are left out.             *)
(***************************************************************************)
EXTENDS Integers, Sequences, SequencesExt

CONSTANTS Rule,     \* categories.toml: Rule[m], the category of merchant m, or None
          None,     \* no value
          Garbage   \* text that is no amount

TOLERANCE_CENTS == 2

\* money.to_cents, where what it refuses is absence and not zero.
Cents(value) == IF value = Garbage THEN None ELSE value

\* The entries of a sequence at some of its places.
At(s, places) == FlattenSeq([i \in DOMAIN s |-> IF i \in places THEN <<s[i]>> ELSE <<>>])

Blank == [name |-> None, cents |-> None]
Padded(items, n) == items \o [i \in 1..(IF n > Len(items) THEN n - Len(items) ELSE 0) |-> Blank]

\* What a correction says: of a field of the receipt (line 0), or of a line.
Means(c) == IF c.field \in {"total", "tax", "cents"} THEN Cents(c.value) ELSE c.value

AppliedToLines(items, c) ==
  [Padded(items, c.line) EXCEPT ![c.line] = [@ EXCEPT ![c.field] = Means(c)]]

\* Mutant: a line whose name is cleared goes at once, so that the others move up.
Applied_Drops(row, c) ==
  IF c.line = 0 THEN [row EXCEPT ![c.field] = Means(c), !.manual = @ \/ c.field = "category"]
  ELSE IF c.field = "name" /\ c.value = None /\ c.line \in DOMAIN row.items
    THEN [row EXCEPT !.items = RemoveAt(@, c.line)]
  ELSE [row EXCEPT !.items = AppliedToLines(@, c)]

\* One correction, over the lines as the model numbered them.
Applied(row, c) ==
  IF c.line = 0 THEN [row EXCEPT ![c.field] = Means(c), !.manual = @ \/ c.field = "category"]
  ELSE [row EXCEPT !.items = AppliedToLines(@, c)]

Absent == [merchant |-> None, date |-> None, total |-> None, tax |-> None, category |-> None,
           items |-> <<>>, manual |-> FALSE, deleted |-> FALSE]
Successes(readings) == {i \in DOMAIN readings : readings[i] # Garbage}

\* The last reading that succeeded.
Base(readings) ==
  LET ok == Successes(readings)
      e  == readings[Max(ok)]
  IN  IF ok = {} THEN Absent
      ELSE [Absent EXCEPT !.merchant = e.merchant, !.date = e.date, !.category = e.category,
              !.total = Cents(e.total), !.tax = Cents(e.tax),
              !.items = [i \in DOMAIN e.items |-> [e.items[i] EXCEPT !.cents = Cents(@)]]]

Corrected(readings, corrections) == FoldLeft(Applied, Base(readings), corrections)

OrZero(c) == IF c = None THEN 0 ELSE c

AddsUp(row) ==
  LET parts == FoldLeft(LAMBDA sum, i : sum + i.cents, OrZero(row.tax), row.items)
  IN  parts - row.total \in -TOLERANCE_CENTS..TOLERANCE_CENTS

Status(row, readings) ==
  LET parts  == {row.merchant, row.total, row.date}
      priced == \A i \in DOMAIN row.items : row.items[i].cents # None
  IN  CASE parts = {None} /\ readings # <<>> /\ Successes(readings) = {} -> "failed"
        [] parts = {None} /\ ~(readings # <<>> /\ Successes(readings) = {}) -> "pending"
        [] parts # {None} /\ None \in parts -> "needs_review"
        [] None \notin parts ->
             IF row.items # <<>> /\ priced /\ ~AddsUp(row) THEN "needs_review" ELSE "ok"

\* Mutant: lines without a name stay.
Kept_All(items) == items

Kept(items) == At(items, {i \in DOMAIN items : items[i].name # None})

\* project.project: the rules file names the category unless the owner has, and the lines
\* without a name are left out.
Projected(readings, corrections) ==
  LET row   == Corrected(readings, corrections)
      named == ~row.manual /\ row.merchant # None /\ Rule[row.merchant] # None
      shown == [row EXCEPT !.items = Kept(@),
                           !.category = IF named THEN Rule[row.merchant] ELSE @]
  IN  [status |-> Status(shown, readings), row |-> shown]

-----------------------------------------------------------------------------
(* The form of detail.html sends all it shows, edited or not, its lines     *)
(* numbered as they are shown.                                              *)

Header == <<"merchant", "date", "category", "tax", "total">>

Form(row) ==
  [i \in DOMAIN Header |-> [field |-> Header[i], line |-> 0, value |-> row[Header[i]]]]
  \o FlattenSeq([n \in DOMAIN row.items |->
       << [field |-> "name", line |-> n, value |-> row.items[n].name],
          [field |-> "cents", line |-> n, value |-> row.items[n].cents] >>])

\* The form with one field changed, or none: edits has at most one member.
Sent(form, edits) ==
  [i \in DOMAIN form |->
     IF \E e \in edits : e.field = form[i].field /\ e.line = form[i].line
     THEN CHOOSE e \in edits : TRUE ELSE form[i]]

\* service._unchanged: a line never is.
Unchanged(row, c) == c.line = 0 /\ c.value # Garbage /\ row[c.field] = c.value

\* service.correct, of the row as it is when the form arrives.
Recorded(row, sent) == At(sent, {i \in DOMAIN sent : ~Unchanged(row, sent[i])})
=============================================================================
