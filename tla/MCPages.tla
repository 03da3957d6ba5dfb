------------------------------- MODULE MCPages ------------------------------
(* Pages on small instances: what the model answers and the owner types.    *)
EXTENDS Pages, TLC

CONSTANTS shop, cafe, bread, milk, today, food, other

AllText == {None, bread, milk, today, food, other}

AllRules == (shop :> food) @@ (cafe :> None)

Line(name, cents) == [name |-> name, cents |-> cents]

AllReadings ==
  {Garbage,
   [merchant |-> None, date |-> None, total |-> None, tax |-> None, category |-> None, items |-> <<>>],
   [merchant |-> shop, date |-> today, total |-> 9, tax |-> None, category |-> other,
    items |-> <<Line(bread, 4), Line(milk, 5)>>],
   [merchant |-> cafe, date |-> today, total |-> Garbage, tax |-> 1, category |-> other,
    items |-> <<Line(bread, 4), Line(None, None), Line(milk, Garbage)>>]}

AllTyped ==
  [merchant |-> {None, cafe}, date |-> {None}, total |-> {None, Garbage}, tax |-> {1}, category |-> {None, food},
   name |-> {None, bread}, cents |-> {Garbage}]

Coffee  == [amount |-> -3, flow |-> None, spent |-> 3]
Refund  == [amount |-> 2, flow |-> None, spent |-> -2]
Payment == [amount |-> 5, flow |-> "payment", spent |-> 0]

AllWorlds == {w \in [Charge -> {Coffee, Refund, Payment}] : \E c \in Charge : w[c] = Coffee}

Names == Permutations(Charge)
=============================================================================
