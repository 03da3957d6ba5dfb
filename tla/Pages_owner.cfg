\* A receipt that is read twice and saved twice, from any form that was on the
\* screen; and a ledger of two charges a feed and an export tell of.
SPECIFICATION PagesSpec
CONSTANTS
  Native = {feed, file}
  Export = {file}
  Charge = {c1, c2}
  Kind = "credit"
  Rule <- AllRules
  Text <- AllText
  Readings <- AllReadings
  Typed <- AllTyped
  Worlds <- AllWorlds
  MaxRead = 2
  MaxSave = 2
  MaxFix = 1
  MaxTold = 4
  MaxOdd = 2
  None = None
  Garbage = Garbage
  shop = shop
  cafe = cafe
  bread = bread
  milk = milk
  today = today
  food = food
  other = other
INVARIANTS PagesTypeOK QuietMeansRight AsManyAsThereWere
PROPERTIES SavedIsShown SaveChangesOnlyTheEdit
SYMMETRY Names
CHECK_DEADLOCK FALSE
