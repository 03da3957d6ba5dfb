\* Two imports of one folder, with locks and kills: overlapping exports and one
\* that no dialect claims.
CONSTANTS
  march = march
  april = april
  notes = notes
  r1 = r1
  r2 = r2
  r3 = r3
  Path = {f1}
  Export = {march, april, notes}
  Recognised = {march, april}
  Rec = {r1, r2, r3}
  RecordsIn <- Overlapping
  Proc = {p1, p2}
  MaxGen = 2
  Faults = {"lock", "crash"}
  None = None
SPECIFICATION Spec
SYMMETRY Symmetry
INVARIANTS NothingVanishes ArchivedIsRecordedUnlessKilled
