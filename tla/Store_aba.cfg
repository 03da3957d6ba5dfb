\* The same correction made again after another: the log keeps only the first.
SPECIFICATION Spec
CONSTANTS
  Blob = {b1}
  Field = {total}
  Header = {total}
  Value = {v1}
  Loop = {web}
  Pool = {}
  Stamp = {1, 2, 3, 4}
  MaxGen = 2
  Faults = {"lock"}
  None = None
CHECK_DEADLOCK FALSE
INVARIANTS LastEditWins
