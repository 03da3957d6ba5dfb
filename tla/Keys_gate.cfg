\* Two processes that unlock, lock or read, while a deadline passes or a kill happens.
SPECIFICATION Spec
CONSTANTS
  Proc = {p1, p2}
  LockFile = {i1, i2, i3}
  TTL = 2
  MaxNow = 4
  None = None
SYMMETRY Symmetry
INVARIANTS GivenInTime ClosedIsEmpty UnlockOpens
CHECK_DEADLOCK FALSE
