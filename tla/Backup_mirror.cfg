\* One receipt with its correction, two processes that init and back up, one kill.
SPECIFICATION Spec
CONSTANTS
  Photo = {p1}
  Proc = {c1, c2}
  MaxKey = 2
  MaxKill = 1
  None = None
  Cut = Cut
INVARIANTS BackedUpIsWhole MirrorIsClosed EverythingOpens
CHECK_DEADLOCK FALSE
SYMMETRY Processes
