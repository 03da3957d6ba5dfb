\* The server's event loop, the worker and a web handler, alone, under a clock
\* that steps back or beside a thread; one receipt, killed and locked at any
\* point.
SPECIFICATION MCSpec
CONSTANTS
  Blob = {b1}
  Field = {total}
  Header = {total}
  Value = {v1}
  Loop = {worker, web}
  Pool = {thread}
  Stamp = {1, 2, 3, 4}
  MaxGen = 3
  MaxTogether = 6
  MaxStampFew = 3
  MaxGenFew = 2
  Faults = {"lock", "crash", "clock", "requeue", "start"}
  None = None
CHECK_DEADLOCK FALSE
SYMMETRY Symmetry
INVARIANTS NothingDangles ReplayReproducesCache LoopIsFresh LoopKeepsTheLastEdit
PROPERTIES TableSpec UnlockPicksUpEverything
