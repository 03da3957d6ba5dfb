\* An outage longer than the widest window, and nightly syncs after it.
CONSTANTS
  Span = 3
  Overlap = 1
  Backfill = 4
  Budget = 1
  Proc = {p1}
  FirstDay = 0
  LastDay = 8
  Ahead = 2
  MaxCalls = 1
  MaxWindows = 4
  Faults = {"outage"}
  None = None
SPECIFICATION Spec
INVARIANT Learns
CHECK_DEADLOCK FALSE
