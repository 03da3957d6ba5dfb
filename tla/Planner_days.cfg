\* Every way to ask, over some days.
CONSTANTS
  Span = 3
  Overlap = 1
  Backfill = 4
  Budget = 1
  Proc = {p1}
  FirstDay = 0
  LastDay = 4
  LastDayFew = 3
  Ahead = 1
  MaxCalls = 2
  MaxWindows = 3
  MaxWindowsFew = 2
  Faults = {"outage", "since", "backfill", "lock", "evening"}
  None = None
SPECIFICATION MCSpec
INVARIANTS  HolesFirstUnlessLost LearnsUnlessLost BudgetKept
CHECK_DEADLOCK FALSE
