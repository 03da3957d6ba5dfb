\* Two processes, three pages for a budget of one, a lock and a kill.
SPECIFICATION RuntimeSpec
CONSTANTS
  Actor = {w, x}
  Receipt = {r1, r2, r3}
  Budget = 1
  MaxLock = 1
  MaxKill = 1
  Nothing = Nothing
INVARIANTS RuntimeTypeOK WorkspaceIsWhole WorkspaceStays LeftIsLate PagesAreWhole CacheIsBounded
SYMMETRY Names
