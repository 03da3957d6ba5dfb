\* Two processes that lock, rebuild and are killed: a transaction, its
\* correction and a balance by commands in turn, with payloads that differ
\* where content_sha does not look; a transaction alone by commands at once.
CONSTANTS
  Txn = {t1}
  Account = {a1}
  Content = {A, B}
  Raw = {w1, w2}
  Proc = {p1, p2}
  MaxStamp = 3
  MaxGen = 3
  Faults = {"edit", "lock", "crash", "rebuild"}
  None = None
SPECIFICATION MCSpec
SYMMETRY Symmetry
INVARIANTS ReplayReproducesClaims NewestClaimUnlessRepeated ProjectionIsFreshUnlessStale
PROPERTY UnlockPicksUpEverything
CHECK_DEADLOCK FALSE
