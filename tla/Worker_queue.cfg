\* Three receipts, the second of which may be unreadable.
SPECIFICATION Spec
CONSTANTS
  MaxId = 3
  Hopeless = {2}
  Idle = 1
  FirstBackoff = 2
  MaxBackoff = 3
  Nothing = Nothing
INVARIANTS NudgeIsNotLost
PROPERTY QueueDrains
CHECK_DEADLOCK FALSE
