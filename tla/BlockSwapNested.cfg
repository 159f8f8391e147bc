SPECIFICATION Spec
CONSTANTS
  N = 3
  Depth = 1
  Sigs = {s1}
  MaxAhead = 1
  Nested = TRUE
INVARIANTS
  PendingNeverReused
CHECK_DEADLOCK FALSE
