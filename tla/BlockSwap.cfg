SPECIFICATION Spec
CONSTANTS
  N = 3
  Depth = 1
  Sigs = {s1}
  MaxAhead = 2
  Nested = FALSE
INVARIANTS
  EverySlotHasOneHolder
  RightWeights
  SavedKept
  PoolBounded
  StreamsNeverStuck
CHECK_DEADLOCK FALSE
