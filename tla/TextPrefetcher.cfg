SPECIFICATION FairSpec
CONSTANTS
  Depth = 2
  Skip = 1
  MaxItems = 2
  Closers = {k1, k2}
INVARIANTS
  ExclusiveWhileQuiesced
  SlotsConserved
  InOrder
  CloseTellsTheTruth
PROPERTIES
  EveryCallReturns
CHECK_DEADLOCK FALSE
