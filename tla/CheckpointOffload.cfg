SPECIFICATION Spec
CONSTANTS
  Graphs = {g1, g2}
  Layers = 3
  MaxSlots = 6
  Devices = {d1}
  DoubleAllowed = TRUE
  Prefetching = TRUE
  MaxPasses = 2
  MaxAhead = 2
  MaxResets = 1
INVARIANTS
  RecomputeReadsItsInput
  ReadersApart
  NoSlotLost
PROPERTIES
  GrowsWhenNeeded
SYMMETRY Symmetry
CHECK_DEADLOCK FALSE
