SPECIFICATION Spec
CONSTANTS
  Graphs = {g1, g2, g3}
  Layers = 1
  MaxSlots = 3
  Devices = {d1, d2}
  DoubleAllowed = FALSE
  Prefetching = FALSE
  MaxPasses = 2
  MaxAhead = 2
  MaxResets = 0
INVARIANTS
  SafeToReuse
SYMMETRY Symmetry
CHECK_DEADLOCK FALSE
