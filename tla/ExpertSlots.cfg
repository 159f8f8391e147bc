SPECIFICATION Spec
CONSTANTS
  Layers <- ThreeLayers
  Experts <- MixedExperts
  Capacity <- MixedCapacity
  InPlace <- FirstTwo
  Threads = {t1, t2}
  Routed = {e1, e2, e3}
INVARIANTS
  WeightsRight
  PendingStillRight
  TableComplete
  TwoTables
CONSTRAINTS StopWhenBroken FewLoose
SYMMETRY Symmetry
CHECK_DEADLOCK FALSE
