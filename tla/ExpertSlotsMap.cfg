SPECIFICATION Spec
CONSTANTS
  Layers <- TwoLayers
  Experts <- TwoExperts
  Capacity <- TwoCapacity
  InPlace <- FirstOnly
  Threads = {t1}
  Routed = {e1, e2, e3}
INVARIANTS
  MapValidWhileResident
CHECK_DEADLOCK FALSE
