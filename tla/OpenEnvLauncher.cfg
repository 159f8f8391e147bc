SPECIFICATION Spec
CONSTANTS
  Threads = {t1, t2}
  ForkThread = f
  Ports = {p1}
  Children = {c1, c2}
  MaxTrials = 2
  MaxLaunches = 2
INVARIANTS
  AnnouncedIsOurs
  ClaimedIsTracked
SYMMETRY Symmetry
CHECK_DEADLOCK FALSE
