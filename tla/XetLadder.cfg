SPECIFICATION FairSpec
CONSTANTS
  XetBudget = 2
  HttpBudget = 2
INVARIANTS
  ChargedRightly
  SafeToResume
  ForceHandedBack
  CancelStopsTheLadder
PROPERTIES
  KeepsPromise
  Terminates
CHECK_DEADLOCK FALSE
