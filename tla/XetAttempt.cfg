SPECIFICATION FairSpec
CONSTANTS
  StallTimeouts = {1, 3}
  HttpTicks = 2
  ConnectTicks = 2
  CeilingTicks = 3
  Horizon = 3
  MaxBlinks = 1
INVARIANTS
  ResultNotLost
  OwnershipRight
PROPERTIES
  StallIsEarned
  WaiterSpared
  HangsAreCaught
CHECK_DEADLOCK FALSE
