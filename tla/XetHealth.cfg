SPECIFICATION FairHealthSpec
CONSTANTS
  Processes = {p1, p2}
  Workers = {w1, w2}
  Keys = {k1}
  Running = {p1}
  MaxOps = 2
INVARIANTS
  StreakExact
  MemoNotOlder
PROPERTIES
  NeverBlocked
CHECK_DEADLOCK FALSE
