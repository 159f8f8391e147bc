SPECIFICATION FairSpec
CONSTANTS
  Processes = {p1, p2, p3}
  Savers = {p1, p2, p3}
  Unlocked = {p3}
  Running = {p1}
  Models = {m1}
  Artifacts <- SomeArtifacts
  MaxOps = 4
  MaxCrashes = 1
INVARIANTS
  PairConsistent
  NothingOfThisRunLost
PROPERTIES
  NeverNarrows
  MissNeedsTwoSaves
  CallsReturn
CHECK_DEADLOCK FALSE
