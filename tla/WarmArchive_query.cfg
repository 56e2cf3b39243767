SPECIFICATION FairSpec
CONSTANTS
  Writers = {p}
  MaxEpoch = 1
  MaxCount = 2
  MaxStarts = 2
  Retention = 0
  WindowCounts = {1, 2}
  Threshold = 2
  DbMayFail = TRUE
CHECK_DEADLOCK FALSE
INVARIANTS
  MovedIntact
  FlagNotMissed
  FlagJustified
PROPERTIES
  OldEpochsLeave
