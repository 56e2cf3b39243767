SPECIFICATION FairSpec
CONSTANTS
  Keys = {k1}
  Writers = {w1, w2}
  Flushers = {f1, f2}
  Background = f1
  MaxAttempts = 2
  MaxVersion = 1
  MaxStarts = 2
  WriteMayFail = TRUE
  ScanMayFail = FALSE
INVARIANTS
  TypeOK
  CountExact
  WarmCaughtUp
PROPERTIES
  WarmNeverRegresses
  EventuallyPersisted
CHECK_DEADLOCK FALSE
