SPECIFICATION FairSpec
CONSTANTS
  Threads = {p, q}
  MaxAttempts = 3
  MaxVersion = 3
INVARIANTS
  CountExact
PROPERTIES
  CallReturns
