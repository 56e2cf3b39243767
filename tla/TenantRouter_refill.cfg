SPECIFICATION Spec
CONSTANTS
  NumCells = 8
  CellsPerTenant = 2
  Draws <- DrawsOf8
  RepeatFrom = 9
  Threads = {p}
  Capacity = 1
  TokensPerSecond = 1
  MaxConcurrent = 1
  Scale = 2
  TicksPerSecond = 4
  Word = 16
  MaxClock = 5
INVARIANT RefilledAfterInterval
