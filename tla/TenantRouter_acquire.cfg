SPECIFICATION FairSpec
CONSTANTS
  NumCells = 8
  CellsPerTenant = 7
  Draws <- DrawsOf8
  RepeatFrom = 9
  Threads = {p, q}
  Capacity = 2
  TokensPerSecond = 2
  MaxConcurrent = 1
  Scale = 2
  TicksPerSecond = 4
  Word = 16
  MaxClock = 4
INVARIANTS
  TypeOK
  GrantsWithinBudget
  HoldersWithinCap
  SlotsExact
  ShardExact
PROPERTIES
  RefillTimeAdvances
  TryAcquireDecides
