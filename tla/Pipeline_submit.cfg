SPECIFICATION FairSpec
CONSTANTS
  a = a
  u = u
  t1 = t1
  t2 = t2
  c1 = c1
  Events = {a, u}
  SyncEvents = {u}
  TokenEvents = {u}
  Tenants = {t1, t2}
  TenantOf <- MCTenantOf
  Strands = {c1}
  StrandOf <- OneStrand
  NumTargets = 2
  MaxConcurrent = 1
  MaxStarts = 2
  DrainMayExpire = TRUE
INVARIANTS
  TypeOK
  ErrorMeansNoEmission
  InFlightExact
  StoppedMeansQuiet
PROPERTIES
  DrainWaitsForAccepted
  ImplementsOutcome
  SubmitSyncReturns
  ReturnedDecisionIsEmitted
  DecidedGivesBack
CHECK_DEADLOCK FALSE
