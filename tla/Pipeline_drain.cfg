SPECIFICATION EvaluatingSpec
CONSTANTS
  a = a
  u = u
  t1 = t1
  t2 = t2
  c1 = c1
  Events = {a}
  SyncEvents = {}
  TokenEvents = {}
  Tenants = {t1, t2}
  TenantOf <- MCTenantOf
  Strands = {c1}
  StrandOf <- OneStrand
  NumTargets = 1
  MaxConcurrent = 1
  MaxStarts = 1
  DrainMayExpire = TRUE
PROPERTY DrainReturns
CHECK_DEADLOCK FALSE
