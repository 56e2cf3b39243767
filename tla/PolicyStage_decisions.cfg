SPECIFICATION Spec
CONSTANTS
  Types = {"A", "B", "C"}
  Priorities = {1, 2}
  RulesToAdd <- SomeRules
  Settings <- SomeSettings
  Contexts <- SomeContexts
  MaxAge = 1
  MaxRules = 3
  MaxPairs = 2
INVARIANTS
  ActiveAreCompatible
  SuppressedForAReason
  TopDecisionFirst
  VerdictOfReported
  BuiltIsResolved
CHECK_DEADLOCK FALSE
