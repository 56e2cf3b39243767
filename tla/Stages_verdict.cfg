SPECIFICATION FairSpec
CONSTANTS
  NumEvaluators = 2
  NumInference = 2
  Outcomes <- SomeOutcomes
  Configs <- SomeConfigs
  Threshold = 1
INVARIANTS
  DegradedExact
  FailClosedBlocks
  OwnResult
PROPERTY TimeoutEnforcedAtFirst
CHECK_DEADLOCK FALSE
