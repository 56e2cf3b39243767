SPECIFICATION FairSpec
CONSTANTS
  NumEvaluators = 0
  NumInference = 2
  Outcomes <- SomeOutcomes
  Configs <- SomeConfigs
  Threshold = 1
PROPERTY TimeoutEnforced
CHECK_DEADLOCK FALSE
