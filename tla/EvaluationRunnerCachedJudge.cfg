SPECIFICATION Spec
CONSTANTS
  One = 2
  None = None
  Runs = {"run"}
  Requests <- OneRubric
  EvaluatorList <- MCEvaluators
  Fixtures <- MCFixtures
  SDKOutcomes <- MCSDKOutcomes
  JudgeOutcomes <- FirstIsBetter
  Thresholds <- MCThresholds
  ModelOf <- MCModelOf
  Pricing <- MCPricing
  MaxAttempts = 2
  TimeoutSet = TRUE
INVARIANTS
  ScoresAreOfTheirCase
CHECK_DEADLOCK FALSE
