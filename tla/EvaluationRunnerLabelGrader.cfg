SPECIFICATION Spec
CONSTANTS
  One = 2
  None = None
  Runs = {"run"}
  Requests <- OneLabel
  EvaluatorList <- MCEvaluators
  Fixtures <- MCFixtures
  SDKOutcomes <- MCSDKOutcomes
  JudgeOutcomes <- AnyOutcome
  Thresholds <- MCThresholds
  ModelOf <- MCModelOf
  Pricing <- MCPricing
  MaxAttempts = 2
  TimeoutSet = TRUE
INVARIANTS
  OutagesReachTheGate
CHECK_DEADLOCK FALSE
