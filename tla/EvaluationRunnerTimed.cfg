SPECIFICATION Spec
CONSTANTS
  One = 2
  None = None
  Runs = {"run"}
  Requests <- MCRequests
  EvaluatorList <- MCEvaluators
  Fixtures <- MCFixtures
  SDKOutcomes <- MCSDKOutcomes
  JudgeOutcomes <- AnyOutcome
  Thresholds <- MCThresholds
  ModelOf <- MCModelOf
  Pricing <- MCPricing
  MaxAttempts = 2
  TimeoutSet = TRUE
INVARIANTS
  TypeOK
  PassedMeansGraded
  UngroundedNeverPasses
  BlankPassesOnlyUnasked
  PartialExactlyOnOutage
  BadKeyOrAnswerIsFinal
  ReportedOutagesReachTheGate
  AdaptersAgree
PROPERTIES
  EveryRunEnds
CHECK_DEADLOCK FALSE
