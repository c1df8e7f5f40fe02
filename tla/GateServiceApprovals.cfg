SPECIFICATION Spec
CONSTANTS
  One = 1
  None = None
  t1 = t1
  t2 = t2
  r1 = r1
  r2 = r2
  Requests = {t1, t2}
  Runs = {r1, r2}
  Datasets = {"faq", "rag"}
  Outcomes <- OneOutcome
  Policies <- MCPolicies
  DefaultPolicy <- MCDefaultPolicy
  MaxPolicies = 2
  MaxBaselines = 3
  MaxDecisions = 1
  MaxCrashes = 1
INVARIANTS
  VersionsContiguous
  GateSeesApprovedBaselines
PROPERTIES
  LatestOnlyAdvances
SYMMETRY Symmetry
CHECK_DEADLOCK FALSE
