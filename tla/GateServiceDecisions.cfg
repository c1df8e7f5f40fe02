SPECIFICATION ReportSpec
CONSTANTS
  One = 1
  None = None
  t1 = t1
  t2 = t2
  r1 = r1
  r2 = r2
  Requests = {t1, t2}
  Runs = {r1, r2}
  Datasets = {"faq"}
  Outcomes <- MCOutcomes
  Policies <- MCPolicies
  DefaultPolicy <- MCDefaultPolicy
  MaxPolicies = 2
  MaxBaselines = 2
  MaxDecisions = 1
  MaxCrashes = 1
INVARIANTS
  TypeOK
  SettledRunsAreComplete
  ReportsAgree
PROPERTIES
  ImplementsLedger
SYMMETRY Symmetry
CHECK_DEADLOCK FALSE
