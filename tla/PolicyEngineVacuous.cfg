SPECIFICATION Spec
CONSTANTS
  One = 2
  None = None
  Cases <- MCCases
  Selections <- MCSelections
  CaseOutcomes <- MCCaseOutcomes
  Policies <- MCPolicies
INVARIANTS
  NoVacuousPass
