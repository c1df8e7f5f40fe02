---------------------------- MODULE MCGateService ----------------------------
(***************************************************************************)
(* Two request threads, two runs of one or two datasets, two outcomes (a   *)
(* critical case that passes with a full score, or fails with none), and   *)
(* a lenient policy beside the default one.  Where only the versions of    *)
(* baselines matter one outcome is enough.                                 *)
(***************************************************************************)
EXTENDS GateService, TLC

CONSTANTS t1, t2, r1, r2

Case(score) == [c \in {"c1"} |-> GradedCase(TRUE, [e \in {"e1"} |->
                                   ScoredResult("exact", score, One)], 1, 0)]

MCOutcomes == {Case(One), Case(0)}
OneOutcome == {Case(One)}

MCDefaultPolicy ==
  [required_metrics |-> <<>>, min_pass_rate |-> One, critical_case_action |-> "block",
   max_regression_tolerance |-> 0, regression_action |-> "block",
   latency_budget_ms |-> None, latency_budget_action |-> "warn",
   cost_budget_usd |-> None, cost_budget_action |-> "warn"]

Lenient ==
  [MCDefaultPolicy EXCEPT !.min_pass_rate = 0, !.critical_case_action = "warn",
                          !.regression_action = "warn"]

MCPolicies == {MCDefaultPolicy, Lenient}

Symmetry == Permutations({t1, t2}) \cup Permutations({r1, r2})
=============================================================================
