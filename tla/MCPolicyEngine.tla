---------------------------- MODULE MCPolicyEngine ----------------------------
(***************************************************************************)
(* A dataset of two cases, the first critical, graded on a scale of three  *)
(* scores by an exact match, a judge and the latency evaluator, or, in a   *)
(* run restricted to the judge's framework, by the judge alone.  Five      *)
(* policies.                                                               *)
(***************************************************************************)
EXTENDS PolicyEngineLaws, TLC

MCCases == {"c1", "c2"}

\* What evaluator "e1" (metric "exact") and "e2" (metric "faithful") can return.
Exact    == {ScoredResult("exact", s, 2) : s \in {0, 2}}
Faithful == {ScoredResult("faithful", s, 1) : s \in {0, 1, 2}}
              \cup {SkippedResult("faithful"), InfrastructureFailure("faithful")}

MCSelections == {"all", "judge"}

\* What the evaluators of a selection return for a case of this latency.
Graded(s, critical, judge, latency_ms) ==
  GradedCase(critical,
             IF s = "judge" THEN judge ELSE [e3 |-> LatencyResult(latency_ms, 5)] @@ judge,
             latency_ms, latency_ms)

\* Outcomes that only a run with every framework can have.
IfAll(s, outcomes) == IF s = "all" THEN outcomes ELSE {}

MCCaseOutcomes ==
  [s \in MCSelections |-> [c \in MCCases |->
     IF c = "c1"
       THEN {Graded(s, TRUE, [e2 |-> f], 1) : f \in Faithful}
              \cup IfAll(s, {Graded(s, TRUE, [e1 |-> x, e2 |-> f], 1) :
                               x \in Exact, f \in Faithful})
              \cup {ErroredCase(TRUE, 3, 0), CrashedCase(TRUE)}
       ELSE {Graded(s, FALSE, [e2 |-> f], 1) : f \in Faithful}
              \cup IfAll(s, {Graded(s, FALSE, [e2 |-> ScoredResult("faithful", q, 1)], 4) :
                               q \in 0 .. 2})]]

Require(m, min, missing, infra) ==
  [metric_name |-> m, min_score |-> min, on_missing |-> missing,
   on_infrastructure_failure |-> infra]

DefaultPolicy ==
  [required_metrics |-> <<>>, min_pass_rate |-> One, critical_case_action |-> "block",
   max_regression_tolerance |-> 0, regression_action |-> "block",
   latency_budget_ms |-> None, latency_budget_action |-> "warn",
   cost_budget_usd |-> None, cost_budget_action |-> "warn"]

Strict ==
  [DefaultPolicy EXCEPT
     !.required_metrics = <<Require("faithful", 2, "block", "block"),
                            Require("exact", 1, "block", "block")>>,
     !.latency_budget_ms = 2, !.latency_budget_action = "block", !.cost_budget_usd = 4]

Relaxed ==
  [DefaultPolicy EXCEPT
     !.required_metrics = <<Require("faithful", 1, "warn", "ignore")>>,
     !.min_pass_rate = 1, !.critical_case_action = "warn",
     !.max_regression_tolerance = 1, !.regression_action = "warn",
     !.latency_budget_ms = 2, !.cost_budget_usd = 5]

\* A metric required twice, and a floor of zero: only the requirements decide.
TwiceRequired ==
  [Relaxed EXCEPT
     !.required_metrics = <<Require("faithful", None, "block", "block"),
                            Require("faithful", 1, "ignore", "warn")>>,
     !.min_pass_rate = 0, !.max_regression_tolerance = 0]

Rollout == [Relaxed EXCEPT !.required_metrics = <<>>, !.min_pass_rate = 0]

MCPolicies == {DefaultPolicy, Strict, Relaxed, TwiceRequired, Rollout}

=============================================================================
