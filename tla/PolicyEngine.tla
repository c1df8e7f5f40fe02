----------------------------- MODULE PolicyEngine -----------------------------
(***************************************************************************)
(* PolicyEngine.decide (backend/app/policy/engine.py): the only place where *)
(* PASS / WARN / BLOCK is computed.  A pure function of the case results   *)
(* of a run, a release policy and, if one is approved, the baseline of the *)
(* dataset.                                                                *)
(*                                                                         *)
(* The code collects two lists, blocking_reasons and warning_reasons.      *)
(* Here they are one set of reasons, each with the action it was filed     *)
(* under; a reason whose action is "ignore" is not recorded.               *)
(***************************************************************************)
EXTENDS EvaluationResults, Sequences

GateStatus == {"pass", "warn", "block"}

(***************************************************************************)
(* ReleasePolicy: a budget or a minimum that is None is not enforced.      *)
(***************************************************************************)
Action == {"block", "warn", "ignore"}

RequiredMetricPolicy ==
  [metric_name : STRING, min_score : 0 .. One \cup {None},
   on_missing : Action, on_infrastructure_failure : Action]

ReleasePolicy ==
  [required_metrics : Seq(RequiredMetricPolicy),
   min_pass_rate : 0 .. One,
   critical_case_action : {"block", "warn"},
   max_regression_tolerance : 0 .. One,
   regression_action : {"block", "warn"},
   latency_budget_ms : Nat \cup {None}, latency_budget_action : {"block", "warn"},
   cost_budget_usd : Nat \cup {None}, cost_budget_action : {"block", "warn"}]

Reason(kind, metric, action) == [kind |-> kind, metric |-> metric, action |-> action]

When(condition, kind, metric, action) ==
  IF condition /\ action # "ignore" THEN {Reason(kind, metric, action)} ELSE {}

(***************************************************************************)
(* The snapshot approve_baseline takes of a run.                           *)
(***************************************************************************)
Snapshot(results) ==
  [pass_rate         |-> pass_rate_for_run(results),
   aggregate_metrics |-> aggregate_metrics_for_run(results)]

-----------------------------------------------------------------------------
(***************************************************************************)
(* The checks, in the order of the code.                                   *)
(***************************************************************************)
VacuousPassGuard(results) ==
  When(results # NoResults /\ AllInstances(results) = {}, "vacuous", None, "block")

CriticalCaseCheck(results, policy) ==
  When(critical_failures(results) # {}, "critical", None, policy.critical_case_action)

\* Variant: "missing" means that no result of the metric is present at all, so
\* a metric that was only skipped is not missing.
check_required_metric_present(required, results) ==
  LET m         == required.metric_name
      infra     == WithStatus(results, m, "infrastructure_error") # {}
      aggregate == aggregate_metrics_for_run(results)
      below     == /\ required.min_score # None
                   /\ m \in DOMAIN aggregate
                   /\ Below(aggregate[m], required.min_score)
  IN  IF Instances(results, m) = {}
        THEN When(TRUE, "missing", m, required.on_missing)
        ELSE When(infra, "infrastructure", m, required.on_infrastructure_failure)
               \cup When(below, "below_minimum", m, "block")

\* Variant: a failure of the judge ends the check, whatever the other cases scored.
check_required_metric_or_failure(required, results) ==
  LET m         == required.metric_name
      scored    == WithStatus(results, m, "scored") # {}
      infra     == WithStatus(results, m, "infrastructure_error") # {}
      aggregate == aggregate_metrics_for_run(results)
      below     == /\ required.min_score # None
                   /\ m \in DOMAIN aggregate
                   /\ Below(aggregate[m], required.min_score)
  IN  IF ~scored /\ ~infra
        THEN When(TRUE, "missing", m, required.on_missing)
      ELSE IF infra THEN When(TRUE, "infrastructure", m, required.on_infrastructure_failure)
      ELSE When(below, "below_minimum", m, "block")

check_required_metric(required, results) ==
  LET m         == required.metric_name
      scored    == WithStatus(results, m, "scored") # {}
      infra     == WithStatus(results, m, "infrastructure_error") # {}
      aggregate == aggregate_metrics_for_run(results)
      below     == /\ required.min_score # None
                   /\ m \in DOMAIN aggregate
                   /\ Below(aggregate[m], required.min_score)
  IN  IF ~scored /\ ~infra
        THEN When(TRUE, "missing", m, required.on_missing)
        ELSE When(infra, "infrastructure", m, required.on_infrastructure_failure)
               \cup When(below, "below_minimum", m, "block")

RequiredMetricsCheck(results, policy) ==
  UNION {check_required_metric(policy.required_metrics[i], results) :
           i \in DOMAIN policy.required_metrics}

PassRateCheck(results, policy) ==
  When(Below(pass_rate_for_run(results), policy.min_pass_rate), "pass_rate", None, "block")

BudgetCheck(results, policy) ==
  LET over_latency == /\ policy.latency_budget_ms # None
                      /\ results # NoResults
                      /\ Total([c \in DOMAIN results |-> results[c].latency_ms])
                           > policy.latency_budget_ms * Cardinality(DOMAIN results)
      over_cost    == /\ policy.cost_budget_usd # None
                      /\ results # NoResults
                      /\ Total([c \in DOMAIN results |-> results[c].estimated_cost])
                           > policy.cost_budget_usd
  IN  When(over_latency, "latency", None, policy.latency_budget_action)
        \cup When(over_cost, "cost", None, policy.cost_budget_action)

-----------------------------------------------------------------------------
(***************************************************************************)
(* Comparison with the baseline.  Only metrics that both sides scored are  *)
(* compared.  A required metric listed twice keeps its last threshold.     *)
(***************************************************************************)
SharedMetrics(results, baseline) ==
  DOMAIN aggregate_metrics_for_run(results) \cap DOMAIN baseline.aggregate_metrics

Threshold(policy, m) ==
  LET listed == {i \in DOMAIN policy.required_metrics :
                   /\ policy.required_metrics[i].metric_name = m
                   /\ policy.required_metrics[i].min_score # None}
  IN  IF listed = {} THEN None ELSE policy.required_metrics[Max(listed)].min_score

MetricDelta(results, baseline, m) ==
  Delta(aggregate_metrics_for_run(results)[m], baseline.aggregate_metrics[m])

PassRateDelta(results, baseline) ==
  Delta(pass_rate_for_run(results), baseline.pass_rate)

RegressionReasons(results, policy, baseline) ==
  LET tolerance == policy.max_regression_tolerance
      action    == policy.regression_action
  IN  When(FellBy(PassRateDelta(results, baseline), tolerance),
           "pass_rate_regression", None, action)
        \cup UNION {When(FellBy(MetricDelta(results, baseline, m), tolerance),
                         "metric_regression", m, action) :
                      m \in SharedMetrics(results, baseline)}

compare_to_baseline(results, policy, baseline) ==
  LET shared      == SharedMetrics(results, baseline)
      Passes(q, m) == Threshold(policy, m) # None /\ ~Below(q, Threshold(policy, m))
      Misses(q, m) == Threshold(policy, m) # None /\ Below(q, Threshold(policy, m))
      now         == aggregate_metrics_for_run(results)
      before      == baseline.aggregate_metrics
  IN  [pass_rate_delta    |-> PassRateDelta(results, baseline),
       metric_deltas      |-> [m \in shared |-> MetricDelta(results, baseline, m)],
       new_failures       |-> {m \in shared : Passes(before[m], m) /\ Misses(now[m], m)},
       recovered_failures |-> {m \in shared : Misses(before[m], m) /\ Passes(now[m], m)}]

-----------------------------------------------------------------------------
reasons(results, policy, baseline) ==
  VacuousPassGuard(results)
    \cup CriticalCaseCheck(results, policy)
    \cup RequiredMetricsCheck(results, policy)
    \cup PassRateCheck(results, policy)
    \cup BudgetCheck(results, policy)
    \cup (IF baseline = None THEN {} ELSE RegressionReasons(results, policy, baseline))

Status(rs) ==
  IF \E r \in rs : r.action = "block" THEN "block"
  ELSE IF rs # {} THEN "warn"
  ELSE "pass"

(***************************************************************************)
(* The part of a GateDecision that the engine computes.                    *)
(***************************************************************************)
decide(results, policy, baseline) ==
  [status             |-> Status(reasons(results, policy, baseline)),
   reasons            |-> reasons(results, policy, baseline),
   aggregate_metrics  |-> aggregate_metrics_for_run(results),
   critical_failures  |-> critical_failures(results),
   framework_errors   |-> framework_errors_for_run(results),
   regression_summary |-> IF baseline = None THEN None
                          ELSE compare_to_baseline(results, policy, baseline)]
=============================================================================
