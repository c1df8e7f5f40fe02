--------------------------- MODULE PolicyEngineLaws ---------------------------
(***************************************************************************)
(* What the release policy engine promises from one gate call to the next. *)
(*                                                                         *)
(* The engine is stateless, so the state here is its input: the case       *)
(* results of the latest run of a dataset and the dataset's approved       *)
(* baseline.  A step is what a team does between two gate calls: run the   *)
(* dataset for the first time, run it again with one case coming out       *)
(* differently, or approve the run as the baseline.  Every law is about    *)
(* every policy in Policies.                                               *)
(***************************************************************************)
EXTENDS PolicyEngine

CONSTANTS
  Cases,          \* the case ids of the dataset
  Selections,     \* the selections of evaluation frameworks that runs are made with
  CaseOutcomes,   \* CaseOutcomes[s][c]: the case results of c in a run with selection s
  Policies        \* the release policies the gate is called with

\* The metrics of which a lower score is better.
LowerIsBetter == {"latency_ms", "estimated_cost_usd"}

\* The same kind of result of the same metric, with a score that did not fall.
NoWorse(new, old) ==
  /\ new.metric_name = old.metric_name
  /\ metric_status(new) = metric_status(old)
  /\ new.score >= old.score
  /\ new.metric_name \in LowerIsBetter => new.score = old.score

\* An evaluator holds all results of a case against one threshold.
SameThresholds(new, old) ==
  \A e \in DOMAIN new.metric_results \cap DOMAIN old.metric_results :
    /\ NoWorse(new.metric_results[e], old.metric_results[e])
    /\ old.metric_results[e].passed
    => new.metric_results[e].passed

OutcomesOf(c) == UNION {CaseOutcomes[s][c] : s \in Selections}

ASSUME LawsAssumption ==
  /\ IsFiniteSet(Cases)
  /\ \A c \in Cases :
       /\ \E critical \in BOOLEAN :
            \A outcome \in OutcomesOf(c) : IsCaseResult(outcome, critical)
       /\ \A new, old \in OutcomesOf(c) : SameThresholds(new, old)
  /\ \A policy \in Policies : policy \in ReleasePolicy

VARIABLES results, baseline

vars == <<results, baseline>>

Init == results = NoResults /\ baseline = None

RunWith(s, rs) == \A c \in Cases : rs[c] \in CaseOutcomes[s][c]

FirstRun ==
  /\ results = NoResults
  /\ \E s \in Selections :
       results' \in {rs \in [Cases -> UNION {CaseOutcomes[s][c] : c \in Cases}] : RunWith(s, rs)}
  /\ UNCHANGED baseline

RunAgain(c) ==
  /\ results # NoResults
  /\ \E s \in Selections :
       /\ RunWith(s, results)
       /\ \E outcome \in CaseOutcomes[s][c] : results' = [results EXCEPT ![c] = outcome]
  /\ UNCHANGED baseline

Approve ==
  /\ baseline' = Snapshot(results)
  /\ UNCHANGED results

Next == FirstRun \/ (\E c \in Cases : RunAgain(c)) \/ Approve

Spec == Init /\ [][Next]_vars

-----------------------------------------------------------------------------
Severity(status) == CASE status = "pass" -> 0 [] status = "warn" -> 1 [] status = "block" -> 2

\* The status of decide(rs, policy, base), without the rest of the decision.
StatusOf(rs, policy, base) == Status(reasons(rs, policy, base))

SeverityOf(rs, policy, base) == Severity(StatusOf(rs, policy, base))

(***************************************************************************)
(* A case did at least as well in `new` as in `old`: the same evaluators   *)
(* gave results that are no worse, in which those that measure latency and *)
(* cost are unchanged (FasterIsNoRegression is about these), and the case  *)
(* was no slower and no more expensive.                                    *)
(***************************************************************************)
AtLeastAsGood(new, old) ==
  LET n == new.metric_results
      o == old.metric_results
  IN  /\ new.error = old.error
      /\ DOMAIN n = DOMAIN o
      /\ \A e \in DOMAIN n : NoWorse(n[e], o[e])
      /\ new.latency_ms <= old.latency_ms
      /\ new.estimated_cost <= old.estimated_cost

Improves(new, old) ==
  DOMAIN new = DOMAIN old /\ \A c \in DOMAIN old : AtLeastAsGood(new[c], old[c])

(***************************************************************************)
(* Better answers never make the verdict worse: if a run does at least as  *)
(* well on every case as the one before it and is held against the same    *)
(* baseline, its status is at most as severe, whatever the policy          *)
(* (PolicyEngine.decide, all its checks together).                         *)
(***************************************************************************)
ImprovementNeverHurts ==
  [][baseline' = baseline /\ Improves(results', results)
       => \A p \in Policies :
            SeverityOf(results', p, baseline) <= SeverityOf(results, p, baseline)]_vars

(***************************************************************************)
(* Approving a run makes it the reference it is itself judged by, so the   *)
(* very same results never count as a regression, not even with a          *)
(* tolerance of zero (approve_baseline's snapshot against                  *)
(* _compare_to_baseline's recomputation of the same numbers).              *)
(***************************************************************************)
NoRegressionAgainstItself ==
  [][baseline' = Snapshot(results)
       => \A p \in Policies :
            reasons(results, p, baseline') = reasons(results, p, None)]_vars

(***************************************************************************)
(* What the summary shows as a new failure, the verdict has acted on: the  *)
(* metric is among the blocking reasons for the minimum it misses and, if  *)
(* no fall is tolerated, among the regressions.  _compare_to_baseline      *)
(* looks minimums up in a table of its own, in which the last requirement  *)
(* of a metric wins, apart from the checks that give the reasons.          *)
(***************************************************************************)
NewFailuresAreReasons ==
  baseline # None => \A p \in Policies :
    LET decision == decide(results, p, baseline)
    IN  \A m \in decision.regression_summary.new_failures :
          /\ Reason("below_minimum", m, "block") \in decision.reasons
          /\ p.max_regression_tolerance = 0 =>
               Reason("metric_regression", m, p.regression_action) \in decision.reasons

(***************************************************************************)
(* A broken judge or an inapplicable metric is never a quality score: the  *)
(* aggregates are those of the run with every result that carries a        *)
(* failure or a skip in its metadata taken out (aggregate_metrics_for_run, *)
(* against the failed results whose score field is 0.0).                   *)
(***************************************************************************)
ScoredOnly(rs) ==
  [c \in DOMAIN rs |->
     [rs[c] EXCEPT !.metric_results =
        [e \in {x \in DOMAIN @ : @[x].metadata = {}} |-> @[e]]]]

OutagesNeverScore ==
  aggregate_metrics_for_run(results) = aggregate_metrics_for_run(ScoredOnly(results))

(***************************************************************************)
(* A requirement is never silently dropped: a metric that the policy       *)
(* requires, and lets neither be missing nor fail, is in the aggregates of *)
(* every run that gets PASS, at or above the minimum the policy sets       *)
(* (_check_required_metric's early return and its two independent checks). *)
(***************************************************************************)
Unconditional(required) ==
  required.on_missing # "ignore" /\ required.on_infrastructure_failure # "ignore"

Meets(required, rs) ==
  /\ required.metric_name \in DOMAIN aggregate_metrics_for_run(rs)
  /\ required.min_score # None =>
       ~Below(aggregate_metrics_for_run(rs)[required.metric_name], required.min_score)

PassMeansRequirementsMet ==
  \A p \in Policies : StatusOf(results, p, baseline) = "pass" =>
    \A i \in DOMAIN p.required_metrics :
      Unconditional(p.required_metrics[i]) => Meets(p.required_metrics[i], results)

(***************************************************************************)
(* Tightening a policy never relaxes the verdict on the same run: a policy *)
(* with a higher pass-rate floor, a smaller tolerance, smaller budgets,    *)
(* more severe actions and at least the same requirements is at least as   *)
(* severe.                                                                 *)
(***************************************************************************)
ActionRank(action) ==
  CASE action = "ignore" -> 0 [] action = "warn" -> 1 [] action = "block" -> 2

AtLeast(p, q) == ActionRank(p) >= ActionRank(q)

TighterBudget(p, q) == q = None \/ (p # None /\ p <= q)

TighterRequirement(r, s) ==
  /\ r.metric_name = s.metric_name
  /\ s.min_score = None \/ (r.min_score # None /\ r.min_score >= s.min_score)
  /\ AtLeast(r.on_missing, s.on_missing)
  /\ AtLeast(r.on_infrastructure_failure, s.on_infrastructure_failure)

Tighter(p, q) ==
  /\ p.min_pass_rate >= q.min_pass_rate
  /\ p.max_regression_tolerance <= q.max_regression_tolerance
  /\ AtLeast(p.critical_case_action, q.critical_case_action)
  /\ AtLeast(p.regression_action, q.regression_action)
  /\ TighterBudget(p.latency_budget_ms, q.latency_budget_ms)
  /\ AtLeast(p.latency_budget_action, q.latency_budget_action)
  /\ TighterBudget(p.cost_budget_usd, q.cost_budget_usd)
  /\ AtLeast(p.cost_budget_action, q.cost_budget_action)
  /\ \A j \in DOMAIN q.required_metrics : \E i \in DOMAIN p.required_metrics :
       TighterRequirement(p.required_metrics[i], q.required_metrics[j])

TighterPolicyNeverRelaxes ==
  LET severity == [p \in Policies |-> SeverityOf(results, p, baseline)]
  IN  \A p, q \in Policies : Tighter(p, q) => severity[p] >= severity[q]

(***************************************************************************)
(* README.md: "A run with no scored metrics cannot pass."  The guard of    *)
(* decide counts metric results of any kind, so a run whose every result   *)
(* is a skip gets past it.                                                 *)
(***************************************************************************)
NoVacuousPass ==
  results # NoResults /\ DOMAIN aggregate_metrics_for_run(results) = {} =>
    \A p \in Policies : StatusOf(results, p, baseline) # "pass"

(***************************************************************************)
(* RegressionSummary.metric_deltas: "Positive = improved, negative =       *)
(* regressed."  A run that is faster or cheaper than the baseline is not a *)
(* regression.  The latency_ms metric has the latency as its score, so     *)
(* _compare_to_baseline takes every speed-up for one.                      *)
(***************************************************************************)
FasterIsNoRegression ==
  baseline # None =>
    \A m \in SharedMetrics(results, baseline) \cap LowerIsBetter :
      MetricDelta(results, baseline, m).num < 0 =>
        \A p \in Policies : \A r \in reasons(results, p, baseline) :
          ~(r.kind = "metric_regression" /\ r.metric = m)
=============================================================================
