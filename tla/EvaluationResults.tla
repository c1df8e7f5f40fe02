-------------------------- MODULE EvaluationResults --------------------------
(***************************************************************************)
(* The result records that every part of the gate exchanges: the           *)
(* MetricResult an evaluator returns, the CaseResult the runner builds     *)
(* from them, and the numbers derived from a run's list of case results    *)
(* (domain/, evaluation/runner.py and the module-level functions of        *)
(* policy/engine.py, all under src/backend/app).                           *)
(*                                                                         *)
(* Scores, rates and tolerances are fractions of One (1.0 in the code), so *)
(* a score is an integer.  A mean is kept exactly, as the pair [num, den]. *)
(*                                                                         *)
(* The list of case results of a run is a function from case ids (unique   *)
(* within a dataset) to case results, and the metric_results of a case a   *)
(* function from the evaluators that applied to it to what they returned:  *)
(* two evaluators of one case may return the same metric_name.             *)
(***************************************************************************)
EXTENDS Integers, FiniteSets, FiniteSetsExt

CONSTANTS
  One,      \* the integer that stands for 1.0
  None      \* Python's None: no threshold, no budget, no baseline, no answer

ASSUME OneAssumption == One \in Nat \ {0}

(***************************************************************************)
(* MetricResult.  Of the free-form metadata only two keys matter:          *)
(* "error_type", set on an infrastructure failure, and a "..._status" key  *)
(* with the value "skipped_missing_input".                                 *)
(***************************************************************************)
MetricResult(name, score, passed, metadata) ==
  [metric_name |-> name, score |-> score, passed |-> passed, metadata |-> metadata]

MetricStatus == {"scored", "skipped", "infrastructure_error"}

\* Variant: looks only at the framework's status key, not at error_type.
metric_status_by_key(metric) ==
  IF "skipped_missing_input" \in metric.metadata THEN "skipped" ELSE "scored"

metric_status(metric) ==
  IF "error_type" \in metric.metadata THEN "infrastructure_error"
  ELSE IF "skipped_missing_input" \in metric.metadata THEN "skipped"
  ELSE "scored"

(***************************************************************************)
(* What the frameworks' evaluators return: a score held against the        *)
(* evaluator's own threshold; a skip, which counts as passed, when the     *)
(* case lacks an input the metric needs; a failed result, which is no      *)
(* score, when the judge could not be reached.                             *)
(***************************************************************************)
ScoredResult(name, score, threshold) ==
  MetricResult(name, score, score >= threshold, {})

SkippedResult(name) == MetricResult(name, 0, TRUE, {"skipped_missing_input"})

\* Variant: fails open, like a skip.
InfrastructureFailureOpen(name) == MetricResult(name, 0, TRUE, {"error_type"})

InfrastructureFailure(name) == MetricResult(name, 0, FALSE, {"error_type"})

(***************************************************************************)
(* LatencyThresholdEvaluator applies to every case.  Its score is the      *)
(* latency itself, so a lower score is better; the evaluator of            *)
(* "estimated_cost_usd" does the same with the cost.                       *)
(***************************************************************************)
LatencyResult(latency_ms, max_latency_ms) ==
  MetricResult("latency_ms", One * latency_ms, latency_ms <= max_latency_ms, {})

(***************************************************************************)
(* CaseResult.  GradedCase is the result of a case whose provider          *)
(* answered, ErroredCase of one whose provider returned an error (no       *)
(* evaluator runs, and the case is failed but not partial), CrashedCase of *)
(* one that raised: no result of it is kept.                               *)
(***************************************************************************)
CaseResult(passed, critical, partial, metric_results, latency_ms, cost, error) ==
  [passed           |-> passed,
   critical_failure |-> critical /\ ~passed,
   partial          |-> partial,
   metric_results   |-> metric_results,
   latency_ms       |-> latency_ms,
   estimated_cost   |-> cost,
   error            |-> error]

AllPassed(metric_results) ==
  \A e \in DOMAIN metric_results : metric_results[e].passed

\* Variant: all(...) for any(...).
AllErrorType(metric_results) ==
  \A e \in DOMAIN metric_results : "error_type" \in metric_results[e].metadata

AnyErrorType(metric_results) ==
  \E e \in DOMAIN metric_results : "error_type" \in metric_results[e].metadata

NoMetrics == [e \in {} |-> 0]

GradedCase(critical, metric_results, latency_ms, cost) ==
  CaseResult(AllPassed(metric_results), critical, AnyErrorType(metric_results),
             metric_results, latency_ms, cost, FALSE)

ErroredCase(critical, latency_ms, cost) ==
  CaseResult(FALSE, critical, FALSE, NoMetrics, latency_ms, cost, TRUE)

CrashedCase(critical) == CaseResult(FALSE, critical, TRUE, NoMetrics, 0, 0, TRUE)

(***************************************************************************)
(* What the models validate of their fields, and all that the runner       *)
(* builds has in common: a result of a case that is critical or is not.    *)
(***************************************************************************)
IsMetricResult(metric) ==
  /\ metric.score \in Int
  /\ metric.passed \in BOOLEAN
  /\ metric.metadata \subseteq {"error_type", "skipped_missing_input"}

IsCaseResult(result, critical) ==
  /\ result = CaseResult(result.passed, critical, result.partial, result.metric_results,
                         result.latency_ms, result.estimated_cost, result.error)
  /\ result.passed = (~result.error /\ AllPassed(result.metric_results))
  /\ result.error \in BOOLEAN /\ result.partial \in BOOLEAN
  /\ IsFiniteSet(DOMAIN result.metric_results)
  /\ \A e \in DOMAIN result.metric_results : IsMetricResult(result.metric_results[e])
  /\ result.latency_ms \in Nat /\ result.estimated_cost \in Nat

-----------------------------------------------------------------------------
(***************************************************************************)
(* Numbers over a whole run.  An instance of a metric is a case and an     *)
(* evaluator that returned a result for it.                                *)
(***************************************************************************)
NoResults == [c \in {} |-> 0]     \* case_result_store.get(run.id) or []

AllInstances(results) ==
  UNION {{<<c, e>> : e \in DOMAIN results[c].metric_results} : c \in DOMAIN results}

At(results, i) == results[i[1]].metric_results[i[2]]

Instances(results, name) ==
  {i \in AllInstances(results) : At(results, i).metric_name = name}

WithStatus(results, name, status) ==
  {i \in Instances(results, name) : metric_status(At(results, i)) = status}

MetricNames(results) == {At(results, i).metric_name : i \in AllInstances(results)}

\* sum() of a list of numbers
Total(numbers) == MapThenSumSet(LAMBDA i : numbers[i], DOMAIN numbers)

aggregate_metrics_for_run(results) ==
  LET Scored(m) == WithStatus(results, m, "scored")
  IN  [m \in {n \in MetricNames(results) : Scored(n) # {}} |->
         [num |-> Total([i \in Scored(m) |-> At(results, i).score]),
          den |-> Cardinality(Scored(m))]]

framework_errors_for_run(results) ==
  LET Failed(m) == WithStatus(results, m, "infrastructure_error")
  IN  [m \in {n \in MetricNames(results) : Failed(n) # {}} |-> Cardinality(Failed(m))]

pass_rate_for_run(results) ==
  IF results = NoResults
    THEN [num |-> One, den |-> 1]
    ELSE [num |-> One * Cardinality({c \in DOMAIN results : results[c].passed}),
          den |-> Cardinality(DOMAIN results)]

critical_failures(results) == {c \in DOMAIN results : results[c].critical_failure}

(***************************************************************************)
(* Exact comparison of means: q < x, and "q fell from p by more than t".   *)
(***************************************************************************)
Below(q, x) == q.num < x * q.den

\* Variant: the operands of the difference swapped.
DeltaSwapped(current, previous) ==
  [num |-> previous.num * current.den - current.num * previous.den,
   den |-> current.den * previous.den]

Delta(current, previous) ==
  [num |-> current.num * previous.den - previous.num * current.den,
   den |-> current.den * previous.den]

\* Variants: a fall of exactly t counts; the sign of the tolerance is lost.
FellByAtLeast(delta, t) == -delta.num >= t * delta.den
FellByNegated(delta, t) == -delta.num > -t * delta.den

FellBy(delta, t) == -delta.num > t * delta.den
=============================================================================
