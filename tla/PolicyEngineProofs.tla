--------------------------- MODULE PolicyEngineProofs ---------------------------
(***************************************************************************)
(* The laws of the release policy engine, for datasets of any finite size, *)
(* any scores, any evaluators and any release policies.                    *)
(*                                                                         *)
(* The engine has no state of its own, so all that has to be an invariant  *)
(* is what its input looks like: Inputs.  What remains are facts about     *)
(* decide's checks, one lemma for each.                                    *)
(***************************************************************************)
EXTENDS PolicyEngineLaws, EvaluationResultsProofs

\* Some of the dataset's cases, each with a result that it can have.
DatasetRun(rs) ==
  /\ rs = [c \in DOMAIN rs |-> rs[c]]
  /\ DOMAIN rs \subseteq Cases
  /\ \A c \in DOMAIN rs : rs[c] \in OutcomesOf(c)

IsMean(q) == q.num \in Int /\ q.den \in Nat \ {0}

IsSnapshot(base) ==
  /\ IsMean(base.pass_rate)
  /\ \A m \in DOMAIN base.aggregate_metrics : IsMean(base.aggregate_metrics[m])

Inputs ==
  /\ DatasetRun(results)
  /\ baseline = None \/ IsSnapshot(baseline)

-----------------------------------------------------------------------------
LEMMA DatasetRunIsRun == ASSUME NEW rs, DatasetRun(rs) PROVE IsRun(rs)
<1>1. IsFiniteSet(DOMAIN rs)
  BY LawsAssumption, FS_Subset DEF DatasetRun
<1>2. ASSUME NEW c \in DOMAIN rs
      PROVE  \E critical \in BOOLEAN : IsCaseResult(rs[c], critical)
  BY LawsAssumption DEF DatasetRun
<1> QED BY <1>1, <1>2 DEF DatasetRun, IsRun

LEMMA SnapshotIsSnapshot == ASSUME NEW rs, IsRun(rs) PROVE IsSnapshot(Snapshot(rs))
<1>1. IsMean(pass_rate_for_run(rs))
  BY PassRateType DEF IsMean
<1>2. ASSUME NEW m \in DOMAIN aggregate_metrics_for_run(rs)
      PROVE  IsMean(aggregate_metrics_for_run(rs)[m])
  BY AggregateType DEF IsMean
<1> QED BY <1>1, <1>2 DEF IsSnapshot, Snapshot

\* The engine only ever sees results of the dataset's cases and snapshots of such runs.
THEOREM InputsInvariant == Spec => []Inputs
<1>1. Init => Inputs
  BY DEF Init, Inputs, DatasetRun, NoResults
<1>2. Inputs /\ [Next]_vars => Inputs'
  <2> SUFFICES ASSUME Inputs, [Next]_vars PROVE Inputs'
    OBVIOUS
  <2>1. CASE FirstRun
    <3>1. PICK s \in Selections :
            /\ results' \in [Cases -> UNION {CaseOutcomes[s][c] : c \in Cases}]
            /\ RunWith(s, results')
      BY <2>1 DEF FirstRun
    <3>2. \A c \in Cases : results'[c] \in OutcomesOf(c)
      BY <3>1 DEF RunWith, OutcomesOf
    <3>3. DatasetRun(results')
      BY <3>1, <3>2 DEF DatasetRun
    <3> QED BY <2>1, <3>3 DEF FirstRun, Inputs
  <2>2. ASSUME NEW c \in Cases, RunAgain(c)
        PROVE  Inputs'
    <3>1. PICK s \in Selections :
            \E outcome \in CaseOutcomes[s][c] : results' = [results EXCEPT ![c] = outcome]
      BY <2>2 DEF RunAgain
    <3>2. PICK outcome \in CaseOutcomes[s][c] : results' = [results EXCEPT ![c] = outcome]
      BY <3>1
    <3>3. outcome \in OutcomesOf(c)
      BY <3>2 DEF OutcomesOf
    <3>4. DatasetRun(results')
      BY <3>2, <3>3 DEF Inputs, DatasetRun
    <3> QED BY <2>2, <3>4 DEF RunAgain, Inputs
  <2>3. CASE Approve
    BY <2>3, DatasetRunIsRun, SnapshotIsSnapshot DEF Approve, Inputs
  <2>4. CASE UNCHANGED vars
    BY <2>4 DEF vars, Inputs, DatasetRun
  <2> QED BY <2>1, <2>2, <2>3, <2>4 DEF Next
<1> QED BY <1>1, <1>2, PTL DEF Spec

-----------------------------------------------------------------------------
(***************************************************************************)
(* Laws about one run.                                                     *)
(***************************************************************************)
\* PASS is given only for want of any reason.
LEMMA PassHasNoReasons ==
  ASSUME NEW rs, Status(rs) = "pass"
  PROVE  rs = {}
BY DEF Status

(***************************************************************************)
(* A metric that a policy requires unconditionally is in the aggregates of *)
(* every run that gets PASS, at or above its minimum                       *)
(* (_check_required_metric's early return and its two independent checks). *)
(***************************************************************************)
THEOREM RequirementsMet == Spec => []PassMeansRequirementsMet
<1>1. ASSUME NEW p \in Policies, StatusOf(results, p, baseline) = "pass",
             NEW i \in DOMAIN p.required_metrics, Unconditional(p.required_metrics[i])
      PROVE  Meets(p.required_metrics[i], results)
  <2> DEFINE r == p.required_metrics[i]
             m == r.metric_name
             scored == WithStatus(results, m, "scored")
             infra == WithStatus(results, m, "infrastructure_error")
             aggregate == aggregate_metrics_for_run(results)
             below == /\ r.min_score # None
                      /\ m \in DOMAIN aggregate
                      /\ Below(aggregate[m], r.min_score)
  <2>1. check_required_metric(r, results) = {}
    BY <1>1, PassHasNoReasons DEF StatusOf, reasons, RequiredMetricsCheck
  <2>2. check_required_metric(r, results) =
          IF scored = {} /\ infra = {}
            THEN When(TRUE, "missing", m, r.on_missing)
            ELSE When(infra # {}, "infrastructure", m, r.on_infrastructure_failure)
                   \cup When(below, "below_minimum", m, "block")
    BY Zenon DEF check_required_metric
  <2>3. r.on_missing # "ignore" /\ r.on_infrastructure_failure # "ignore"
    BY <1>1 DEF Unconditional
  <2> HIDE DEF below, infra
  <2>4. scored # {} /\ ~below
    BY <2>1, <2>2, <2>3 DEF When
  <2>5. m \in DOMAIN aggregate
    <3>1. m \in MetricNames(results)
      BY <2>4 DEF WithStatus, Instances, MetricNames
    <3> QED BY <2>4, <3>1 DEF aggregate_metrics_for_run
  <2> QED BY <2>4, <2>5 DEF below, Meets
<1>2. PassMeansRequirementsMet
  BY <1>1 DEF PassMeansRequirementsMet
<1> QED BY <1>2, PTL

\* Only a result without failure and skip in its metadata is scored.
LEMMA ScoredHasNoMetadata ==
  ASSUME NEW metric, IsMetricResult(metric)
  PROVE  metric_status(metric) = "scored" <=> metric.metadata = {}
BY DEF IsMetricResult, metric_status

(***************************************************************************)
(* A result that stands for a failed judge or an inapplicable metric is in *)
(* no mean, whatever its score field says (aggregate_metrics_for_run       *)
(* against metric_status).                                                 *)
(***************************************************************************)
THEOREM OutagesDoNotScore == Spec => []OutagesNeverScore
<1>1. ASSUME NEW rs, IsRun(rs)
      PROVE  aggregate_metrics_for_run(rs) = aggregate_metrics_for_run(ScoredOnly(rs))
  <2> DEFINE only == ScoredOnly(rs)
             kept(c) == [e \in {x \in DOMAIN rs[c].metric_results :
                                  rs[c].metric_results[x].metadata = {}}
                           |-> rs[c].metric_results[e]]
             scored(m) == WithStatus(rs, m, "scored")
             scored_only(m) == WithStatus(only, m, "scored")
  <2>1. DOMAIN only = DOMAIN rs
    BY DEF ScoredOnly
  <2>2. \A c \in DOMAIN rs : only[c].metric_results = kept(c)
    <3> TAKE c \in DOMAIN rs
    <3>1. only[c] = [rs[c] EXCEPT !.metric_results = kept(c)]
      BY DEF ScoredOnly
    <3>2. PICK critical \in BOOLEAN : IsCaseResult(rs[c], critical)
      BY <1>1 DEF IsRun
    <3> HIDE DEF kept
    <3> QED BY <3>1, <3>2 DEF IsCaseResult, CaseResult
  <2>3. ASSUME NEW i
        PROVE  i \in AllInstances(only)
               <=> i \in AllInstances(rs) /\ At(rs, i).metadata = {}
    <3>1. ASSUME i \in AllInstances(only)
          PROVE  i \in AllInstances(rs) /\ At(rs, i).metadata = {}
      <4>1. PICK c \in DOMAIN only : \E e \in DOMAIN only[c].metric_results : i = <<c, e>>
        BY <3>1 DEF AllInstances
      <4> HIDE DEF only
      <4>2. PICK e \in DOMAIN only[c].metric_results : i = <<c, e>>
        BY <4>1
      <4>3. e \in DOMAIN rs[c].metric_results /\ rs[c].metric_results[e].metadata = {}
        BY <2>1, <2>2, <4>2
      <4> QED BY <2>1, <4>2, <4>3 DEF AllInstances, At
    <3>2. ASSUME i \in AllInstances(rs), At(rs, i).metadata = {}
          PROVE  i \in AllInstances(only)
      <4>1. PICK c \in DOMAIN rs : \E e \in DOMAIN rs[c].metric_results : i = <<c, e>>
        BY <3>2 DEF AllInstances
      <4>2. PICK e \in DOMAIN rs[c].metric_results : i = <<c, e>>
        BY <4>1
      <4> HIDE DEF only
      <4>3. e \in DOMAIN only[c].metric_results
        BY <2>2, <3>2, <4>2 DEF At
      <4> QED BY <2>1, <4>2, <4>3 DEF AllInstances
    <3> QED BY <3>1, <3>2
  <2>4. \A i \in AllInstances(only) : At(only, i) = At(rs, i)
    <3> TAKE i \in AllInstances(only)
    <3>1. i[1] \in DOMAIN rs /\ i[2] \in DOMAIN rs[i[1]].metric_results
      BY <1>1, <2>3, InstanceType
    <3>2. rs[i[1]].metric_results[i[2]].metadata = {}
      BY <2>3 DEF At
    <3>3. i[2] \in DOMAIN kept(i[1]) /\ kept(i[1])[i[2]] = rs[i[1]].metric_results[i[2]]
      BY <3>1, <3>2
    <3>4. only[i[1]].metric_results = kept(i[1])
      BY <2>2, <3>1
    <3> HIDE DEF only, kept
    <3> QED BY <3>3, <3>4 DEF At
  <2>5. \A i \in AllInstances(rs) :
          metric_status(At(rs, i)) = "scored" <=> At(rs, i).metadata = {}
    BY <1>1, InstanceType, ScoredHasNoMetadata
  <2> HIDE DEF only, kept
  <2>6. \A m : scored(m) = scored_only(m)
    BY <2>3, <2>4, <2>5 DEF WithStatus, Instances
  <2>7. \A m : scored(m) # {} => m \in MetricNames(rs) /\ m \in MetricNames(only)
    BY <2>6 DEF WithStatus, Instances, MetricNames
  <2>8. \A m : [i \in scored(m) |-> At(rs, i).score] = [i \in scored_only(m) |-> At(only, i).score]
    BY <2>4, <2>6 DEF WithStatus, Instances
  <2> DEFINE D == {m \in MetricNames(rs) : scored(m) # {}}
             D_only == {m \in MetricNames(only) : scored_only(m) # {}}
             mean(m) == [num |-> Total([i \in scored(m) |-> At(rs, i).score]),
                         den |-> Cardinality(scored(m))]
             mean_only(m) == [num |-> Total([i \in scored_only(m) |-> At(only, i).score]),
                              den |-> Cardinality(scored_only(m))]
  <2>9. D = D_only
    BY <2>6, <2>7
  <2>10. \A m : mean(m) = mean_only(m)
    BY <2>6, <2>8
  <2>11. /\ aggregate_metrics_for_run(rs) = [m \in D |-> mean(m)]
         /\ aggregate_metrics_for_run(only) = [m \in D_only |-> mean_only(m)]
    BY Zenon DEF aggregate_metrics_for_run
  <2> HIDE DEF D, D_only, mean, mean_only
  <2> QED BY <2>9, <2>10, <2>11 DEF only
<1>2. Inputs => OutagesNeverScore
  BY <1>1, DatasetRunIsRun DEF Inputs, OutagesNeverScore
<1> QED BY <1>2, InputsInvariant, PTL

-----------------------------------------------------------------------------
(***************************************************************************)
(* A run against itself.                                                   *)
(***************************************************************************)
LEMMA NoFall ==
  ASSUME NEW q, IsMean(q), NEW t \in Nat
  PROVE  ~FellBy(Delta(q, q), t)
<1>1. Delta(q, q).num = 0 /\ Delta(q, q).den \in Nat
  BY DEF Delta, IsMean
<1> QED BY <1>1 DEF FellBy

(***************************************************************************)
(* The results a baseline was taken from never count as a regression       *)
(* against it, not even with a tolerance of zero (approve_baseline's       *)
(* snapshot against _compare_to_baseline).                                 *)
(***************************************************************************)
THEOREM OwnBaseline == Spec => NoRegressionAgainstItself
<1>1. ASSUME NEW rs, IsRun(rs), NEW p \in Policies
      PROVE  RegressionReasons(rs, p, Snapshot(rs)) = {}
  <2> DEFINE base == Snapshot(rs)
             tolerance == p.max_regression_tolerance
             action == p.regression_action
  <2>1. tolerance \in Nat
    BY LawsAssumption, OneAssumption DEF ReleasePolicy
  <2>2. ~FellBy(PassRateDelta(rs, base), tolerance)
    BY <1>1, <2>1, SnapshotIsSnapshot, NoFall DEF PassRateDelta, Snapshot, IsSnapshot
  <2>3. \A m \in SharedMetrics(rs, base) : ~FellBy(MetricDelta(rs, base, m), tolerance)
    BY <1>1, <2>1, SnapshotIsSnapshot, NoFall
    DEF MetricDelta, Snapshot, IsSnapshot, SharedMetrics
  <2>4. RegressionReasons(rs, p, base) =
          When(FellBy(PassRateDelta(rs, base), tolerance), "pass_rate_regression", None, action)
            \cup UNION {When(FellBy(MetricDelta(rs, base, m), tolerance),
                             "metric_regression", m, action) : m \in SharedMetrics(rs, base)}
    BY Zenon DEF RegressionReasons
  <2> HIDE DEF tolerance, base, action
  <2> QED BY <2>2, <2>3, <2>4 DEF When, base
<1>2. Inputs /\ [Next]_vars =>
        [baseline' = Snapshot(results) => \A p \in Policies :
           reasons(results, p, baseline') = reasons(results, p, None)]_vars
  <2> SUFFICES ASSUME Inputs, baseline' = Snapshot(results), NEW p \in Policies
               PROVE  reasons(results, p, baseline') = reasons(results, p, None)
    OBVIOUS
  <2> QED BY <1>1, DatasetRunIsRun DEF Inputs, reasons
<1> QED BY <1>2, InputsInvariant, PTL DEF Spec, NoRegressionAgainstItself

-----------------------------------------------------------------------------
(***************************************************************************)
(* Reasons and severities.                                                 *)
(***************************************************************************)
LEMMA SeverityOfSubset ==
  ASSUME NEW few, NEW many, few \subseteq many
  PROVE  Severity(Status(few)) <= Severity(Status(many))
<1>1. Severity("pass") = 0 /\ Severity("warn") = 1 /\ Severity("block") = 2
  BY DEF Severity
<1> QED BY <1>1 DEF Status

\* A condition that implies another files no reason the other does not file.
LEMMA WhenWeaker ==
  ASSUME NEW P, NEW Q, P => Q, NEW kind, NEW metric, NEW action
  PROVE  When(P, kind, metric, action) \subseteq When(Q, kind, metric, action)
BY DEF When

LEMMA TimesMonotone ==
  ASSUME NEW x \in Int, NEW y \in Int, NEW d \in Nat, x <= y
  PROVE  x * d <= y * d
OBVIOUS

\* A mean over as many scores whose sum did not fall.
NoLess(new, old) == new.den = old.den /\ new.num >= old.num

LEMMA NotBelowStays ==
  ASSUME NEW new, NEW old, IsMean(new), IsMean(old), NoLess(new, old), NEW x \in Int,
         Below(new, x)
  PROVE  Below(old, x)
<1>1. new.num < x * new.den /\ x * new.den \in Int
  BY DEF Below, IsMean
<1> QED BY <1>1 DEF Below, NoLess, IsMean

LEMMA FallsLess ==
  ASSUME NEW new, NEW old, NEW base, IsMean(new), IsMean(old), IsMean(base),
         NoLess(new, old), NEW t \in Nat, FellBy(Delta(new, base), t)
  PROVE  FellBy(Delta(old, base), t)
<1>1. old.num * base.den <= new.num * base.den
  BY TimesMonotone DEF IsMean, NoLess
<1> DEFINE x == old.num * base.den
           y == new.num * base.den
           z == base.num * new.den
           limit == t * (new.den * base.den)
<1>2. x \in Int /\ y \in Int /\ z \in Int /\ limit \in Int
  BY DEF IsMean
<1>3. /\ Delta(new, base).num = y - z /\ Delta(old, base).num = x - z
      /\ t * Delta(new, base).den = limit /\ t * Delta(old, base).den = limit
  BY DEF Delta, NoLess
<1>4. -(y - z) > limit
  BY <1>3 DEF FellBy
<1> HIDE DEF x, y, z, limit
<1>5. -(x - z) > limit
  BY <1>1, <1>2, <1>4 DEF x, y
<1> QED BY <1>3, <1>5 DEF FellBy

-----------------------------------------------------------------------------
(***************************************************************************)
(* Better answers.  What a run that improves on another has in common with *)
(* it: the same instances with the same statuses; what improved: the sum   *)
(* of each metric's scores, the cases passed, critical failures, latencies *)
(* and costs.                                                              *)
(***************************************************************************)
LEMMA ImprovedInstances ==
  ASSUME NEW new, NEW old, IsRun(new), IsRun(old), Improves(new, old)
  PROVE  /\ AllInstances(new) = AllInstances(old)
         /\ \A i \in AllInstances(old) : NoWorse(At(new, i), At(old, i))
         /\ \A m, status : WithStatus(new, m, status) = WithStatus(old, m, status)
         /\ \A m : Instances(new, m) = Instances(old, m)
         /\ MetricNames(new) = MetricNames(old)
<1>1. /\ DOMAIN new = DOMAIN old
      /\ \A c \in DOMAIN old : DOMAIN new[c].metric_results = DOMAIN old[c].metric_results
  BY DEF Improves, AtLeastAsGood
<1>2. AllInstances(new) = AllInstances(old)
  <2> DEFINE those(rs, c) == {<<c, e>> : e \in DOMAIN rs[c].metric_results}
  <2>1. \A c \in DOMAIN old : those(new, c) = those(old, c)
    BY <1>1
  <2>2. AllInstances(new) = UNION {those(new, c) : c \in DOMAIN new}
    BY Zenon DEF AllInstances
  <2>3. AllInstances(old) = UNION {those(old, c) : c \in DOMAIN old}
    BY Zenon DEF AllInstances
  <2> HIDE DEF those
  <2> QED BY <1>1, <2>1, <2>2, <2>3
<1>3. \A i \in AllInstances(old) : NoWorse(At(new, i), At(old, i))
  <2> TAKE i \in AllInstances(old)
  <2>1. i[1] \in DOMAIN old /\ i[2] \in DOMAIN old[i[1]].metric_results
    BY InstanceType
  <2> QED BY <1>1, <2>1 DEF Improves, AtLeastAsGood, At
<1>4. \A i \in AllInstances(old) :
        /\ At(new, i).metric_name = At(old, i).metric_name
        /\ metric_status(At(new, i)) = metric_status(At(old, i))
  BY <1>3 DEF NoWorse
<1>5. \A m : Instances(new, m) = Instances(old, m)
  BY <1>2, <1>4 DEF Instances
<1>6. \A m, status : WithStatus(new, m, status) = WithStatus(old, m, status)
  BY <1>4, <1>5 DEF WithStatus, Instances
<1>7. MetricNames(new) = MetricNames(old)
  BY <1>2, <1>4 DEF MetricNames
<1> QED BY <1>2, <1>3, <1>5, <1>6, <1>7

LEMMA ImprovedMeans ==
  ASSUME NEW new, NEW old, IsRun(new), IsRun(old), Improves(new, old)
  PROVE  /\ DOMAIN aggregate_metrics_for_run(new) = DOMAIN aggregate_metrics_for_run(old)
         /\ \A m \in DOMAIN aggregate_metrics_for_run(old) :
              NoLess(aggregate_metrics_for_run(new)[m], aggregate_metrics_for_run(old)[m])
<1>1. DOMAIN aggregate_metrics_for_run(new) = DOMAIN aggregate_metrics_for_run(old)
  <2> DEFINE named(rs) == {n \in MetricNames(rs) : WithStatus(rs, n, "scored") # {}}
  <2>1. named(new) = named(old)
    BY ImprovedInstances
  <2> HIDE DEF named
  <2> QED BY <2>1, AggregateDomain DEF named
<1>2. ASSUME NEW m \in DOMAIN aggregate_metrics_for_run(old)
      PROVE  NoLess(aggregate_metrics_for_run(new)[m], aggregate_metrics_for_run(old)[m])
  <2> DEFINE S == WithStatus(old, m, "scored")
             before == [i \in S |-> At(old, i).score]
             after == [i \in S |-> At(new, i).score]
  <2>1. /\ aggregate_metrics_for_run(old)[m].num = Total(before)
        /\ aggregate_metrics_for_run(old)[m].den = Cardinality(S)
    BY AggregateType
  <2>2. WithStatus(new, m, "scored") = S
    BY ImprovedInstances
  <2>3. /\ aggregate_metrics_for_run(new)[m].num = Total(after)
        /\ aggregate_metrics_for_run(new)[m].den = Cardinality(S)
    BY <1>1, <2>2, AggregateType
  <2>4. IsFiniteSet(S) /\ S \subseteq AllInstances(old) /\ S \subseteq AllInstances(new)
    BY <2>2, StatusFinite, ImprovedInstances
  <2>5. before \in [S -> Int] /\ after \in [S -> Int]
    BY <2>4, InstanceType DEF IsMetricResult
  <2>6. \A i \in S : before[i] <= after[i]
    BY <2>4, <2>5, ImprovedInstances DEF NoWorse
  <2> HIDE DEF S, before, after
  <2>7. Total(before) \in Int /\ Total(after) \in Int /\ Total(before) <= Total(after)
    BY <2>4, <2>5, <2>6, TotalInt, TotalMonotone
  <2> QED BY <2>1, <2>3, <2>7 DEF NoLess
<1> QED BY <1>1, <1>2

LEMMA CriticalFailure ==
  ASSUME NEW result, NEW critical, IsCaseResult(result, critical)
  PROVE  result.critical_failure = (critical /\ ~result.passed)
<1>1. ASSUME NEW p, NEW partial, NEW ms, NEW latency, NEW cost, NEW error
      PROVE  CaseResult(p, critical, partial, ms, latency, cost, error).critical_failure
               = (critical /\ ~p)
  BY DEF CaseResult
<1> DEFINE built == CaseResult(result.passed, critical, result.partial, result.metric_results,
                               result.latency_ms, result.estimated_cost, result.error)
<1>2. built.critical_failure = (critical /\ ~result.passed)
  BY <1>1
<1>3. result = built
  BY DEF IsCaseResult
<1> HIDE DEF built
<1> QED BY <1>2, <1>3

LEMMA ImprovedPassRate ==
  ASSUME NEW new, NEW old, DatasetRun(new), DatasetRun(old), Improves(new, old)
  PROVE  /\ \A c \in DOMAIN old : old[c].passed => new[c].passed
         /\ critical_failures(new) \subseteq critical_failures(old)
         /\ NoLess(pass_rate_for_run(new), pass_rate_for_run(old))
<1>1. ASSUME NEW c \in DOMAIN old
      PROVE  /\ old[c].passed => new[c].passed
             /\ new[c].critical_failure => old[c].critical_failure
  <2>1. c \in Cases /\ new[c] \in OutcomesOf(c) /\ old[c] \in OutcomesOf(c)
    BY DEF DatasetRun, Improves
  <2>2. PICK critical \in BOOLEAN :
          IsCaseResult(new[c], critical) /\ IsCaseResult(old[c], critical)
    BY <2>1, LawsAssumption
  <2>3. SameThresholds(new[c], old[c])
    BY <2>1, LawsAssumption
  <2>4. AtLeastAsGood(new[c], old[c])
    BY DEF Improves
  <2>5. old[c].passed => new[c].passed
    <3>1. SUFFICES ASSUME old[c].passed PROVE new[c].passed
      OBVIOUS
    <3>2. ~old[c].error /\ AllPassed(old[c].metric_results)
      BY <2>2, <3>1 DEF IsCaseResult
    <3>3. AllPassed(new[c].metric_results)
      BY <2>3, <2>4, <3>2 DEF AllPassed, SameThresholds, AtLeastAsGood
    <3> QED BY <2>2, <2>4, <3>2, <3>3 DEF IsCaseResult, AtLeastAsGood
  <2>6. /\ new[c].critical_failure = (critical /\ ~new[c].passed)
        /\ old[c].critical_failure = (critical /\ ~old[c].passed)
    BY <2>2, CriticalFailure
  <2> QED BY <2>5, <2>6
<1>2. critical_failures(new) \subseteq critical_failures(old)
  BY <1>1 DEF critical_failures, Improves
<1>3. NoLess(pass_rate_for_run(new), pass_rate_for_run(old))
  <2>1. CASE old = NoResults
    <3>1. new = NoResults
      BY <2>1 DEF DatasetRun, Improves, NoResults
    <3> QED BY <2>1, <3>1, OneAssumption DEF pass_rate_for_run, NoLess
  <2>2. CASE old # NoResults
    <3>1. new # NoResults
      BY <2>2 DEF DatasetRun, Improves, NoResults
    <3> DEFINE after == {c \in DOMAIN new : new[c].passed}
               before == {c \in DOMAIN old : old[c].passed}
    <3>2. before \subseteq after
      BY <1>1 DEF Improves
    <3>3. IsFiniteSet(DOMAIN new) /\ IsFiniteSet(DOMAIN old)
      BY DatasetRunIsRun DEF IsRun
    <3>4. IsFiniteSet(after) /\ IsFiniteSet(before)
      BY <3>3, FS_Subset
    <3>5. /\ pass_rate_for_run(new) = [num |-> One * Cardinality(after),
                                       den |-> Cardinality(DOMAIN new)]
          /\ pass_rate_for_run(old) = [num |-> One * Cardinality(before),
                                       den |-> Cardinality(DOMAIN old)]
      BY <2>2, <3>1 DEF pass_rate_for_run
    <3>6. DOMAIN new = DOMAIN old
      BY DEF Improves
    <3> HIDE DEF after, before
    <3>7. /\ Cardinality(after) \in Nat /\ Cardinality(before) \in Nat
          /\ Cardinality(before) <= Cardinality(after)
      BY <3>2, <3>4, FS_CardinalityType, FS_Subset
    <3>8. One * Cardinality(before) <= One * Cardinality(after)
      BY <3>7, OneAssumption
    <3> QED BY <3>5, <3>6, <3>8 DEF NoLess
  <2> QED BY <2>1, <2>2
<1> QED BY <1>1, <1>2, <1>3

\* What a run took and cost.
LEMMA BudgetTypes ==
  ASSUME NEW rs, IsRun(rs)
  PROVE  /\ Total([c \in DOMAIN rs |-> rs[c].latency_ms]) \in Int
         /\ Total([c \in DOMAIN rs |-> rs[c].estimated_cost]) \in Int
<1> DEFINE ms == [c \in DOMAIN rs |-> rs[c].latency_ms]
           usd == [c \in DOMAIN rs |-> rs[c].estimated_cost]
           S == DOMAIN rs
<1>1. IsFiniteSet(S) /\ ms \in [S -> Int] /\ usd \in [S -> Int]
  BY DEF IsRun, IsCaseResult
<1> HIDE DEF ms, usd, S
<1>2. Total(ms) \in Int /\ Total(usd) \in Int
  BY <1>1, TotalInt
<1> QED BY <1>2 DEF ms, usd

LEMMA ImprovedBudgets ==
  ASSUME NEW new, NEW old, IsRun(new), IsRun(old), Improves(new, old)
  PROVE  /\ Total([c \in DOMAIN new |-> new[c].latency_ms])
              <= Total([c \in DOMAIN old |-> old[c].latency_ms])
         /\ Total([c \in DOMAIN new |-> new[c].estimated_cost])
              <= Total([c \in DOMAIN old |-> old[c].estimated_cost])
<1> DEFINE S == DOMAIN old
           ms(rs) == [c \in S |-> rs[c].latency_ms]
           usd(rs) == [c \in S |-> rs[c].estimated_cost]
<1>1. DOMAIN new = S /\ IsFiniteSet(S)
  BY DEF IsRun, Improves
<1>2. /\ ms(new) \in [S -> Int] /\ ms(old) \in [S -> Int]
      /\ usd(new) \in [S -> Int] /\ usd(old) \in [S -> Int]
  BY <1>1 DEF IsRun, IsCaseResult
<1>3. \A c \in S : ms(new)[c] <= ms(old)[c] /\ usd(new)[c] <= usd(old)[c]
  BY DEF Improves, AtLeastAsGood
<1>4. /\ ms(new) = [c \in DOMAIN new |-> new[c].latency_ms]
      /\ usd(new) = [c \in DOMAIN new |-> new[c].estimated_cost]
  BY <1>1
<1> DEFINE ms_new == ms(new)
           ms_old == ms(old)
           usd_new == usd(new)
           usd_old == usd(old)
<1>5. \A c \in S : ms_new[c] <= ms_old[c] /\ usd_new[c] <= usd_old[c]
  BY <1>3
<1>6. /\ ms_new \in [S -> Int] /\ ms_old \in [S -> Int]
      /\ usd_new \in [S -> Int] /\ usd_old \in [S -> Int]
  BY <1>2
<1> HIDE DEF ms_new, ms_old, usd_new, usd_old
<1>7. Total(ms_new) <= Total(ms_old) /\ Total(usd_new) <= Total(usd_old)
  BY <1>1, <1>5, <1>6, TotalMonotone
<1> QED BY <1>4, <1>7 DEF ms_new, ms_old, usd_new, usd_old

LEMMA RequirementType ==
  ASSUME NEW p \in Policies, NEW i \in DOMAIN p.required_metrics
  PROVE  /\ p.required_metrics[i].min_score # None => p.required_metrics[i].min_score \in Int
         /\ p.required_metrics[i].on_missing \in Action
         /\ p.required_metrics[i].on_infrastructure_failure \in Action
<1> DEFINE R == RequiredMetricPolicy
           listed == p.required_metrics
<1>1. listed \in Seq(R)
  BY LawsAssumption DEF ReleasePolicy
<1> HIDE DEF R, listed
<1>2. \A j \in DOMAIN listed : listed[j] \in R
  BY <1>1
<1>3. p.required_metrics[i] \in RequiredMetricPolicy
  BY <1>2 DEF R, listed
<1> QED BY <1>3, OneAssumption DEF RequiredMetricPolicy

\* Each check of decide, on a run that improves on another.
LEMMA ImprovedReasons ==
  ASSUME NEW new, NEW old, DatasetRun(new), DatasetRun(old), Improves(new, old),
         NEW p \in Policies, NEW base, base = None \/ IsSnapshot(base)
  PROVE  reasons(new, p, base) \subseteq reasons(old, p, base)
<1> USE DEF Improves
<1>1. IsRun(new) /\ IsRun(old)
  BY DatasetRunIsRun
<1>2. new # NoResults <=> old # NoResults
  BY DEF DatasetRun, NoResults
<1>3. /\ IsMean(pass_rate_for_run(new)) /\ IsMean(pass_rate_for_run(old))
      /\ \A m \in DOMAIN aggregate_metrics_for_run(old) :
           /\ IsMean(aggregate_metrics_for_run(old)[m])
           /\ IsMean(aggregate_metrics_for_run(new)[m])
  BY <1>1, PassRateType, AggregateType, ImprovedMeans DEF IsMean
<1>4. p \in ReleasePolicy
  BY LawsAssumption
<1>5. VacuousPassGuard(new) \subseteq VacuousPassGuard(old)
  BY <1>1, <1>2, ImprovedInstances DEF VacuousPassGuard, When
<1>6. CriticalCaseCheck(new, p) \subseteq CriticalCaseCheck(old, p)
  <2>1. critical_failures(new) # {} => critical_failures(old) # {}
    BY ImprovedPassRate
  <2> QED BY <2>1, WhenWeaker DEF CriticalCaseCheck
<1>7. RequiredMetricsCheck(new, p) \subseteq RequiredMetricsCheck(old, p)
  <2>1. ASSUME NEW i \in DOMAIN p.required_metrics
        PROVE  check_required_metric(p.required_metrics[i], new)
                 \subseteq check_required_metric(p.required_metrics[i], old)
    <3> DEFINE r == p.required_metrics[i]
               m == r.metric_name
               scored(rs) == WithStatus(rs, m, "scored") # {}
               infra(rs) == WithStatus(rs, m, "infrastructure_error") # {}
               aggregate(rs) == aggregate_metrics_for_run(rs)
               below(rs) == /\ r.min_score # None
                            /\ m \in DOMAIN aggregate(rs)
                            /\ Below(aggregate(rs)[m], r.min_score)
               check(rs) == IF ~scored(rs) /\ ~infra(rs)
                              THEN When(TRUE, "missing", m, r.on_missing)
                              ELSE When(infra(rs), "infrastructure", m,
                                        r.on_infrastructure_failure)
                                     \cup When(below(rs), "below_minimum", m, "block")
    <3>1. scored(new) = scored(old) /\ infra(new) = infra(old)
      BY <1>1, ImprovedInstances
    <3>2. below(new) => below(old)
      <4>1. r.min_score # None => r.min_score \in Int
        BY RequirementType
      <4>2. DOMAIN aggregate(new) = DOMAIN aggregate(old)
        BY <1>1, ImprovedMeans
      <4>3. m \in DOMAIN aggregate(old) => NoLess(aggregate(new)[m], aggregate(old)[m])
        BY <1>1, ImprovedMeans
      <4> QED BY <1>3, <4>1, <4>2, <4>3, NotBelowStays
    <3>3. When(below(new), "below_minimum", m, "block")
            \subseteq When(below(old), "below_minimum", m, "block")
      BY <3>2, WhenWeaker
    <3>4. check_required_metric(r, new) = check(new) /\ check_required_metric(r, old) = check(old)
      BY Zenon DEF check_required_metric
    <3> HIDE DEF scored, infra, below, r
    <3>5. check(new) \subseteq check(old)
      BY <3>1, <3>3
    <3> QED BY <3>4, <3>5 DEF r
  <2> QED BY <2>1 DEF RequiredMetricsCheck
<1>8. PassRateCheck(new, p) \subseteq PassRateCheck(old, p)
  <2>1. p.min_pass_rate \in Int
    BY <1>4, OneAssumption DEF ReleasePolicy
  <2>2. Below(pass_rate_for_run(new), p.min_pass_rate)
          => Below(pass_rate_for_run(old), p.min_pass_rate)
    BY <1>3, <2>1, ImprovedPassRate, NotBelowStays
  <2> QED BY <2>2, WhenWeaker DEF PassRateCheck
<1>9. BudgetCheck(new, p) \subseteq BudgetCheck(old, p)
  <2> DEFINE ms(rs) == Total([c \in DOMAIN rs |-> rs[c].latency_ms])
             usd(rs) == Total([c \in DOMAIN rs |-> rs[c].estimated_cost])
             slow(rs) == /\ p.latency_budget_ms # None
                         /\ rs # NoResults
                         /\ ms(rs) > p.latency_budget_ms * Cardinality(DOMAIN rs)
             dear(rs) == /\ p.cost_budget_usd # None
                         /\ rs # NoResults
                         /\ usd(rs) > p.cost_budget_usd
             check(rs) == When(slow(rs), "latency", None, p.latency_budget_action)
                            \cup When(dear(rs), "cost", None, p.cost_budget_action)
  <2>1. /\ ms(new) <= ms(old) /\ usd(new) <= usd(old)
        /\ ms(new) \in Int /\ ms(old) \in Int /\ usd(new) \in Int /\ usd(old) \in Int
    BY <1>1, ImprovedBudgets, BudgetTypes
  <2>2. Cardinality(DOMAIN new) = Cardinality(DOMAIN old) /\ Cardinality(DOMAIN old) \in Nat
    BY <1>1, FS_CardinalityType DEF IsRun
  <2>3. /\ p.latency_budget_ms # None => p.latency_budget_ms \in Nat
        /\ p.cost_budget_usd # None => p.cost_budget_usd \in Nat
    BY <1>4 DEF ReleasePolicy
  <2>4. check(new) = BudgetCheck(new, p) /\ check(old) = BudgetCheck(old, p)
    BY Zenon DEF BudgetCheck
  <2> HIDE DEF ms, usd
  <2>5. slow(new) => slow(old)
    <3> DEFINE limit == p.latency_budget_ms * Cardinality(DOMAIN old)
    <3>1. p.latency_budget_ms # None => limit \in Int
      BY <2>2, <2>3
    <3>2. p.latency_budget_ms * Cardinality(DOMAIN new) = limit
      OBVIOUS
    <3> HIDE DEF limit
    <3> QED BY <1>2, <2>1, <3>1, <3>2 DEF limit
  <2>6. dear(new) => dear(old)
    BY <1>2, <2>1, <2>3
  <2> HIDE DEF slow, dear
  <2>7. /\ When(slow(new), "latency", None, p.latency_budget_action)
             \subseteq When(slow(old), "latency", None, p.latency_budget_action)
        /\ When(dear(new), "cost", None, p.cost_budget_action)
             \subseteq When(dear(old), "cost", None, p.cost_budget_action)
    BY <2>5, <2>6, WhenWeaker
  <2> QED BY <2>4, <2>7
<1>10. ASSUME base # None
       PROVE  RegressionReasons(new, p, base) \subseteq RegressionReasons(old, p, base)
  <2> DEFINE t == p.max_regression_tolerance
             action == p.regression_action
             fell(rs) == FellBy(PassRateDelta(rs, base), t)
             fell_m(rs, m) == FellBy(MetricDelta(rs, base, m), t)
             shared(rs) == SharedMetrics(rs, base)
             check(rs) == When(fell(rs), "pass_rate_regression", None, action)
                            \cup UNION {When(fell_m(rs, m), "metric_regression", m, action) :
                                          m \in shared(rs)}
  <2>1. t \in Nat
    BY <1>4, OneAssumption DEF ReleasePolicy
  <2>2. IsSnapshot(base)
    BY <1>10
  <2>3. fell(new) => fell(old)
    BY <1>3, <2>1, <2>2, ImprovedPassRate, FallsLess DEF PassRateDelta, IsSnapshot
  <2>4. shared(new) = shared(old)
    BY <1>1, ImprovedMeans DEF SharedMetrics
  <2>5. \A m \in shared(old) : fell_m(new, m) => fell_m(old, m)
    BY <1>1, <1>3, <2>1, <2>2, ImprovedMeans, FallsLess
    DEF MetricDelta, SharedMetrics, IsSnapshot
  <2>6. RegressionReasons(new, p, base) = check(new) /\ RegressionReasons(old, p, base) = check(old)
    BY Zenon DEF RegressionReasons
  <2> HIDE DEF fell, fell_m, shared, action
  <2>7. When(fell(new), "pass_rate_regression", None, action)
          \subseteq When(fell(old), "pass_rate_regression", None, action)
    BY <2>3, WhenWeaker
  <2>8. \A m \in shared(old) : When(fell_m(new, m), "metric_regression", m, action)
                                 \subseteq When(fell_m(old, m), "metric_regression", m, action)
    BY <2>5, WhenWeaker
  <2> QED BY <2>4, <2>6, <2>7, <2>8
<1> QED BY <1>5, <1>6, <1>7, <1>8, <1>9, <1>10 DEF reasons

(***************************************************************************)
(* A run that does at least as well on every case as the one before it,    *)
(* against the same baseline, gets a status at most as severe, whatever    *)
(* the policy: decide, all its checks together.                            *)
(***************************************************************************)
THEOREM BetterAnswers == Spec => ImprovementNeverHurts
<1>1. Inputs /\ Inputs' =>
        [baseline' = baseline /\ Improves(results', results) => \A p \in Policies :
           SeverityOf(results', p, baseline) <= SeverityOf(results, p, baseline)]_vars
  <2> SUFFICES ASSUME Inputs, Inputs', Improves(results', results), NEW p \in Policies
               PROVE  SeverityOf(results', p, baseline) <= SeverityOf(results, p, baseline)
    OBVIOUS
  <2>1. reasons(results', p, baseline) \subseteq reasons(results, p, baseline)
    BY ImprovedReasons DEF Inputs
  <2> QED BY <2>1, SeverityOfSubset DEF SeverityOf, StatusOf
<1> QED BY <1>1, InputsInvariant, PTL DEF ImprovementNeverHurts

-----------------------------------------------------------------------------
(***************************************************************************)
(* Tighter policies.                                                       *)
(***************************************************************************)
\* For each reason of the one set, the other has one that is as severe.
Covers(these, those) ==
  \A r \in those : \E s \in these : s.action = "block" \/ s.action = r.action

LEMMA SeverityOfCover ==
  ASSUME NEW these, NEW those, Covers(these, those)
  PROVE  Severity(Status(these)) >= Severity(Status(those))
<1>1. Severity("pass") = 0 /\ Severity("warn") = 1 /\ Severity("block") = 2
  BY DEF Severity
<1> QED BY <1>1 DEF Status, Covers

LEMMA CoverUnion ==
  ASSUME NEW A, NEW B, NEW C, NEW D, Covers(A, C), Covers(B, D)
  PROVE  Covers(A \cup B, C \cup D)
BY DEF Covers

LEMMA WhenCovers ==
  ASSUME NEW P, NEW Q, Q => P, NEW kind, NEW metric,
         NEW a \in Action, NEW b \in Action, AtLeast(a, b)
  PROVE  Covers(When(P, kind, metric, a), When(Q, kind, metric, b))
<1>1. ActionRank("ignore") = 0 /\ ActionRank("warn") = 1 /\ ActionRank("block") = 2
  BY DEF ActionRank
<1>2. b # "ignore" => a # "ignore" /\ (a = "block" \/ a = b)
  BY <1>1 DEF AtLeast, Action
<1> QED BY <1>2 DEF When, Covers, Reason

LEMMA BelowHigher ==
  ASSUME NEW q, IsMean(q), NEW x \in Int, NEW y \in Int, x <= y, Below(q, x)
  PROVE  Below(q, y)
<1>1. x * q.den <= y * q.den
  BY TimesMonotone DEF IsMean
<1> QED BY <1>1 DEF Below, IsMean

LEMMA FellByMore ==
  ASSUME NEW delta, delta.num \in Int, delta.den \in Nat,
         NEW t \in Nat, NEW u \in Nat, t <= u, FellBy(delta, u)
  PROVE  FellBy(delta, t)
<1>1. t * delta.den <= u * delta.den
  BY TimesMonotone
<1> QED BY <1>1 DEF FellBy

LEMMA DeltaType ==
  ASSUME NEW q, NEW x, IsMean(q), IsMean(x)
  PROVE  Delta(q, x).num \in Int /\ Delta(q, x).den \in Nat
BY DEF Delta, IsMean

\* Each check of decide, under a policy that is tighter than another.
LEMMA TighterCovers ==
  ASSUME NEW rs, IsRun(rs), NEW base, base = None \/ IsSnapshot(base),
         NEW p \in Policies, NEW q \in Policies, Tighter(p, q)
  PROVE  Covers(reasons(rs, p, base), reasons(rs, q, base))
<1>1. p \in ReleasePolicy /\ q \in ReleasePolicy
  BY LawsAssumption
<1>2. /\ IsMean(pass_rate_for_run(rs))
      /\ \A m \in DOMAIN aggregate_metrics_for_run(rs) : IsMean(aggregate_metrics_for_run(rs)[m])
  BY PassRateType, AggregateType DEF IsMean
<1>3. \A a \in {"block", "warn"} : a \in Action
  BY DEF Action
<1>4. Covers(VacuousPassGuard(rs), VacuousPassGuard(rs))
  BY DEF Covers
<1>5. Covers(CriticalCaseCheck(rs, p), CriticalCaseCheck(rs, q))
  <2>1. p.critical_case_action \in Action /\ q.critical_case_action \in Action
    BY <1>1 DEF ReleasePolicy, Action
  <2> QED BY <2>1, WhenCovers DEF CriticalCaseCheck, Tighter
<1>6. Covers(RequiredMetricsCheck(rs, p), RequiredMetricsCheck(rs, q))
  <2>1. ASSUME NEW i \in DOMAIN p.required_metrics, NEW j \in DOMAIN q.required_metrics,
               TighterRequirement(p.required_metrics[i], q.required_metrics[j])
        PROVE  Covers(check_required_metric(p.required_metrics[i], rs),
                      check_required_metric(q.required_metrics[j], rs))
    <3> DEFINE r == p.required_metrics[i]
               s == q.required_metrics[j]
               m == s.metric_name
               scored == WithStatus(rs, m, "scored") # {}
               infra == WithStatus(rs, m, "infrastructure_error") # {}
               aggregate == aggregate_metrics_for_run(rs)
               below(t) == /\ t.min_score # None
                           /\ m \in DOMAIN aggregate
                           /\ Below(aggregate[m], t.min_score)
               missing(t) == When(TRUE, "missing", m, t.on_missing)
               infra_of(t) == When(infra, "infrastructure", m, t.on_infrastructure_failure)
               below_of(t) == When(below(t), "below_minimum", m, "block")
    <3>1. r.metric_name = m
      BY <2>1 DEF TighterRequirement
    <3>2. /\ check_required_metric(s, rs) =
               IF ~scored /\ ~infra THEN missing(s) ELSE infra_of(s) \cup below_of(s)
          /\ check_required_metric(r, rs) =
               IF ~scored /\ ~infra THEN missing(r) ELSE infra_of(r) \cup below_of(r)
      BY <3>1, Zenon DEF check_required_metric
    <3>3. below(s) => below(r)
      <4>1. /\ s.min_score # None => s.min_score \in Int
            /\ r.min_score # None => r.min_score \in Int
        BY RequirementType
      <4>2. s.min_score # None => r.min_score # None /\ s.min_score <= r.min_score
        BY <2>1, <4>1 DEF TighterRequirement
      <4> QED BY <1>2, <4>1, <4>2, BelowHigher
    <3>4. /\ r.on_missing \in Action /\ r.on_infrastructure_failure \in Action
          /\ s.on_missing \in Action /\ s.on_infrastructure_failure \in Action
      BY RequirementType
    <3>5. /\ AtLeast(r.on_missing, s.on_missing)
          /\ AtLeast(r.on_infrastructure_failure, s.on_infrastructure_failure)
      BY <2>1 DEF TighterRequirement
    <3>6. AtLeast("block", "block") /\ "block" \in Action
      BY DEF AtLeast, ActionRank, Action
    <3> HIDE DEF r, s, m, scored, infra, below
    <3>7. Covers(missing(r), missing(s)) /\ Covers(infra_of(r), infra_of(s))
      BY <3>4, <3>5, WhenCovers
    <3>8. Covers(below_of(r), below_of(s))
      BY <3>3, <3>6, WhenCovers
    <3> HIDE DEF missing, infra_of, below_of
    <3>9. Covers(infra_of(r) \cup below_of(r), infra_of(s) \cup below_of(s))
      BY <3>7, <3>8, CoverUnion
    <3> QED BY <3>2, <3>7, <3>9 DEF r, s
  <2>2. \A j \in DOMAIN q.required_metrics : \E i \in DOMAIN p.required_metrics :
          TighterRequirement(p.required_metrics[i], q.required_metrics[j])
    BY DEF Tighter
  <2> QED BY <2>1, <2>2 DEF RequiredMetricsCheck, Covers
<1>7. Covers(PassRateCheck(rs, p), PassRateCheck(rs, q))
  <2>1. /\ p.min_pass_rate \in Int /\ q.min_pass_rate \in Int
        /\ q.min_pass_rate <= p.min_pass_rate
    BY <1>1, OneAssumption DEF ReleasePolicy, Tighter
  <2>2. Below(pass_rate_for_run(rs), q.min_pass_rate) => Below(pass_rate_for_run(rs), p.min_pass_rate)
    BY <1>2, <2>1, BelowHigher
  <2>3. AtLeast("block", "block") /\ "block" \in Action
    BY DEF AtLeast, ActionRank, Action
  <2> QED BY <2>2, <2>3, WhenCovers DEF PassRateCheck
<1>8. Covers(BudgetCheck(rs, p), BudgetCheck(rs, q))
  <2> DEFINE ms == Total([c \in DOMAIN rs |-> rs[c].latency_ms])
             usd == Total([c \in DOMAIN rs |-> rs[c].estimated_cost])
             size == Cardinality(DOMAIN rs)
             slow(t) == t.latency_budget_ms # None /\ rs # NoResults /\ ms > t.latency_budget_ms * size
             dear(t) == t.cost_budget_usd # None /\ rs # NoResults /\ usd > t.cost_budget_usd
             slow_of(t) == When(slow(t), "latency", None, t.latency_budget_action)
             dear_of(t) == When(dear(t), "cost", None, t.cost_budget_action)
  <2>1. /\ BudgetCheck(rs, p) = slow_of(p) \cup dear_of(p)
        /\ BudgetCheck(rs, q) = slow_of(q) \cup dear_of(q)
    BY Zenon DEF BudgetCheck
  <2>2. /\ p.latency_budget_ms # None => p.latency_budget_ms \in Nat
        /\ q.latency_budget_ms # None => q.latency_budget_ms \in Nat
        /\ p.cost_budget_usd # None => p.cost_budget_usd \in Nat
        /\ q.cost_budget_usd # None => q.cost_budget_usd \in Nat
    BY <1>1 DEF ReleasePolicy
  <2>3. size \in Nat
    BY FS_CardinalityType DEF IsRun
  <2>4. ms \in Int /\ usd \in Int
    BY BudgetTypes
  <2>5. /\ p.latency_budget_action \in Action /\ q.latency_budget_action \in Action
        /\ p.cost_budget_action \in Action /\ q.cost_budget_action \in Action
    BY <1>1 DEF ReleasePolicy, Action
  <2>6. /\ TighterBudget(p.latency_budget_ms, q.latency_budget_ms)
        /\ TighterBudget(p.cost_budget_usd, q.cost_budget_usd)
        /\ AtLeast(p.latency_budget_action, q.latency_budget_action)
        /\ AtLeast(p.cost_budget_action, q.cost_budget_action)
    BY DEF Tighter
  <2> HIDE DEF ms, usd, size
  <2>7. slow(q) => slow(p)
    <3>1. SUFFICES ASSUME slow(q) PROVE slow(p)
      OBVIOUS
    <3> DEFINE x == p.latency_budget_ms
               y == q.latency_budget_ms
    <3>2. x # None /\ x \in Nat /\ y \in Nat /\ x <= y
      BY <2>2, <2>6, <3>1 DEF TighterBudget
    <3> HIDE DEF x, y
    <3>3. x * size <= y * size /\ x * size \in Int /\ y * size \in Int
      BY <2>3, <3>2, TimesMonotone
    <3>4. ms > y * size /\ rs # NoResults
      BY <3>1 DEF y
    <3>5. ms > x * size
      BY <2>4, <3>3, <3>4
    <3> QED BY <3>2, <3>4, <3>5 DEF x
  <2>8. dear(q) => dear(p)
    BY <2>2, <2>4, <2>6 DEF TighterBudget
  <2> HIDE DEF slow, dear
  <2>9. Covers(slow_of(p), slow_of(q)) /\ Covers(dear_of(p), dear_of(q))
    BY <2>5, <2>6, <2>7, <2>8, WhenCovers
  <2> HIDE DEF slow_of, dear_of
  <2> QED BY <2>1, <2>9, CoverUnion
<1>9. ASSUME base # None
      PROVE  Covers(RegressionReasons(rs, p, base), RegressionReasons(rs, q, base))
  <2> DEFINE fell(t) == FellBy(PassRateDelta(rs, base), t.max_regression_tolerance)
             fell_m(t, m) == FellBy(MetricDelta(rs, base, m), t.max_regression_tolerance)
             shared == SharedMetrics(rs, base)
             rate_of(t) == When(fell(t), "pass_rate_regression", None, t.regression_action)
             metric_of(t, m) == When(fell_m(t, m), "metric_regression", m, t.regression_action)
             metrics_of(t) == UNION {metric_of(t, m) : m \in shared}
  <2>1. /\ p.max_regression_tolerance \in Nat /\ q.max_regression_tolerance \in Nat
        /\ p.max_regression_tolerance <= q.max_regression_tolerance
    BY <1>1, OneAssumption DEF ReleasePolicy, Tighter
  <2>2. IsSnapshot(base)
    BY <1>9
  <2>3. fell(q) => fell(p)
    BY <1>2, <2>1, <2>2, DeltaType, FellByMore DEF PassRateDelta, IsSnapshot
  <2>4. \A m \in shared : fell_m(q, m) => fell_m(p, m)
    BY <1>2, <2>1, <2>2, DeltaType, FellByMore DEF MetricDelta, SharedMetrics, IsSnapshot
  <2>5. /\ RegressionReasons(rs, p, base) = rate_of(p) \cup metrics_of(p)
        /\ RegressionReasons(rs, q, base) = rate_of(q) \cup metrics_of(q)
    BY Zenon DEF RegressionReasons
  <2>6. /\ p.regression_action \in Action /\ q.regression_action \in Action
        /\ AtLeast(p.regression_action, q.regression_action)
    BY <1>1 DEF ReleasePolicy, Action, Tighter
  <2> HIDE DEF fell, fell_m, shared
  <2>7. Covers(rate_of(p), rate_of(q))
    BY <2>3, <2>6, WhenCovers
  <2>8. \A m \in shared : Covers(metric_of(p, m), metric_of(q, m))
    BY <2>4, <2>6, WhenCovers
  <2> HIDE DEF rate_of, metric_of
  <2>9. Covers(metrics_of(p), metrics_of(q))
    BY <2>8 DEF Covers
  <2> HIDE DEF metrics_of
  <2> QED BY <2>5, <2>7, <2>9, CoverUnion
<1> QED BY <1>4, <1>5, <1>6, <1>7, <1>8, <1>9 DEF reasons, Covers

(***************************************************************************)
(* A policy that asks for at least as much as another, with actions at     *)
(* least as severe, is at least as severe on the same run: decide, all its *)
(* checks together.                                                        *)
(***************************************************************************)
THEOREM TighterPolicies == Spec => []TighterPolicyNeverRelaxes
<1>1. Inputs => TighterPolicyNeverRelaxes
  <2> SUFFICES ASSUME Inputs, NEW p \in Policies, NEW q \in Policies, Tighter(p, q)
               PROVE  SeverityOf(results, p, baseline) >= SeverityOf(results, q, baseline)
    BY DEF TighterPolicyNeverRelaxes
  <2> QED BY DatasetRunIsRun, TighterCovers, SeverityOfCover DEF Inputs, SeverityOf, StatusOf
<1> QED BY <1>1, InputsInvariant, PTL

-----------------------------------------------------------------------------
(***************************************************************************)
(* What is a new failure to _compare_to_baseline, and what the checks of   *)
(* decide make of it.                                                      *)
(***************************************************************************)
\* The minimum in the engine's table is that of one of the requirements.
LEMMA ThresholdOfRequirement ==
  ASSUME NEW p \in Policies, NEW m, Threshold(p, m) # None
  PROVE  \E i \in DOMAIN p.required_metrics :
           /\ p.required_metrics[i].metric_name = m
           /\ p.required_metrics[i].min_score # None
           /\ p.required_metrics[i].min_score = Threshold(p, m)
<1> DEFINE R == RequiredMetricPolicy
           required == p.required_metrics
           listed == {i \in DOMAIN required : /\ required[i].metric_name = m
                                              /\ required[i].min_score # None}
<1>1. required \in Seq(R)
  BY LawsAssumption DEF ReleasePolicy
<1>2. Threshold(p, m) = IF listed = {} THEN None ELSE required[Max(listed)].min_score
  BY Zenon DEF Threshold
<1> HIDE DEF R, required
<1>3. DOMAIN required = 1 .. Len(required) /\ Len(required) \in Nat
  BY <1>1
<1>4. listed # {}
  BY <1>2
<1>5. listed \in (SUBSET (1 .. Len(required))) \ {{}}
  BY <1>3, <1>4
<1> HIDE DEF listed
<1>6. Max(listed) \in listed
  BY <1>3, <1>5, MaxExists
<1>7. required[Max(listed)].min_score = Threshold(p, m)
  BY <1>2, <1>4
<1> QED BY <1>6, <1>7 DEF listed, required

\* A mean that crosses a minimum downwards has fallen.
LEMMA CrossingIsFalling ==
  ASSUME NEW now, NEW before, IsMean(now), IsMean(before), NEW t \in Int,
         ~Below(before, t), Below(now, t)
  PROVE  FellBy(Delta(now, before), 0)
<1> DEFINE limit == t * now.den
           floor == t * before.den
<1>1. limit \in Int /\ floor \in Int /\ now.num + 1 <= limit /\ floor <= before.num
  BY DEF Below, IsMean
<1>2. (now.num + 1) * before.den <= limit * before.den
  BY <1>1, TimesMonotone DEF IsMean
<1>3. floor * now.den <= before.num * now.den
  BY <1>1, TimesMonotone DEF IsMean
<1>4. limit * before.den = floor * now.den
  BY DEF IsMean
<1>5. /\ (now.num + 1) * before.den = now.num * before.den + before.den
      /\ before.den > 0
  BY DEF IsMean
<1> HIDE DEF limit, floor
<1> DEFINE x == now.num * before.den
           y == before.num * now.den
<1>6. x \in Int /\ y \in Int /\ x < y
  <2>1. (now.num + 1) * before.den \in Int /\ x \in Int /\ y \in Int /\ before.den \in Int
    BY DEF IsMean
  <2>2. (now.num + 1) * before.den <= y
    <3>1. limit * before.den \in Int
      BY <1>1 DEF IsMean
    <3> HIDE DEF x
    <3> QED BY <1>2, <1>3, <1>4, <2>1, <3>1
  <2> QED BY <1>5, <2>1, <2>2
<1>7. Delta(now, before).num = x - y /\ 0 * Delta(now, before).den = 0
  BY DEF Delta, IsMean
<1> HIDE DEF x, y
<1> QED BY <1>6, <1>7 DEF FellBy

\* The check of a requirement whose metric scored below its minimum.
LEMMA BelowIsReason ==
  ASSUME NEW rs, NEW r, r.min_score # None,
         r.metric_name \in DOMAIN aggregate_metrics_for_run(rs),
         Below(aggregate_metrics_for_run(rs)[r.metric_name], r.min_score)
  PROVE  Reason("below_minimum", r.metric_name, "block") \in check_required_metric(r, rs)
<1> DEFINE m == r.metric_name
           scored == WithStatus(rs, m, "scored") # {}
           infra == WithStatus(rs, m, "infrastructure_error") # {}
           aggregate == aggregate_metrics_for_run(rs)
           below == /\ r.min_score # None
                    /\ m \in DOMAIN aggregate
                    /\ Below(aggregate[m], r.min_score)
<1>1. scored
  BY AggregateDomain
<1>2. below
  OBVIOUS
<1>3. check_required_metric(r, rs) =
        IF ~scored /\ ~infra
          THEN When(TRUE, "missing", m, r.on_missing)
          ELSE When(infra, "infrastructure", m, r.on_infrastructure_failure)
                 \cup When(below, "below_minimum", m, "block")
  BY Zenon DEF check_required_metric
<1> HIDE DEF scored, infra, below
<1> QED BY <1>1, <1>2, <1>3 DEF When

(***************************************************************************)
(* Whatever the summary of a gate call shows as a new failure, the verdict *)
(* has acted on (_compare_to_baseline's table of minimums against          *)
(* _check_required_metric and the comparison of the means).                *)
(***************************************************************************)
THEOREM NewFailuresHaveReasons == Spec => []NewFailuresAreReasons
<1>1. ASSUME Inputs, baseline # None, NEW p \in Policies,
             NEW m \in compare_to_baseline(results, p, baseline).new_failures
      PROVE  /\ Reason("below_minimum", m, "block") \in reasons(results, p, baseline)
             /\ p.max_regression_tolerance = 0 =>
                  Reason("metric_regression", m, p.regression_action)
                    \in reasons(results, p, baseline)
  <2> DEFINE now == aggregate_metrics_for_run(results)[m]
             before == baseline.aggregate_metrics[m]
  <2>1. /\ m \in SharedMetrics(results, baseline)
        /\ Threshold(p, m) # None
        /\ ~Below(before, Threshold(p, m))
        /\ Below(now, Threshold(p, m))
    BY <1>1 DEF compare_to_baseline
  <2>2. PICK i \in DOMAIN p.required_metrics :
          /\ p.required_metrics[i].metric_name = m
          /\ p.required_metrics[i].min_score # None
          /\ p.required_metrics[i].min_score = Threshold(p, m)
    BY <2>1, ThresholdOfRequirement
  <2>3. m \in DOMAIN aggregate_metrics_for_run(results) /\ m \in DOMAIN baseline.aggregate_metrics
    BY <2>1 DEF SharedMetrics
  <2>4. Reason("below_minimum", m, "block")
          \in check_required_metric(p.required_metrics[i], results)
    BY <2>1, <2>2, <2>3, BelowIsReason
  <2>5. Reason("below_minimum", m, "block") \in RequiredMetricsCheck(results, p)
    BY <2>4 DEF RequiredMetricsCheck
  <2>6. ASSUME p.max_regression_tolerance = 0
        PROVE  Reason("metric_regression", m, p.regression_action)
                 \in RegressionReasons(results, p, baseline)
    <3>1. IsMean(now) /\ IsMean(before)
      BY <1>1, <2>3, DatasetRunIsRun, AggregateType DEF Inputs, IsSnapshot, IsMean
    <3>2. Threshold(p, m) \in Int
      BY <2>2, RequirementType
    <3>3. FellBy(MetricDelta(results, baseline, m), 0)
      BY <2>1, <3>1, <3>2, CrossingIsFalling DEF MetricDelta
    <3>4. p.regression_action # "ignore"
      BY LawsAssumption DEF ReleasePolicy
    <3> DEFINE action == p.regression_action
    <3>5. RegressionReasons(results, p, baseline) =
            When(FellBy(PassRateDelta(results, baseline), p.max_regression_tolerance),
                 "pass_rate_regression", None, action)
              \cup UNION {When(FellBy(MetricDelta(results, baseline, n),
                                    p.max_regression_tolerance),
                               "metric_regression", n, action) :
                            n \in SharedMetrics(results, baseline)}
      BY Zenon DEF RegressionReasons
    <3>6. Reason("metric_regression", m, action)
            \in When(FellBy(MetricDelta(results, baseline, m), p.max_regression_tolerance),
                     "metric_regression", m, action)
      BY <2>6, <3>3, <3>4 DEF When
    <3> HIDE DEF action
    <3> QED BY <2>1, <3>5, <3>6 DEF action
  <2> QED BY <1>1, <2>5, <2>6 DEF reasons
<1>2. Inputs => NewFailuresAreReasons
  BY <1>1 DEF NewFailuresAreReasons, decide
<1> QED BY <1>2, InputsInvariant, PTL
=============================================================================
