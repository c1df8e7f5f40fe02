----------------------- MODULE EvaluationResultsProofs -----------------------
(***************************************************************************)
(* Facts about the numbers that EvaluationResults derives from a run:      *)
(* sums and means of finitely many numbers, for runs of any size.          *)
(***************************************************************************)
EXTENDS EvaluationResults, FiniteInduction

-----------------------------------------------------------------------------
(***************************************************************************)
(* Total is defined by recursion over sets.  For a finite domain the       *)
(* recursion has a solution, which gives its equation and thus its laws.   *)
(***************************************************************************)
Pick(s) == CHOOSE x \in s : TRUE

\* g adds up w over the sets of its domain, one element after the other.
AddsUp(w, g) ==
  \A s \in DOMAIN g : g[s] = IF s = {} THEN 0 ELSE w[Pick(s)] + g[s \ {Pick(s)}]

\* The sums over all subsets of S exist, by induction on their size.
LEMMA SumsExist ==
  ASSUME NEW S, IsFiniteSet(S), NEW w
  PROVE  \E g : DOMAIN g = SUBSET S /\ g = [s \in SUBSET S |-> g[s]] /\ AddsUp(w, g)
<1> DEFINE Small(n) == {s \in SUBSET S : Cardinality(s) <= n}
           Reached == {n \in Nat : \E g : /\ DOMAIN g = Small(n)
                                          /\ g = [s \in Small(n) |-> g[s]]
                                          /\ AddsUp(w, g)}
<1>1. \A s \in SUBSET S : IsFiniteSet(s) /\ Cardinality(s) \in Nat
  BY FS_Subset, FS_CardinalityType
<1>2. 0 \in Reached
  <2>1. Small(0) = {{}}
    BY <1>1, FS_EmptySet
  <2> DEFINE g == [s \in Small(0) |-> 0]
  <2>2. AddsUp(w, g)
    BY <2>1 DEF AddsUp
  <2> QED BY <2>2
<1>3. ASSUME NEW n \in Nat, n \in Reached PROVE n + 1 \in Reached
  <2>1. PICK f : /\ DOMAIN f = Small(n)
                 /\ f = [s \in Small(n) |-> f[s]]
                 /\ AddsUp(w, f)
    BY <1>3
  <2> DEFINE g == [s \in Small(n + 1) |->
                     IF s = {} THEN 0 ELSE w[Pick(s)] + f[s \ {Pick(s)}]]
  <2>2. \A s \in Small(n + 1) : s # {} => s \ {Pick(s)} \in Small(n)
    <3> TAKE s \in Small(n + 1)
    <3> HAVE s # {}
    <3>1. Pick(s) \in s
      BY DEF Pick
    <3>2. Cardinality(s \ {Pick(s)}) = Cardinality(s) - 1
      BY <1>1, <3>1, FS_RemoveElement
    <3> QED BY <1>1, <3>2
  <2>3. \A s \in Small(n) : s \in Small(n + 1) /\ g[s] = f[s]
    BY <1>1, <2>1 DEF AddsUp
  <2>4. AddsUp(w, g)
    BY <2>2, <2>3 DEF AddsUp
  <2> HIDE DEF g
  <2>5. DOMAIN g = Small(n + 1) /\ g = [s \in Small(n + 1) |-> g[s]]
    BY DEF g
  <2> HIDE DEF Small
  <2> QED BY <2>4, <2>5
<1>4. Cardinality(S) \in Reached
  <2> HIDE DEF Reached
  <2> QED BY <1>1, <1>2, <1>3, CountingUp
<1>5. Small(Cardinality(S)) = SUBSET S
  BY FS_Subset
<1> QED BY <1>4, <1>5

\* Total is what such sums come to.
LEMMA TotalAddsUp ==
  ASSUME NEW w, IsFiniteSet(DOMAIN w)
  PROVE  \E g : DOMAIN g = SUBSET DOMAIN w /\ AddsUp(w, g) /\ Total(w) = g[DOMAIN w]
<1> DEFINE Next(g) == [s \in SUBSET DOMAIN w |->
                         IF s = {} THEN 0 ELSE w[Pick(s)] + g[s \ {Pick(s)}]]
           sums == CHOOSE g : g = Next(g)
<1>1. Total(w) = sums[DOMAIN w]
  BY Zenon DEF Total, MapThenSumSet, MapThenFoldSet, Pick
<1>2. \E g : g = Next(g)
  <2>1. PICK g : /\ DOMAIN g = SUBSET DOMAIN w /\ g = [s \in SUBSET DOMAIN w |-> g[s]]
                 /\ AddsUp(w, g)
    BY SumsExist
  <2>2. g = Next(g)
    BY <2>1 DEF AddsUp
  <2> QED BY <2>2
<1>3. sums = Next(sums)
  BY <1>2
<1> HIDE DEF sums
<1>4. DOMAIN sums = SUBSET DOMAIN w /\ AddsUp(w, sums)
  BY <1>3 DEF AddsUp
<1> QED BY <1>1, <1>4

LEMMA PickOne == ASSUME NEW s, s # {} PROVE Pick(s) \in s
BY DEF Pick

\* A sum of integers is an integer.
LEMMA TotalInt ==
  ASSUME NEW S, IsFiniteSet(S), NEW w \in [S -> Int]
  PROVE  Total(w) \in Int
<1>1. PICK g : DOMAIN g = SUBSET S /\ AddsUp(w, g) /\ Total(w) = g[S]
  BY TotalAddsUp
<1> DEFINE Good == {s \in SUBSET S : g[s] \in Int}
<1>2. ASSUME NEW s \in SUBSET S, \A u \in SUBSET s : u # s => u \in Good PROVE s \in Good
  <2>1. CASE s = {}
    <3>1. g[s] = 0
      BY <1>1, <2>1 DEF AddsUp
    <3> QED BY <2>1, <3>1
  <2>2. CASE s # {}
    <3> DEFINE x == Pick(s)
    <3>1. x \in S /\ s \ {x} \in Good
      BY <1>2, <2>2, PickOne
    <3>2. g[s] = w[x] + g[s \ {x}]
      BY <1>1, <2>2 DEF AddsUp
    <3> HIDE DEF x
    <3> QED BY <3>1, <3>2
  <2> QED BY <2>1, <2>2
<1> HIDE DEF Good
<1>3. S \in Good
  BY <1>2, SubsetInduction
<1> QED BY <1>1, <1>3 DEF Good

\* A sum does not fall if no number does.
LEMMA TotalMonotone ==
  ASSUME NEW S, IsFiniteSet(S), NEW v \in [S -> Int], NEW w \in [S -> Int],
         \A x \in S : v[x] <= w[x]
  PROVE  Total(v) <= Total(w)
<1>1. PICK f : DOMAIN f = SUBSET S /\ AddsUp(v, f) /\ Total(v) = f[S]
  BY TotalAddsUp
<1>2. PICK g : DOMAIN g = SUBSET S /\ AddsUp(w, g) /\ Total(w) = g[S]
  BY TotalAddsUp
<1> DEFINE Good == {s \in SUBSET S : f[s] \in Int /\ g[s] \in Int /\ f[s] <= g[s]}
<1>3. ASSUME NEW s \in SUBSET S, \A u \in SUBSET s : u # s => u \in Good PROVE s \in Good
  <2>1. CASE s = {}
    <3>1. f[s] = 0 /\ g[s] = 0
      BY <1>1, <1>2, <2>1 DEF AddsUp
    <3> QED BY <2>1, <3>1
  <2>2. CASE s # {}
    <3> DEFINE x == Pick(s)
    <3>1. x \in S /\ s \ {x} \in Good
      BY <1>3, <2>2, PickOne
    <3>2. f[s] = v[x] + f[s \ {x}] /\ g[s] = w[x] + g[s \ {x}]
      BY <1>1, <1>2, <2>2 DEF AddsUp
    <3> HIDE DEF x
    <3> QED BY <3>1, <3>2
  <2> QED BY <2>1, <2>2
<1> HIDE DEF Good
<1>4. S \in Good
  BY <1>3, SubsetInduction
<1> QED BY <1>1, <1>2, <1>4 DEF Good
-----------------------------------------------------------------------------
\* A list of case results that a run can end with.
IsRun(results) ==
  /\ results = [c \in DOMAIN results |-> results[c]]
  /\ IsFiniteSet(DOMAIN results)
  /\ \A c \in DOMAIN results : \E critical \in BOOLEAN : IsCaseResult(results[c], critical)

LEMMA InstancesFinite ==
  ASSUME NEW results, IsRun(results)
  PROVE  IsFiniteSet(AllInstances(results))
<1> DEFINE evaluators == [c \in DOMAIN results |-> DOMAIN results[c].metric_results]
           Names == UNION {evaluators[c] : c \in DOMAIN evaluators}
<1>1. IsFiniteSet(DOMAIN results)
  BY DEF IsRun
<1>2. \A c \in DOMAIN results : IsFiniteSet(evaluators[c])
  BY DEF IsRun, IsCaseResult
<1>3. IsFiniteSet({evaluators[c] : c \in DOMAIN evaluators})
  <2>1. DOMAIN evaluators = DOMAIN results
    OBVIOUS
  <2> HIDE DEF evaluators
  <2> QED BY <1>1, <2>1, FiniteImage
<1>4. IsFiniteSet(Names)
  BY <1>2, <1>3, FS_UNION
<1>5. \A c \in DOMAIN results : DOMAIN results[c].metric_results \subseteq Names
  OBVIOUS
<1> HIDE DEF Names
<1>6. IsFiniteSet((DOMAIN results) \X Names)
  <2> DEFINE S == DOMAIN results
  <2>1. IsFiniteSet(S)
    BY <1>1
  <2> HIDE DEF S
  <2>2. IsFiniteSet(S \X Names)
    BY <1>4, <2>1, FS_Product
  <2> QED BY <2>2 DEF S
<1>7. ASSUME NEW i \in AllInstances(results)
      PROVE  i \in (DOMAIN results) \X Names
  <2>1. PICK c \in DOMAIN results : i \in {<<c, e>> : e \in DOMAIN results[c].metric_results}
    BY <1>7 DEF AllInstances
  <2>2. PICK e \in DOMAIN results[c].metric_results : i = <<c, e>>
    BY <2>1
  <2> QED BY <1>5, <2>2
<1>8. AllInstances(results) \subseteq (DOMAIN results) \X Names
  BY <1>7
<1> QED BY <1>6, <1>8, FS_Subset

\* An instance is a result of some evaluator for some case.
LEMMA InstanceType ==
  ASSUME NEW results, IsRun(results), NEW i \in AllInstances(results)
  PROVE  /\ i[1] \in DOMAIN results
         /\ i[2] \in DOMAIN results[i[1]].metric_results
         /\ i = <<i[1], i[2]>>
         /\ IsMetricResult(At(results, i))
<1>1. PICK c \in DOMAIN results : \E e \in DOMAIN results[c].metric_results : i = <<c, e>>
  BY DEF AllInstances
<1>2. IsMetricResult(At(results, i))
  BY <1>1 DEF IsRun, IsCaseResult, At
<1> QED BY <1>1, <1>2

LEMMA StatusFinite ==
  ASSUME NEW results, IsRun(results), NEW name, NEW status
  PROVE  /\ WithStatus(results, name, status) \subseteq AllInstances(results)
         /\ IsFiniteSet(WithStatus(results, name, status))
<1>1. WithStatus(results, name, status) \subseteq AllInstances(results)
  BY DEF WithStatus, Instances
<1> QED BY <1>1, InstancesFinite, FS_Subset

LEMMA Positive ==
  ASSUME NEW S, IsFiniteSet(S), S # {}
  PROVE  Cardinality(S) \in Nat \ {0}
BY FS_CardinalityType, FS_EmptySet

\* A metric is aggregated if it has a score.
LEMMA AggregateDomain ==
  ASSUME NEW results
  PROVE  DOMAIN aggregate_metrics_for_run(results)
           = {n \in MetricNames(results) : WithStatus(results, n, "scored") # {}}
BY Zenon DEF aggregate_metrics_for_run

\* The aggregate of a metric is a sum of integers over a positive number of scores.
LEMMA AggregateType ==
  ASSUME NEW results, IsRun(results), NEW m \in DOMAIN aggregate_metrics_for_run(results)
  PROVE  LET scored == WithStatus(results, m, "scored")
         IN  /\ m \in MetricNames(results) /\ scored # {}
             /\ aggregate_metrics_for_run(results)[m].num
                  = Total([i \in scored |-> At(results, i).score])
             /\ aggregate_metrics_for_run(results)[m].den = Cardinality(scored)
             /\ aggregate_metrics_for_run(results)[m].num \in Int
             /\ aggregate_metrics_for_run(results)[m].den \in Nat \ {0}
<1> DEFINE scored == WithStatus(results, m, "scored")
           score == [i \in scored |-> At(results, i).score]
<1>1. /\ m \in MetricNames(results) /\ scored # {}
      /\ aggregate_metrics_for_run(results)[m].num = Total(score)
      /\ aggregate_metrics_for_run(results)[m].den = Cardinality(scored)
  BY Zenon DEF aggregate_metrics_for_run
<1>2. IsFiniteSet(scored)
  BY StatusFinite
<1>3. score \in [scored -> Int]
  BY StatusFinite, InstanceType DEF IsMetricResult
<1> HIDE DEF score, scored
<1>4. Total(score) \in Int /\ Cardinality(scored) \in Nat \ {0}
  BY <1>1, <1>2, <1>3, TotalInt, Positive
<1> QED BY <1>1, <1>4 DEF score, scored

LEMMA PassRateType ==
  ASSUME NEW results, IsRun(results)
  PROVE  /\ pass_rate_for_run(results).num \in Int
         /\ pass_rate_for_run(results).den \in Nat \ {0}
<1>1. CASE results = NoResults
  BY <1>1, OneAssumption DEF pass_rate_for_run
<1>2. CASE results # NoResults
  <2>1. DOMAIN results # {}
    BY <1>2 DEF IsRun, NoResults
  <2> DEFINE passed == {c \in DOMAIN results : results[c].passed}
  <2>2. IsFiniteSet(DOMAIN results) /\ IsFiniteSet(passed)
    BY FS_Subset DEF IsRun
  <2>3. Cardinality(passed) \in Nat /\ Cardinality(DOMAIN results) \in Nat \ {0}
    BY <2>1, <2>2, FS_CardinalityType, Positive
  <2>4. /\ pass_rate_for_run(results).num = One * Cardinality(passed)
        /\ pass_rate_for_run(results).den = Cardinality(DOMAIN results)
    BY <1>2 DEF pass_rate_for_run
  <2> HIDE DEF passed
  <2> QED BY <2>3, <2>4, OneAssumption
<1> QED BY <1>1, <1>2
=============================================================================
