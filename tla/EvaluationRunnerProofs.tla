------------------------- MODULE EvaluationRunnerProofs -------------------------
(***************************************************************************)
(* EvaluationRunner, for any datasets, evaluators, providers and judges,   *)
(* any number of runs and of attempts, with a timeout or without: nothing  *)
(* passes unexamined, a run is partial exactly if something in it did not  *)
(* execute, and what did not execute reaches the gate.                     *)
(*                                                                         *)
(* The inductive invariant says of every case that has been graded, and of *)
(* the case that is being graded, where each of its results comes from:    *)
(* either a worker returned it, and nothing can change what that worker    *)
(* has returned, or the call is among the outages and the result is a      *)
(* failed one.  A worker that was abandoned may do what it likes: the      *)
(* result recorded for its call does not depend on it.                     *)
(***************************************************************************)
EXTENDS EvaluationRunner, EvaluationResultsProofs, SequenceTheorems

\* What a run works on, in state q of its thread.
DatasetOf(q) == Requests[q.request].dataset
ChosenOf(q) == Selected(EvaluatorList, Requests[q.request].frameworks)
Now(q) == DatasetOf(q)[q.case]
Grading(q) == q.pc \in {"evaluators", "waiting"}

\* Where the thread can be.
PlaceOK(q) ==
  /\ q = [pc |-> q.pc, request |-> q.request, case |-> q.case, attempt |-> q.attempt,
          evaluator |-> q.evaluator, responses |-> q.responses,
          metric_results |-> q.metric_results, case_results |-> q.case_results,
          status |-> q.status]
  /\ q.pc \in {"ready", "provider", "evaluators", "waiting", "done"}
  /\ q.request \in IF q.pc = "ready" THEN {None} ELSE DOMAIN Requests
  /\ q.attempt \in Nat \ {0} /\ (q.attempt = 1 \/ q.attempt <= MaxAttempts)
  /\ q.pc = "ready" => q = Ready
  /\ q.pc # "ready" =>
       /\ q.case \in 1 .. Len(DatasetOf(q)) + 1
       /\ q.evaluator \in 1 .. Len(ChosenOf(q)) + 1
       /\ Grading(q) => q.case <= Len(DatasetOf(q))
       /\ q.pc = "waiting" => /\ q.evaluator <= Len(ChosenOf(q))
                              /\ applies_to(ChosenOf(q)[q.evaluator], Now(q))
       /\ q.pc = "done" => q.case = Len(DatasetOf(q)) + 1

\* Which cases were answered: some of those before the current one, and that one while
\* it is graded.
ResponsesOK(q) ==
  /\ \A i \in DOMAIN DatasetOf(q) : DatasetOf(q)[i].id \in DOMAIN q.responses =>
       i < q.case \/ (i = q.case /\ Grading(q))
  /\ Grading(q) => Now(q).id \in DOMAIN q.responses
  /\ \A id \in DOMAIN q.responses : IsResponse(q.responses[id])

\* A result that evaluator e returned by itself.
OwnResult(result, case, e, response) ==
  /\ result.score \in Nat
  /\ Failed(result) => ~result.passed
  /\ result.metric_name = metric_name(e, case)
  /\ e \in Deterministic => result = Check(e, case, response)

CallOK(call, case, e, response, cache) ==
  /\ call.at \in {"running", "measured", "returned", "raised"}
  /\ call.at = "measured" => e = DeepEvalCriteria /\ CacheKey(case, response) \in DOMAIN cache
  /\ call.at = "returned" => OwnResult(call.result, case, e, response)

\* Evaluator j was called for case i.
WasCalled(q, i, j) ==
  /\ applies_to(ChosenOf(q)[j], DatasetOf(q)[i])
  /\ DatasetOf(q)[i].id \in DOMAIN q.responses
  /\ \/ i < q.case
     \/ i = q.case /\ (j < q.evaluator \/ (j = q.evaluator /\ q.pc = "waiting"))

WorkersOK(q, w, cache) ==
  /\ \A call \in DOMAIN w : \E i \in DOMAIN DatasetOf(q), j \in DOMAIN ChosenOf(q) :
       /\ call = <<DatasetOf(q)[i].id, ChosenOf(q)[j]>>
       /\ WasCalled(q, i, j)
       /\ CallOK(w[call], DatasetOf(q)[i], ChosenOf(q)[j],
                 q.responses[DatasetOf(q)[i].id], cache)
  /\ q.pc = "waiting" => <<Now(q).id, ChosenOf(q)[q.evaluator]>> \in DOMAIN w

\* Where a recorded result comes from: a worker's return, or an outage.
ComesFrom(case, e, result, w, out) ==
  \/ /\ <<case.id, e>> \notin out /\ ~Failed(result)
     /\ <<case.id, e>> \in DOMAIN w
     /\ w[<<case.id, e>>].at = "returned" /\ w[<<case.id, e>>].result = result
  \/ /\ <<case.id, e>> \in out /\ Failed(result) /\ ~result.passed
     /\ result.metric_name \in {e, metric_name(e, case)}

\* The results of the first n of the evaluators.
ResultsOf(results, case, chosen, n, w, out) ==
  /\ DOMAIN results = {e \in {chosen[j] : j \in 1 .. n} : applies_to(e, case)}
  /\ \A e \in DOMAIN results : ComesFrom(case, e, results[e], w, out)
  /\ \A e : <<case.id, e>> \in out => e \in DOMAIN results

\* The case that is being worked on.
CurrentOK(q, w, out) ==
  IF Grading(q)
    THEN ResultsOf(q.metric_results, Now(q), ChosenOf(q), q.evaluator - 1, w, out)
    ELSE q.metric_results = NoMetrics /\ q.evaluator = 1

\* A case that the provider or an exception ended.
Unanswered(result, case, out) ==
  /\ result.metric_results = NoMetrics /\ ~result.passed /\ result.partial \in BOOLEAN
  /\ \A e : <<case.id, e>> \in out => e = None /\ result.partial
  /\ result.partial => <<case.id, None>> \in out

Graded(q, result, case, w, out) ==
  /\ case.id \in DOMAIN q.responses
  /\ ResultsOf(result.metric_results, case, ChosenOf(q), Len(ChosenOf(q)), w, out)
  /\ result.passed = AllPassed(result.metric_results)
  /\ result.partial = AnyErrorType(result.metric_results)

PastOK(q, w, out) ==
  /\ DOMAIN q.case_results = {DatasetOf(q)[i].id : i \in 1 .. q.case - 1}
  /\ \A i \in 1 .. q.case - 1 :
       LET case == DatasetOf(q)[i]
       IN  \/ Unanswered(q.case_results[case.id], case, out)
           \/ Graded(q, q.case_results[case.id], case, w, out)

OutagesOK(q, out) ==
  \A o \in out : \E i \in DOMAIN DatasetOf(q), e \in Entries(ChosenOf(q)) \cup {None} :
    /\ o = <<DatasetOf(q)[i].id, e>>
    /\ i < q.case \/ (i = q.case /\ Grading(q))

StatusOK(q) ==
  q.status = IF q.pc # "done" THEN "running"
             ELSE IF \E c \in DOMAIN q.case_results : q.case_results[c].partial THEN "partial"
             ELSE "completed"

RunOK(q, w, out, cache) ==
  /\ PlaceOK(q) /\ StatusOK(q)
  /\ q.pc = "ready" => w = Nothing /\ out = {}
  /\ q.pc # "ready" =>
       /\ ResponsesOK(q) /\ WorkersOK(q, w, cache)
       /\ CurrentOK(q, w, out) /\ PastOK(q, w, out) /\ OutagesOK(q, out)

RunnerInv ==
  /\ run = [r \in Runs |-> run[r]] /\ worker = [r \in Runs |-> worker[r]]
  /\ outages = [r \in Runs |-> outages[r]]
  /\ \A key \in DOMAIN metric_cache : metric_cache[key] \in Nat
  /\ \A r \in Runs : RunOK(run[r], worker[r], outages[r], metric_cache)

-----------------------------------------------------------------------------
(***************************************************************************)
(* Datasets, and the evaluators that a request selects.                    *)
(***************************************************************************)
LEMMA DatasetFacts ==
  ASSUME NEW name \in DOMAIN Requests
  PROVE  /\ name # None
         /\ Len(Requests[name].dataset) \in Nat
         /\ DOMAIN Requests[name].dataset = 1 .. Len(Requests[name].dataset)
         /\ \A i \in DOMAIN Requests[name].dataset : IsCase(Requests[name].dataset[i])
         /\ \A i, j \in DOMAIN Requests[name].dataset :
              Requests[name].dataset[i].id = Requests[name].dataset[j].id => i = j
<1> DEFINE dataset == Requests[name].dataset
           ids == [i \in DOMAIN dataset |-> dataset[i].id]
<1>1. name # None /\ dataset \in Seq(Entries(dataset)) /\ Distinct(ids)
      /\ \A case \in Entries(dataset) : IsCase(case)
  BY RequestsAssumption
<1>2. Len(dataset) \in Nat /\ DOMAIN dataset = 1 .. Len(dataset)
  BY <1>1, LenProperties
<1>3. \A i \in DOMAIN dataset : IsCase(dataset[i])
  BY <1>1 DEF Entries
<1>4. \A i, j \in DOMAIN dataset : dataset[i].id = dataset[j].id => i = j
  BY <1>1 DEF Distinct
<1> QED BY <1>1, <1>2, <1>3, <1>4

\* A list of evaluators, each of them once.
IsSelection(list) == list \in Seq(Deterministic \cup Judges) /\ Distinct(list)

LEMMA SelectionFacts ==
  ASSUME NEW list, IsSelection(list)
  PROVE  /\ Len(list) \in Nat /\ DOMAIN list = 1 .. Len(list)
         /\ \A j \in DOMAIN list : list[j] \in Deterministic \cup Judges /\ list[j] # None
         /\ \A i, j \in DOMAIN list : list[i] = list[j] => i = j
<1>1. Len(list) \in Nat /\ DOMAIN list = 1 .. Len(list)
  BY LenProperties DEF IsSelection
<1>2. \A j \in DOMAIN list : list[j] \in Deterministic \cup Judges
  BY <1>1, ElementOfSeq DEF IsSelection
<1> QED BY <1>1, <1>2, RunnerAssumption DEF IsSelection, Distinct

\* The step from a selection of the first n - 1 evaluators to one of the first n.
Chooses(list, f, g, n) ==
  g[n] = IF n = 0 THEN <<>>
         ELSE IF f = None \/ framework(list[n]) \in f THEN Append(g[n - 1], list[n])
         ELSE g[n - 1]

\* Selected is defined by recursion over the prefixes of a list, which has a solution.
LEMMA ChoicesExist ==
  ASSUME NEW list, NEW f, NEW m \in Nat
  PROVE  \E g : /\ g = [n \in 0 .. m |-> g[n]]
                /\ \A n \in 0 .. m : Chooses(list, f, g, n)
<1> DEFINE Reached == {k \in Nat : \E g : /\ g = [n \in 0 .. k |-> g[n]]
                                          /\ \A n \in 0 .. k : Chooses(list, f, g, n)}
<1>1. 0 \in Reached
  <2> DEFINE g == [n \in 0 .. 0 |-> <<>>]
  <2>1. g = [n \in 0 .. 0 |-> g[n]] /\ \A n \in 0 .. 0 : Chooses(list, f, g, n)
    BY DEF Chooses
  <2> QED BY <2>1
<1>2. ASSUME NEW k \in Nat, k \in Reached PROVE k + 1 \in Reached
  <2>1. PICK g : g = [n \in 0 .. k |-> g[n]] /\ \A n \in 0 .. k : Chooses(list, f, g, n)
    BY <1>2
  <2> DEFINE more == IF f = None \/ framework(list[k + 1]) \in f
                       THEN Append(g[k], list[k + 1]) ELSE g[k]
             h == [n \in 0 .. k + 1 |-> IF n = k + 1 THEN more ELSE g[n]]
  <2>2. h = [n \in 0 .. k + 1 |-> h[n]]
    OBVIOUS
  <2>3. h[k + 1] = more /\ \A n \in 0 .. k : h[n] = g[n]
    OBVIOUS
  <2> HIDE DEF h
  <2>4. ASSUME NEW n \in 0 .. k + 1 PROVE Chooses(list, f, h, n)
    <3>1. CASE n = k + 1
      <4>1. h[n] = more /\ h[n - 1] = g[k] /\ n # 0
        BY <2>3, <3>1
      <4> QED BY <3>1, <4>1 DEF Chooses
    <3>2. CASE n \in 0 .. k
      <4>1. h[n] = g[n] /\ Chooses(list, f, g, n)
        BY <2>1, <2>3, <3>2
      <4>2. n # 0 => h[n - 1] = g[n - 1]
        BY <2>3, <3>2
      <4> QED BY <4>1, <4>2 DEF Chooses
    <3> QED BY <3>1, <3>2
  <2> QED BY <2>2, <2>4
<1> HIDE DEF Reached
<1>3. m \in Reached
  BY <1>1, <1>2, CountingUp
<1> QED BY <1>3 DEF Reached

LEMMA SelectedBySteps ==
  ASSUME NEW list, NEW f, Len(list) \in Nat
  PROVE  \E g : /\ \A n \in 0 .. Len(list) : Chooses(list, f, g, n)
                /\ Selected(list, f) = g[Len(list)]
<1> DEFINE Solves(g) == [n \in 0 .. Len(list) |->
                           IF n = 0 THEN <<>>
                           ELSE IF f = None \/ framework(list[n]) \in f
                             THEN Append(g[n - 1], list[n])
                           ELSE g[n - 1]]
           first == CHOOSE g : g = Solves(g)
<1>1. Selected(list, f) = first[Len(list)]
  BY Zenon DEF Selected
<1>2. PICK g : /\ g = [n \in 0 .. Len(list) |-> g[n]]
               /\ \A n \in 0 .. Len(list) : Chooses(list, f, g, n)
  BY ChoicesExist
<1>3. g = Solves(g)
  BY <1>2 DEF Chooses
<1>4. first = Solves(first)
  BY <1>3
<1> HIDE DEF first
<1>5. \A n \in 0 .. Len(list) : Chooses(list, f, first, n)
  BY <1>4 DEF Chooses
<1> QED BY <1>1, <1>5

\* What a request selects of the configured evaluators is a list of some of them.
LEMMA SelectedIsSelection ==
  ASSUME NEW f
  PROVE  IsSelection(Selected(EvaluatorList, f))
<1> DEFINE list == EvaluatorList
           N == Len(list)
           S == Deterministic \cup Judges
<1>1. N \in Nat /\ DOMAIN list = 1 .. N /\ \A n \in 1 .. N : list[n] \in S
      /\ \A i, j \in 1 .. N : list[i] = list[j] => i = j
  <2>1. IsSelection(list)
    BY RunnerAssumption DEF IsSelection
  <2> QED BY <2>1, SelectionFacts
<1>2. PICK g : /\ \A n \in 0 .. N : Chooses(list, f, g, n)
               /\ Selected(list, f) = g[N]
  BY <1>1, SelectedBySteps
<1> HIDE DEF list, N, S
<1> DEFINE Before(x, n) == \E i \in 1 .. n : x = list[i]
           Good == {n \in Nat : n <= N =>
                      /\ g[n] \in Seq(S) /\ Distinct(g[n])
                      /\ \A j \in DOMAIN g[n] : Before(g[n][j], n)}
<1>3. 0 \in Good
  <2>1. g[0] = <<>>
    BY <1>1, <1>2 DEF Chooses
  <2>2. <<>> \in Seq(S) /\ DOMAIN <<>> = {}
    BY EmptySeq
  <2> QED BY <2>1, <2>2 DEF Distinct
<1>4. ASSUME NEW n \in Nat, n \in Good PROVE n + 1 \in Good
  <2> SUFFICES ASSUME n + 1 <= N PROVE n + 1 \in Good
    OBVIOUS
  <2>1. /\ g[n] \in Seq(S) /\ Distinct(g[n])
        /\ \A j \in DOMAIN g[n] : Before(g[n][j], n)
    BY <1>1, <1>4
  <2>2. n + 1 \in 1 .. N /\ list[n + 1] \in S
    BY <1>1
  <2>3. \A x : Before(x, n) => Before(x, n + 1) /\ x # list[n + 1]
    BY <1>1, <2>2
  <2>4. Chooses(list, f, g, n + 1)
    BY <1>1, <1>2, <2>2
  <2>5. g[n + 1] = Append(g[n], list[n + 1]) \/ g[n + 1] = g[n]
    BY <1>1, <2>2, <2>4 DEF Chooses
  <2>6. CASE g[n + 1] = g[n]
    BY <2>1, <2>3, <2>6
  <2>7. CASE g[n + 1] = Append(g[n], list[n + 1])
    <3> DEFINE s == g[n]
               t == Append(s, list[n + 1])
    <3>1. /\ t \in Seq(S) /\ Len(s) \in Nat
          /\ DOMAIN s = 1 .. Len(s) /\ DOMAIN t = 1 .. Len(s) + 1
          /\ \A j \in 1 .. Len(s) : t[j] = s[j]
          /\ t[Len(s) + 1] = list[n + 1]
      BY <2>1, <2>2, AppendProperties, LenProperties
    <3> HIDE DEF s, t
    <3>2. \A j \in 1 .. Len(s) : Before(t[j], n)
      BY <2>1, <3>1 DEF s
    <3>3. \A j \in DOMAIN t : Before(t[j], n + 1)
      <4>1. Before(list[n + 1], n + 1)
        BY <1>4
      <4> HIDE DEF Before
      <4> QED BY <2>3, <3>1, <3>2, <4>1
    <3>4. Distinct(t)
      <4> SUFFICES ASSUME NEW i \in DOMAIN t, NEW j \in DOMAIN t, t[i] = t[j] PROVE i = j
        BY DEF Distinct
      <4>1. CASE i \in 1 .. Len(s) /\ j \in 1 .. Len(s)
        BY <2>1, <3>1, <4>1 DEF Distinct, s
      <4>2. CASE i = Len(s) + 1 /\ j = Len(s) + 1
        BY <4>2
      <4>3. \A k \in 1 .. Len(s) : t[k] # t[Len(s) + 1]
        <5> HIDE DEF Before
        <5> QED BY <2>3, <3>1, <3>2
      <4> QED BY <3>1, <4>1, <4>2, <4>3
    <3> HIDE DEF Before
    <3>5. g[n + 1] = t
      BY <2>7 DEF s, t
    <3> QED BY <3>1, <3>3, <3>4, <3>5
  <2> QED BY <2>5, <2>6, <2>7
<1>5. N \in Good
  <2> HIDE DEF Good
  <2> QED BY <1>1, <1>3, <1>4, CountingUp
<1> QED BY <1>1, <1>2, <1>5 DEF IsSelection, S, list

-----------------------------------------------------------------------------
(***************************************************************************)
(* Chains of except clauses.                                               *)
(***************************************************************************)
LEMMA HandleIsFirst ==
  ASSUME NEW clauses, DOMAIN clauses \subseteq Nat, NEW exception
  PROVE  \/ Fits(clauses, exception) = {} /\ Handle(clauses, exception) = Uncaught
         \/ \E i \in Fits(clauses, exception) :
              /\ \A j \in Fits(clauses, exception) : i <= j
              /\ Handle(clauses, exception) = clauses[i].error_type
<1> DEFINE S == Fits(clauses, exception)
<1>1. CASE S = {}
  BY <1>1 DEF Handle
<1>2. CASE S # {}
  <2>1. S \subseteq Nat
    BY DEF Fits
  <2>2. PICK i \in S : \A j \in S : ~(<<j, i>> \in OpToRel(<, Nat))
    BY <1>2, <2>1, NatLessThanWellFounded, WFMin
  <2>3. \A j \in S : i <= j
    <3> HIDE DEF S
    <3> TAKE j \in S
    <3>1. i \in Nat /\ j \in Nat
      BY <2>1
    <3>2. ~(j < i)
      BY <2>2, <3>1 DEF OpToRel
    <3> QED BY <3>1, <3>2
  <2> DEFINE first == CHOOSE k \in S : \A j \in S : k <= j
  <2>4. first \in S /\ \A j \in S : first <= j
    BY <2>3
  <2>5. Handle(clauses, exception) = clauses[first].error_type
    BY <1>2, Zenon DEF Handle
  <2> HIDE DEF first
  <2> QED BY <2>4, <2>5
<1> QED BY <1>1, <1>2

\* What the chain of a provider or of a judge makes of an exception is a known error
\* type, or the exception goes through.
LEMMA ChainType ==
  ASSUME NEW clauses, DOMAIN clauses \subseteq Nat, NEW exception, NEW Types,
         \A i \in DOMAIN clauses : clauses[i].error_type \in Types
  PROVE  Handle(clauses, exception) \in Types \cup {Uncaught}
BY HandleIsFirst DEF Fits

\* The classes of exceptions of which an OpenAI error is an instance.
LEMMA OpenAIErrorIsInstance ==
  ASSUME NEW exception, exception.class \in OpenAIErrors
  PROVE  IsInstance(exception, "OpenAIError")
<1>1. Subclasses["OpenAIError"] = OpenAIErrors /\ "OpenAIError" \in DOMAIN Subclasses
  BY DEF Subclasses
<1> QED BY <1>1 DEF IsInstance

LEMMA OpenAIChain ==
  /\ DOMAIN OpenAIClauses = 1 .. 6
  /\ \A i \in 1 .. 6 : OpenAIClauses[i].error_type \in ProviderErrorType
  /\ OpenAIClauses[6].classes = {"OpenAIError"}
BY DEF OpenAIClauses, Except, ProviderErrorType, Retryable

LEMMA GeminiChain ==
  ASSUME NEW exception
  PROVE  /\ DOMAIN GeminiClauses(exception) = 1 .. 4
         /\ \A i \in 1 .. 4 : GeminiClauses(exception)[i].error_type \in ProviderErrorType
<1>1. classify_client_error(exception) \in ProviderErrorType
  BY DEF classify_client_error, ProviderErrorType, Retryable
<1>2. "timeout" \in ProviderErrorType /\ "unavailable" \in ProviderErrorType
  BY DEF ProviderErrorType, Retryable
<1> QED BY <1>1, <1>2 DEF GeminiClauses, Except

LEMMA ReadChains ==
  /\ DOMAIN OpenAIReadClauses = 1 .. 1 /\ DOMAIN GeminiReadClauses = 1 .. 1
  /\ OpenAIReadClauses[1].error_type = "malformed_response"
  /\ GeminiReadClauses[1].error_type = "malformed_response"
BY DEF OpenAIReadClauses, GeminiReadClauses, Except

\* A chain that begins as that of the OpenAI provider handles its errors as that one does.
LEMMA SameBeginning ==
  ASSUME NEW clauses, NEW n \in Nat, n >= 6, DOMAIN clauses = 1 .. n,
         \A i \in 1 .. 6 : clauses[i] = OpenAIClauses[i],
         NEW exception, exception.class \in OpenAIErrors
  PROVE  Handle(clauses, exception) = Handle(OpenAIClauses, exception)
<1> DEFINE S == Fits(clauses, exception)
           T == Fits(OpenAIClauses, exception)
<1>1. DOMAIN OpenAIClauses = 1 .. 6 /\ OpenAIClauses[6].classes = {"OpenAIError"}
  BY OpenAIChain
<1>2. 6 \in T
  BY <1>1, OpenAIErrorIsInstance DEF Fits
<1>3. \A i \in 1 .. 6 : i \in S <=> i \in T
  BY <1>1 DEF Fits
<1>4. S \subseteq 1 .. n /\ T \subseteq 1 .. 6
  BY <1>1 DEF Fits
<1>5. PICK i \in S : /\ \A j \in S : i <= j
                     /\ Handle(clauses, exception) = clauses[i].error_type
  BY <1>2, <1>3, HandleIsFirst
<1>6. PICK k \in T : /\ \A j \in T : k <= j
                     /\ Handle(OpenAIClauses, exception) = OpenAIClauses[k].error_type
  BY <1>1, <1>2, HandleIsFirst
<1> HIDE DEF S, T
<1>7. i \in 1 .. 6 /\ k \in 1 .. 6
  BY <1>2, <1>3, <1>4, <1>5, <1>6
<1>8. i = k
  BY <1>3, <1>5, <1>6, <1>7
<1> QED BY <1>5, <1>6, <1>7, <1>8

LEMMA JudgesBeginTheSame ==
  ASSUME NEW e \in Judges
  PROVE  \E n \in Nat : /\ n >= 6 /\ DOMAIN JudgeClauses(e) = 1 .. n
                        /\ \A i \in 1 .. 6 : JudgeClauses(e)[i] = OpenAIClauses[i]
<1>1. DOMAIN RagasClauses = 1 .. 7 /\ \A i \in 1 .. 6 : RagasClauses[i] = OpenAIClauses[i]
  BY DEF RagasClauses, OpenAIClauses
<1>2. DOMAIN DeepEvalClauses = 1 .. 8 /\ \A i \in 1 .. 6 : DeepEvalClauses[i] = OpenAIClauses[i]
  BY DEF DeepEvalClauses, OpenAIClauses
<1>3. /\ DOMAIN OpenAIEvalsClauses = 1 .. 9
      /\ \A i \in 1 .. 6 : OpenAIEvalsClauses[i] = OpenAIClauses[i]
  BY DEF OpenAIEvalsClauses, OpenAIClauses
<1>4. JudgeClauses(e) \in {RagasClauses, DeepEvalClauses, OpenAIEvalsClauses}
  BY DEF JudgeClauses
<1>5. CASE JudgeClauses(e) = RagasClauses
  BY <1>1, <1>5
<1>6. CASE JudgeClauses(e) = DeepEvalClauses
  BY <1>2, <1>6
<1>7. CASE JudgeClauses(e) = OpenAIEvalsClauses
  BY <1>3, <1>7
<1> QED BY <1>4, <1>5, <1>6, <1>7

\* Nothing goes through the chain of a judge: its last clause is for any exception.
LEMMA JudgesCatchAll ==
  ASSUME NEW e \in Judges, NEW exception
  PROVE  Handle(JudgeClauses(e), exception) \in ProviderErrorType
<1> DEFINE clauses == JudgeClauses(e)
<1>1. IsInstance(exception, "Exception")
  BY DEF IsInstance
<1>2. \E n \in Nat : /\ n # 0 /\ DOMAIN clauses = 1 .. n
                     /\ \A i \in 1 .. n : clauses[i].error_type \in ProviderErrorType
                     /\ clauses[n].classes = {"Exception"}
  <2>1. clauses \in {RagasClauses, DeepEvalClauses, OpenAIEvalsClauses}
    BY DEF JudgeClauses
  <2>2. CASE clauses = RagasClauses
    <3>1. /\ DOMAIN clauses = 1 .. 7 /\ clauses[7].classes = {"Exception"}
          /\ \A i \in 1 .. 7 : clauses[i].error_type \in ProviderErrorType
      BY <2>2 DEF RagasClauses, Except, ProviderErrorType, Retryable
    <3> QED BY <3>1
  <2>3. CASE clauses = DeepEvalClauses
    <3>1. /\ DOMAIN clauses = 1 .. 8 /\ clauses[8].classes = {"Exception"}
          /\ \A i \in 1 .. 8 : clauses[i].error_type \in ProviderErrorType
      BY <2>3 DEF DeepEvalClauses, Except, ProviderErrorType, Retryable
    <3> QED BY <3>1
  <2>4. CASE clauses = OpenAIEvalsClauses
    <3>1. /\ DOMAIN clauses = 1 .. 9 /\ clauses[9].classes = {"Exception"}
          /\ \A i \in 1 .. 9 : clauses[i].error_type \in ProviderErrorType
      BY <2>4 DEF OpenAIEvalsClauses, Except, ProviderErrorType, Retryable
    <3> QED BY <3>1
  <2> QED BY <2>1, <2>2, <2>3, <2>4
<1> HIDE DEF clauses
<1>3. PICK n \in Nat : /\ n # 0 /\ DOMAIN clauses = 1 .. n
                      /\ \A i \in 1 .. n : clauses[i].error_type \in ProviderErrorType
                      /\ clauses[n].classes = {"Exception"}
  BY <1>2
<1>4. n \in Fits(clauses, exception) /\ DOMAIN clauses \subseteq Nat
  BY <1>1, <1>3 DEF Fits
<1>5. PICK i \in Fits(clauses, exception) :
        Handle(clauses, exception) = clauses[i].error_type
  BY <1>4, HandleIsFirst
<1>6. i \in 1 .. n
  BY <1>3 DEF Fits
<1> QED BY <1>3, <1>5, <1>6 DEF clauses

\* Nor is an answer that is no number taken for a score.
LEMMA ScoreReadError ==
  ASSUME NEW exception, Handle(ScoreReadClauses, exception) # Uncaught
  PROVE  Handle(ScoreReadClauses, exception) \in ProviderErrorType
<1>1. DOMAIN ScoreReadClauses = 1 .. 1 /\ ScoreReadClauses[1].error_type \in ProviderErrorType
  BY DEF ScoreReadClauses, Except, ProviderErrorType
<1> QED BY <1>1, ChainType

-----------------------------------------------------------------------------
(***************************************************************************)
(* What an attempt comes to.                                               *)
(***************************************************************************)
Asked(r) == run[r].request \in DOMAIN Requests

LEMMA LiveOutcome ==
  ASSUME NEW r, Asked(r), Request(r).provider # "deterministic", NEW outcome \in Outcomes(r)
  PROVE  LET provider == Request(r).provider
         IN  /\ provider \in {"openai", "gemini"}
             /\ generate(r, outcome) = generate_live(provider, outcome)
             /\ \/ outcome.at = "returned" /\ IsResponse(LiveResponse(provider, outcome.value))
                \/ /\ outcome.at \in {"call", "read"} /\ IsException(outcome.exception)
                   /\ provider = "openai" /\ outcome.at = "call" =>
                        outcome.exception \in {Exception(class) : class \in OpenAIErrors}
<1> DEFINE provider == Request(r).provider
<1>1. provider \in DOMAIN SDKOutcomes
  BY RequestsAssumption DEF Asked, Request
<1>2. outcome \in SDKOutcomes[provider]
  BY DEF Outcomes
<1>3. generate(r, outcome) = generate_live(provider, outcome)
  BY DEF generate
<1> QED BY <1>1, <1>2, <1>3, ProvidersAssumption

LEMMA FixtureOutcome ==
  ASSUME NEW r, Request(r).provider = "deterministic", NEW outcome \in Outcomes(r)
  PROVE  /\ outcome = None
         /\ \/ generate(r, outcome).error = None /\ IsResponse(generate(r, outcome))
            \/ generate(r, outcome).error = "malformed_response"
<1>1. outcome = None
  BY DEF Outcomes
<1>2. generate(r, outcome) = generate_fixture(Fixtures, CurrentCase(r).id)
  BY DEF generate
<1> DEFINE id == CurrentCase(r).id
<1>3. CASE id \in DOMAIN Fixtures
  <2>1. IsResponse(Fixtures[id])
    BY <1>3, ProvidersAssumption
  <2>2. Fixtures[id].error = None
    BY <2>1 DEF IsResponse
  <2> QED BY <1>1, <1>2, <1>3, <2>1, <2>2 DEF generate_fixture
<1>4. CASE id \notin DOMAIN Fixtures
  <2>1. generate(r, outcome) = ErrorResponse("malformed_response")
    BY <1>2, <1>4 DEF generate_fixture
  <2> QED BY <1>1, <2>1 DEF ErrorResponse
<1> QED BY <1>3, <1>4

\* The error of a live call is that of the chain of its adapter.
LEMMA LiveError ==
  ASSUME NEW r, Asked(r), Request(r).provider # "deterministic", NEW outcome \in Outcomes(r)
  PROVE  LET openai == Request(r).provider = "openai"
             x      == outcome.exception
             error  == generate(r, outcome).error
         IN  /\ outcome.at \in {"returned", "call", "read"}
             /\ outcome.at = "returned" => IsResponse(generate(r, outcome))
             /\ outcome.at = "call" =>
                  error = Handle(IF openai THEN OpenAIClauses ELSE GeminiClauses(x), x)
             /\ outcome.at = "read" =>
                  error = Handle(IF openai THEN OpenAIReadClauses ELSE GeminiReadClauses, x)
             /\ outcome.at # "returned" => error \in ProviderErrorType \cup {Uncaught}
<1> DEFINE openai == Request(r).provider = "openai"
           x == outcome.exception
           call == IF openai THEN OpenAIClauses ELSE GeminiClauses(x)
           read == IF openai THEN OpenAIReadClauses ELSE GeminiReadClauses
           type == ErrorType(call, read, outcome)
<1>1. outcome.at \in {"returned", "call", "read"}
  BY LiveOutcome
<1>2. generate(r, outcome) = IF type = None THEN LiveResponse(Request(r).provider, outcome.value)
                             ELSE ErrorResponse(type)
  BY LiveOutcome DEF generate_live
<1>3. CASE outcome.at = "returned"
  <2>1. type = None
    BY <1>3 DEF ErrorType
  <2> QED BY <1>2, <1>3, <2>1, LiveOutcome
<1>4. CASE outcome.at # "returned"
  <2>1. type = Handle(IF outcome.at = "call" THEN call ELSE read, x)
    BY <1>4 DEF ErrorType
  <2>2. Handle(call, x) \in ProviderErrorType \cup {Uncaught}
    <3>1. DOMAIN call \subseteq Nat /\ \A i \in DOMAIN call : call[i].error_type \in ProviderErrorType
      BY OpenAIChain, GeminiChain
    <3> HIDE DEF call
    <3> QED BY <3>1, ChainType
  <2>3. Handle(read, x) \in ProviderErrorType \cup {Uncaught}
    <3>1. DOMAIN read \subseteq Nat /\ \A i \in DOMAIN read : read[i].error_type \in ProviderErrorType
      BY ReadChains DEF ProviderErrorType
    <3> HIDE DEF read
    <3> QED BY <3>1, ChainType
  <2>4. type \in ProviderErrorType \cup {Uncaught}
    BY <2>1, <2>2, <2>3
  <2>5. type # None
    BY <2>4, ProvidersAssumption
  <2>6. generate(r, outcome).error = type
    BY <1>2, <2>5 DEF ErrorResponse
  <2> HIDE DEF call, read, type
  <2> QED BY <1>1, <1>4, <2>1, <2>4, <2>6 DEF call, read
<1> QED BY <1>3, <1>4

\* A response without an error is one that the provider gave.
LEMMA AnswerIsResponse ==
  ASSUME NEW r, Asked(r), NEW outcome \in Outcomes(r), generate(r, outcome).error = None
  PROVE  IsResponse(generate(r, outcome))
<1>1. None \notin ProviderErrorType \cup {Uncaught} /\ "malformed_response" \in ProviderErrorType
  BY ProvidersAssumption DEF ProviderErrorType
<1>2. CASE Request(r).provider = "deterministic"
  BY <1>1, <1>2, FixtureOutcome
<1>3. CASE Request(r).provider # "deterministic"
  BY <1>1, <1>3, LiveError
<1> QED BY <1>2, <1>3

\* The status 401 belongs to a class of OpenAI's exceptions, or is given by the exception.
LEMMA Unauthorized ==
  ASSUME NEW x, http_status(x) = 401
  PROVE  \/ x.class = "AuthenticationError"
         \/ x.class \notin DOMAIN StatusOfClass /\ x.code = 401
<1>1. CASE x.class \in DOMAIN StatusOfClass
  <2> DEFINE class == x.class
  <2>1. class \in {"AuthenticationError", "PermissionDeniedError", "RateLimitError",
                  "BadRequestError"}
    BY <1>1 DEF StatusOfClass
  <2>2. StatusOfClass[class] = 401
    BY <1>1 DEF http_status
  <2> HIDE DEF class
  <2>3. class # "PermissionDeniedError" /\ class # "RateLimitError" /\ class # "BadRequestError"
    BY <2>2 DEF StatusOfClass
  <2>4. class = "AuthenticationError"
    BY <2>1, <2>3
  <2> QED BY <2>4 DEF class
<1>2. CASE x.class \notin DOMAIN StatusOfClass
  BY <1>2 DEF http_status
<1> QED BY <1>1, <1>2

\* A ClientError is told by its own status.
LEMMA ClientStatus ==
  ASSUME NEW x, x.class = "ClientError"
  PROVE  http_status(x) = x.code
BY DEF http_status, StatusOfClass

\* A bad key and an unreadable answer have an error type that is not retried.
LEMMA BadKeyOrAnswerIsNotRetried ==
  ASSUME NEW r, Asked(r), NEW outcome \in Outcomes(r), BadKeyOrAnswer(outcome)
  PROVE  generate(r, outcome).error \notin Retryable
<1> DEFINE x == outcome.exception
           error == generate(r, outcome).error
<1>1. outcome # None /\ Request(r).provider # "deterministic"
  BY FixtureOutcome DEF BadKeyOrAnswer
<1>2. /\ "malformed_response" \notin Retryable /\ "authentication" \notin Retryable
      /\ Uncaught \notin Retryable
  BY DEF Retryable, Uncaught
<1>3. CASE outcome.at = "read"
  <2>1. error = Handle(IF Request(r).provider = "openai" THEN OpenAIReadClauses
                       ELSE GeminiReadClauses, x)
    BY <1>1, <1>3, LiveError
  <2>2. /\ Handle(OpenAIReadClauses, x) \in {"malformed_response"} \cup {Uncaught}
        /\ Handle(GeminiReadClauses, x) \in {"malformed_response"} \cup {Uncaught}
    <3> DEFINE Types == {"malformed_response"}
    <3>1. \A c \in {OpenAIReadClauses, GeminiReadClauses} :
            DOMAIN c \subseteq Nat /\ \A i \in DOMAIN c : c[i].error_type \in Types
      BY ReadChains
    <3> HIDE DEF Types, x
    <3>2. \A c \in {OpenAIReadClauses, GeminiReadClauses} : Handle(c, x) \in Types \cup {Uncaught}
      BY <3>1, ChainType
    <3> QED BY <3>2 DEF Types
  <2> QED BY <1>2, <2>1, <2>2
<1>4. CASE outcome.at = "call" /\ Request(r).provider = "openai"
  <2>1. error = Handle(OpenAIClauses, x)
    BY <1>1, <1>4, LiveError
  <2>2. x.class = "AuthenticationError"
    <3>1. PICK class \in OpenAIErrors : x = Exception(class)
      BY <1>1, <1>4, LiveOutcome
    <3>2. x.code = 0 /\ x.about_key = FALSE
      BY <3>1 DEF Exception
    <3>3. http_status(x) = 401
      BY <1>4, <3>2 DEF BadKeyOrAnswer
    <3> QED BY <3>2, <3>3, Unauthorized
  <2>3. 1 \notin Fits(OpenAIClauses, x) /\ 2 \in Fits(OpenAIClauses, x)
    <3>1. /\ OpenAIClauses[1].classes = {"APITimeoutError"}
          /\ OpenAIClauses[2].classes = {"AuthenticationError"}
      BY DEF OpenAIClauses, Except
    <3>2. ~IsInstance(x, "APITimeoutError") /\ IsInstance(x, "AuthenticationError")
      BY <2>2 DEF IsInstance, Subclasses
    <3> QED BY <3>1, <3>2, OpenAIChain DEF Fits
  <2>4. PICK i \in Fits(OpenAIClauses, x) :
          /\ \A j \in Fits(OpenAIClauses, x) : i <= j
          /\ Handle(OpenAIClauses, x) = OpenAIClauses[i].error_type
    BY <2>3, HandleIsFirst, OpenAIChain
  <2>5. i \in 1 .. 6
    BY <2>4, OpenAIChain DEF Fits
  <2>6. i = 2
    BY <2>3, <2>4, <2>5
  <2>7. OpenAIClauses[2].error_type = "authentication"
    BY DEF OpenAIClauses, Except
  <2> QED BY <1>2, <2>1, <2>4, <2>6, <2>7
<1>5. CASE outcome.at = "call" /\ Request(r).provider # "openai"
  <2> DEFINE clauses == GeminiClauses(x)
  <2>1. error = Handle(clauses, x) /\ IsException(x)
    BY <1>1, <1>5, LiveError, LiveOutcome
  <2>2. /\ DOMAIN clauses = 1 .. 4
        /\ clauses[1].classes = {"TimeoutException", "TimeoutError"}
        /\ clauses[2].classes = {"ClientError"} /\ clauses[3].classes = {"ServerError"}
        /\ clauses[4].classes = {"GeminiAPIError"}
        /\ clauses[2].error_type = classify_client_error(x)
    BY DEF GeminiClauses, Except
  <2> HIDE DEF clauses
  <2>3. CASE x.class = "ClientError"
    <3>1. classify_client_error(x) = "authentication"
      BY <1>5, <2>3, ClientStatus DEF BadKeyOrAnswer, classify_client_error
    <3>2. 1 \notin Fits(clauses, x) /\ 2 \in Fits(clauses, x)
      <4>1. /\ ~IsInstance(x, "TimeoutException") /\ ~IsInstance(x, "TimeoutError")
            /\ IsInstance(x, "ClientError")
        BY <2>3 DEF IsInstance, Subclasses
      <4> QED BY <2>2, <4>1 DEF Fits
    <3>3. PICK i \in Fits(clauses, x) : /\ \A j \in Fits(clauses, x) : i <= j
                                        /\ Handle(clauses, x) = clauses[i].error_type
      BY <2>2, <3>2, HandleIsFirst
    <3>4. i \in 1 .. 4
      BY <2>2, <3>3 DEF Fits
    <3>5. i = 2
      BY <3>2, <3>3, <3>4
    <3> QED BY <1>2, <2>1, <2>2, <3>1, <3>3, <3>5
  <2>4. CASE x.class # "ClientError"
    <3>1. x.class = "AuthenticationError"
      <4>1. x = Exception(x.class)
        BY <2>1, <2>4 DEF IsException
      <4>2. x.code = 0 /\ x.about_key = FALSE
        BY <4>1 DEF Exception
      <4>3. http_status(x) = 401
        BY <1>5, <4>2 DEF BadKeyOrAnswer
      <4> QED BY <4>2, <4>3, Unauthorized
    <3>2. Fits(clauses, x) = {}
      <4>1. /\ ~IsInstance(x, "TimeoutException") /\ ~IsInstance(x, "TimeoutError")
            /\ ~IsInstance(x, "ClientError") /\ ~IsInstance(x, "ServerError")
            /\ ~IsInstance(x, "GeminiAPIError")
        BY <3>1 DEF IsInstance, Subclasses
      <4> QED BY <2>2, <4>1 DEF Fits
    <3> QED BY <1>2, <2>1, <2>2, <3>2, HandleIsFirst
  <2> QED BY <2>3, <2>4
<1> QED BY <1>3, <1>4, <1>5 DEF BadKeyOrAnswer

-----------------------------------------------------------------------------
(***************************************************************************)
(* What an evaluator returns by itself.                                    *)
(***************************************************************************)
LEMMA FractionType == ASSUME NEW m \in Nat, NEW n \in Nat \ {0} PROVE Fraction(m, n) \in Nat
<1>1. One * m \in Nat
  BY OneAssumption
<1> QED BY <1>1 DEF Fraction

LEMMA VerdictType ==
  ASSUME NEW name, NEW passed \in BOOLEAN
  PROVE  /\ Verdict(name, passed).score \in Nat /\ Verdict(name, passed).metric_name = name
         /\ Verdict(name, passed).metadata = {} /\ Verdict(name, passed).passed = passed
BY OneAssumption DEF Verdict, MetricResult

\* A deterministic check returns a score.
LEMMA CheckResult ==
  ASSUME NEW e \in Deterministic, NEW case, IsCase(case), applies_to(e, case),
         NEW response, IsResponse(response)
  PROVE  LET result == Check(e, case, response)
         IN  result.score \in Nat /\ result.metric_name = e /\ result.metadata = {}
<1> DEFINE result == Check(e, case, response)
<1>1. CASE e = "exact_match"
  <2>1. result = ExactMatch(case, response.text)
    BY <1>1 DEF Check
  <2> QED BY <1>1, <2>1, VerdictType DEF ExactMatch
<1>2. CASE e = "required_phrases"
  <2> DEFINE found == Cardinality(case.required_phrases \cap response.text.phrases)
             n == Cardinality(case.required_phrases)
  <2>1. result = RequiredPhrases(case, response.text)
    BY <1>2 DEF Check
  <2>2. case.required_phrases # {} /\ IsFiniteSet(case.required_phrases)
    BY <1>2 DEF applies_to, IsCase, Ragas, DeepEvalCriteria, LabelGrader, StructuredCorrectness
  <2>3. n \in Nat \ {0}
    BY <2>2, Positive
  <2>4. found \in Nat
    BY <2>2, FS_Intersection, FS_CardinalityType
  <2>5. Fraction(found, n) \in Nat
    BY <2>3, <2>4, FractionType
  <2> QED BY <1>2, <2>1, <2>5 DEF RequiredPhrases, ScoredResult, MetricResult
<1>3. CASE e = "forbidden_phrases"
  <2>1. result = ForbiddenPhrases(case, response.text)
    BY <1>3 DEF Check
  <2> QED BY <1>3, <2>1, VerdictType DEF ForbiddenPhrases
<1>4. CASE e = "json_schema_compliance"
  <2>1. result = JSONSchemaCompliance(case, response.text)
    BY <1>4 DEF Check
  <2> DEFINE valid == case.json_schema \in response.text.valid_for
  <2>2. result = Verdict("json_schema_compliance", valid) /\ valid \in BOOLEAN
    BY <2>1 DEF JSONSchemaCompliance
  <2> HIDE DEF valid, result
  <2>3. result.score \in Nat /\ result.metric_name = e /\ result.metadata = {}
    BY <1>4, <2>2, VerdictType
  <2> QED BY <2>3 DEF result
<1>5. CASE e = "expected_refusal"
  <2>1. result = ExpectedRefusal(case, response.text)
    BY <1>5 DEF Check
  <2> QED BY <1>5, <2>1, VerdictType DEF ExpectedRefusal
<1>6. CASE e = "citation_presence"
  <2>1. result = CitationPresence(response)
    BY <1>6 DEF Check
  <2> QED BY <1>6, <2>1, VerdictType DEF CitationPresence
<1>7. CASE e = "latency_ms"
  <2>1. result = LatencyResult(response.latency_ms, case.max_latency_ms)
    BY <1>7 DEF Check
  <2>2. response.latency_ms \in Nat
    BY DEF IsResponse
  <2>3. One * response.latency_ms \in Nat
    BY <2>2, OneAssumption
  <2> QED BY <1>7, <2>1, <2>3 DEF LatencyResult, MetricResult
<1>8. CASE e = "estimated_cost_usd"
  <2>1. result = CostResult(estimated_cost(response), case.max_cost_usd)
    BY <1>8 DEF Check
  <2>2. estimated_cost(response) \in Nat
    BY DEF IsResponse, estimated_cost, Override
  <2>3. One * estimated_cost(response) \in Nat
    BY <2>2, OneAssumption
  <2> QED BY <1>8, <2>1, <2>3 DEF CostResult, MetricResult
<1> QED BY <1>1, <1>2, <1>3, <1>4, <1>5, <1>6, <1>7, <1>8 DEF Deterministic

LEMMA JudgesAreNotDeterministic ==
  /\ Deterministic \cap Judges = {} /\ DeepEvalCriteria \in Judges
  /\ \A e \in Deterministic : \A case : metric_name(e, case) = e
BY DEF Deterministic, Judges, Ragas, DeepEvalCriteria, LabelGrader, StructuredCorrectness,
       metric_name

LEMMA ResultStatus ==
  ASSUME NEW name, NEW score, NEW limit
  PROVE  /\ ~Failed(SkippedResult(name)) /\ ~Failed(ScoredResult(name, score, limit))
         /\ Failed(InfrastructureFailure(name)) /\ ~InfrastructureFailure(name).passed
         /\ SkippedResult(name).score = 0 /\ InfrastructureFailure(name).score = 0
         /\ ScoredResult(name, score, limit).score = score
         /\ SkippedResult(name).metric_name = name
         /\ ScoredResult(name, score, limit).metric_name = name
         /\ InfrastructureFailure(name).metric_name = name
BY DEF Failed, metric_status, SkippedResult, ScoredResult, InfrastructureFailure, MetricResult

LEMMA FailedByMetadata ==
  ASSUME NEW result
  PROVE  Failed(result) <=> "error_type" \in result.metadata
BY DEF Failed, metric_status

LEMMA OwnResults ==
  ASSUME NEW name \in DOMAIN Requests, NEW case \in Entries(Requests[name].dataset),
         NEW e \in Deterministic \cup Judges, applies_to(e, case),
         NEW response, IsResponse(response), NEW outcome \in CallOutcomes(e, case)
  PROVE  OwnResult(evaluate(e, case, response, outcome), case, e, response)
<1> DEFINE result == evaluate(e, case, response, outcome)
<1>1. CASE e \in Deterministic
  <2>1. result = Check(e, case, response) /\ IsCase(case)
    BY <1>1, RequestsAssumption DEF evaluate
  <2>2. result.score \in Nat /\ result.metric_name = e /\ result.metadata = {}
    BY <1>1, <2>1, CheckResult
  <2>3. ~Failed(result)
    BY <2>2, FailedByMetadata
  <2> QED BY <1>1, <2>1, <2>2, <2>3, JudgesAreNotDeterministic DEF OwnResult
<1>2. CASE e \in Judges
  <2> DEFINE type == ErrorType(JudgeClauses(e), ScoreReadClauses, outcome)
             score == JudgeScore(e, case, outcome.value)
             m == metric_name(e, case)
  <2>1. e \notin Deterministic /\ result = Judge(e, case, response, outcome)
    BY <1>2, JudgesAreNotDeterministic DEF evaluate
  <2>2. outcome \in JudgeOutcomes(e, case)
    BY <1>2 DEF CallOutcomes
  <2>3. \/ outcome.at = "returned" /\ score \in Nat
        \/ outcome.at # "returned" /\ type \in ProviderErrorType
    <3>1. \/ outcome.at = "returned" /\ score \in Nat
          \/ outcome.at = "call"
          \/ outcome.at = "read" /\ Handle(ScoreReadClauses, outcome.exception) # Uncaught
      BY <1>2, <2>2, JudgesAssumption
    <3>2. CASE outcome.at = "call"
      BY <1>2, <3>2, JudgesCatchAll DEF ErrorType
    <3>3. CASE outcome.at = "read" /\ Handle(ScoreReadClauses, outcome.exception) # Uncaught
      BY <3>3, ScoreReadError DEF ErrorType
    <3> QED BY <3>1, <3>2, <3>3
  <2>4. \/ result = SkippedResult(m)
        \/ result = InfrastructureFailure(m)
        \/ result = ScoredResult(m, score, threshold(e, case)) /\ type \notin ProviderErrorType
    BY <2>1 DEF Judge
  <2>5. type \notin ProviderErrorType => score \in Nat
    BY <2>3
  <2> HIDE DEF result, type, score, m
  <2>6. result.score \in Nat /\ result.metric_name = m /\ (Failed(result) => ~result.passed)
    BY <2>4, <2>5, ResultStatus
  <2> QED BY <2>1, <2>6 DEF OwnResult, m, result
<1> QED BY <1>1, <1>2

\* The score that is read from a cached metric object makes such a result, too.
LEMMA ReadScoreResult ==
  ASSUME NEW case, NEW response, NEW score \in Nat, NEW e, e = DeepEvalCriteria
  PROVE  OwnResult(ScoredResult(metric_name(e, case), score, threshold(e, case)),
                   case, e, response)
BY ResultStatus, JudgesAreNotDeterministic DEF OwnResult

-----------------------------------------------------------------------------
(***************************************************************************)
(* What the steps have in common.                                          *)
(***************************************************************************)
LEMMA EmptyFacts == DOMAIN Nothing = {} /\ DOMAIN NoMetrics = {} /\ DOMAIN NoResults = {}
BY DEF Nothing, NoMetrics, NoResults

\* A state is a record of these fields.
Fields == {"pc", "request", "case", "attempt", "evaluator", "responses", "metric_results",
           "case_results", "status"}

LEMMA StateFields == ASSUME NEW q, PlaceOK(q) PROVE DOMAIN q = Fields
BY DEF PlaceOK, Fields

LEMMA IsState ==
  ASSUME NEW q, q = [field \in Fields |-> q[field]]
  PROVE  q = [pc |-> q.pc, request |-> q.request, case |-> q.case, attempt |-> q.attempt,
              evaluator |-> q.evaluator, responses |-> q.responses,
              metric_results |-> q.metric_results, case_results |-> q.case_results,
              status |-> q.status]
BY DEF Fields

\* The lists that a started run works with.
LEMMA RunLists ==
  ASSUME NEW q, PlaceOK(q), q.pc # "ready"
  PROVE  /\ q.request \in DOMAIN Requests
         /\ Len(DatasetOf(q)) \in Nat /\ DOMAIN DatasetOf(q) = 1 .. Len(DatasetOf(q))
         /\ Len(ChosenOf(q)) \in Nat /\ DOMAIN ChosenOf(q) = 1 .. Len(ChosenOf(q))
         /\ q.case \in Nat \ {0} /\ q.evaluator \in Nat \ {0}
<1>1. q.request \in DOMAIN Requests
  BY DEF PlaceOK
<1>2. Len(DatasetOf(q)) \in Nat /\ DOMAIN DatasetOf(q) = 1 .. Len(DatasetOf(q))
  BY <1>1, DatasetFacts DEF DatasetOf
<1>3. Len(ChosenOf(q)) \in Nat /\ DOMAIN ChosenOf(q) = 1 .. Len(ChosenOf(q))
  BY SelectedIsSelection, SelectionFacts DEF ChosenOf
<1> QED BY <1>1, <1>2, <1>3 DEF PlaceOK

LEMMA OneIndex ==
  ASSUME NEW q, PlaceOK(q), q.pc # "ready"
  PROVE  /\ \A i, j \in DOMAIN DatasetOf(q) : DatasetOf(q)[i].id = DatasetOf(q)[j].id => i = j
         /\ \A i, j \in DOMAIN ChosenOf(q) : ChosenOf(q)[i] = ChosenOf(q)[j] => i = j
         /\ \A j \in DOMAIN ChosenOf(q) :
              ChosenOf(q)[j] \in Deterministic \cup Judges /\ ChosenOf(q)[j] # None
<1>1. q.request \in DOMAIN Requests
  BY DEF PlaceOK
<1> QED BY <1>1, DatasetFacts, SelectedIsSelection, SelectionFacts DEF DatasetOf, ChosenOf

\* v keeps what w has returned.
Keeps(w, v) ==
  /\ DOMAIN w \subseteq DOMAIN v
  /\ \A call \in DOMAIN w : w[call].at = "returned" => v[call] = w[call]

LEMMA KeepsItself == ASSUME NEW w PROVE Keeps(w, w)
BY DEF Keeps

\* Outages of other cases do not matter to a case.
SameOutages(case, o, p) == \A e : <<case.id, e>> \in o <=> <<case.id, e>> \in p

LEMMA ResultsKept ==
  ASSUME NEW results, NEW case, NEW chosen, NEW n, NEW w, NEW v, NEW o, NEW p,
         ResultsOf(results, case, chosen, n, w, o), Keeps(w, v), SameOutages(case, o, p)
  PROVE  ResultsOf(results, case, chosen, n, v, p)
<1>1. \A e, result : ComesFrom(case, e, result, w, o) => ComesFrom(case, e, result, v, p)
  BY DEF ComesFrom, Keeps, SameOutages
<1> QED BY <1>1 DEF ResultsOf, SameOutages

\* The cases that are done stay as they are.
LEMMA PastCaseKept ==
  ASSUME NEW q, NEW n, n.request = q.request, DOMAIN q.responses \subseteq DOMAIN n.responses,
         NEW result, NEW case, NEW w, NEW v, NEW o, NEW p,
         Unanswered(result, case, o) \/ Graded(q, result, case, w, o),
         Keeps(w, v), SameOutages(case, o, p)
  PROVE  Unanswered(result, case, p) \/ Graded(n, result, case, v, p)
<1>1. CASE Unanswered(result, case, o)
  BY <1>1 DEF Unanswered, SameOutages
<1>2. CASE Graded(q, result, case, w, o)
  <2>1. ChosenOf(n) = ChosenOf(q)
    BY DEF ChosenOf
  <2>2. ResultsOf(result.metric_results, case, ChosenOf(n), Len(ChosenOf(n)), v, p)
    BY <1>2, <2>1, ResultsKept DEF Graded
  <2> QED BY <1>2, <2>2 DEF Graded
<1> QED BY <1>1, <1>2

LEMMA PastKept ==
  ASSUME NEW q, NEW n, n.request = q.request, n.case = q.case,
         n.case_results = q.case_results, DOMAIN q.responses \subseteq DOMAIN n.responses,
         NEW w, NEW v, NEW o, NEW p, PastOK(q, w, o), Keeps(w, v),
         \A i \in 1 .. q.case - 1 : SameOutages(DatasetOf(q)[i], o, p)
  PROVE  PastOK(n, v, p)
<1>1. DatasetOf(n) = DatasetOf(q)
  BY DEF DatasetOf
<1>2. ASSUME NEW i \in 1 .. q.case - 1
      PROVE  LET case == DatasetOf(q)[i]
             IN  \/ Unanswered(n.case_results[case.id], case, p)
                 \/ Graded(n, n.case_results[case.id], case, v, p)
  <2> DEFINE case == DatasetOf(q)[i]
             result == q.case_results[case.id]
  <2>1. Unanswered(result, case, o) \/ Graded(q, result, case, w, o)
    BY <1>2 DEF PastOK
  <2>2. SameOutages(case, o, p)
    BY <1>2
  <2> HIDE DEF case, result
  <2>3. Unanswered(result, case, p) \/ Graded(n, result, case, v, p)
    BY <2>1, <2>2, PastCaseKept
  <2> QED BY <2>3 DEF case, result
<1> QED BY <1>1, <1>2 DEF PastOK

\* The workers go on while the thread does.
LEMMA WorkersKept ==
  ASSUME NEW q, NEW n, n.request = q.request, n.pc # "waiting",
         \A i \in DOMAIN DatasetOf(q), j \in DOMAIN ChosenOf(q) :
           WasCalled(q, i, j) =>
             /\ WasCalled(n, i, j)
             /\ n.responses[DatasetOf(q)[i].id] = q.responses[DatasetOf(q)[i].id],
         NEW w, NEW cache, WorkersOK(q, w, cache)
  PROVE  WorkersOK(n, w, cache)
<1>1. DatasetOf(n) = DatasetOf(q) /\ ChosenOf(n) = ChosenOf(q)
  BY DEF DatasetOf, ChosenOf
<1>2. ASSUME NEW call \in DOMAIN w
      PROVE  \E i \in DOMAIN DatasetOf(n), j \in DOMAIN ChosenOf(n) :
               /\ call = <<DatasetOf(n)[i].id, ChosenOf(n)[j]>>
               /\ WasCalled(n, i, j)
               /\ CallOK(w[call], DatasetOf(n)[i], ChosenOf(n)[j],
                         n.responses[DatasetOf(n)[i].id], cache)
  <2>1. PICK i \in DOMAIN DatasetOf(q), j \in DOMAIN ChosenOf(q) :
               /\ call = <<DatasetOf(q)[i].id, ChosenOf(q)[j]>>
               /\ WasCalled(q, i, j)
               /\ CallOK(w[call], DatasetOf(q)[i], ChosenOf(q)[j],
                         q.responses[DatasetOf(q)[i].id], cache)
    BY <1>2 DEF WorkersOK
  <2> QED BY <1>1, <2>1
<1> QED BY <1>2 DEF WorkersOK

\* The call that the thread waits for.
LEMMA WaitedFor ==
  ASSUME NEW q, PlaceOK(q), q.pc # "ready", NEW w, NEW cache, WorkersOK(q, w, cache),
         q.case \in DOMAIN DatasetOf(q), q.evaluator \in DOMAIN ChosenOf(q),
         <<Now(q).id, ChosenOf(q)[q.evaluator]>> \in DOMAIN w
  PROVE  /\ q.pc = "waiting"
         /\ CallOK(w[<<Now(q).id, ChosenOf(q)[q.evaluator]>>], Now(q),
                   ChosenOf(q)[q.evaluator], q.responses[Now(q).id], cache)
<1> DEFINE call == <<Now(q).id, ChosenOf(q)[q.evaluator]>>
<1>1. PICK i \in DOMAIN DatasetOf(q), j \in DOMAIN ChosenOf(q) :
               /\ call = <<DatasetOf(q)[i].id, ChosenOf(q)[j]>>
               /\ WasCalled(q, i, j)
               /\ CallOK(w[call], DatasetOf(q)[i], ChosenOf(q)[j],
                         q.responses[DatasetOf(q)[i].id], cache)
  BY DEF WorkersOK
<1>2. i = q.case /\ j = q.evaluator
  BY <1>1, OneIndex DEF Now
<1>3. q.pc = "waiting"
  BY <1>1, <1>2, RunLists DEF WasCalled
<1> QED BY <1>1, <1>2, <1>3 DEF Now

-----------------------------------------------------------------------------
(***************************************************************************)
(* One lemma for each step of a thread: from a state q in which RunOK      *)
(* holds to one in which it holds again.                                   *)
(***************************************************************************)
LEMMA StartOK ==
  ASSUME NEW q, NEW w, NEW out, NEW cache, RunOK(q, w, out, cache), q.pc = "ready",
         NEW name \in DOMAIN Requests
  PROVE  RunOK([q EXCEPT !.pc = "provider", !.request = name], w, out, cache)
<1> DEFINE n == [q EXCEPT !.pc = "provider", !.request = name]
<1>1. q = Ready /\ w = Nothing /\ out = {}
  BY DEF RunOK, PlaceOK
<1>2. n = [pc |-> "provider", request |-> name, case |-> 1, attempt |-> 1, evaluator |-> 1,
           responses |-> Nothing, metric_results |-> NoMetrics, case_results |-> NoResults,
           status |-> "running"]
  <2>1. PlaceOK(q)
    BY DEF RunOK
  <2>2. DOMAIN q = Fields
    BY <2>1, StateFields
  <2>3. /\ n = [field \in Fields |-> n[field]]
        /\ n.pc = "provider" /\ n.request = name /\ n.case = q.case /\ n.attempt = q.attempt
        /\ n.evaluator = q.evaluator /\ n.responses = q.responses
        /\ n.metric_results = q.metric_results /\ n.case_results = q.case_results
        /\ n.status = q.status
    BY <2>2 DEF Fields
  <2> HIDE DEF n
  <2>4. n = [pc |-> "provider", request |-> name, case |-> q.case, attempt |-> q.attempt,
             evaluator |-> q.evaluator, responses |-> q.responses,
             metric_results |-> q.metric_results, case_results |-> q.case_results,
             status |-> q.status]
    BY <2>3, IsState
  <2> QED BY <1>1, <2>4 DEF Ready
<1> HIDE DEF n
<1>3. /\ Len(DatasetOf(n)) \in Nat /\ DOMAIN DatasetOf(n) = 1 .. Len(DatasetOf(n))
      /\ Len(ChosenOf(n)) \in Nat
  BY <1>2, DatasetFacts, SelectedIsSelection, SelectionFacts DEF DatasetOf, ChosenOf
<1>4. PlaceOK(n)
  BY <1>2, <1>3 DEF PlaceOK, Grading
<1>5. StatusOK(n)
  BY <1>2 DEF StatusOK
<1>6. ResponsesOK(n) /\ WorkersOK(n, w, cache)
  BY <1>1, <1>2, EmptyFacts DEF ResponsesOK, WorkersOK, Grading
<1>7. CurrentOK(n, w, out) /\ OutagesOK(n, out)
  BY <1>1, <1>2 DEF CurrentOK, OutagesOK, Grading
<1>8. PastOK(n, w, out)
  BY <1>2, EmptyFacts DEF PastOK
<1> QED BY <1>2, <1>4, <1>5, <1>6, <1>7, <1>8 DEF RunOK, n

LEMMA AnsweredOK ==
  ASSUME NEW q, NEW w, NEW out, NEW cache, RunOK(q, w, out, cache),
         q.pc = "provider", q.case <= Len(DatasetOf(q)), NEW response, IsResponse(response)
  PROVE  RunOK([q EXCEPT !.pc = "evaluators", !.responses = Put(@, Now(q).id, response)],
               w, out, cache)
<1> DEFINE n == [q EXCEPT !.pc = "evaluators", !.responses = Put(@, Now(q).id, response)]
           d == DatasetOf(q)
<1>1. /\ PlaceOK(q) /\ StatusOK(q) /\ ResponsesOK(q) /\ WorkersOK(q, w, cache)
      /\ CurrentOK(q, w, out) /\ PastOK(q, w, out) /\ OutagesOK(q, out)
  BY DEF RunOK
<1>2. n = [pc |-> "evaluators", request |-> q.request, case |-> q.case, attempt |-> q.attempt,
           evaluator |-> q.evaluator, responses |-> Put(q.responses, Now(q).id, response),
           metric_results |-> q.metric_results, case_results |-> q.case_results,
           status |-> q.status]
  <2>1. DOMAIN q = Fields
    BY <1>1, StateFields
  <2>2. /\ n = [field \in Fields |-> n[field]]
        /\ n.pc = "evaluators" /\ n.responses = Put(q.responses, Now(q).id, response)
        /\ n.request = q.request /\ n.case = q.case /\ n.attempt = q.attempt
        /\ n.evaluator = q.evaluator /\ n.metric_results = q.metric_results
        /\ n.case_results = q.case_results /\ n.status = q.status
    BY <2>1 DEF Fields
  <2> HIDE DEF n
  <2> QED BY <2>2, IsState
<1> HIDE DEF n
<1>3. /\ q.request \in DOMAIN Requests /\ Len(d) \in Nat /\ DOMAIN d = 1 .. Len(d)
      /\ q.case \in DOMAIN d /\ q.evaluator \in Nat \ {0}
  BY <1>1, RunLists
<1>4. DatasetOf(n) = d /\ ChosenOf(n) = ChosenOf(q) /\ Now(n) = Now(q)
  BY <1>2 DEF DatasetOf, ChosenOf, Now
<1>5. /\ DOMAIN n.responses = DOMAIN q.responses \cup {d[q.case].id}
      /\ n.responses[d[q.case].id] = response
      /\ \A id \in DOMAIN q.responses : id # d[q.case].id => n.responses[id] = q.responses[id]
  BY <1>2 DEF Put, Now
<1>6. PlaceOK(n)
  BY <1>1, <1>2, <1>3, <1>4 DEF PlaceOK, Grading
<1>7. StatusOK(n)
  BY <1>1, <1>2 DEF StatusOK
<1>8. \A i \in DOMAIN d : d[i].id \in DOMAIN q.responses => i < q.case
  BY <1>1 DEF ResponsesOK, Grading
<1>9. \A i \in DOMAIN d : d[i].id = d[q.case].id => i = q.case
  BY <1>1, <1>3, OneIndex
<1>10. ResponsesOK(n)
  <2>1. Grading(n) /\ Now(n) = d[q.case] /\ n.case = q.case
    BY <1>2, <1>4 DEF Grading, Now
  <2>2. \A id \in DOMAIN n.responses : IsResponse(n.responses[id])
    BY <1>1, <1>5 DEF ResponsesOK
  <2>3. \A i \in DOMAIN d : d[i].id \in DOMAIN n.responses => i < q.case \/ i = q.case
    BY <1>5, <1>8, <1>9
  <2> QED BY <1>4, <1>5, <2>1, <2>2, <2>3 DEF ResponsesOK
<1>11. WorkersOK(n, w, cache)
  <2>1. ASSUME NEW i \in DOMAIN d, NEW j \in DOMAIN ChosenOf(q), WasCalled(q, i, j)
        PROVE  /\ WasCalled(n, i, j)
               /\ n.responses[d[i].id] = q.responses[d[i].id]
    <3>1. d[i].id \in DOMAIN q.responses /\ i < q.case /\ applies_to(ChosenOf(q)[j], d[i])
      BY <1>8, <2>1 DEF WasCalled
    <3>2. d[i].id # d[q.case].id
      BY <1>3, <1>9, <3>1
    <3> QED BY <1>2, <1>4, <1>5, <3>1, <3>2 DEF WasCalled
  <2> QED BY <1>1, <1>2, <2>1, WorkersKept
<1>12. CurrentOK(n, w, out)
  <2>1. q.metric_results = NoMetrics /\ q.evaluator = 1
    BY <1>1 DEF CurrentOK, Grading
  <2>2. \A e : <<Now(q).id, e>> \notin out
    <3> SUFFICES ASSUME NEW e, <<Now(q).id, e>> \in out PROVE FALSE
      OBVIOUS
    <3>1. PICK i \in DOMAIN d : Now(q).id = d[i].id /\ i < q.case
      BY <1>1 DEF OutagesOK, Grading
    <3> QED BY <1>3, <1>9, <3>1 DEF Now
  <2>3. 1 .. (n.evaluator - 1) = {}
    BY <1>2, <2>1
  <2>4. ResultsOf(n.metric_results, Now(n), ChosenOf(n), n.evaluator - 1, w, out)
    BY <1>2, <1>4, <2>1, <2>2, <2>3, EmptyFacts DEF ResultsOf
  <2> QED BY <1>2, <2>4 DEF CurrentOK, Grading
<1>13. PastOK(n, w, out)
  BY <1>1, <1>2, <1>5, PastKept, KeepsItself DEF SameOutages
<1>14. OutagesOK(n, out)
  BY <1>1, <1>2, <1>4 DEF OutagesOK, Grading
<1> QED BY <1>2, <1>6, <1>7, <1>10, <1>11, <1>12, <1>13, <1>14 DEF RunOK, n

\* A case that has no result yet gets its result.
LEMMA NextCaseOK ==
  ASSUME NEW q, NEW w, NEW out, NEW cache, RunOK(q, w, out, cache),
         q.pc \in {"provider", "evaluators"}, q.case <= Len(DatasetOf(q)),
         NEW result, NEW o, out \subseteq o,
         \A x \in o : x \in out \/ x = <<Now(q).id, None>>,
         Unanswered(result, Now(q), o) \/ Graded(q, result, Now(q), w, o)
  PROVE  RunOK([q EXCEPT !.pc = "provider", !.case = @ + 1, !.attempt = 1, !.evaluator = 1,
                         !.metric_results = NoMetrics,
                         !.case_results = Put(@, Now(q).id, result)], w, o, cache)
<1> DEFINE n == [q EXCEPT !.pc = "provider", !.case = @ + 1, !.attempt = 1, !.evaluator = 1,
                          !.metric_results = NoMetrics,
                          !.case_results = Put(@, Now(q).id, result)]
           d == DatasetOf(q)
<1>1. /\ PlaceOK(q) /\ StatusOK(q) /\ ResponsesOK(q) /\ WorkersOK(q, w, cache)
      /\ PastOK(q, w, out) /\ OutagesOK(q, out)
  BY DEF RunOK
<1>2. n = [pc |-> "provider", request |-> q.request, case |-> q.case + 1, attempt |-> 1,
           evaluator |-> 1, responses |-> q.responses, metric_results |-> NoMetrics,
           case_results |-> Put(q.case_results, Now(q).id, result), status |-> q.status]
  <2>1. DOMAIN q = Fields
    BY <1>1, StateFields
  <2>2. /\ n = [field \in Fields |-> n[field]]
        /\ n.pc = "provider" /\ n.case = q.case + 1 /\ n.attempt = 1 /\ n.evaluator = 1
        /\ n.metric_results = NoMetrics
        /\ n.case_results = Put(q.case_results, Now(q).id, result)
        /\ n.request = q.request /\ n.responses = q.responses /\ n.status = q.status
    BY <2>1 DEF Fields
  <2> HIDE DEF n
  <2> QED BY <2>2, IsState
<1> HIDE DEF n
<1>3. /\ q.request \in DOMAIN Requests /\ Len(d) \in Nat /\ DOMAIN d = 1 .. Len(d)
      /\ q.case \in DOMAIN d /\ q.case \in Nat /\ Len(ChosenOf(q)) \in Nat
  BY <1>1, RunLists
<1>4. DatasetOf(n) = d /\ ChosenOf(n) = ChosenOf(q)
  BY <1>2 DEF DatasetOf, ChosenOf
<1>12. /\ DOMAIN n.case_results = DOMAIN q.case_results \cup {Now(q).id}
       /\ n.case_results[Now(q).id] = result
       /\ \A id \in DOMAIN q.case_results :
            id # Now(q).id => n.case_results[id] = q.case_results[id]
  BY <1>2 DEF Put
<1>5. PlaceOK(n)
  BY <1>1, <1>2, <1>3, <1>4 DEF PlaceOK, Grading
<1>6. StatusOK(n)
  BY <1>1, <1>2 DEF StatusOK
<1>7. ResponsesOK(n)
  BY <1>1, <1>2, <1>3, <1>4 DEF ResponsesOK, Grading
<1>8. WorkersOK(n, w, cache)
  <2>1. ASSUME NEW i \in DOMAIN d, NEW j \in DOMAIN ChosenOf(q), WasCalled(q, i, j)
        PROVE  WasCalled(n, i, j)
    BY <1>2, <1>3, <1>4, <2>1 DEF WasCalled
  <2> QED BY <1>1, <1>2, <2>1, WorkersKept
<1>9. CurrentOK(n, w, o)
  BY <1>2 DEF CurrentOK, Grading
<1>10. PastOK(n, w, o)
  <2>1. 1 .. n.case - 1 = (1 .. q.case - 1) \cup {q.case}
    BY <1>2, <1>3
  <2>2. DOMAIN n.case_results = {d[i].id : i \in 1 .. n.case - 1}
    BY <1>1, <1>2, <1>12, <2>1 DEF PastOK, Now
  <2>3. ASSUME NEW i \in 1 .. q.case - 1
        PROVE  LET case == d[i]
               IN  \/ Unanswered(n.case_results[case.id], case, o)
                   \/ Graded(n, n.case_results[case.id], case, w, o)
    <3> DEFINE case == d[i]
               old == q.case_results[case.id]
    <3>1. i \in DOMAIN d /\ i # q.case
      BY <1>3
    <3>2. case.id # Now(q).id
      BY <1>1, <1>3, <3>1, OneIndex DEF Now
    <3>3. case.id \in DOMAIN q.case_results
      BY <1>1 DEF PastOK
    <3>4. n.case_results[case.id] = old
      BY <1>12, <3>2, <3>3
    <3>5. Unanswered(old, case, out) \/ Graded(q, old, case, w, out)
      BY <1>1 DEF PastOK
    <3>6. SameOutages(case, out, o)
      BY <3>2 DEF SameOutages
    <3> HIDE DEF case, old
    <3>7. Unanswered(old, case, o) \/ Graded(n, old, case, w, o)
      BY <1>2, <3>5, <3>6, PastCaseKept, KeepsItself
    <3> QED BY <3>4, <3>7 DEF case
  <2>4. LET case == d[q.case]
        IN  \/ Unanswered(n.case_results[case.id], case, o)
            \/ Graded(n, n.case_results[case.id], case, w, o)
    <3>1. n.case_results[Now(q).id] = result
      BY <1>12
    <3>2. Unanswered(result, Now(q), o) \/ Graded(n, result, Now(q), w, o)
      BY <1>2, PastCaseKept, KeepsItself DEF SameOutages
    <3> QED BY <3>1, <3>2 DEF Now
  <2> QED BY <1>4, <2>1, <2>2, <2>3, <2>4 DEF PastOK
<1>11. OutagesOK(n, o)
  <2> SUFFICES ASSUME NEW x \in o
               PROVE  \E i \in DOMAIN d, e \in Entries(ChosenOf(q)) \cup {None} :
                        x = <<d[i].id, e>> /\ i < n.case
    BY <1>4 DEF OutagesOK
  <2>1. CASE x \in out
    <3>1. PICK i \in DOMAIN d, e \in Entries(ChosenOf(q)) \cup {None} :
             x = <<d[i].id, e>> /\ (i < q.case \/ i = q.case)
      BY <1>1, <2>1 DEF OutagesOK
    <3> QED BY <1>2, <1>3, <3>1
  <2>2. CASE x = <<Now(q).id, None>>
    BY <1>2, <1>3, <2>2 DEF Now
  <2> QED BY <2>1, <2>2
<1> QED BY <1>2, <1>5, <1>6, <1>7, <1>8, <1>9, <1>10, <1>11 DEF RunOK, n

LEMMA RetryOK ==
  ASSUME NEW q, NEW w, NEW out, NEW cache, RunOK(q, w, out, cache),
         q.pc = "provider", q.attempt < MaxAttempts
  PROVE  RunOK([q EXCEPT !.attempt = @ + 1], w, out, cache)
<1> DEFINE n == [q EXCEPT !.attempt = @ + 1]
<1>1. /\ PlaceOK(q) /\ StatusOK(q) /\ ResponsesOK(q) /\ WorkersOK(q, w, cache)
      /\ CurrentOK(q, w, out) /\ PastOK(q, w, out) /\ OutagesOK(q, out)
  BY DEF RunOK
<1>2. n = [pc |-> "provider", request |-> q.request, case |-> q.case,
           attempt |-> q.attempt + 1, evaluator |-> q.evaluator, responses |-> q.responses,
           metric_results |-> q.metric_results, case_results |-> q.case_results,
           status |-> q.status]
  <2>1. DOMAIN q = Fields
    BY <1>1, StateFields
  <2>2. /\ n = [field \in Fields |-> n[field]]
        /\ n.pc = "provider" /\ n.attempt = q.attempt + 1
        /\ n.request = q.request /\ n.case = q.case /\ n.evaluator = q.evaluator
        /\ n.responses = q.responses /\ n.metric_results = q.metric_results
        /\ n.case_results = q.case_results /\ n.status = q.status
    BY <2>1 DEF Fields
  <2> HIDE DEF n
  <2> QED BY <2>2, IsState
<1> HIDE DEF n
<1>3. DatasetOf(n) = DatasetOf(q) /\ ChosenOf(n) = ChosenOf(q) /\ Now(n) = Now(q)
  BY <1>2 DEF DatasetOf, ChosenOf, Now
<1>4. PlaceOK(n)
  BY <1>1, <1>2, <1>3, RunnerAssumption DEF PlaceOK, Grading
<1>5. StatusOK(n) /\ ResponsesOK(n) /\ CurrentOK(n, w, out) /\ OutagesOK(n, out)
  BY <1>1, <1>2, <1>3 DEF StatusOK, ResponsesOK, CurrentOK, OutagesOK, Grading
<1>6. WorkersOK(n, w, cache)
  BY <1>1, <1>2, <1>3, WorkersKept DEF WasCalled
<1>7. PastOK(n, w, out)
  BY <1>1, <1>2, PastKept, KeepsItself DEF SameOutages
<1> QED BY <1>2, <1>4, <1>5, <1>6, <1>7 DEF RunOK, n

LEMMA SkipOK ==
  ASSUME NEW q, NEW w, NEW out, NEW cache, RunOK(q, w, out, cache),
         q.pc = "evaluators", q.evaluator <= Len(ChosenOf(q)),
         ~applies_to(ChosenOf(q)[q.evaluator], Now(q))
  PROVE  RunOK([q EXCEPT !.evaluator = @ + 1], w, out, cache)
<1> DEFINE n == [q EXCEPT !.evaluator = @ + 1]
<1>1. /\ PlaceOK(q) /\ StatusOK(q) /\ ResponsesOK(q) /\ WorkersOK(q, w, cache)
      /\ CurrentOK(q, w, out) /\ PastOK(q, w, out) /\ OutagesOK(q, out)
  BY DEF RunOK
<1>2. n = [pc |-> "evaluators", request |-> q.request, case |-> q.case,
           attempt |-> q.attempt, evaluator |-> q.evaluator + 1, responses |-> q.responses,
           metric_results |-> q.metric_results, case_results |-> q.case_results,
           status |-> q.status]
  <2>1. DOMAIN q = Fields
    BY <1>1, StateFields
  <2>2. /\ n = [field \in Fields |-> n[field]]
        /\ n.pc = "evaluators" /\ n.evaluator = q.evaluator + 1
        /\ n.request = q.request /\ n.case = q.case /\ n.attempt = q.attempt
        /\ n.responses = q.responses /\ n.metric_results = q.metric_results
        /\ n.case_results = q.case_results /\ n.status = q.status
    BY <2>1 DEF Fields
  <2> HIDE DEF n
  <2> QED BY <2>2, IsState
<1> HIDE DEF n
<1>3. DatasetOf(n) = DatasetOf(q) /\ ChosenOf(n) = ChosenOf(q) /\ Now(n) = Now(q)
  BY <1>2 DEF DatasetOf, ChosenOf, Now
<1>4. q.evaluator \in Nat \ {0} /\ Len(ChosenOf(q)) \in Nat
  BY <1>1, RunLists
<1>5. PlaceOK(n)
  BY <1>1, <1>2, <1>3, <1>4 DEF PlaceOK, Grading
<1>6. StatusOK(n) /\ ResponsesOK(n) /\ OutagesOK(n, out)
  BY <1>1, <1>2, <1>3 DEF StatusOK, ResponsesOK, OutagesOK, Grading
<1>7. WorkersOK(n, w, cache)
  <2>1. ASSUME NEW i \in DOMAIN DatasetOf(q), NEW j \in DOMAIN ChosenOf(q), WasCalled(q, i, j)
        PROVE  WasCalled(n, i, j) /\ n.responses = q.responses
    <3>1. j \in Nat
      BY <1>1, RunLists
    <3> QED BY <1>2, <1>3, <1>4, <2>1, <3>1 DEF WasCalled
  <2> QED BY <1>1, <1>2, <2>1, WorkersKept
<1>8. CurrentOK(n, w, out)
  <2>1. 1 .. n.evaluator - 1 = (1 .. q.evaluator - 1) \cup {q.evaluator}
    BY <1>2, <1>4
  <2>2. ResultsOf(q.metric_results, Now(q), ChosenOf(q), q.evaluator - 1, w, out)
    BY <1>1 DEF CurrentOK, Grading
  <2>3. ResultsOf(n.metric_results, Now(n), ChosenOf(n), n.evaluator - 1, w, out)
    BY <1>2, <1>3, <2>1, <2>2 DEF ResultsOf
  <2> QED BY <1>2, <2>3 DEF CurrentOK, Grading
<1>9. PastOK(n, w, out)
  BY <1>1, <1>2, PastKept, KeepsItself DEF SameOutages
<1> QED BY <1>2, <1>5, <1>6, <1>7, <1>8, <1>9 DEF RunOK, n

LEMMA CallEvaluatorOK ==
  ASSUME NEW q, NEW w, NEW out, NEW cache, RunOK(q, w, out, cache),
         q.pc = "evaluators", q.evaluator <= Len(ChosenOf(q)),
         applies_to(ChosenOf(q)[q.evaluator], Now(q))
  PROVE  RunOK([q EXCEPT !.pc = "waiting"],
               Put(w, <<Now(q).id, ChosenOf(q)[q.evaluator]>>,
                   [at |-> "running", result |-> None]), out, cache)
<1> DEFINE n == [q EXCEPT !.pc = "waiting"]
           e == ChosenOf(q)[q.evaluator]
           call == <<Now(q).id, e>>
           v == Put(w, call, [at |-> "running", result |-> None])
           d == DatasetOf(q)
<1>1. /\ PlaceOK(q) /\ StatusOK(q) /\ ResponsesOK(q) /\ WorkersOK(q, w, cache)
      /\ CurrentOK(q, w, out) /\ PastOK(q, w, out) /\ OutagesOK(q, out)
  BY DEF RunOK
<1>2. n = [pc |-> "waiting", request |-> q.request, case |-> q.case,
           attempt |-> q.attempt, evaluator |-> q.evaluator, responses |-> q.responses,
           metric_results |-> q.metric_results, case_results |-> q.case_results,
           status |-> q.status]
  <2>1. DOMAIN q = Fields
    BY <1>1, StateFields
  <2>2. /\ n = [field \in Fields |-> n[field]]
        /\ n.pc = "waiting" /\ n.evaluator = q.evaluator
        /\ n.request = q.request /\ n.case = q.case /\ n.attempt = q.attempt
        /\ n.responses = q.responses /\ n.metric_results = q.metric_results
        /\ n.case_results = q.case_results /\ n.status = q.status
    BY <2>1 DEF Fields
  <2> HIDE DEF n
  <2> QED BY <2>2, IsState
<1> HIDE DEF n
<1>3. DatasetOf(n) = d /\ ChosenOf(n) = ChosenOf(q) /\ Now(n) = Now(q)
  BY <1>2 DEF DatasetOf, ChosenOf, Now
<1>4. /\ q.evaluator \in DOMAIN ChosenOf(q) /\ DOMAIN ChosenOf(q) \subseteq Nat
      /\ q.case \in DOMAIN d /\ Now(q).id \in DOMAIN q.responses
  <2>1. q.case <= Len(d) /\ Now(q).id \in DOMAIN q.responses
    BY <1>1 DEF PlaceOK, ResponsesOK, Grading
  <2> QED BY <1>1, <2>1, RunLists
<1>5. call \notin DOMAIN w
  BY <1>1, <1>4, WaitedFor
<1> HIDE DEF call, v
<1>6. /\ DOMAIN v = DOMAIN w \cup {call} /\ v[call] = [at |-> "running", result |-> None]
      /\ \A x \in DOMAIN w : v[x] = w[x]
  BY <1>5 DEF Put, v
<1>7. Keeps(w, v)
  BY <1>6 DEF Keeps
<1>8. PlaceOK(n)
  <2>1. q.case <= Len(d)
    BY <1>1 DEF PlaceOK, Grading
  <2> QED BY <1>1, <1>2, <1>3, <2>1 DEF PlaceOK, Grading
<1>9. StatusOK(n) /\ ResponsesOK(n) /\ OutagesOK(n, out)
  BY <1>1, <1>2, <1>3 DEF StatusOK, ResponsesOK, OutagesOK, Grading
<1>10. WorkersOK(n, v, cache)
  <2>1. ASSUME NEW x \in DOMAIN v
        PROVE  \E i \in DOMAIN d, j \in DOMAIN ChosenOf(q) :
                 /\ x = <<d[i].id, ChosenOf(q)[j]>>
                 /\ WasCalled(n, i, j)
                 /\ CallOK(v[x], d[i], ChosenOf(q)[j], n.responses[d[i].id], cache)
    <3>1. CASE x \in DOMAIN w
      <4>1. PICK i \in DOMAIN d, j \in DOMAIN ChosenOf(q) :
                 /\ x = <<d[i].id, ChosenOf(q)[j]>>
                 /\ WasCalled(q, i, j)
                 /\ CallOK(w[x], d[i], ChosenOf(q)[j], q.responses[d[i].id], cache)
        BY <1>1, <3>1 DEF WorkersOK
      <4>2. WasCalled(n, i, j)
        BY <1>2, <1>3, <4>1 DEF WasCalled
      <4> QED BY <1>2, <1>6, <3>1, <4>1, <4>2
    <3>2. CASE x = call
      <4>1. WasCalled(n, q.case, q.evaluator)
        BY <1>2, <1>3, <1>4 DEF WasCalled, Now
      <4>2. CallOK(v[x], d[q.case], e, n.responses[d[q.case].id], cache)
        BY <1>6, <3>2 DEF CallOK
      <4>3. x = <<d[q.case].id, e>>
        BY <3>2 DEF call, Now
      <4> QED BY <1>4, <4>1, <4>2, <4>3
    <3> QED BY <1>6, <3>1, <3>2
  <2>2. <<Now(n).id, ChosenOf(n)[n.evaluator]>> \in DOMAIN v
    BY <1>2, <1>3, <1>6 DEF call
  <2> QED BY <1>3, <2>1, <2>2 DEF WorkersOK
<1>11. CurrentOK(n, v, out)
  <2>1. ResultsOf(q.metric_results, Now(q), ChosenOf(q), q.evaluator - 1, w, out)
    BY <1>1 DEF CurrentOK, Grading
  <2>2. ResultsOf(q.metric_results, Now(q), ChosenOf(q), q.evaluator - 1, v, out)
    BY <1>7, <2>1, ResultsKept DEF SameOutages
  <2> QED BY <1>2, <1>3, <2>2 DEF CurrentOK, Grading
<1>12. PastOK(n, v, out)
  BY <1>1, <1>2, <1>7, PastKept DEF SameOutages
<1> QED BY <1>2, <1>8, <1>9, <1>10, <1>11, <1>12 DEF RunOK, n, v, call

LEMMA RecordOK ==
  ASSUME NEW q, NEW w, NEW out, NEW cache, RunOK(q, w, out, cache), q.pc = "waiting",
         NEW result, NEW o, out \subseteq o,
         \A x \in o : x \in out \/ x = <<Now(q).id, ChosenOf(q)[q.evaluator]>>,
         LET e    == ChosenOf(q)[q.evaluator]
             call == <<Now(q).id, e>>
         IN  \/ /\ call \in o /\ Failed(result) /\ ~result.passed
                /\ result.metric_name \in {e, metric_name(e, Now(q))}
             \/ /\ o \subseteq out /\ ~Failed(result)
                /\ w[call].at = "returned" /\ w[call].result = result
  PROVE  RunOK([q EXCEPT !.pc = "evaluators", !.evaluator = @ + 1,
                         !.metric_results = Put(@, ChosenOf(q)[q.evaluator], result)],
               w, o, cache)
<1> DEFINE n == [q EXCEPT !.pc = "evaluators", !.evaluator = @ + 1,
                          !.metric_results = Put(@, ChosenOf(q)[q.evaluator], result)]
           e == ChosenOf(q)[q.evaluator]
           call == <<Now(q).id, e>>
           d == DatasetOf(q)
<1>1. /\ PlaceOK(q) /\ StatusOK(q) /\ ResponsesOK(q) /\ WorkersOK(q, w, cache)
      /\ CurrentOK(q, w, out) /\ PastOK(q, w, out) /\ OutagesOK(q, out)
  BY DEF RunOK
<1>2. n = [pc |-> "evaluators", request |-> q.request, case |-> q.case,
           attempt |-> q.attempt, evaluator |-> q.evaluator + 1, responses |-> q.responses,
           metric_results |-> Put(q.metric_results, e, result),
           case_results |-> q.case_results, status |-> q.status]
  <2>1. DOMAIN q = Fields
    BY <1>1, StateFields
  <2>2. /\ n = [field \in Fields |-> n[field]]
        /\ n.pc = "evaluators" /\ n.evaluator = q.evaluator + 1
        /\ n.metric_results = Put(q.metric_results, e, result)
        /\ n.request = q.request /\ n.case = q.case /\ n.attempt = q.attempt
        /\ n.responses = q.responses
        /\ n.case_results = q.case_results /\ n.status = q.status
    BY <2>1 DEF Fields
  <2> HIDE DEF n
  <2> QED BY <2>2, IsState
<1> HIDE DEF n
<1>3. DatasetOf(n) = d /\ ChosenOf(n) = ChosenOf(q) /\ Now(n) = Now(q)
  BY <1>2 DEF DatasetOf, ChosenOf, Now
<1>4. /\ q.evaluator \in Nat \ {0} /\ q.evaluator \in DOMAIN ChosenOf(q)
      /\ Len(ChosenOf(q)) \in Nat /\ DOMAIN ChosenOf(q) = 1 .. Len(ChosenOf(q))
      /\ q.case \in DOMAIN d /\ DOMAIN d \subseteq Nat /\ applies_to(e, Now(q))
      /\ call \in DOMAIN w
  <2>1. /\ q.case <= Len(d) /\ q.evaluator <= Len(ChosenOf(q)) /\ applies_to(e, Now(q))
        /\ call \in DOMAIN w
    BY <1>1 DEF PlaceOK, WorkersOK, Grading
  <2> QED BY <1>1, <2>1, RunLists
<1>5. /\ out \subseteq o /\ \A x \in o : x \in out \/ x = call
      /\ \/ /\ call \in o /\ Failed(result) /\ ~result.passed
            /\ result.metric_name \in {e, metric_name(e, Now(q))}
         \/ /\ o \subseteq out /\ ~Failed(result)
            /\ w[call].at = "returned" /\ w[call].result = result
  OBVIOUS
<1>6. PlaceOK(n)
  <2>1. q.case <= Len(d)
    BY <1>1 DEF PlaceOK, Grading
  <2> QED BY <1>1, <1>2, <1>3, <1>4, <2>1 DEF PlaceOK, Grading
<1>7. StatusOK(n) /\ ResponsesOK(n)
  BY <1>1, <1>2, <1>3 DEF StatusOK, ResponsesOK, Grading
<1>8. WorkersOK(n, w, cache)
  <2>1. ASSUME NEW i \in DOMAIN d, NEW j \in DOMAIN ChosenOf(q), WasCalled(q, i, j)
        PROVE  WasCalled(n, i, j) /\ n.responses = q.responses
    BY <1>2, <1>3, <1>4, <2>1 DEF WasCalled
  <2> QED BY <1>1, <1>2, <2>1, WorkersKept
<1>9. CurrentOK(n, w, o)
  <2> DEFINE results == q.metric_results
             more == n.metric_results
             upto(k) == {x \in {ChosenOf(q)[j] : j \in 1 .. k} : applies_to(x, Now(q))}
  <2>1. 1 .. n.evaluator - 1 = (1 .. q.evaluator - 1) \cup {q.evaluator}
    BY <1>2, <1>4
  <2>2. ResultsOf(results, Now(q), ChosenOf(q), q.evaluator - 1, w, out)
    BY <1>1 DEF CurrentOK, Grading
  <2>3. DOMAIN results = upto(q.evaluator - 1)
    BY <2>2 DEF ResultsOf
  <2>4. e \notin DOMAIN results
    <3> SUFFICES ASSUME NEW j \in 1 .. q.evaluator - 1, e = ChosenOf(q)[j] PROVE FALSE
      BY <2>3
    <3>1. j \in DOMAIN ChosenOf(q) /\ j # q.evaluator
      BY <1>4
    <3> QED BY <1>1, <1>4, <3>1, OneIndex
  <2>5. call \notin out
    BY <2>2, <2>4 DEF ResultsOf
  <2>6. /\ DOMAIN more = DOMAIN results \cup {e} /\ more[e] = result
        /\ \A x \in DOMAIN results : x # e => more[x] = results[x]
    BY <1>2 DEF Put
  <2>7. DOMAIN more = upto(n.evaluator - 1)
    BY <1>4, <2>1, <2>3, <2>6
  <2> HIDE DEF results, more, upto, e, call
  <2>8. \A x \in DOMAIN more : ComesFrom(Now(q), x, more[x], w, o)
    <3>1. ComesFrom(Now(q), e, result, w, o)
      BY <1>4, <1>5, <2>5 DEF ComesFrom, call
    <3>2. ASSUME NEW x \in DOMAIN results PROVE ComesFrom(Now(q), x, results[x], w, o)
      <4>1. ComesFrom(Now(q), x, results[x], w, out)
        BY <2>2 DEF ResultsOf
      <4>2. <<Now(q).id, x>> \in o <=> <<Now(q).id, x>> \in out
        BY <1>5, <2>4 DEF call
      <4> QED BY <4>1, <4>2 DEF ComesFrom
    <3> QED BY <2>4, <2>6, <3>1, <3>2
  <2>9. \A x : <<Now(q).id, x>> \in o => x \in DOMAIN more
    BY <1>5, <2>2, <2>6 DEF ResultsOf, call
  <2>10. ResultsOf(more, Now(q), ChosenOf(q), n.evaluator - 1, w, o)
    BY <2>7, <2>8, <2>9 DEF ResultsOf, upto
  <2> QED BY <1>2, <1>3, <2>10 DEF CurrentOK, Grading, more
<1>10. PastOK(n, w, o)
  <2>1. ASSUME NEW i \in 1 .. q.case - 1 PROVE SameOutages(d[i], out, o)
    <3>1. d[i].id # Now(q).id
      <4>1. i \in DOMAIN d /\ i # q.case
        BY <1>1, <1>4, RunLists
      <4> QED BY <1>1, <1>4, <4>1, OneIndex DEF Now
    <3> QED BY <1>5, <3>1 DEF SameOutages
  <2>2. /\ n.request = q.request /\ n.case = q.case /\ n.case_results = q.case_results
        /\ DOMAIN q.responses \subseteq DOMAIN n.responses
    BY <1>2
  <2>3. PastOK(q, w, out) /\ Keeps(w, w)
    BY <1>1, KeepsItself
  <2> HIDE DEF call, e
  <2> QED BY <2>1, <2>2, <2>3, PastKept
<1>11. OutagesOK(n, o)
  <2> SUFFICES ASSUME NEW x \in o
               PROVE  \E i \in DOMAIN d, f \in Entries(ChosenOf(q)) \cup {None} :
                        x = <<d[i].id, f>> /\ (i < n.case \/ (i = n.case /\ Grading(n)))
    BY <1>3 DEF OutagesOK
  <2>1. Grading(n) /\ n.case = q.case
    BY <1>2 DEF Grading
  <2>2. CASE x \in out
    BY <1>1, <2>1, <2>2 DEF OutagesOK
  <2>3. CASE x = call
    <3>1. e \in Entries(ChosenOf(q))
      BY <1>4 DEF Entries
    <3> QED BY <1>4, <2>1, <2>3, <3>1 DEF Now
  <2> QED BY <1>5, <2>2, <2>3
<1> QED BY <1>2, <1>6, <1>7, <1>8, <1>9, <1>10, <1>11 DEF RunOK, n

LEMMA FinishOK ==
  ASSUME NEW q, NEW w, NEW out, NEW cache, RunOK(q, w, out, cache),
         q.pc = "provider", ~(q.case <= Len(DatasetOf(q))), NEW status,
         status = IF \E c \in DOMAIN q.case_results : q.case_results[c].partial
                    THEN "partial" ELSE "completed"
  PROVE  RunOK([q EXCEPT !.pc = "done", !.status = status], w, out, cache)
<1> DEFINE n == [q EXCEPT !.pc = "done", !.status = status]
<1>1. /\ PlaceOK(q) /\ StatusOK(q) /\ ResponsesOK(q) /\ WorkersOK(q, w, cache)
      /\ CurrentOK(q, w, out) /\ PastOK(q, w, out) /\ OutagesOK(q, out)
  BY DEF RunOK
<1>2. n = [pc |-> "done", request |-> q.request, case |-> q.case,
           attempt |-> q.attempt, evaluator |-> q.evaluator, responses |-> q.responses,
           metric_results |-> q.metric_results, case_results |-> q.case_results,
           status |-> status]
  <2>1. DOMAIN q = Fields
    BY <1>1, StateFields
  <2>2. /\ n = [field \in Fields |-> n[field]]
        /\ n.pc = "done" /\ n.evaluator = q.evaluator
        /\ n.request = q.request /\ n.case = q.case /\ n.attempt = q.attempt
        /\ n.responses = q.responses /\ n.metric_results = q.metric_results
        /\ n.case_results = q.case_results /\ n.status = status
    BY <2>1 DEF Fields
  <2> HIDE DEF n
  <2> QED BY <2>2, IsState
<1> HIDE DEF n
<1>3. DatasetOf(n) = DatasetOf(q) /\ ChosenOf(n) = ChosenOf(q)
  BY <1>2 DEF DatasetOf, ChosenOf
<1>4. Len(DatasetOf(q)) \in Nat
  BY <1>1, RunLists
<1>5. PlaceOK(n)
  BY <1>1, <1>2, <1>3, <1>4 DEF PlaceOK, Grading
<1>6. StatusOK(n) /\ ResponsesOK(n) /\ CurrentOK(n, w, out) /\ OutagesOK(n, out)
  BY <1>1, <1>2, <1>3 DEF StatusOK, ResponsesOK, CurrentOK, OutagesOK, Grading
<1>7. WorkersOK(n, w, cache)
  BY <1>1, <1>2, <1>3, WorkersKept DEF WasCalled
<1>8. PastOK(n, w, out)
  BY <1>1, <1>2, PastKept, KeepsItself DEF SameOutages
<1> QED BY <1>2, <1>5, <1>6, <1>7, <1>8 DEF RunOK, n

-----------------------------------------------------------------------------
(***************************************************************************)
(* The workers.                                                            *)
(***************************************************************************)
LEMMA CacheGrows ==
  ASSUME NEW call, NEW case, NEW e, NEW response, NEW cache, NEW more,
         DOMAIN cache \subseteq DOMAIN more, CallOK(call, case, e, response, cache)
  PROVE  CallOK(call, case, e, response, more)
BY DEF CallOK

\* What a worker does leaves the thread of its run as it is, and with it any other run.
LEMMA WorkOK ==
  ASSUME NEW q, NEW w, NEW v, NEW out, NEW cache, NEW more, RunOK(q, w, out, cache),
         DOMAIN cache \subseteq DOMAIN more, DOMAIN v = DOMAIN w, Keeps(w, v),
         q.pc = "ready" => v = w,
         \A i \in DOMAIN DatasetOf(q), j \in DOMAIN ChosenOf(q) :
           LET call == <<DatasetOf(q)[i].id, ChosenOf(q)[j]>>
           IN  /\ call \in DOMAIN w /\ v[call] # w[call]
               /\ q.pc # "ready" /\ WasCalled(q, i, j)
               => CallOK(v[call], DatasetOf(q)[i], ChosenOf(q)[j],
                         q.responses[DatasetOf(q)[i].id], more)
  PROVE  RunOK(q, v, out, more)
<1> DEFINE d == DatasetOf(q)
<1>1. PlaceOK(q) /\ StatusOK(q) /\ (q.pc = "ready" => v = Nothing /\ out = {})
  BY DEF RunOK
<1>2. ASSUME q.pc # "ready"
      PROVE  /\ ResponsesOK(q) /\ WorkersOK(q, v, more)
             /\ CurrentOK(q, v, out) /\ PastOK(q, v, out) /\ OutagesOK(q, out)
  <2>1. /\ ResponsesOK(q) /\ WorkersOK(q, w, cache)
        /\ CurrentOK(q, w, out) /\ PastOK(q, w, out) /\ OutagesOK(q, out)
    BY <1>2 DEF RunOK
  <2>2. ASSUME NEW x \in DOMAIN v
        PROVE  \E i \in DOMAIN d, j \in DOMAIN ChosenOf(q) :
                 /\ x = <<d[i].id, ChosenOf(q)[j]>>
                 /\ WasCalled(q, i, j)
                 /\ CallOK(v[x], d[i], ChosenOf(q)[j], q.responses[d[i].id], more)
    <3>1. PICK i \in DOMAIN d, j \in DOMAIN ChosenOf(q) :
                 /\ x = <<d[i].id, ChosenOf(q)[j]>>
                 /\ WasCalled(q, i, j)
                 /\ CallOK(w[x], d[i], ChosenOf(q)[j], q.responses[d[i].id], cache)
      BY <2>1, <2>2 DEF WorkersOK
    <3>2. CASE v[x] = w[x]
      BY <3>1, <3>2, CacheGrows
    <3>3. CASE v[x] # w[x]
      BY <1>2, <2>2, <3>1, <3>3
    <3> QED BY <3>1, <3>2, <3>3
  <2>3. WorkersOK(q, v, more)
    BY <2>1, <2>2 DEF WorkersOK
  <2>4. CurrentOK(q, v, out)
    <3>1. CASE Grading(q)
      <4>1. ResultsOf(q.metric_results, Now(q), ChosenOf(q), q.evaluator - 1, w, out)
        BY <2>1, <3>1 DEF CurrentOK
      <4>2. ResultsOf(q.metric_results, Now(q), ChosenOf(q), q.evaluator - 1, v, out)
        BY <4>1, ResultsKept DEF SameOutages
      <4> QED BY <3>1, <4>2 DEF CurrentOK
    <3>2. CASE ~Grading(q)
      BY <2>1, <3>2 DEF CurrentOK
    <3> QED BY <3>1, <3>2
  <2>5. PastOK(q, v, out)
    BY <2>1, PastKept DEF SameOutages
  <2> QED BY <2>1, <2>3, <2>4, <2>5
<1> QED BY <1>1, <1>2 DEF RunOK

\* The call of a worker is one that the thread of its run has made.
LEMMA WorkersCall ==
  ASSUME NEW q, NEW w, NEW out, NEW cache, RunOK(q, w, out, cache),
         NEW case \in Entries(DatasetOf(q)), NEW e \in Entries(ChosenOf(q)),
         <<case.id, e>> \in DOMAIN w
  PROVE  /\ q.pc # "ready" /\ q.request \in DOMAIN Requests
         /\ e \in Deterministic \cup Judges /\ applies_to(e, case)
         /\ case.id \in DOMAIN q.responses /\ IsResponse(q.responses[case.id])
         /\ CallOK(w[<<case.id, e>>], case, e, q.responses[case.id], cache)
<1>1. q.pc # "ready"
  BY EmptyFacts DEF RunOK
<1>2. PlaceOK(q) /\ ResponsesOK(q) /\ WorkersOK(q, w, cache)
  BY <1>1 DEF RunOK
<1>3. PICK i \in DOMAIN DatasetOf(q) : case = DatasetOf(q)[i]
  BY DEF Entries
<1>4. PICK j \in DOMAIN ChosenOf(q) : e = ChosenOf(q)[j]
  BY DEF Entries
<1>5. PICK k \in DOMAIN DatasetOf(q), l \in DOMAIN ChosenOf(q) :
         /\ <<case.id, e>> = <<DatasetOf(q)[k].id, ChosenOf(q)[l]>>
         /\ WasCalled(q, k, l)
         /\ CallOK(w[<<case.id, e>>], DatasetOf(q)[k], ChosenOf(q)[l],
                   q.responses[DatasetOf(q)[k].id], cache)
  BY <1>2 DEF WorkersOK
<1>6. k = i /\ l = j
  BY <1>1, <1>2, <1>3, <1>4, <1>5, OneIndex
<1>7. applies_to(e, case) /\ case.id \in DOMAIN q.responses
  BY <1>3, <1>4, <1>5, <1>6 DEF WasCalled
<1>8. e \in Deterministic \cup Judges /\ q.request \in DOMAIN Requests
  BY <1>1, <1>2, <1>4, OneIndex, RunLists
<1> QED BY <1>1, <1>2, <1>3, <1>4, <1>5, <1>6, <1>7, <1>8 DEF ResponsesOK

-----------------------------------------------------------------------------
(***************************************************************************)
(* The invariant: one lemma for each action.                               *)
(***************************************************************************)
LEMMA Reading ==
  ASSUME NEW r
  PROVE  /\ Dataset(r) = DatasetOf(run[r]) /\ Chosen(r) = ChosenOf(run[r])
         /\ Cases(r) = Entries(DatasetOf(run[r])) /\ Names(r) = Entries(ChosenOf(run[r]))
         /\ CurrentCase(r) = Now(run[r])
         /\ CurrentEvaluator(r) = ChosenOf(run[r])[run[r].evaluator]
         /\ CurrentCall(r) = <<Now(run[r]).id, ChosenOf(run[r])[run[r].evaluator]>>
BY DEF Dataset, Request, DatasetOf, Chosen, ChosenOf, Cases, Names, CurrentCase, Now,
       CurrentEvaluator, CurrentCall

\* A step of one run.
LEMMA OneRun ==
  ASSUME RunnerInv, NEW r \in Runs, NEW n, NEW v, NEW o,
         run' = [run EXCEPT ![r] = n], worker' = [worker EXCEPT ![r] = v],
         outages' = [outages EXCEPT ![r] = o],
         DOMAIN metric_cache \subseteq DOMAIN metric_cache',
         \A key \in DOMAIN metric_cache' : metric_cache'[key] \in Nat,
         RunOK(n, v, o, metric_cache')
  PROVE  RunnerInv'
<1>1. /\ run' = [x \in Runs |-> run'[x]] /\ worker' = [x \in Runs |-> worker'[x]]
      /\ outages' = [x \in Runs |-> outages'[x]]
  BY DEF RunnerInv
<1>2. run'[r] = n /\ worker'[r] = v /\ outages'[r] = o
  BY DEF RunnerInv
<1>3. ASSUME NEW x \in Runs, x # r
      PROVE  RunOK(run'[x], worker'[x], outages'[x], metric_cache')
  <2>1. run'[x] = run[x] /\ worker'[x] = worker[x] /\ outages'[x] = outages[x]
    BY <1>3 DEF RunnerInv
  <2>2. RunOK(run[x], worker[x], outages[x], metric_cache)
    BY DEF RunnerInv
  <2>3. RunOK(run[x], worker[x], outages[x], metric_cache')
    BY <2>2, WorkOK, KeepsItself
  <2> QED BY <2>1, <2>3
<1>4. \A x \in Runs : RunOK(run'[x], worker'[x], outages'[x], metric_cache')
  BY <1>2, <1>3
<1> QED BY <1>1, <1>4 DEF RunnerInv

LEMMA SameValue ==
  ASSUME RunnerInv, NEW r \in Runs
  PROVE  /\ run = [run EXCEPT ![r] = run[r]] /\ worker = [worker EXCEPT ![r] = worker[r]]
         /\ outages = [outages EXCEPT ![r] = outages[r]]
         /\ RunOK(run[r], worker[r], outages[r], metric_cache)
         /\ \A key \in DOMAIN metric_cache : metric_cache[key] \in Nat
BY DEF RunnerInv

\* A step of the thread of a run that leaves the workers and the outages alone.
LEMMA ThreadOnly ==
  ASSUME RunnerInv, NEW r \in Runs, NEW n, run' = [run EXCEPT ![r] = n],
         UNCHANGED <<worker, metric_cache, outages>>,
         RunOK(n, worker[r], outages[r], metric_cache)
  PROVE  RunnerInv'
BY OneRun, SameValue

LEMMA StartStep == ASSUME RunnerInv, NEW r \in Runs, Start(r) PROVE RunnerInv'
<1>1. PICK name \in DOMAIN Requests :
         Step(r, "ready", [run[r] EXCEPT !.pc = "provider", !.request = name])
  BY DEF Start
<1> DEFINE n == [run[r] EXCEPT !.pc = "provider", !.request = name]
<1>2. run[r].pc = "ready" /\ run' = [run EXCEPT ![r] = n]
  BY <1>1 DEF Step
<1>3. RunOK(n, worker[r], outages[r], metric_cache)
  BY <1>2, SameValue, StartOK
<1>4. UNCHANGED <<worker, metric_cache, outages>>
  BY DEF Start
<1> HIDE DEF n
<1> QED BY <1>2, <1>3, <1>4, ThreadOnly

LEMMA RunAsked ==
  ASSUME RunnerInv, NEW r \in Runs, run[r].pc # "ready"
  PROVE  Asked(r)
BY SameValue, RunLists DEF RunOK, Asked

LEMMA AnsweredStep == ASSUME RunnerInv, NEW r \in Runs, Answered(r) PROVE RunnerInv'
<1>1. PICK outcome \in Outcomes(r) :
        /\ generate(r, outcome).error = None
        /\ Step(r, "provider",
                [run[r] EXCEPT !.pc = "evaluators",
                               !.responses = Put(@, CurrentCase(r).id, generate(r, outcome))])
  BY DEF Answered
<1> DEFINE response == generate(r, outcome)
           n == [run[r] EXCEPT !.pc = "evaluators",
                               !.responses = Put(@, Now(run[r]).id, response)]
<1>2. run[r].pc = "provider" /\ run' = [run EXCEPT ![r] = n]
  BY <1>1, Reading DEF Step
<1>3. run[r].case <= Len(DatasetOf(run[r]))
  BY Reading DEF Answered, Trying, CasesLeft
<1>4. IsResponse(response)
  BY <1>1, <1>2, RunAsked, AnswerIsResponse
<1> HIDE DEF response
<1>5. RunOK(n, worker[r], outages[r], metric_cache)
  BY <1>2, <1>3, <1>4, SameValue, AnsweredOK
<1>6. UNCHANGED <<worker, metric_cache, outages>>
  BY DEF Answered
<1> HIDE DEF n
<1> QED BY <1>2, <1>5, <1>6, ThreadOnly

LEMMA RetryStep == ASSUME RunnerInv, NEW r \in Runs, Retry(r) PROVE RunnerInv'
<1> DEFINE n == [run[r] EXCEPT !.attempt = @ + 1]
<1>1. run[r].pc = "provider" /\ run' = [run EXCEPT ![r] = n]
  BY DEF Retry, Step
<1>2. run[r].attempt < MaxAttempts
  BY DEF Retry, CanRetry
<1>3. RunOK(n, worker[r], outages[r], metric_cache)
  BY <1>1, <1>2, SameValue, RetryOK
<1>4. UNCHANGED <<worker, metric_cache, outages>>
  BY DEF Retry
<1> HIDE DEF n
<1> QED BY <1>1, <1>3, <1>4, ThreadOnly

\* As long as the provider is being asked, nothing is known to have failed of a case.
LEMMA NoOutageYet ==
  ASSUME NEW q, NEW w, NEW out, NEW cache, RunOK(q, w, out, cache),
         q.pc = "provider", q.case <= Len(DatasetOf(q))
  PROVE  \A e : <<Now(q).id, e>> \notin out
<1>1. PlaceOK(q) /\ OutagesOK(q, out)
  BY DEF RunOK
<1> SUFFICES ASSUME NEW e, <<Now(q).id, e>> \in out PROVE FALSE
  OBVIOUS
<1>2. PICK i \in DOMAIN DatasetOf(q) : Now(q).id = DatasetOf(q)[i].id /\ i < q.case
  BY <1>1 DEF OutagesOK, Grading
<1>3. q.case \in DOMAIN DatasetOf(q) /\ q.case \in Nat
  BY <1>1, RunLists
<1>4. i = q.case
  BY <1>1, <1>2, <1>3, OneIndex DEF Now
<1> QED BY <1>2, <1>3, <1>4

LEMMA GiveUpStep == ASSUME RunnerInv, NEW r \in Runs, GiveUp(r) PROVE RunnerInv'
<1> DEFINE q == run[r]
           result == ErroredCase(CurrentCase(r).critical, 0, 0)
           n == [q EXCEPT !.pc = "provider", !.case = @ + 1, !.attempt = 1, !.evaluator = 1,
                          !.metric_results = NoMetrics,
                          !.case_results = Put(@, Now(q).id, result)]
<1>1. q.pc = "provider" /\ run' = [run EXCEPT ![r] = n]
  BY Reading DEF GiveUp, Step, NextCase
<1>2. q.case <= Len(DatasetOf(q))
  BY Reading DEF GiveUp, Trying, CasesLeft
<1>3. Unanswered(result, Now(q), outages[r])
  <2>1. result.metric_results = NoMetrics /\ result.passed = FALSE /\ result.partial = FALSE
    BY DEF ErroredCase, CaseResult
  <2>2. \A e : <<Now(q).id, e>> \notin outages[r]
    BY <1>1, <1>2, SameValue, NoOutageYet
  <2> QED BY <2>1, <2>2 DEF Unanswered
<1> HIDE DEF result
<1>4. RunOK(n, worker[r], outages[r], metric_cache)
  BY <1>1, <1>2, <1>3, SameValue, NextCaseOK
<1>5. UNCHANGED <<worker, metric_cache, outages>>
  BY DEF GiveUp
<1> HIDE DEF n
<1> QED BY <1>1, <1>4, <1>5, ThreadOnly

LEMMA RaiseStep == ASSUME RunnerInv, NEW r \in Runs, Raise(r) PROVE RunnerInv'
<1> DEFINE q == run[r]
           result == CrashedCase(CurrentCase(r).critical)
           n == [q EXCEPT !.pc = "provider", !.case = @ + 1, !.attempt = 1, !.evaluator = 1,
                          !.metric_results = NoMetrics,
                          !.case_results = Put(@, Now(q).id, result)]
           o == outages[r] \cup {<<Now(q).id, None>>}
<1>1. q.pc = "provider" /\ run' = [run EXCEPT ![r] = n]
  BY Reading DEF Raise, Step, NextCase
<1>2. q.case <= Len(DatasetOf(q))
  BY Reading DEF Raise, Trying, CasesLeft
<1>3. Unanswered(result, Now(q), o)
  <2>1. result.metric_results = NoMetrics /\ result.passed = FALSE /\ result.partial = TRUE
    BY DEF CrashedCase, CaseResult
  <2>2. \A e : <<Now(q).id, e>> \notin outages[r]
    BY <1>1, <1>2, SameValue, NoOutageYet
  <2> QED BY <2>1, <2>2 DEF Unanswered
<1>4. outages[r] \subseteq o /\ \A x \in o : x \in outages[r] \/ x = <<Now(q).id, None>>
  OBVIOUS
<1>5. outages' = [outages EXCEPT ![r] = o]
  BY Reading DEF Raise
<1> HIDE DEF result, o
<1>6. RunOK(n, worker[r], o, metric_cache)
  BY <1>1, <1>2, <1>3, <1>4, SameValue, NextCaseOK
<1>7. UNCHANGED <<worker, metric_cache>>
  BY DEF Raise
<1> HIDE DEF n
<1> QED BY <1>1, <1>5, <1>6, <1>7, SameValue, OneRun

LEMMA SkipStep == ASSUME RunnerInv, NEW r \in Runs, SkipEvaluator(r) PROVE RunnerInv'
<1> DEFINE q == run[r]
           n == [q EXCEPT !.evaluator = @ + 1]
<1>1. /\ q.pc = "evaluators" /\ run' = [run EXCEPT ![r] = n]
      /\ q.evaluator <= Len(ChosenOf(q)) /\ ~applies_to(ChosenOf(q)[q.evaluator], Now(q))
  BY Reading DEF SkipEvaluator, Step, EvaluatorsLeft
<1>2. RunOK(n, worker[r], outages[r], metric_cache)
  BY <1>1, SameValue, SkipOK
<1>3. UNCHANGED <<worker, metric_cache, outages>>
  BY DEF SkipEvaluator
<1> HIDE DEF n
<1> QED BY <1>1, <1>2, <1>3, ThreadOnly

LEMMA CallEvaluatorStep ==
  ASSUME RunnerInv, NEW r \in Runs, CallEvaluator(r) PROVE RunnerInv'
<1> DEFINE q == run[r]
           n == [q EXCEPT !.pc = "waiting"]
           v == Put(worker[r], <<Now(q).id, ChosenOf(q)[q.evaluator]>>,
                    [at |-> "running", result |-> None])
<1>1. /\ q.pc = "evaluators" /\ run' = [run EXCEPT ![r] = n]
      /\ q.evaluator <= Len(ChosenOf(q)) /\ applies_to(ChosenOf(q)[q.evaluator], Now(q))
  BY Reading DEF CallEvaluator, Step, EvaluatorsLeft
<1>2. worker' = [worker EXCEPT ![r] = v]
  BY Reading DEF CallEvaluator, Becomes
<1>3. RunOK(n, v, outages[r], metric_cache)
  BY <1>1, SameValue, CallEvaluatorOK
<1>4. UNCHANGED <<metric_cache, outages>>
  BY DEF CallEvaluator
<1> HIDE DEF n, v
<1> QED BY <1>1, <1>2, <1>3, <1>4, SameValue, OneRun

LEMMA CollectStep == ASSUME RunnerInv, NEW r \in Runs, Collect(r) PROVE RunnerInv'
<1> DEFINE q == run[r]
           e == ChosenOf(q)[q.evaluator]
           call == <<Now(q).id, e>>
           result == worker[r][call].result
           o == IF Failed(result) THEN outages[r] \cup {call} ELSE outages[r]
           n == [q EXCEPT !.pc = "evaluators", !.evaluator = @ + 1,
                          !.metric_results = Put(@, ChosenOf(q)[q.evaluator], result)]
<1>1. q.pc = "waiting" /\ worker[r][call].at = "returned"
  BY Reading DEF Collect
<1>2. run' = [run EXCEPT ![r] = n]
  BY Reading DEF Collect, Record, Step
<1>3. outages' = [outages EXCEPT ![r] = o]
  <2>1. NoteOutage(r, Failed(result)) /\ CurrentCall(r) = call
    BY Reading DEF Collect
  <2> HIDE DEF result, call
  <2>2. CASE Failed(result)
    BY <2>1, <2>2 DEF NoteOutage
  <2>3. CASE ~Failed(result)
    BY <2>1, <2>3, SameValue DEF NoteOutage
  <2> QED BY <2>2, <2>3
<1>4. OwnResult(result, Now(q), e, q.responses[Now(q).id])
  <2>1. PlaceOK(q) /\ WorkersOK(q, worker[r], metric_cache)
    BY <1>1, SameValue DEF RunOK
  <2>2. /\ q.case <= Len(DatasetOf(q)) /\ q.evaluator <= Len(ChosenOf(q))
        /\ call \in DOMAIN worker[r]
    BY <1>1, <2>1 DEF PlaceOK, WorkersOK, Grading
  <2>3. q.case \in DOMAIN DatasetOf(q) /\ q.evaluator \in DOMAIN ChosenOf(q)
    BY <1>1, <2>1, <2>2, RunLists
  <2>4. CallOK(worker[r][call], Now(q), e, q.responses[Now(q).id], metric_cache)
    BY <1>1, <2>1, <2>2, <2>3, WaitedFor
  <2> QED BY <1>1, <2>4 DEF CallOK
<1>5. outages[r] \subseteq o /\ \A x \in o : x \in outages[r] \/ x = call
  OBVIOUS
<1>6. \/ /\ call \in o /\ Failed(result) /\ ~result.passed
         /\ result.metric_name \in {e, metric_name(e, Now(q))}
      \/ /\ o \subseteq outages[r] /\ ~Failed(result)
         /\ worker[r][call].at = "returned" /\ worker[r][call].result = result
  BY <1>1, <1>4 DEF OwnResult
<1> HIDE DEF o, result
<1>7. RunOK(n, worker[r], o, metric_cache)
  BY <1>1, <1>5, <1>6, SameValue, RecordOK
<1>8. UNCHANGED <<worker, metric_cache>>
  BY DEF Collect
<1> HIDE DEF n
<1> QED BY <1>2, <1>3, <1>7, <1>8, SameValue, OneRun

LEMMA IsolateStep == ASSUME RunnerInv, NEW r \in Runs, Isolate(r) PROVE RunnerInv'
<1> DEFINE q == run[r]
           e == ChosenOf(q)[q.evaluator]
           call == <<Now(q).id, e>>
           result == isolated_failure_result(e)
           o == outages[r] \cup {call}
           n == [q EXCEPT !.pc = "evaluators", !.evaluator = @ + 1,
                          !.metric_results = Put(@, ChosenOf(q)[q.evaluator], result)]
<1>1. q.pc = "waiting" /\ run' = [run EXCEPT ![r] = n]
  BY Reading DEF Isolate, Record, Step
<1>2. outages' = [outages EXCEPT ![r] = o]
  BY Reading DEF Isolate, NoteOutage
<1>3. /\ call \in o /\ Failed(result) /\ ~result.passed
      /\ result.metric_name \in {e, metric_name(e, Now(q))}
  BY ResultStatus DEF isolated_failure_result
<1>4. outages[r] \subseteq o /\ \A x \in o : x \in outages[r] \/ x = call
  OBVIOUS
<1> HIDE DEF o, result
<1>5. RunOK(n, worker[r], o, metric_cache)
  BY <1>1, <1>3, <1>4, SameValue, RecordOK
<1>6. UNCHANGED <<worker, metric_cache>>
  BY DEF Isolate
<1> HIDE DEF n
<1> QED BY <1>1, <1>2, <1>5, <1>6, SameValue, OneRun

LEMMA GradeCaseStep == ASSUME RunnerInv, NEW r \in Runs, GradeCase(r) PROVE RunnerInv'
<1> DEFINE q == run[r]
           response == q.responses[CurrentCase(r).id]
           result == GradedCase(CurrentCase(r).critical, q.metric_results,
                                response.latency_ms, estimated_cost(response))
           n == [q EXCEPT !.pc = "provider", !.case = @ + 1, !.attempt = 1, !.evaluator = 1,
                          !.metric_results = NoMetrics,
                          !.case_results = Put(@, Now(q).id, result)]
<1>1. q.pc = "evaluators" /\ run' = [run EXCEPT ![r] = n]
  BY Reading DEF GradeCase, Step, NextCase
<1>2. /\ PlaceOK(q) /\ ResponsesOK(q) /\ CurrentOK(q, worker[r], outages[r])
  BY <1>1, SameValue DEF RunOK
<1>3. q.case <= Len(DatasetOf(q)) /\ Now(q).id \in DOMAIN q.responses
  BY <1>1, <1>2 DEF PlaceOK, ResponsesOK, Grading
<1>4. q.evaluator - 1 = Len(ChosenOf(q))
  <2>1. ~(q.evaluator <= Len(ChosenOf(q))) /\ q.evaluator \in 1 .. Len(ChosenOf(q)) + 1
    BY <1>1, <1>2, Reading DEF GradeCase, EvaluatorsLeft, PlaceOK
  <2> QED BY <1>1, <1>2, <2>1, RunLists
<1>5. Graded(q, result, Now(q), worker[r], outages[r])
  <2>1. ResultsOf(q.metric_results, Now(q), ChosenOf(q), Len(ChosenOf(q)), worker[r],
                  outages[r])
    BY <1>1, <1>2, <1>4 DEF CurrentOK, Grading
  <2>2. /\ result.metric_results = q.metric_results
        /\ result.passed = AllPassed(q.metric_results)
        /\ result.partial = AnyErrorType(q.metric_results)
    BY DEF GradedCase, CaseResult
  <2> HIDE DEF result
  <2> QED BY <1>3, <2>1, <2>2 DEF Graded
<1> HIDE DEF result
<1>6. RunOK(n, worker[r], outages[r], metric_cache)
  BY <1>1, <1>3, <1>5, SameValue, NextCaseOK
<1>7. UNCHANGED <<worker, metric_cache, outages>>
  BY DEF GradeCase
<1> HIDE DEF n
<1> QED BY <1>1, <1>6, <1>7, ThreadOnly

LEMMA FinishStep == ASSUME RunnerInv, NEW r \in Runs, FinishRun(r) PROVE RunnerInv'
<1> DEFINE q == run[r]
           status == IF Partial(r) THEN "partial" ELSE "completed"
           n == [q EXCEPT !.pc = "done", !.status = status]
<1>1. q.pc = "provider" /\ run' = [run EXCEPT ![r] = n] /\ ~(q.case <= Len(DatasetOf(q)))
  BY Reading DEF FinishRun, Step, CasesLeft
<1>2. status = IF \E c \in DOMAIN q.case_results : q.case_results[c].partial
                 THEN "partial" ELSE "completed"
  BY DEF Partial
<1> HIDE DEF status
<1>3. RunOK(n, worker[r], outages[r], metric_cache)
  BY <1>1, <1>2, SameValue, FinishOK
<1>4. UNCHANGED <<worker, metric_cache, outages>>
  BY DEF FinishRun
<1> HIDE DEF n
<1> QED BY <1>1, <1>3, <1>4, ThreadOnly

\* A step of a worker that has not returned yet.
LEMMA WorkStep ==
  ASSUME RunnerInv, NEW r \in Runs, NEW case \in Cases(r), NEW e \in Names(r),
         NEW at, NEW result, <<case.id, e>> \in DOMAIN worker[r],
         worker[r][<<case.id, e>>].at # "returned",
         Becomes(r, <<case.id, e>>, at, result), UNCHANGED <<run, outages>>,
         DOMAIN metric_cache \subseteq DOMAIN metric_cache',
         \A key \in DOMAIN metric_cache' : metric_cache'[key] \in Nat,
         CallOK([at |-> at, result |-> result], case, e, run[r].responses[case.id],
                metric_cache')
  PROVE  RunnerInv'
<1> DEFINE q == run[r]
           w == worker[r]
           call == <<case.id, e>>
           v == Put(w, call, [at |-> at, result |-> result])
<1>1. run' = [run EXCEPT ![r] = q] /\ outages' = [outages EXCEPT ![r] = outages[r]]
  BY SameValue
<1>2. worker' = [worker EXCEPT ![r] = v]
  BY DEF Becomes
<1>3. /\ DOMAIN v = DOMAIN w /\ v[call] = [at |-> at, result |-> result]
      /\ \A x \in DOMAIN w : x # call => v[x] = w[x]
  BY DEF Put
<1>4. Keeps(w, v)
  <2> HIDE DEF v
  <2> QED BY <1>3 DEF Keeps
<1>5. RunOK(q, w, outages[r], metric_cache)
  BY SameValue
<1>6. q.pc # "ready" /\ PlaceOK(q)
  <2>1. DOMAIN w # {}
    OBVIOUS
  <2> QED BY <1>5, <2>1, EmptyFacts DEF RunOK
<1>7. PICK i \in DOMAIN DatasetOf(q) : case = DatasetOf(q)[i]
  BY Reading DEF Entries
<1>8. PICK j \in DOMAIN ChosenOf(q) : e = ChosenOf(q)[j]
  BY Reading DEF Entries
<1> HIDE DEF v
<1>9. ASSUME NEW k \in DOMAIN DatasetOf(q), NEW l \in DOMAIN ChosenOf(q),
             <<DatasetOf(q)[k].id, ChosenOf(q)[l]>> \in DOMAIN w,
             v[<<DatasetOf(q)[k].id, ChosenOf(q)[l]>>] # w[<<DatasetOf(q)[k].id, ChosenOf(q)[l]>>]
      PROVE  CallOK(v[<<DatasetOf(q)[k].id, ChosenOf(q)[l]>>], DatasetOf(q)[k], ChosenOf(q)[l],
                    q.responses[DatasetOf(q)[k].id], metric_cache')
  <2>1. <<DatasetOf(q)[k].id, ChosenOf(q)[l]>> = call
    BY <1>3, <1>9
  <2>2. k = i /\ l = j
    BY <1>6, <1>7, <1>8, <2>1, OneIndex
  <2> QED BY <1>3, <1>7, <1>8, <2>1, <2>2
<1>10. RunOK(q, v, outages[r], metric_cache')
  <2> HIDE DEF q, w
  <2> QED BY <1>3, <1>4, <1>5, <1>6, <1>9, WorkOK
<1> HIDE DEF q
<1> QED BY <1>1, <1>2, <1>10, OneRun

LEMMA RunningFacts ==
  ASSUME RunnerInv, NEW r \in Runs, NEW case \in Cases(r), NEW e \in Names(r),
         <<case.id, e>> \in DOMAIN worker[r]
  PROVE  /\ run[r].request \in DOMAIN Requests /\ case \in Entries(Dataset(r))
         /\ e \in Deterministic \cup Judges /\ applies_to(e, case)
         /\ IsResponse(Response(r, case))
         /\ CallOK(worker[r][<<case.id, e>>], case, e, Response(r, case), metric_cache)
BY SameValue, Reading, WorkersCall DEF Response

LEMMA ReturnedIsOwn ==
  ASSUME RunnerInv, NEW r \in Runs, NEW case \in Cases(r), NEW e \in Names(r),
         <<case.id, e>> \in DOMAIN worker[r], NEW outcome \in CallOutcomes(e, case)
  PROVE  OwnResult(evaluate(e, case, Response(r, case), outcome), case, e, Response(r, case))
<1>1. /\ run[r].request \in DOMAIN Requests
      /\ case \in Entries(Requests[run[r].request].dataset)
  BY RunningFacts DEF Dataset, Request
<1> QED BY <1>1, RunningFacts, OwnResults

LEMMA ReturnStep ==
  ASSUME RunnerInv, NEW r \in Runs, NEW case \in Cases(r), NEW e \in Names(r),
         Return(r, case, e)
  PROVE  RunnerInv'
<1>1. PICK outcome \in CallOutcomes(e, case) :
         Becomes(r, <<case.id, e>>, "returned", evaluate(e, case, Response(r, case), outcome))
  BY DEF Return
<1> DEFINE result == evaluate(e, case, Response(r, case), outcome)
<1>2. <<case.id, e>> \in DOMAIN worker[r] /\ worker[r][<<case.id, e>>].at # "returned"
  BY DEF Return, Running
<1>3. OwnResult(result, case, e, Response(r, case))
  BY <1>2, ReturnedIsOwn
<1>4. UNCHANGED <<run, outages, metric_cache>>
  BY DEF Return
<1> HIDE DEF result
<1>5. CallOK([at |-> "returned", result |-> result], case, e, run[r].responses[case.id],
             metric_cache')
  BY <1>3 DEF CallOK, Response
<1>6. Becomes(r, <<case.id, e>>, "returned", result)
  BY <1>1 DEF result
<1> QED BY <1>2, <1>4, <1>5, <1>6, SameValue, WorkStep

LEMMA MeasureStep ==
  ASSUME RunnerInv, NEW r \in Runs, NEW case \in Cases(r), NEW e \in Names(r),
         Measure(r, case, e)
  PROVE  RunnerInv'
<1> DEFINE key == CacheKey(case, Response(r, case))
<1>1. PICK outcome \in CallOutcomes(e, case) :
         LET result == evaluate(e, case, Response(r, case), outcome)
         IN  ReadFromObject(e, result) /\ metric_cache' = Put(metric_cache, key, result.score)
  BY DEF Measure
<1> DEFINE score == evaluate(e, case, Response(r, case), outcome).score
<1>2. <<case.id, e>> \in DOMAIN worker[r] /\ worker[r][<<case.id, e>>].at # "returned"
  BY DEF Measure, Running
<1>3. score \in Nat
  BY <1>2, ReturnedIsOwn DEF OwnResult
<1>4. e = DeepEvalCriteria /\ metric_cache' = Put(metric_cache, key, score)
  BY <1>1 DEF ReadFromObject
<1> HIDE DEF key, score
<1>5. /\ DOMAIN metric_cache' = DOMAIN metric_cache \cup {key}
      /\ \A x \in DOMAIN metric_cache' : metric_cache'[x] \in Nat
  BY <1>3, <1>4, SameValue DEF Put
<1>6. CallOK([at |-> "measured", result |-> None], case, e, run[r].responses[case.id],
             metric_cache')
  BY <1>4, <1>5 DEF CallOK, Response, key
<1>7. Becomes(r, <<case.id, e>>, "measured", None) /\ UNCHANGED <<run, outages>>
  BY DEF Measure
<1> QED BY <1>2, <1>5, <1>6, <1>7, WorkStep

LEMMA ReadScoreStep ==
  ASSUME RunnerInv, NEW r \in Runs, NEW case \in Cases(r), NEW e \in Names(r),
         ReadScore(r, case, e)
  PROVE  RunnerInv'
<1> DEFINE score == metric_cache[CacheKey(case, Response(r, case))]
           result == ScoredResult(metric_name(e, case), score, threshold(e, case))
<1>1. <<case.id, e>> \in DOMAIN worker[r] /\ worker[r][<<case.id, e>>].at = "measured"
  BY DEF ReadScore
<1>2. e = DeepEvalCriteria /\ CacheKey(case, Response(r, case)) \in DOMAIN metric_cache
  BY <1>1, RunningFacts DEF CallOK
<1>3. score \in Nat
  BY <1>2, SameValue
<1>4. OwnResult(result, case, e, Response(r, case))
  BY <1>2, <1>3, ReadScoreResult
<1>5. Becomes(r, <<case.id, e>>, "returned", result) /\ UNCHANGED <<run, outages, metric_cache>>
  BY DEF ReadScore
<1> HIDE DEF result
<1>6. CallOK([at |-> "returned", result |-> result], case, e, run[r].responses[case.id],
             metric_cache')
  BY <1>4 DEF CallOK, Response
<1> QED BY <1>1, <1>5, <1>6, SameValue, WorkStep

LEMMA FailStep ==
  ASSUME RunnerInv, NEW r \in Runs, NEW case \in Cases(r), NEW e \in Names(r),
         Fail(r, case, e)
  PROVE  RunnerInv'
<1>1. /\ <<case.id, e>> \in DOMAIN worker[r] /\ worker[r][<<case.id, e>>].at # "returned"
      /\ Becomes(r, <<case.id, e>>, "raised", None) /\ UNCHANGED <<run, outages, metric_cache>>
  BY DEF Fail, Running
<1>2. CallOK([at |-> "raised", result |-> None], case, e, run[r].responses[case.id],
             metric_cache')
  BY DEF CallOK
<1> QED BY <1>1, <1>2, SameValue, WorkStep

LEMMA InitRunner == Init => RunnerInv
<1> SUFFICES ASSUME Init PROVE RunnerInv
  OBVIOUS
<1>1. /\ run = [r \in Runs |-> run[r]] /\ worker = [r \in Runs |-> worker[r]]
      /\ outages = [r \in Runs |-> outages[r]]
      /\ \A key \in DOMAIN metric_cache : metric_cache[key] \in Nat
  BY EmptyFacts DEF Init
<1>2. ASSUME NEW r \in Runs PROVE RunOK(run[r], worker[r], outages[r], metric_cache)
  <2>1. run[r] = Ready /\ worker[r] = Nothing /\ outages[r] = {}
    BY DEF Init
  <2>2. PlaceOK(Ready) /\ StatusOK(Ready) /\ Ready.pc = "ready"
    BY DEF PlaceOK, StatusOK, Ready
  <2> QED BY <2>1, <2>2 DEF RunOK
<1> QED BY <1>1, <1>2 DEF RunnerInv

LEMMA NextRunner == ASSUME RunnerInv, [Next]_vars PROVE RunnerInv'
<1>1. CASE UNCHANGED vars
  BY <1>1 DEF RunnerInv, vars
<1>2. ASSUME NEW r \in Runs, Runner(r) PROVE RunnerInv'
  BY <1>2, StartStep, AnsweredStep, RetryStep, GiveUpStep, RaiseStep, SkipStep,
     CallEvaluatorStep, CollectStep, IsolateStep, GradeCaseStep, FinishStep DEF Runner
<1>3. ASSUME NEW r \in Runs, Work(r) PROVE RunnerInv'
  <2>1. PICK case \in Cases(r), e \in Names(r) :
          Return(r, case, e) \/ Measure(r, case, e) \/ ReadScore(r, case, e) \/ Fail(r, case, e)
    BY <1>3 DEF Work
  <2> QED BY <2>1, ReturnStep, MeasureStep, ReadScoreStep, FailStep
<1> QED BY <1>1, <1>2, <1>3 DEF Next

(***************************************************************************)
(* The invariant: at every step of every run, each result that has been    *)
(* recorded is one that a worker returned, or stands for one of the        *)
(* outages, and a run has recorded exactly what it is done with.           *)
(***************************************************************************)
THEOREM RunnerInvariant == Spec => []RunnerInv
BY InitRunner, NextRunner, PTL DEF Spec

-----------------------------------------------------------------------------
(***************************************************************************)
(* The properties.                                                         *)
(***************************************************************************)
LEMMA FutileStep ==
  ASSUME RunnerInv, [Next]_vars
  PROVE  /\ ~futile => ~futile'
         /\ futile \in BOOLEAN => futile' \in BOOLEAN
<1>1. CASE UNCHANGED vars
  BY <1>1 DEF vars
<1>2. ASSUME NEW r \in Runs, Retry(r)
      PROVE  (~futile => ~futile') /\ (futile \in BOOLEAN => futile' \in BOOLEAN)
  <2>1. PICK outcome \in Outcomes(r) :
          /\ CanRetry(r, generate(r, outcome))
          /\ futile' = (futile \/ BadKeyOrAnswer(outcome))
    BY <1>2 DEF Retry
  <2>2. Asked(r)
    BY <1>2, RunAsked DEF Retry, Trying
  <2>3. generate(r, outcome).error \in Retryable
    BY <2>1 DEF CanRetry
  <2>4. ~BadKeyOrAnswer(outcome)
    BY <2>2, <2>3, BadKeyOrAnswerIsNotRetried
  <2>5. ~futile => ~futile'
    BY <2>1, <2>4, Zenon
  <2>6. futile' \in BOOLEAN
    BY <2>1, Zenon
  <2> QED BY <2>5, <2>6
<1>3. ASSUME NEW r \in Runs, Runner(r), ~Retry(r) PROVE futile' = futile
  BY <1>3 DEF Runner, Start, Answered, GiveUp, Raise, SkipEvaluator, CallEvaluator, Collect,
              Isolate, GradeCase, FinishRun
<1>4. ASSUME NEW r \in Runs, Work(r) PROVE futile' = futile
  BY <1>4 DEF Work, Return, Measure, ReadScore, Fail
<1> QED BY <1>1, <1>2, <1>3, <1>4 DEF Next

(***************************************************************************)
(* No call of a provider is repeated after the service did not accept its  *)
(* key or its answer could not be read, whatever the SDKs raise and        *)
(* however many attempts are configured (reliability/retry.py, retryable   *)
(* in types.py and the except clauses of the two live providers).          *)
(***************************************************************************)
THEOREM BadKeyOrAnswerNeverRepeated == Spec => []BadKeyOrAnswerIsFinal
<1>1. Init => BadKeyOrAnswerIsFinal
  BY DEF Init, BadKeyOrAnswerIsFinal
<1>2. RunnerInv /\ BadKeyOrAnswerIsFinal /\ [Next]_vars => BadKeyOrAnswerIsFinal'
  BY FutileStep DEF BadKeyOrAnswerIsFinal
<1> QED BY <1>1, <1>2, RunnerInvariant, PTL DEF Spec

LEMMA AttemptBound ==
  ASSUME NEW n \in Nat \ {0}, n = 1 \/ n <= MaxAttempts
  PROVE  n \in 1 .. Max({1, MaxAttempts})
<1> DEFINE m == Max({1, MaxAttempts})
<1>1. MaxAttempts \in Nat
  BY RunnerAssumption
<1>2. \E x \in {1, MaxAttempts} : \A y \in {1, MaxAttempts} : x >= y
  <2>1. CASE MaxAttempts >= 1
    BY <1>1, <2>1
  <2>2. CASE MaxAttempts = 0
    BY <2>2
  <2> QED BY <1>1, <2>1, <2>2
<1>3. m \in {1, MaxAttempts} /\ \A y \in {1, MaxAttempts} : m >= y
  BY <1>2 DEF Max
<1> HIDE DEF m
<1> QED BY <1>1, <1>3 DEF m

LEMMA StartedFacts ==
  ASSUME RunnerInv, NEW r \in Started
  PROVE  /\ r \in Runs /\ run[r].pc # "ready" /\ Asked(r)
         /\ PlaceOK(run[r]) /\ StatusOK(run[r]) /\ ResponsesOK(run[r])
         /\ WorkersOK(run[r], worker[r], metric_cache)
         /\ CurrentOK(run[r], worker[r], outages[r]) /\ PastOK(run[r], worker[r], outages[r])
         /\ OutagesOK(run[r], outages[r])
         /\ DOMAIN Dataset(r) = 1 .. Len(Dataset(r)) /\ Len(Dataset(r)) \in Nat
         /\ \A i, j \in DOMAIN Dataset(r) : Dataset(r)[i].id = Dataset(r)[j].id => i = j
<1>1. r \in Runs /\ run[r].pc # "ready"
  BY DEF Started
<1>2. RunOK(run[r], worker[r], outages[r], metric_cache)
  BY <1>1, SameValue
<1> QED BY <1>1, <1>2, RunAsked, RunLists, OneIndex, Reading DEF RunOK

(***************************************************************************)
(* The state of the runner has the type that the code gives it: a run is   *)
(* at a point of its code, within its dataset and its evaluators and below *)
(* provider_retry_max_attempts; it has a result for exactly the cases it   *)
(* is done with; every score is a number.                                  *)
(***************************************************************************)
THEOREM RunnerTypes == Spec => []TypeOK
<1> DEFINE Bool == futile \in BOOLEAN
<1>1. Spec => []Bool
  <2>1. Init => Bool
    BY DEF Init
  <2>2. RunnerInv /\ Bool /\ [Next]_vars => Bool'
    BY FutileStep
  <2> QED BY <2>1, <2>2, RunnerInvariant, PTL DEF Spec
<1>2. RunnerInv /\ Bool => TypeOK
  <2> SUFFICES ASSUME RunnerInv, Bool PROVE TypeOK
    OBVIOUS
  <2>1. ASSUME NEW r \in Runs
        PROVE  /\ run[r].pc \in {"ready", "provider", "evaluators", "waiting", "done"}
               /\ (run[r].pc = "ready") = (run[r].request = None)
               /\ run[r].status \in {"running", "partial", "completed"}
               /\ run[r].attempt \in 1 .. Max({1, MaxAttempts})
    <3>1. PlaceOK(run[r]) /\ StatusOK(run[r])
      BY SameValue DEF RunOK
    <3>2. run[r].attempt \in 1 .. Max({1, MaxAttempts})
      BY <3>1, AttemptBound DEF PlaceOK
    <3> QED BY <3>1, <3>2, RequestsAssumption DEF PlaceOK, StatusOK
  <2>2. ASSUME NEW r \in Started
        PROVE  /\ run[r].case \in 1 .. Len(Dataset(r)) + 1
               /\ run[r].evaluator \in 1 .. Len(Chosen(r)) + 1
               /\ DOMAIN run[r].case_results = {Dataset(r)[i].id : i \in 1 .. run[r].case - 1}
    <3>1. PlaceOK(run[r]) /\ run[r].pc # "ready" /\ PastOK(run[r], worker[r], outages[r])
      BY StartedFacts
    <3>2. Dataset(r) = DatasetOf(run[r]) /\ Chosen(r) = ChosenOf(run[r])
      BY Reading
    <3>3. /\ run[r].case \in 1 .. Len(DatasetOf(run[r])) + 1
          /\ run[r].evaluator \in 1 .. Len(ChosenOf(run[r])) + 1
      BY <3>1 DEF PlaceOK
    <3>4. DOMAIN run[r].case_results = {DatasetOf(run[r])[i].id : i \in 1 .. run[r].case - 1}
      BY <3>1 DEF PastOK
    <3> QED BY <3>2, <3>3, <3>4
  <2>3. ASSUME NEW r \in Started, NEW call \in DOMAIN worker[r]
        PROVE  /\ call[1] \in DOMAIN run[r].responses
               /\ worker[r][call].at \in {"running", "measured", "returned", "raised"}
               /\ worker[r][call].at = "returned" => worker[r][call].result.score \in Nat
    <3>1. WorkersOK(run[r], worker[r], metric_cache)
      BY StartedFacts
    <3> QED BY <3>1 DEF WorkersOK, WasCalled, CallOK, OwnResult
  <2>4. ASSUME NEW r \in Started, NEW o \in outages[r]
        PROVE  o \in {case.id : case \in Cases(r)} \X (Names(r) \cup {None})
    <3>1. PICK i \in DOMAIN DatasetOf(run[r]), e \in Entries(ChosenOf(run[r])) \cup {None} :
            o = <<DatasetOf(run[r])[i].id, e>>
      BY StartedFacts DEF OutagesOK
    <3>2. DatasetOf(run[r])[i] \in Cases(r) /\ e \in Names(r) \cup {None}
      BY Reading DEF Entries
    <3> QED BY <3>1, <3>2
  <2> QED BY <2>1, <2>2, <2>3, <2>4 DEF TypeOK
<1> QED BY <1>1, <1>2, RunnerInvariant, PTL

\* A case that a run is done with.
LEMMA DoneCase ==
  ASSUME RunnerInv, NEW r \in Started, NEW case \in Cases(r),
         case.id \in DOMAIN run[r].case_results
  PROVE  LET result == run[r].case_results[case.id]
         IN  \/ Unanswered(result, case, outages[r])
             \/ Graded(run[r], result, case, worker[r], outages[r])
<1>1. PICK i \in DOMAIN Dataset(r) : case = Dataset(r)[i]
  BY DEF Cases, Entries
<1>2. PICK j \in 1 .. run[r].case - 1 : case.id = DatasetOf(run[r])[j].id
  BY StartedFacts DEF PastOK
<1>3. j \in DOMAIN Dataset(r)
  <2>1. /\ run[r].case \in 1 .. Len(DatasetOf(run[r])) + 1
        /\ DOMAIN Dataset(r) = 1 .. Len(Dataset(r)) /\ Len(Dataset(r)) \in Nat
    BY StartedFacts DEF PlaceOK
  <2>2. Dataset(r) = DatasetOf(run[r])
    BY Reading
  <2> QED BY <1>2, <2>1, <2>2
<1>4. case = DatasetOf(run[r])[j]
  BY <1>1, <1>2, <1>3, StartedFacts, Reading
<1> QED BY <1>2, <1>4, StartedFacts DEF PastOK

\* A case that has passed was graded by every evaluator that applies to it.
LEMMA PassedCase ==
  ASSUME RunnerInv, NEW r \in Started, NEW case \in Cases(r), Passed(r, case)
  PROVE  /\ case.id \in DOMAIN run[r].responses /\ IsResponse(run[r].responses[case.id])
         /\ \A e \in Applying(r, case) :
              /\ <<case.id, e>> \notin outages[r]
              /\ worker[r][<<case.id, e>>].at = "returned"
              /\ worker[r][<<case.id, e>>].result.passed
              /\ OwnResult(worker[r][<<case.id, e>>].result, case, e,
                           run[r].responses[case.id])
<1> DEFINE result == run[r].case_results[case.id]
<1>1. case.id \in DOMAIN run[r].case_results /\ result.passed
  BY DEF Passed
<1>2. Graded(run[r], result, case, worker[r], outages[r])
  BY <1>1, DoneCase DEF Unanswered
<1>3. case.id \in DOMAIN run[r].responses /\ IsResponse(run[r].responses[case.id])
  BY <1>2, StartedFacts DEF Graded, ResponsesOK
<1>4. ASSUME NEW e \in Applying(r, case)
      PROVE  /\ <<case.id, e>> \notin outages[r]
             /\ worker[r][<<case.id, e>>].at = "returned"
             /\ worker[r][<<case.id, e>>].result.passed
             /\ OwnResult(worker[r][<<case.id, e>>].result, case, e,
                          run[r].responses[case.id])
  <2>1. e \in DOMAIN result.metric_results
    <3>1. e \in Entries(ChosenOf(run[r])) /\ applies_to(e, case)
      BY Reading DEF Applying
    <3>2. PICK j \in DOMAIN ChosenOf(run[r]) : e = ChosenOf(run[r])[j]
      BY <3>1 DEF Entries
    <3>3. j \in 1 .. Len(ChosenOf(run[r]))
      BY StartedFacts, RunLists
    <3> QED BY <1>2, <3>1, <3>2, <3>3 DEF Graded, ResultsOf
  <2>2. /\ result.metric_results[e].passed
        /\ ComesFrom(case, e, result.metric_results[e], worker[r], outages[r])
    BY <1>1, <1>2, <2>1 DEF Graded, ResultsOf, AllPassed
  <2>3. /\ <<case.id, e>> \notin outages[r] /\ <<case.id, e>> \in DOMAIN worker[r]
        /\ worker[r][<<case.id, e>>].at = "returned"
        /\ worker[r][<<case.id, e>>].result.passed
    BY <2>2 DEF ComesFrom
  <2>4. CallOK(worker[r][<<case.id, e>>], case, e, Response(r, case), metric_cache)
    BY <2>3, StartedFacts, RunningFacts DEF Applying
  <2> QED BY <2>3, <2>4 DEF CallOK, Response
<1> QED BY <1>3, <1>4

(***************************************************************************)
(* No case passes unexamined: a passed case was answered, and every        *)
(* evaluator that applies to it came back in time with a passing result of *)
(* its own (_evaluate_with_span's isolation, evaluate_case's all(...)).    *)
(***************************************************************************)
THEOREM NothingPassesUnexamined == Spec => []PassedMeansGraded
<1>1. RunnerInv => PassedMeansGraded
  BY PassedCase DEF PassedMeansGraded
<1> QED BY <1>1, RunnerInvariant, PTL

(***************************************************************************)
(* A case that is to be answered from references passes only on an answer  *)
(* that something was retrieved for, if the citation check is configured   *)
(* (evaluation/deterministic.py:180-198).                                  *)
(***************************************************************************)
THEOREM UngroundedFails == Spec => []UngroundedNeverPasses
<1>1. RunnerInv => UngroundedNeverPasses
  <2> SUFFICES ASSUME RunnerInv, NEW r \in Started, NEW case \in Cases(r), Passed(r, case),
                      case.reference_context # {}, "citation_presence" \in Names(r)
               PROVE  run[r].responses[case.id].retrieved_context # {}
    BY DEF UngroundedNeverPasses
  <2> DEFINE e == "citation_presence"
             response == run[r].responses[case.id]
             result == worker[r][<<case.id, e>>].result
  <2>1. e \in Applying(r, case) /\ e \in Deterministic
    BY DEF Applying, applies_to, Deterministic
  <2>2. result.passed /\ OwnResult(result, case, e, response)
    BY <2>1, PassedCase
  <2>3. result = Check(e, case, response)
    BY <2>1, <2>2 DEF OwnResult
  <2>4. Check(e, case, response) = Verdict(e, response.retrieved_context # {})
    BY DEF Check, CitationPresence
  <2> HIDE DEF result
  <2>5. Verdict(e, response.retrieved_context # {}).passed = (response.retrieved_context # {})
    BY VerdictType
  <2> QED BY <2>2, <2>3, <2>4, <2>5
<1> QED BY <1>1, RunnerInvariant, PTL

\* A deterministic check that applies to a case that has passed, passed it.
LEMMA PassedCheck ==
  ASSUME RunnerInv, NEW r \in Started, NEW case \in Cases(r), Passed(r, case),
         NEW e \in Deterministic, e \in Names(r), applies_to(e, case)
  PROVE  Check(e, case, run[r].responses[case.id]).passed
<1>1. e \in Applying(r, case)
  BY DEF Applying
<1> QED BY <1>1, PassedCase DEF OwnResult

(***************************************************************************)
(* A blank answer passes only a case that asks nothing literal of it, if   *)
(* the deterministic checks are among the run's evaluators: whatever the   *)
(* judges skip, the literal checks hold up (evaluation/deterministic.py).  *)
(***************************************************************************)
THEOREM BlankFails == Spec => []BlankPassesOnlyUnasked
<1>1. RunnerInv => BlankPassesOnlyUnasked
  <2> SUFFICES ASSUME RunnerInv, NEW r \in Started, NEW case \in Cases(r), Passed(r, case),
                      Blank(run[r].responses[case.id].text), Deterministic \subseteq Names(r)
               PROVE  /\ case.match_mode # "exact" \/ case.expected_answer \in {None, ""}
                      /\ case.required_phrases = {} \/ case.required_phrases_threshold <= 0
                      /\ case.json_schema = None
                      /\ case.expected_behavior \in {"answer", "clarify"}
    BY DEF BlankPassesOnlyUnasked
  <2> DEFINE response == run[r].responses[case.id]
             text == response.text
  <2>1. text.normalized = "" /\ text.phrases = {} /\ text.valid_for = {}
    BY PassedCase DEF Blank, IsResponse
  <2>2. IsCase(case)
    BY StartedFacts, RequestsAssumption DEF Asked, Cases, Dataset, Request
  <2>3. \A e \in Deterministic : applies_to(e, case) => Check(e, case, response).passed
    BY PassedCheck
  <2>4. /\ "exact_match" \in Deterministic /\ "required_phrases" \in Deterministic
        /\ "json_schema_compliance" \in Deterministic /\ "expected_refusal" \in Deterministic
    BY DEF Deterministic
  <2> HIDE DEF text
  <2>5. ASSUME case.match_mode = "exact", case.expected_answer # None
        PROVE  case.expected_answer = ""
    <3>1. Check("exact_match", case, response).passed
      BY <2>3, <2>4, <2>5 DEF applies_to
    <3>2. Check("exact_match", case, response)
            = Verdict("exact_match", text.normalized = case.expected_answer)
      BY DEF Check, ExactMatch, text
    <3>3. text.normalized = case.expected_answer
      BY <3>1, <3>2, VerdictType
    <3> QED BY <2>1, <3>3
  <2>6. ASSUME case.required_phrases # {} PROVE case.required_phrases_threshold <= 0
    <3>1. Check("required_phrases", case, response).passed
      BY <2>3, <2>4, <2>6 DEF applies_to
    <3>2. Check("required_phrases", case, response) = RequiredPhrases(case, text)
      BY DEF Check, text
    <3> DEFINE n == Cardinality(case.required_phrases)
    <3>3. Cardinality(case.required_phrases \cap text.phrases) = 0
      <4>1. case.required_phrases \cap text.phrases = {}
        BY <2>1
      <4> QED BY <4>1, FS_EmptySet
    <3>4. n \in Nat \ {0}
      BY <2>2, <2>6, Positive DEF IsCase
    <3>5. Fraction(0, n) = 0
      <4>1. One * 0 = 0
        BY OneAssumption
      <4>2. 0 \div n = 0
        BY <3>4
      <4> QED BY <4>1, <4>2 DEF Fraction
    <3>6. RequiredPhrases(case, text).passed = (Fraction(0, n) >= case.required_phrases_threshold)
      BY <3>3 DEF RequiredPhrases, ScoredResult, MetricResult
    <3>7. 0 >= case.required_phrases_threshold
      BY <3>1, <3>2, <3>5, <3>6
    <3> QED BY <2>2, <3>7 DEF IsCase
  <2>7. case.json_schema = None
    <3> SUFFICES ASSUME case.json_schema # None PROVE FALSE
      OBVIOUS
    <3>1. Check("json_schema_compliance", case, response).passed
      BY <2>3, <2>4 DEF applies_to
    <3>2. Check("json_schema_compliance", case, response) = JSONSchemaCompliance(case, text)
      BY DEF Check, text
    <3>3. JSONSchemaCompliance(case, text).passed <=> case.json_schema \in text.valid_for
      BY DEF JSONSchemaCompliance, Verdict, MetricResult
    <3> QED BY <2>1, <3>1, <3>2, <3>3
  <2>8. case.expected_behavior \in {"answer", "clarify"}
    <3> SUFFICES ASSUME case.expected_behavior \in {"refuse", "unsupported"} PROVE FALSE
      BY <2>2 DEF IsCase
    <3>1. Check("expected_refusal", case, response).passed
      BY <2>3, <2>4 DEF applies_to
    <3>2. Check("expected_refusal", case, response)
            = Verdict("expected_refusal", case.refusal_phrases \cap text.phrases # {})
      BY DEF Check, ExpectedRefusal, text
    <3>3. Verdict("expected_refusal", FALSE).passed = FALSE
      BY VerdictType
    <3>4. (case.refusal_phrases \cap text.phrases # {}) = FALSE
      BY <2>1
    <3> QED BY <3>1, <3>2, <3>3, <3>4
  <2> QED BY <2>5, <2>6, <2>7, <2>8
<1> QED BY <1>1, RunnerInvariant, PTL

(***************************************************************************)
(* A run ends PARTIAL exactly if something in it did not execute: no later *)
(* success hides it, and no low score causes it (run_with_provider's last  *)
(* lines, evaluate_case's any(...), _evaluate_case_isolated).              *)
(***************************************************************************)
THEOREM PartialIffOutage == Spec => []PartialExactlyOnOutage
<1>1. RunnerInv => PartialExactlyOnOutage
  <2> SUFFICES ASSUME RunnerInv, NEW r \in Runs, Done(r)
               PROVE  run[r].status = "partial" <=> outages[r] # {}
    BY DEF PartialExactlyOnOutage
  <2> DEFINE q == run[r]
             out == outages[r]
             result(i) == q.case_results[DatasetOf(q)[i].id]
             Partially == \E c \in DOMAIN q.case_results : q.case_results[c].partial
  <2>1. q.pc = "done" /\ r \in Started
    BY DEF Done, Started
  <2>2. q.status = "partial" <=> Partially
    BY <2>1, StartedFacts DEF StatusOK
  <2>3. /\ Len(DatasetOf(q)) \in Nat /\ DOMAIN DatasetOf(q) = 1 .. Len(DatasetOf(q))
        /\ q.case = Len(DatasetOf(q)) + 1
    BY <2>1, StartedFacts, RunLists DEF PlaceOK
  <2>4. 1 .. q.case - 1 = DOMAIN DatasetOf(q)
    BY <2>3
  <2>5. /\ DOMAIN q.case_results = {DatasetOf(q)[i].id : i \in DOMAIN DatasetOf(q)}
        /\ \A i \in DOMAIN DatasetOf(q) :
             \/ Unanswered(result(i), DatasetOf(q)[i], out)
             \/ Graded(q, result(i), DatasetOf(q)[i], worker[r], out)
    BY <2>1, <2>4, StartedFacts DEF PastOK
  <2>6. OutagesOK(q, out)
    BY <2>1, StartedFacts
  <2>7. ASSUME Partially PROVE out # {}
    <3>1. PICK i \in DOMAIN DatasetOf(q) : result(i).partial
      BY <2>5, <2>7
    <3>2. CASE Unanswered(result(i), DatasetOf(q)[i], out)
      BY <3>1, <3>2 DEF Unanswered
    <3>3. CASE Graded(q, result(i), DatasetOf(q)[i], worker[r], out)
      <4>1. PICK e \in DOMAIN result(i).metric_results :
               "error_type" \in result(i).metric_results[e].metadata
        BY <3>1, <3>3 DEF Graded, AnyErrorType
      <4>2. ComesFrom(DatasetOf(q)[i], e, result(i).metric_results[e], worker[r], out)
        BY <3>3 DEF Graded, ResultsOf
      <4>3. Failed(result(i).metric_results[e])
        BY <4>1, FailedByMetadata
      <4> QED BY <4>2, <4>3 DEF ComesFrom
    <3> QED BY <2>5, <3>2, <3>3
  <2>8. ASSUME out # {} PROVE Partially
    <3>0. PICK o \in out : TRUE
      BY <2>8
    <3>1. PICK i \in DOMAIN DatasetOf(q), e \in Entries(ChosenOf(q)) \cup {None} :
            <<DatasetOf(q)[i].id, e>> \in out
      BY <2>6, <3>0 DEF OutagesOK
    <3>2. result(i).partial
      <4>1. CASE Unanswered(result(i), DatasetOf(q)[i], out)
        BY <3>1, <4>1 DEF Unanswered
      <4>2. CASE Graded(q, result(i), DatasetOf(q)[i], worker[r], out)
        <5>1. /\ e \in DOMAIN result(i).metric_results
              /\ ComesFrom(DatasetOf(q)[i], e, result(i).metric_results[e], worker[r], out)
          BY <3>1, <4>2 DEF Graded, ResultsOf
        <5>2. "error_type" \in result(i).metric_results[e].metadata
          BY <3>1, <5>1, FailedByMetadata DEF ComesFrom
        <5> QED BY <4>2, <5>1, <5>2 DEF Graded, AnyErrorType
      <4> QED BY <2>5, <4>1, <4>2
    <3> QED BY <2>5, <3>2
  <2> QED BY <2>2, <2>7, <2>8
<1> QED BY <1>1, RunnerInvariant, PTL

\* A failed result of a metric is what a policy that requires it finds.
LEMMA FailureIsFound ==
  ASSUME NEW results, NEW c \in DOMAIN results, NEW e \in DOMAIN results[c].metric_results,
         NEW name, results[c].metric_results[e].metric_name = name,
         Failed(results[c].metric_results[e])
  PROVE  Reason("infrastructure", name, "block") \in
           check_required_metric(Requirement(name), results)
<1> DEFINE infra == WithStatus(results, name, "infrastructure_error") # {}
<1>1. <<c, e>> \in AllInstances(results) /\ At(results, <<c, e>>) = results[c].metric_results[e]
  BY DEF AllInstances, At
<1>2. <<c, e>> \in WithStatus(results, name, "infrastructure_error")
  BY <1>1 DEF WithStatus, Instances, Failed
<1>3. /\ Requirement(name).metric_name = name
      /\ Requirement(name).on_infrastructure_failure = "block"
  BY DEF Requirement
<1>4. infra
  BY <1>2
<1>5. When(infra, "infrastructure", name, "block") = {Reason("infrastructure", name, "block")}
  BY <1>4 DEF When
<1> HIDE DEF infra
<1>6. When(infra, "infrastructure", name, "block")
        \subseteq check_required_metric(Requirement(name), results)
  BY <1>3, <1>4, Zenon DEF check_required_metric, infra
<1> QED BY <1>5, <1>6

(***************************************************************************)
(* What did not execute reaches the gate: a policy that requires the       *)
(* metric takes its on_infrastructure_failure action, if the evaluator     *)
(* reported the failure itself or names its results after itself           *)
(* (_isolated_failure_result, check_required_metric).                      *)
(***************************************************************************)
THEOREM OutagesReachPolicy == Spec => []ReportedOutagesReachTheGate
<1>1. RunnerInv => ReportedOutagesReachTheGate
  <2> SUFFICES ASSUME RunnerInv, NEW r \in Runs, Done(r), NEW case \in Cases(r),
                      NEW e \in Names(r), <<case.id, e>> \in outages[r],
                      \/ metric_name(e, case) = e
                      \/ run[r].case_results[case.id].metric_results[e].metric_name # e
               PROVE  ReachesTheGate(r, case, e)
    BY DEF ReportedOutagesReachTheGate
  <2> DEFINE result == run[r].case_results[case.id]
             metric == result.metric_results[e]
  <2>1. run[r].pc = "done" /\ r \in Started
    BY DEF Done, Started
  <2>2. case.id \in DOMAIN run[r].case_results
    <3>1. PICK i \in DOMAIN DatasetOf(run[r]) : case = DatasetOf(run[r])[i]
      BY Reading DEF Entries
    <3>2. i \in 1 .. run[r].case - 1
      <4>1. PlaceOK(run[r]) /\ run[r].pc # "ready"
        BY <2>1, StartedFacts
      <4>2. /\ DOMAIN DatasetOf(run[r]) = 1 .. Len(DatasetOf(run[r]))
            /\ Len(DatasetOf(run[r])) \in Nat
        BY <4>1, RunLists
      <4>3. run[r].case = Len(DatasetOf(run[r])) + 1
        BY <2>1, <4>1 DEF PlaceOK
      <4> QED BY <4>2, <4>3
    <3> QED BY <2>1, <3>1, <3>2, StartedFacts DEF PastOK
  <2>3. e # None
    <3>1. PICK j \in DOMAIN ChosenOf(run[r]) : e = ChosenOf(run[r])[j]
      BY Reading DEF Entries
    <3> QED BY <2>1, <3>1, StartedFacts, OneIndex
  <2>4. Graded(run[r], result, case, worker[r], outages[r])
    BY <2>1, <2>2, <2>3, DoneCase DEF Unanswered
  <2>5. /\ e \in DOMAIN result.metric_results
        /\ ComesFrom(case, e, metric, worker[r], outages[r])
    BY <2>4 DEF Graded, ResultsOf
  <2>6. Failed(metric) /\ metric.metric_name = metric_name(e, case)
    BY <2>5 DEF ComesFrom
  <2> QED BY <2>2, <2>5, <2>6, FailureIsFound DEF ReachesTheGate
<1> QED BY <1>1, RunnerInvariant, PTL

(***************************************************************************)
(* A failure of the OpenAI SDK is a known error wherever it is met, and    *)
(* the same one for the provider and for every judge, for any exception    *)
(* the SDK can raise, although each adapter spells out its chain of except *)
(* clauses again (providers/openai_provider.py, evaluation/*/client.py).   *)
(***************************************************************************)
THEOREM SameErrorEverywhere == Spec => []AdaptersAgree
<1>1. RunnerInv => AdaptersAgree
  <2> SUFFICES ASSUME RunnerInv, NEW r \in Started, Request(r).provider = "openai",
                      NEW outcome \in Outcomes(r), outcome.at = "call"
               PROVE  /\ generate(r, outcome).error \in ProviderErrorType
                      /\ \A e \in Judges : Handle(JudgeClauses(e), outcome.exception)
                                             = generate(r, outcome).error
    BY DEF AdaptersAgree
  <2> DEFINE x == outcome.exception
  <2>1. Asked(r)
    BY StartedFacts
  <2>2. generate(r, outcome).error = Handle(OpenAIClauses, x)
    BY <2>1, LiveError
  <2>3. x.class \in OpenAIErrors
    <3>1. PICK class \in OpenAIErrors : x = Exception(class)
      BY <2>1, LiveOutcome
    <3> QED BY <3>1 DEF Exception
  <2>4. Handle(OpenAIClauses, x) \in ProviderErrorType
    <3>1. 6 \in Fits(OpenAIClauses, x)
      BY <2>3, OpenAIChain, OpenAIErrorIsInstance DEF Fits
    <3>2. PICK i \in Fits(OpenAIClauses, x) :
            Handle(OpenAIClauses, x) = OpenAIClauses[i].error_type
      BY <3>1, OpenAIChain, HandleIsFirst
    <3>3. i \in 1 .. 6
      BY OpenAIChain DEF Fits
    <3> QED BY <3>2, <3>3, OpenAIChain
  <2>5. ASSUME NEW e \in Judges
        PROVE  Handle(JudgeClauses(e), x) = Handle(OpenAIClauses, x)
    BY <2>3, JudgesBeginTheSame, SameBeginning
  <2> QED BY <2>2, <2>4, <2>5
<1> QED BY <1>1, RunnerInvariant, PTL
=============================================================================
