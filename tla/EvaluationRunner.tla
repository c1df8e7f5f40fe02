--------------------------- MODULE EvaluationRunner ---------------------------
(***************************************************************************)
(* EvaluationRunner.run_with_provider                                      *)
(* (src/backend/app/evaluation/runner.py): a dataset's cases, one after    *)
(* the other, each sent to a provider (with the retries of                 *)
(* reliability/retry.py) and graded by every evaluator that applies to it. *)
(*                                                                         *)
(* With a timeout each evaluator is called in a worker thread of its own.  *)
(* A worker that is not back in time is abandoned: the run goes on with a  *)
(* failed result in its place, while the worker keeps running.  What it    *)
(* shares with later workers is the DeepEval metric object that            *)
(* DeepEvalClient caches (evaluation/deepeval/client.py): GEval.measure    *)
(* leaves its score in the object, and _run reads it from there.           *)
(***************************************************************************)
EXTENDS PolicyEngine, Evaluators

CONSTANTS
  Runs,          \* the calls of run_with_provider
  Requests,      \* what they may ask for, by name: a dataset (its cases, in order), a
                 \* provider, and the frameworks to grade with, or None for all
  EvaluatorList, \* the configured evaluators, in order
  Fixtures,      \* the recorded responses, by case id
  SDKOutcomes,   \* SDKOutcomes[p]: what one call of live provider p can come to
  JudgeOutcomes(_, _), \* what one call that judge e makes for a case can come to
  MaxAttempts,   \* provider_retry_max_attempts
  TimeoutSet     \* is evaluator_timeout_seconds set?

Entries(list) == {list[i] : i \in DOMAIN list}

Distinct(list) == \A i, j \in DOMAIN list : list[i] = list[j] => i = j

\* The ids of a dataset are unique; its provider is the recorded one or a live one.
ASSUME RequestsAssumption ==
  /\ None \notin DOMAIN Requests
  /\ \A name \in DOMAIN Requests :
       LET dataset == Requests[name].dataset
       IN  /\ dataset \in Seq(Entries(dataset))
           /\ Distinct([i \in DOMAIN dataset |-> dataset[i].id])
           /\ \A case \in Entries(dataset) : IsCase(case)
           /\ Requests[name].provider \in {"deterministic"} \cup DOMAIN SDKOutcomes

\* create_app adds the judges of the configured frameworks to the deterministic checks.
ASSUME RunnerAssumption ==
  /\ EvaluatorList \in Seq(Deterministic \cup Judges) /\ Distinct(EvaluatorList)
  /\ Deterministic \subseteq Entries(EvaluatorList)
  /\ None \notin Deterministic \cup Judges
  /\ MaxAttempts \in Nat /\ TimeoutSet \in BOOLEAN

\* What the OpenAI SDK raises derives from OpenAIError.
ASSUME ProvidersAssumption ==
  /\ None \notin ProviderErrorType \cup {Uncaught}
  /\ \A id \in DOMAIN Fixtures : IsResponse(Fixtures[id])
  /\ DOMAIN SDKOutcomes \subseteq {"openai", "gemini"}
  /\ \A provider \in DOMAIN SDKOutcomes : \A outcome \in SDKOutcomes[provider] :
       \/ outcome.at = "returned" /\ IsResponse(LiveResponse(provider, outcome.value))
       \/ /\ outcome.at \in {"call", "read"} /\ IsException(outcome.exception)
          /\ provider = "openai" /\ outcome.at = "call" =>
               outcome.exception \in {Exception(class) : class \in OpenAIErrors}

\* A judge's call may raise anything; its score is a number or is found not to be one.
ASSUME JudgesAssumption ==
  \A name \in DOMAIN Requests : \A case \in Entries(Requests[name].dataset) :
    \A e \in {j \in Judges : applies_to(j, case)} : \A outcome \in JudgeOutcomes(e, case) :
      \/ outcome.at = "returned" /\ JudgeScore(e, case, outcome.value) \in Nat
      \/ outcome.at = "call"
      \/ outcome.at = "read" /\ Handle(ScoreReadClauses, outcome.exception) # Uncaught

VARIABLES
  run,          \* where each call is, and its local variables
  worker,       \* the evaluator calls of each run, from <<case id, evaluator>>
  metric_cache, \* DeepEvalClient: the score in each cached metric object
  outages,      \* history: what did not execute, as pairs of a case and an evaluator
  futile        \* history: was a call repeated after BadKeyOrAnswer?

vars == <<run, worker, metric_cache, outages, futile>>

-----------------------------------------------------------------------------
\* f with one more argument, or with another value for it.
Put(f, x, y) == [z \in DOMAIN f \cup {x} |-> IF z = x THEN y ELSE f[z]]

Nothing == [x \in {} |-> None]

Request(r) == Requests[run[r].request]
Dataset(r) == Request(r).dataset
Cases(r) == Entries(Dataset(r))
Chosen(r) == Selected(EvaluatorList, Request(r).frameworks)
Names(r) == Entries(Chosen(r))
Applying(r, case) == {e \in Names(r) : applies_to(e, case)}

CurrentCase(r) == Dataset(r)[run[r].case]
CurrentEvaluator(r) == Chosen(r)[run[r].evaluator]
CurrentCall(r) == <<CurrentCase(r).id, CurrentEvaluator(r)>>

\* The failed result that stands for a call that timed out or raised.
isolated_failure_result(e) == InfrastructureFailure(e)

Failed(result) == metric_status(result) = "infrastructure_error"

Ready == [pc |-> "ready", request |-> None, case |-> 1, attempt |-> 1, evaluator |-> 1,
          responses |-> Nothing, metric_results |-> NoMetrics, case_results |-> NoResults,
          status |-> "running"]

Init ==
  /\ run = [r \in Runs |-> Ready]
  /\ worker = [r \in Runs |-> Nothing]
  /\ metric_cache = Nothing
  /\ outages = [r \in Runs |-> {}]
  /\ futile = FALSE

\* The run is at this point of its code, and continues as `next`.
Step(r, from, next) == run[r].pc = from /\ run' = [run EXCEPT ![r] = next]

Start(r) ==
  /\ \E name \in DOMAIN Requests :
       Step(r, "ready", [run[r] EXCEPT !.pc = "provider", !.request = name])
  /\ UNCHANGED <<worker, metric_cache, outages, futile>>

\* The current case has this result; the next one is begun.
NextCase(r, result) ==
  [run[r] EXCEPT !.pc = "provider", !.case = @ + 1, !.attempt = 1, !.evaluator = 1,
                 !.metric_results = NoMetrics,
                 !.case_results = Put(@, CurrentCase(r).id, result)]

CasesLeft(r) == run[r].case <= Len(Dataset(r))

Trying(r) == run[r].pc = "provider" /\ CasesLeft(r)

(***************************************************************************)
(* _generate_with_span: one attempt of the provider call.  Backoff takes   *)
(* time but changes nothing.                                               *)
(***************************************************************************)
Outcomes(r) ==
  IF Request(r).provider = "deterministic" THEN {None} ELSE SDKOutcomes[Request(r).provider]

generate(r, outcome) ==
  IF Request(r).provider = "deterministic"
    THEN generate_fixture(Fixtures, CurrentCase(r).id)
    ELSE generate_live(Request(r).provider, outcome)

(***************************************************************************)
(* A key that is not accepted (a 401, or a message about the key that is   *)
(* not about its quota), or an answer that cannot be read.  Not every      *)
(* refusal: a 400 or 403 of OpenAI is filed as unavailable and retried.    *)
(***************************************************************************)
BadKeyOrAnswer(outcome) ==
  /\ outcome # None
  /\ \/ outcome.at = "read"
     \/ /\ outcome.at = "call"
        /\ \/ http_status(outcome.exception) = 401
           \/ outcome.exception.about_key /\ http_status(outcome.exception) # 429

Answered(r) ==
  /\ Trying(r)
  /\ \E outcome \in Outcomes(r) : LET response == generate(r, outcome) IN
       /\ response.error = None
       /\ Step(r, "provider",
               [run[r] EXCEPT !.pc = "evaluators",
                              !.responses = Put(@, CurrentCase(r).id, response)])
  /\ UNCHANGED <<worker, metric_cache, outages, futile>>

\* Variant: counts the retries instead of the attempts.
CanRetryOnceMore(r, response) == response.error \in Retryable /\ run[r].attempt <= MaxAttempts

CanRetry(r, response) == response.error \in Retryable /\ run[r].attempt < MaxAttempts

Retry(r) ==
  /\ Trying(r)
  /\ \E outcome \in Outcomes(r) :
       /\ CanRetry(r, generate(r, outcome))
       /\ futile' = (futile \/ BadKeyOrAnswer(outcome))
  /\ Step(r, "provider", [run[r] EXCEPT !.attempt = @ + 1])
  /\ UNCHANGED <<worker, metric_cache, outages>>

GiveUp(r) ==
  /\ Trying(r)
  /\ \E outcome \in Outcomes(r) :
       /\ generate(r, outcome).error \in ProviderErrorType
       /\ ~CanRetry(r, generate(r, outcome))
  /\ Step(r, "provider", NextCase(r, ErroredCase(CurrentCase(r).critical, 0, 0)))
  /\ UNCHANGED <<worker, metric_cache, outages, futile>>

\* _evaluate_case_isolated: an exception that goes through ends only its case.
Raise(r) ==
  /\ Trying(r)
  /\ \E outcome \in Outcomes(r) : generate(r, outcome).error = Uncaught
  /\ Step(r, "provider", NextCase(r, CrashedCase(CurrentCase(r).critical)))
  /\ outages' = [outages EXCEPT ![r] = @ \cup {<<CurrentCase(r).id, None>>}]
  /\ UNCHANGED <<worker, metric_cache, futile>>

(***************************************************************************)
(* The evaluators of a case that the provider answered.                    *)
(***************************************************************************)
EvaluatorsLeft(r) == run[r].evaluator <= Len(Chosen(r))

SkipEvaluator(r) ==
  /\ run[r].pc = "evaluators" /\ EvaluatorsLeft(r)
  /\ ~applies_to(CurrentEvaluator(r), CurrentCase(r))
  /\ Step(r, "evaluators", [run[r] EXCEPT !.evaluator = @ + 1])
  /\ UNCHANGED <<worker, metric_cache, outages, futile>>

Becomes(r, call, at, result) ==
  worker' = [worker EXCEPT ![r] = Put(@, call, [at |-> at, result |-> result])]

\* _call_evaluator: the evaluator is called, in a worker if a timeout is set.
CallEvaluator(r) ==
  /\ run[r].pc = "evaluators" /\ EvaluatorsLeft(r)
  /\ applies_to(CurrentEvaluator(r), CurrentCase(r))
  /\ Step(r, "evaluators", [run[r] EXCEPT !.pc = "waiting"])
  /\ Becomes(r, CurrentCall(r), "running", None)
  /\ UNCHANGED <<metric_cache, outages, futile>>

Record(r, result) ==
  Step(r, "waiting",
       [run[r] EXCEPT !.pc = "evaluators", !.evaluator = @ + 1,
                      !.metric_results = Put(@, CurrentEvaluator(r), result)])

NoteOutage(r, failed) ==
  outages' = IF failed THEN [outages EXCEPT ![r] = @ \cup {CurrentCall(r)}] ELSE outages

\* The evaluator returned a result.
Collect(r) ==
  /\ run[r].pc = "waiting" /\ worker[r][CurrentCall(r)].at = "returned"
  /\ LET result == worker[r][CurrentCall(r)].result
     IN  Record(r, result) /\ NoteOutage(r, Failed(result))
  /\ UNCHANGED <<worker, metric_cache, futile>>

\* Variant: waits for the worker to end before it goes on (shutdown(wait=True)).
IsolateAfterShutdown(r) ==
  /\ run[r].pc = "waiting"
  /\ worker[r][CurrentCall(r)].at = "raised"
  /\ Record(r, isolated_failure_result(CurrentEvaluator(r)))
  /\ NoteOutage(r, TRUE)
  /\ UNCHANGED <<worker, metric_cache, futile>>

\* The evaluator raised, or did not return in time.
Isolate(r) ==
  /\ run[r].pc = "waiting"
  /\ \/ worker[r][CurrentCall(r)].at = "raised"
     \/ TimeoutSet /\ worker[r][CurrentCall(r)].at \in {"running", "measured"}
  /\ Record(r, isolated_failure_result(CurrentEvaluator(r)))
  /\ NoteOutage(r, TRUE)
  /\ UNCHANGED <<worker, metric_cache, futile>>

GradeCase(r) ==
  /\ run[r].pc = "evaluators" /\ ~EvaluatorsLeft(r)
  /\ LET response == run[r].responses[CurrentCase(r).id]
     IN  Step(r, "evaluators",
              NextCase(r, GradedCase(CurrentCase(r).critical, run[r].metric_results,
                                     response.latency_ms, estimated_cost(response))))
  /\ UNCHANGED <<worker, metric_cache, outages, futile>>

Partial(r) == \E c \in DOMAIN run[r].case_results : run[r].case_results[c].partial

FinishRun(r) ==
  /\ run[r].pc = "provider" /\ ~CasesLeft(r)
  /\ Step(r, "provider",
          [run[r] EXCEPT !.pc = "done",
                         !.status = IF Partial(r) THEN "partial" ELSE "completed"])
  /\ UNCHANGED <<worker, metric_cache, outages, futile>>

-----------------------------------------------------------------------------
(***************************************************************************)
(* The evaluators at work, for one of the cases that were answered.  The   *)
(* DeepEval judge measures first and reads the score in a second step; any *)
(* other returns at once.  All may raise, and none needs ever come back.   *)
(***************************************************************************)
Running(r, case, e) == <<case.id, e>> \in DOMAIN worker[r] /\ worker[r][<<case.id, e>>].at = "running"

Response(r, case) == run[r].responses[case.id]

CallOutcomes(e, case) == IF e \in Judges THEN JudgeOutcomes(e, case) ELSE {None}

\* The score is read from a cached object.
ReadFromObject(e, result) == e = DeepEvalCriteria /\ metric_status(result) = "scored"

Return(r, case, e) ==
  /\ Running(r, case, e)
  /\ \E outcome \in CallOutcomes(e, case) :
       LET result == evaluate(e, case, Response(r, case), outcome)
       IN  ~ReadFromObject(e, result) /\ Becomes(r, <<case.id, e>>, "returned", result)
  /\ UNCHANGED <<run, metric_cache, outages, futile>>

Measure(r, case, e) ==
  /\ Running(r, case, e)
  /\ \E outcome \in CallOutcomes(e, case) :
       LET result == evaluate(e, case, Response(r, case), outcome)
       IN  /\ ReadFromObject(e, result)
           /\ metric_cache' = Put(metric_cache, CacheKey(case, Response(r, case)), result.score)
  /\ Becomes(r, <<case.id, e>>, "measured", None)
  /\ UNCHANGED <<run, outages, futile>>

ReadScore(r, case, e) ==
  /\ <<case.id, e>> \in DOMAIN worker[r] /\ worker[r][<<case.id, e>>].at = "measured"
  /\ LET score == metric_cache[CacheKey(case, Response(r, case))]
     IN  Becomes(r, <<case.id, e>>, "returned",
                 ScoredResult(metric_name(e, case), score, threshold(e, case)))
  /\ UNCHANGED <<run, metric_cache, outages, futile>>

Fail(r, case, e) ==
  /\ Running(r, case, e)
  /\ Becomes(r, <<case.id, e>>, "raised", None)
  /\ UNCHANGED <<run, metric_cache, outages, futile>>

Runner(r) ==
  \/ Start(r) \/ Answered(r) \/ Retry(r) \/ GiveUp(r) \/ Raise(r)
  \/ SkipEvaluator(r) \/ CallEvaluator(r) \/ Collect(r) \/ Isolate(r)
  \/ GradeCase(r) \/ FinishRun(r)

Work(r) ==
  /\ run[r].request # None
  /\ \E case \in Cases(r), e \in Names(r) :
       Return(r, case, e) \/ Measure(r, case, e) \/ ReadScore(r, case, e) \/ Fail(r, case, e)

Next == \E r \in Runs : Runner(r) \/ Work(r)

\* The thread of a run goes on whenever it can; a worker may stay away for good.
Spec == Init /\ [][Next]_vars /\ \A r \in Runs : WF_vars(Runner(r))

-----------------------------------------------------------------------------
Started == {r \in Runs : run[r].pc # "ready"}

TypeOK ==
  /\ \A r \in Runs :
       /\ run[r].pc \in {"ready", "provider", "evaluators", "waiting", "done"}
       /\ (run[r].pc = "ready") = (run[r].request = None)
       /\ run[r].status \in {"running", "partial", "completed"}
       /\ run[r].attempt \in 1 .. Max({1, MaxAttempts})
  /\ \A r \in Started :
       /\ run[r].case \in 1 .. Len(Dataset(r)) + 1
       /\ run[r].evaluator \in 1 .. Len(Chosen(r)) + 1
       /\ DOMAIN run[r].case_results = {Dataset(r)[i].id : i \in 1 .. run[r].case - 1}
       /\ \A call \in DOMAIN worker[r] :
            /\ call[1] \in DOMAIN run[r].responses
            /\ worker[r][call].at \in {"running", "measured", "returned", "raised"}
            /\ worker[r][call].at = "returned" => worker[r][call].result.score \in Nat
       /\ outages[r] \subseteq {case.id : case \in Cases(r)} \X (Names(r) \cup {None})
  /\ futile \in BOOLEAN

Done(r) == run[r].pc = "done"

\* The run has passed this case.
Passed(r, case) ==
  case.id \in DOMAIN run[r].case_results /\ run[r].case_results[case.id].passed

(***************************************************************************)
(* No case passes unexamined: a passed case was answered by the provider,  *)
(* and every evaluator that applies to it was called, came back in time    *)
(* and returned a passing result of its own (_evaluate_with_span's         *)
(* isolation against evaluate_case's all(...)).                            *)
(***************************************************************************)
PassedMeansGraded ==
  \A r \in Started : \A case \in Cases(r) : Passed(r, case) =>
    /\ case.id \in DOMAIN run[r].responses
    /\ \A e \in Applying(r, case) :
         /\ <<case.id, e>> \notin outages[r]
         /\ worker[r][<<case.id, e>>].at = "returned"
         /\ worker[r][<<case.id, e>>].result.passed

(***************************************************************************)
(* A case that is to be answered from references never passes on an answer *)
(* that nothing was retrieved for.  Every RAGAS metric skips such a case,  *)
(* and a skip counts as passed: the citation check alone stands between it *)
(* and a PASS (evaluation/ragas/evaluator.py:135-155 and deterministic.py: *)
(* 180-198), on a live provider, a fixture and through every failure.      *)
(***************************************************************************)
UngroundedNeverPasses ==
  \A r \in Started : \A case \in Cases(r) :
    /\ Passed(r, case) /\ case.reference_context # {}
    /\ "citation_presence" \in Names(r)
    => run[r].responses[case.id].retrieved_context # {}

(***************************************************************************)
(* A blank answer (a live model that returned no content) passes only a    *)
(* case that its dataset asks nothing literal of: no exact answer, phrase, *)
(* schema or refusal.  The judges skip it with passed=True, so the literal *)
(* checks have to hold it up, each of those that the case calls for.       *)
(***************************************************************************)
BlankPassesOnlyUnasked ==
  \A r \in Started : \A case \in Cases(r) :
    /\ Passed(r, case) /\ Blank(run[r].responses[case.id].text)
    /\ Deterministic \subseteq Names(r)
    => /\ case.match_mode # "exact" \/ case.expected_answer \in {None, ""}
       /\ case.required_phrases = {} \/ case.required_phrases_threshold <= 0
       /\ case.json_schema = None
       /\ case.expected_behavior \in {"answer", "clarify"}

(***************************************************************************)
(* A run ends PARTIAL exactly if something in it did not execute: an       *)
(* evaluator that timed out, raised or reported a failure, or a case that  *)
(* raised.  No later success hides it and no low score causes it.          *)
(***************************************************************************)
PartialExactlyOnOutage ==
  \A r \in Runs : Done(r) => (run[r].status = "partial" <=> outages[r] # {})

(***************************************************************************)
(* No call is repeated after its key was not accepted or its answer could  *)
(* not be read (types.py:33-36: "a bad key won't become a good one", and   *)
(* "a response that didn't parse won't parse differently on retry").  What *)
(* counts is what the SDK raised, not the error type that the adapter's    *)
(* except clauses turned it into.  Requests that are refused for another   *)
(* reason are retried, if their adapter files them as unavailable.         *)
(***************************************************************************)
BadKeyOrAnswerIsFinal == ~futile

(***************************************************************************)
(* A failure of the OpenAI SDK means the same wherever it is met: the      *)
(* provider always finds an error type for it, and a judge on the same key *)
(* the same one ("exactly", openai_evals/client.py:23-26), although each   *)
(* adapter spells out its chain of except clauses again.                   *)
(***************************************************************************)
AdaptersAgree ==
  \A r \in {x \in Started : Request(x).provider = "openai"} :
    \A outcome \in Outcomes(r) :
      outcome.at = "call" =>
        /\ generate(r, outcome).error \in ProviderErrorType
        /\ \A e \in Judges :
             Handle(JudgeClauses(e), outcome.exception) = generate(r, outcome).error

(***************************************************************************)
(* An outage of a required metric reaches the gate as an outage: the       *)
(* policy's on_infrastructure_failure action is taken for it, "exactly the *)
(* same way" whether the judge reported the failure or the runner isolated *)
(* it (_isolated_failure_result's docstring).                              *)
(***************************************************************************)
Requirement(name) ==
  [metric_name |-> name, min_score |-> None, on_missing |-> "warn",
   on_infrastructure_failure |-> "block"]

ReachesTheGate(r, case, e) ==
  Reason("infrastructure", metric_name(e, case), "block") \in
    check_required_metric(Requirement(metric_name(e, case)), run[r].case_results)

OutagesReachTheGate ==
  \A r \in Runs : Done(r) => \A case \in Cases(r), e \in Names(r) :
    <<case.id, e>> \in outages[r] => ReachesTheGate(r, case, e)

(***************************************************************************)
(* What is left of it for evaluators that name results after something in  *)
(* the case, as DeepEval and the label grader do: their outages reach the  *)
(* gate if they report them themselves, whatever other cases scored.       *)
(***************************************************************************)
ReportedOutagesReachTheGate ==
  \A r \in Runs : Done(r) => \A case \in Cases(r), e \in Names(r) :
    /\ <<case.id, e>> \in outages[r]
    /\ \/ metric_name(e, case) = e
       \/ run[r].case_results[case.id].metric_results[e].metric_name # e
    => ReachesTheGate(r, case, e)

(***************************************************************************)
(* Every run ends, with a result for every case, although a worker may     *)
(* never come back: a timeout "must never itself hang" (_call_evaluator).  *)
(***************************************************************************)
EveryRunEnds ==
  \A r \in Runs : <>(Done(r) /\ DOMAIN run[r].case_results = {case.id : case \in Cases(r)})

-----------------------------------------------------------------------------
(***************************************************************************)
(* _call_evaluator: an abandoned worker "will run to completion in the     *)
(* background with its result discarded".  So the score of a case is one   *)
(* that the judge came to for that case.                                   *)
(***************************************************************************)
ScoresAreOfTheirCase ==
  \A r \in Started : \A case \in Cases(r), e \in Judges :
    LET results == IF case.id \in DOMAIN run[r].case_results
                     THEN run[r].case_results[case.id].metric_results ELSE NoMetrics
    IN  e \in DOMAIN results /\ metric_status(results[e]) = "scored" =>
          \E outcome \in JudgeOutcomes(e, case) :
            outcome.at = "returned" /\ results[e].score = JudgeScore(e, case, outcome.value)
=============================================================================
