------------------------------ MODULE Evaluators ------------------------------
(***************************************************************************)
(* The evaluators (src/backend/app/evaluation): the eight deterministic    *)
(* checks, four RAGAS metrics, the DeepEval criteria and the two graders   *)
(* of the OpenAI adapter.  applies_to says which cases an evaluator is     *)
(* called for, evaluate what it returns for a provider's response; a judge *)
(* evaluates with the outcome of one call of its SDK.                      *)
(*                                                                         *)
(* A case is a record of the fields and metadata keys that evaluators      *)
(* read.  An answer is a text in its normalized form, so blank is "".      *)
(***************************************************************************)
EXTENDS Providers

CONSTANT
  Thresholds   \* the configured threshold of each RAGAS metric, of DeepEval and of
               \* structured correctness

Deterministic ==
  {"exact_match", "required_phrases", "forbidden_phrases", "json_schema_compliance",
   "expected_refusal", "citation_presence", "latency_ms", "estimated_cost_usd"}

Ragas ==
  {"ragas_faithfulness", "ragas_answer_relevancy", "ragas_context_precision",
   "ragas_context_recall"}

LabelGrader == "openai_evals_label_grader"
StructuredCorrectness == "openai_evals_structured_correctness"
DeepEvalCriteria == "deepeval_criteria"

Judges == Ragas \cup {DeepEvalCriteria, LabelGrader, StructuredCorrectness}

framework(e) ==
  CASE e \in Deterministic -> "deterministic"
    [] e \in Ragas -> "ragas"
    [] e = DeepEvalCriteria -> "deepeval"
    [] OTHER -> "openai_evals"

\* A case that asks for nothing: every case is this one with something added.
PlainCase(id) ==
  [id |-> id, category |-> "general", critical |-> FALSE,
   expected_answer |-> None, expected_behavior |-> "answer", reference_context |-> {},
   match_mode |-> None, required_phrases |-> {}, required_phrases_threshold |-> One,
   forbidden_phrases |-> {}, json_schema |-> None, refusal_phrases |-> {"i cannot"},
   requires_citation |-> FALSE, max_latency_ms |-> 3, max_cost_usd |-> 3,
   rag_scenario |-> None,
   deepeval_criteria |-> None, deepeval_criteria_name |-> "criteria",
   deepeval_threshold |-> None,
   openai_grader_labels |-> {}, openai_grader_passing_labels |-> {},
   openai_grader_instructions |-> None, openai_grader_name |-> "label_grader",
   openai_grader_expected_facts |-> {}, openai_grader_threshold |-> None]

\* What EvaluationCase validates, and what an evaluator takes for granted of a list.
IsCase(case) ==
  /\ case.critical \in BOOLEAN
  /\ case.expected_behavior \in {"answer", "clarify", "refuse", "unsupported"}
  /\ IsFiniteSet(case.required_phrases) /\ IsFiniteSet(case.openai_grader_expected_facts)
  /\ case.required_phrases_threshold \in Int

-----------------------------------------------------------------------------
IsRagCase(case) ==
  case.category = "rag" \/ case.reference_context # {} \/ case.rag_scenario # None

applies_to(e, case) ==
  \/ e \in {"latency_ms", "estimated_cost_usd"}
  \/ e = "exact_match" /\ case.expected_answer # None /\ case.match_mode = "exact"
  \/ e = "required_phrases" /\ case.required_phrases # {}
  \/ e = "forbidden_phrases" /\ case.forbidden_phrases # {}
  \/ e = "json_schema_compliance" /\ case.json_schema # None
  \/ e = "expected_refusal" /\ case.expected_behavior \in {"refuse", "unsupported"}
  \/ e = "citation_presence" /\ (case.reference_context # {} \/ case.requires_citation)
  \/ e \in Ragas /\ IsRagCase(case)
  \/ e = DeepEvalCriteria /\ case.deepeval_criteria # None
  \/ /\ e = LabelGrader
     /\ case.openai_grader_labels # {} /\ case.openai_grader_passing_labels # {}
     /\ case.openai_grader_instructions # None
  \/ e = StructuredCorrectness /\ case.openai_grader_expected_facts # {}

\* The metric_name of what an evaluator returns for a case.
metric_name(e, case) ==
  IF e = DeepEvalCriteria THEN "deepeval_" \o case.deepeval_criteria_name
  ELSE IF e = LabelGrader THEN e \o "_" \o case.openai_grader_name
  ELSE e

Override(value, default) == IF value = None THEN default ELSE value

threshold(e, case) ==
  CASE e \in Ragas -> Thresholds[e]
    [] e = DeepEvalCriteria -> Override(case.deepeval_threshold, Thresholds[e])
    [] e = StructuredCorrectness -> Override(case.openai_grader_threshold, Thresholds[e])
    [] e = "required_phrases" -> case.required_phrases_threshold
    [] OTHER -> One

-----------------------------------------------------------------------------
(***************************************************************************)
(* The deterministic checks.                                               *)
(***************************************************************************)
Verdict(e, passed) == MetricResult(e, IF passed THEN One ELSE 0, passed, {})

\* The fraction m / n, as a score.  One is taken as a multiple of each n that occurs.
Fraction(m, n) == (One * m) \div n

ExactMatch(case, text) == Verdict("exact_match", text.normalized = case.expected_answer)

\* Variant: skips a blank answer, as the judges do.
RequiredPhrasesOfAnAnswer(case, text) ==
  IF text.normalized = "" THEN SkippedResult("required_phrases")
  ELSE ScoredResult("required_phrases",
                    Fraction(Cardinality(case.required_phrases \cap text.phrases),
                             Cardinality(case.required_phrases)),
                    case.required_phrases_threshold)

RequiredPhrases(case, text) ==
  ScoredResult("required_phrases",
               Fraction(Cardinality(case.required_phrases \cap text.phrases),
                        Cardinality(case.required_phrases)),
               case.required_phrases_threshold)

ForbiddenPhrases(case, text) ==
  Verdict("forbidden_phrases", case.forbidden_phrases \cap text.phrases = {})

JSONSchemaCompliance(case, text) ==
  Verdict("json_schema_compliance", case.json_schema \in text.valid_for)

ExpectedRefusal(case, text) ==
  Verdict("expected_refusal", case.refusal_phrases \cap text.phrases # {})

\* Variant: skips, like a RAGAS metric, what was answered without any context.
CitationSkipped(response) ==
  IF response.retrieved_context # {} THEN Verdict("citation_presence", TRUE)
  ELSE SkippedResult("citation_presence")

CitationPresence(response) == Verdict("citation_presence", response.retrieved_context # {})

CostResult(cost, max_cost_usd) ==
  MetricResult("estimated_cost_usd", One * cost, cost <= max_cost_usd, {})

\* The fields of a CaseResult that come from a response; an unknown cost is 0.
estimated_cost(response) == Override(response.estimated_cost, 0)

Check(e, case, response) ==
  CASE e = "exact_match" -> ExactMatch(case, response.text)
    [] e = "required_phrases" -> RequiredPhrases(case, response.text)
    [] e = "forbidden_phrases" -> ForbiddenPhrases(case, response.text)
    [] e = "json_schema_compliance" -> JSONSchemaCompliance(case, response.text)
    [] e = "expected_refusal" -> ExpectedRefusal(case, response.text)
    [] e = "citation_presence" -> CitationPresence(response)
    [] e = "latency_ms" -> LatencyResult(response.latency_ms, case.max_latency_ms)
    [] e = "estimated_cost_usd" -> CostResult(estimated_cost(response), case.max_cost_usd)

-----------------------------------------------------------------------------
(***************************************************************************)
(* The judges.  A call of a judge is completed with a score, with one of   *)
(* the labels, or with a list of facts that it holds supported or not.     *)
(***************************************************************************)
Blank(text) == text.normalized = ""

ReadsResponse == {"ragas_faithfulness", "ragas_answer_relevancy", DeepEvalCriteria,
                  LabelGrader, StructuredCorrectness}
ReadsContext == {"ragas_faithfulness", "ragas_context_precision", "ragas_context_recall"}
ReadsReference == {"ragas_context_precision", "ragas_context_recall"}

MissingInputs(e, case, response) ==
  \/ e \in ReadsResponse /\ Blank(response.text)
  \/ e \in ReadsContext /\ response.retrieved_context = {}
  \/ e \in ReadsReference /\ case.expected_answer \in {None, ""}
  \/ e = LabelGrader /\ Cardinality(case.openai_grader_labels) < 2

JudgeClauses(e) ==
  CASE e \in Ragas -> RagasClauses
    [] e = DeepEvalCriteria -> DeepEvalClauses
    [] OTHER -> OpenAIEvalsClauses

\* classify_label: one score for a passing label, none for any other.
classify_label(case, label) == IF label \in case.openai_grader_passing_labels THEN One ELSE 0

\* score_structured_facts: the supported entries of the judge's list, whatever facts
\* they are about, over the number of expected facts.
score_structured_facts(case, fact_checks) ==
  Fraction(Cardinality({i \in DOMAIN fact_checks : fact_checks[i].supported}),
           Cardinality(case.openai_grader_expected_facts))

JudgeScore(e, case, value) ==
  CASE e = LabelGrader -> classify_label(case, value)
    [] e = StructuredCorrectness -> score_structured_facts(case, value)
    [] OTHER -> value

Judge(e, case, response, outcome) ==
  IF MissingInputs(e, case, response) THEN SkippedResult(metric_name(e, case))
  ELSE IF ErrorType(JudgeClauses(e), ScoreReadClauses, outcome) \in ProviderErrorType
    THEN InfrastructureFailure(metric_name(e, case))
  ELSE ScoredResult(metric_name(e, case), JudgeScore(e, case, outcome.value), threshold(e, case))

evaluate(e, case, response, outcome) ==
  IF e \in Deterministic THEN Check(e, case, response) ELSE Judge(e, case, response, outcome)

-----------------------------------------------------------------------------
(***************************************************************************)
(* DeepEvalClient keeps one metric object for all calls with the same      *)
(* criteria, threshold and kinds of input.                                 *)
(***************************************************************************)
CacheKey(case, response) ==
  [name      |-> case.deepeval_criteria_name,
   criteria  |-> case.deepeval_criteria,
   threshold |-> threshold(DeepEvalCriteria, case),
   params    |-> {param \in {"expected_output", "context", "retrieval_context"} :
                    \/ param = "expected_output" /\ case.expected_answer \notin {None, ""}
                    \/ param = "context" /\ case.reference_context # {}
                    \/ param = "retrieval_context" /\ response.retrieved_context # {}}]

\* The runner's evaluators, in their order, or those of the requested frameworks.
Selected(evaluators, frameworks) ==
  LET first[n \in 0 .. Len(evaluators)] ==   \* those of the first n
        IF n = 0 THEN <<>>
        ELSE IF frameworks = None \/ framework(evaluators[n]) \in frameworks
          THEN Append(first[n - 1], evaluators[n])
        ELSE first[n - 1]
  IN  first[Len(evaluators)]
=============================================================================
