-------------------------- MODULE MCEvaluationRunner --------------------------
(***************************************************************************)
(* Small datasets of two cases for each framework, the second critical,    *)
(* on each kind of provider.  One is 2, so that one fact or phrase of two  *)
(* makes half a score.                                                     *)
(***************************************************************************)
EXTENDS EvaluationRunner

\* To be answered from a document, by an answer that gives both facts of it.
Grounded ==
  [PlainCase("grounded") EXCEPT
     !.category = "rag", !.expected_answer = "in a week", !.reference_context = {"doc"}]

\* Held against a rubric, and against two phrases of which one is enough.
Rubric ==
  [PlainCase("rubric") EXCEPT
     !.critical = TRUE, !.required_phrases = {"week", "refund"},
     !.required_phrases_threshold = 1, !.deepeval_criteria = "empathetic"]

SameRubric == [Rubric EXCEPT !.id = "same rubric"]

Refusal ==
  [PlainCase("refusal") EXCEPT !.critical = TRUE, !.expected_behavior = "refuse"]

Labelled ==
  [PlainCase("labelled") EXCEPT
     !.openai_grader_labels = {"polite", "rude"}, !.openai_grader_passing_labels = {"polite"},
     !.openai_grader_instructions = "tone", !.openai_grader_name = "tone"]

Facts ==
  [PlainCase("facts") EXCEPT
     !.critical = TRUE, !.openai_grader_expected_facts = {"week", "refund"},
     !.json_schema = "object"]

\* One right answer, in one form.
Exact ==
  [PlainCase("exact") EXCEPT
     !.expected_answer = "in a week", !.match_mode = "exact", !.forbidden_phrases = {"i cannot"}]

\* Answers, from a good one to none at all.
GoodText == Text("in a week", {"week", "refund"}, {"object"})
HalfText == Text("a week", {"week", "i cannot"}, {})

MCFixtures ==
  [id \in {"grounded", "rubric", "same rubric", "labelled"} |->
     FixtureResponse(GoodText, IF id = "grounded" THEN {"doc"} ELSE {}, 1, 0)]

Asks(dataset, provider, frameworks) ==
  [dataset |-> dataset, provider |-> provider, frameworks |-> frameworks]

Quick == LiveAnswer(GoodText, 1, [input |-> 1, output |-> 1])
Slow == LiveAnswer(HalfText, 4, None)
Nothing2 == LiveAnswer(None, 1, None)

MCSDKOutcomes ==
  [openai |-> {Completed(Quick), Completed(Slow), Completed(Nothing2)}
                \cup {Raised("call", Exception(class)) : class \in OpenAIErrors}
                \cup {Raised("read", Exception(class)) : class \in {"IndexError", "TypeError"}},
   gemini |-> {Completed(Quick), Completed(Slow), Completed(Nothing2)}
                \cup {Raised("call", Exception(class)) :
                        class \in {"ReadTimeout", "ConnectError", "ServerError", "GeminiAPIError"}}
                \cup {Raised("call", ClientError(code, about_key)) :
                        code \in {400, 401, 403, 429}, about_key \in BOOLEAN}
                \cup {Raised("read", Exception("ValueError"))}]

\* Judgments on up to two facts.
FactChecks == UNION {[1 .. n -> [fact : {"week", "refund"}, supported : BOOLEAN]] : n \in 0 .. 2}

JudgeValues(e, case) ==
  CASE e = LabelGrader -> case.openai_grader_labels
    [] e = StructuredCorrectness -> FactChecks
    [] OTHER -> {0, One}

JudgeFailures == {Raised("call", Exception("APITimeoutError")), Raised("read", Exception("TypeError"))}

AnyOutcome(e, case) == {Completed(v) : v \in JudgeValues(e, case)} \cup JudgeFailures

\* A judge that likes the first answer and rejects the second.
FirstIsBetter(e, case) == {Completed(IF case.id = "rubric" THEN One ELSE 0)}

MCThresholds == [e \in Judges |-> One]
MCModelOf == [openai |-> "priced", gemini |-> "unpriced"]
MCPricing == [priced |-> [input |-> 1, output |-> 1]]

MCEvaluators ==
  <<"exact_match", "required_phrases", "forbidden_phrases", "json_schema_compliance",
    "expected_refusal", "citation_presence", "latency_ms", "estimated_cost_usd",
    "ragas_faithfulness", "ragas_context_precision",
    DeepEvalCriteria, LabelGrader, StructuredCorrectness>>

MCRequests ==
  [rag      |-> Asks(<<Grounded>>, "deterministic", None),
   live_rag |-> Asks(<<Grounded>>, "gemini", {"deterministic", "ragas"}),
   skipped  |-> Asks(<<Grounded, Rubric>>, "gemini", {"ragas", "deepeval"}),
   refusal  |-> Asks(<<Refusal>>, "gemini", {"deterministic"}),
   exact    |-> Asks(<<Exact>>, "openai", {"deterministic"}),
   rubric   |-> Asks(<<Rubric>>, "openai", {"deterministic", "deepeval"}),
   criteria |-> Asks(<<Rubric, SameRubric>>, "openai", {"deepeval"}),
   facts    |-> Asks(<<Facts>>, "openai", {"deterministic", "openai_evals"}),
   graders  |-> Asks(<<Labelled, Facts>>, "openai", {"openai_evals"}),
   missing  |-> Asks(<<Refusal, Labelled>>, "deterministic", {"openai_evals"})]

OneRubric == [criteria |-> Asks(<<Rubric, SameRubric>>, "deterministic", {"deepeval"})]
OneLabel == [graders |-> Asks(<<Labelled, Facts>>, "deterministic", {"openai_evals"})]
=============================================================================
