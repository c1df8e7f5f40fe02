# A formal model of the AI quality gate

TLA+ specifications of `src/backend/app`, the service that runs golden datasets
through a language model, grades the answers, and decides PASS / WARN / BLOCK
for a release. They are checked with TLC on small instances; every safety property
that holds is also proved with TLAPS for all instances. All source paths below are
relative to `src/backend/app` unless they say otherwise.

## 1. The system

| Component | State | Operations | Talks to |
|---|---|---|---|
| `policy/engine.py` PolicyEngine | none | `decide` | called by PolicyService |
| `services/policy_service.py` PolicyService | none of its own | `decide`, `approve_baseline`, `register_policy`, reads | the run and result stores, three SQLite tables |
| `services/evaluation_service.py` EvaluationService | none of its own | `run`, reads | DatasetService, ProviderFactory, EvaluationRunner, the two stores |
| `evaluation/runner.py` EvaluationRunner | threads of timed-out evaluators | `run_with_provider`, `evaluate_case` | a provider, the evaluators |
| `reliability/retry.py` | attempt count of one call | `retry_provider_call` | the provider |
| `providers/*` | none | `generate`, `create`, `estimate` | model SDKs, the fixtures |
| `evaluation/{ragas,deepeval,openai_evals}` | `DeepEvalClient._metric_cache` | `applies_to`, `evaluate` | judge models |
| `evaluation/deterministic.py` | none | `applies_to`, `evaluate` | - |
| `repositories/in_memory.py` | runs, case results, datasets in dictionaries | `add`, `save`, `get`, `list` | - |
| `repositories/sqlite.py` | policies, baselines, decisions in SQLite | `add`, `get_active`, `approve`, `get_latest_for_dataset` | - |
| `main.py` | - | start: empty stores, seed of the default policy | all |
| `services/dataset_service.py` | the loaded datasets | `load_all`, `get_dataset`, `get_fixtures` | files |
| `rag/*`, `services/rag_service.py` | Chroma collection, hash marker file | ingestion at start, `retrieve`, `evaluate_case` | embeddings, provider, EvaluationRunner |
| `reports/*`, `services/report_service.py` | none | `get_report`, `build_report`, `render_html` | PolicyService |
| `api/*`, `core/*`, `observability/*` | static settings | HTTP, authentication, logging, traces | services |
| `src/frontend` | React component state | the dashboard | HTTP API |

How they interact: `POST /evaluations/runs` runs a dataset and stores the run and
then its case results in memory. `POST /gate/decisions` reads both back, resolves
a policy, reads the newest baseline of the dataset, calls the engine and stores the
decision. `POST /gate/baselines` snapshots a run as the next baseline version.
`POST /gate/policies` registers a policy. `GET /reports/{id}` joins a stored decision with the
run and results in memory. `POST /rag/evaluate/{case}` and `/rag/query` retrieve chunks from the
store that the start of the process filled, and send them to a provider. FastAPI serves each of these synchronous
handlers in a thread of its own, and there is no lock wider than one call on one
repository.

What is hard about it:

- *interleaving of requests*: every handler is several repository calls
  (`approve` even takes its version and adds its row in two critical sections);
- *two lifetimes*: runs and results die with the process, the tables survive;
- *partial evaluation*: providers and judges fail, raise, time out or never come
  back, and the gate has to tell that from bad quality;
- *adapters*: three SDKs and three judge frameworks are each normalized by a chain of
  except clauses of its own, and retries, skips and the gate depend on what they make of an error;
- *stale state*: datasets and the vector store are those of the start, fixtures those of the
  moment, and the marker of the store is a file beside it;
- *abandoned threads*: a timed-out evaluator keeps running and shares a cached
  object with its successors;
- *monotonicity*: six independent checks add up to one verdict, which must not
  become laxer when the policy gets stricter or the answers get worse.

What makes each part correct, in one line each: the engine never averages an
outage into a score, never drops a requirement and is monotone; the services
judge full results against a baseline that is not older than what the caller
could know, and keep a gap-free, advancing baseline history; the runner ends,
examines what it passes and reports exactly what it could not examine; the adapters agree on
what an error means; the RAG service asks and retrieves what belongs to the datasets
and the corpus it was started on; a report shows the grounds of its decision.

## 2. The modules

| Module | What it is |
|---|---|
| `EvaluationResults` | The records that everything exchanges, and the numbers derived from a run (`domain/`, the module-level functions of `policy/engine.py`, the results evaluators build) |
| `PolicyEngine` | `PolicyEngine.decide` as an operator: one operator per check, a set of reasons, a status |
| `PolicyEngineLaws` | A machine whose state is the engine's input (latest run, baseline), and the laws of the engine as invariants and action properties |
| `GateService` | EvaluationService and PolicyService over their repositories: concurrent requests, one step per repository call, crashes and restarts |
| `ReleaseLedger` | The abstract specification of the services: atomic decisions and approvals. It models no code of its own |
| `ReportService` | A reader of reports beside the requests of `GateService`: `get_report`, `build_report`, `render_html` |
| `Providers` | The adapters to the SDKs: exceptions, except chains, responses, cost, `ProviderFactory.create` |
| `Evaluators` | The fifteen evaluators as operators: `applies_to` and `evaluate`, over the results of `Providers` |
| `EvaluationRunner` | `run_with_provider` with retries, worker threads, timeouts, isolation, and the cached judge object |
| `CorpusIngestion` | The RAG vector store over many starts of the service: wipe, fill, mark, and what interrupts them |
| `RagService` | The service over that store: datasets and fixtures, retrieval, and the three requests of `api/rag.py` |
| `FiniteInduction` | Lemmas about finite sets and lists of any size: induction, and folds as solved recursions |
| `EvaluationResultsProofs` | Lemmas about sums, means and aggregates |
| `PolicyEngineProofs` | The theorems about the engine |
| `GateServiceProofs`, `ReportServiceProofs` | The theorems about the services, their ledger and the reports |
| `EvaluationRunnerProofs` | The theorems about the runner, the evaluators and the adapters |
| `CorpusIngestionProofs`, `RagServiceProofs` | The theorems about the vector store and the RAG service |
| `MCPolicyEngine`, `MCGateService`, `MCReportService`, `MCEvaluationRunner`, `MCCorpusIngestion`, `MCRagService` | Constants for TLC |

```
EvaluationResults <- PolicyEngine <- PolicyEngineLaws
                                  <- ReleaseLedger <~ GateService <- ReportService
EvaluationResults <- Providers <- Evaluators
PolicyEngine, Evaluators <- EvaluationRunner
CorpusIngestion <- RagService ~> Providers

FiniteInduction <- EvaluationResultsProofs <- PolicyEngineProofs, EvaluationRunnerProofs
FiniteInduction, CorpusIngestionProofs <- RagServiceProofs
GateServiceProofs <- ReportServiceProofs
```

(`<-` is EXTENDS, `~>` INSTANCE; a module of proofs also extends the module it is about.) A decision that GateService stores is the engine's `decide` of
the results it read; a report is put together from its rows and stores; the case results that
EvaluationRunner builds are checked with the engine's `check_required_metric`; RagService
adds requests and datasets to the very actions of CorpusIngestion, and asks the adapters of Providers.

### Correspondence

*Data.* Scores, rates and tolerances are integers, as fractions of `One`. A mean is an
exact pair `[num, den]` compared by cross-multiplication, where the code has floats.
Of a result's metadata the model keeps the two keys that the engine reads. The
reasons of a decision are `[kind, metric, action]` records for the code's texts; a
reason whose action is "ignore" does not exist, as in `_apply_action`. Latency
and cost are small integers. Case ids and evaluator names are strings.

*PolicyEngineLaws.* `results` is the list of case results of a dataset's latest run,
`baseline` the approved snapshot. `RunAgain(c)` changes the outcome of one case,
so that two states of a step are a run and the next one; `Approve` takes
the snapshot. The outcomes are built with `GradedCase`, `ErroredCase` and
`CrashedCase`, the three ways in which the runner builds a `CaseResult`, and are
those of one selection of frameworks (the `frameworks` of `POST /evaluations/runs`):
a run of all evaluators always has the results of the latency evaluator, which applies
to every case; a run restricted to a judge's framework does not. Of the two lower-is-better
evaluators the instance uses the latency one; the cost one differs in its name only.

*GateService.* `run_repository` and `case_result_store` are the dictionaries,
`release_policies`, `baselines` and `gate_decisions` the tables; nothing deletes or
replaces a row, so a table is a sequence in insertion order (which is also the order
in which SQLite lists it) and a position stands for a row's id. `req[t]` is a handler's
program counter and local variables. Each action is one repository call with the
computation up to the next one: `AddRun`, `SaveResults`; `GateRun` (find the run),
`GateResults`, `GatePolicy`, `GateBaseline`, `GateAdd`; `ApproveRun`, `ApproveResults`,
`ApproveVersion` (list, choose the version), `ApproveAdd`; `BuildPolicy`
(stamp `created_at`), `AddPolicy`. `Crash` empties the memory and drops the requests in
flight, `Start` seeds the default policy when the table is empty. Requests that end in
404 at their first lookup have no effect and are left out. `evaluated`, `returned`, and
the request fields `floor` and `settled` are history variables: no action reads them
except to keep run ids unique.

A client can ask for a run before its `POST /evaluations/runs` was answered:
`GET /evaluations/runs` (`api/evaluations.py:80-93`) lists the run as soon as it is
added. That is why `FindRun` asks for the run only, not for its results.

The clock gives every stamp a value of its own and never goes back, which is kinder than a
wall clock. `BuildPolicy` and `AddPolicy` are still two steps: of two registrations at the
same time the one added last need not become active, although `api/gate.py:112-114` says
that it always does. No property depends on which of them wins.

*ReportService.* `reader` is one `GET /reports/{id}`: `FindDecision` reads the row and the run,
`BuildReport` the case results, as they are then; every action of GateService may come between, a
crash included. `render_html` keeps the sections of the page and the class, label and cells
of each row. A request for a report only reads, so one reader is as good as many. `grounded` is
history: the decisions whose run had been answered when the gate was asked.

*Providers.* A call to an SDK is completed with an answer, or an exception is raised by the call or by
the code that reads the answer. An except chain is a sequence of clauses, and `Handle` takes the first that fits,
over the SDKs' class hierarchies; so the order of the clauses counts, as it does in the code, and what fits none
(`httpx.ConnectError` in the Gemini provider) goes through. A text is its normalized form with
the phrases it contains and the schemas it satisfies.

*Evaluators.* A case is a record of the fields and metadata keys that some evaluator reads, and
`evaluate` is one operator over all of them. A judge that lacks an input skips, one whose SDK fails reports an
infrastructure failure, and its verdict is a score, a label or a list of facts. The fact checklist counts the
entries of the judge's list, as the code does, even those about a fact that nobody asked for.

*EvaluationRunner.* `run[r]` is the program counter and the local variables of one call
of `run_with_provider`; `worker[r][<<c, e>>]` is the call of evaluator `e` for case `c`,
in a thread of its own if a timeout is set; `metric_cache` has the score left in each cached
GEval object, by the key that DeepEvalClient files it under. `Answered`, `Retry`, `GiveUp` and `Raise`
are the outcomes of one attempt at the provider; `Collect` and `Isolate` the two ways in which a call of an
evaluator ends for the runner; `Return`, `Measure`, `ReadScore` and `Fail` what happens in the
worker. After `Isolate` on a timeout the worker stays where it is and may take its
steps at any later time. The loops over cases and evaluators advance within the action that ends a
case or an evaluation. `outages` and `futile` are history variables; `futile` judges a repeated call by what the
SDK raised, not by the error type it was given: `BadKeyOrAnswer` is a 401, a word about the key (unless it is about
the quota), or an answer that cannot be read. The HTTP status of an OpenAI error is that
of its class (`http_status`), of a Gemini error its code.

*CorpusIngestion.* `disk` is the corpus directory, as the pieces that each document splits
into; `collection` the Chroma collection; `marker` the file `.corpus_hash`, which is
`Torn` when a crash cuts its writing off. One start of the service is `Load` (build the
embeddings, load and split the corpus), then `Skip`, or `ResetCollection`, `AddDocuments` and
`WriteMarker`, the three calls of `replace_all`; `EmbeddingFails` is the exception that ends
`create_app`. Chunks are functions from `<<source, index>>` to text, so an edit may renumber them
and a document may become empty; a fingerprint is the set of ids with their texts, which
is what is digested. A deployment (`EditCorpus`, `Configure`) does not happen while
a process starts, as corpus and settings come with the container. `deployed`, `interrupted`
and `served` are history; the first two only restrict deployments.

*RagService.* `directory` is the state of the dataset directory, `datasets` what `load_all` made of
it at the start, and `request` the request at hand. The start is two steps of `create_app`: datasets and corpus are
loaded (`Start`), then the store is brought up to date (`Ingest`, the actions of CorpusIngestion). `Query`,
`EvaluateCase` and `InspectChunks` accept or refuse a request, `Retrieve` asks the store, `Retry` and
`Answer` are the outcomes of one generation (a retry retrieves anew, because `RAGProvider.generate` is the whole
pipeline), and `ShowChunks` is the second retrieval of `evaluate_case`. Dataset files may be replaced while
the service runs, corpus and settings come with a deployment. Requests only read what they share and the store does not
change while the service is up, so one request at a time shows every state that a request can see.
A fixtures file that is missing or malformed is refused (`FixtureValidationError`), one that cannot be decoded ends the request
in an exception. `started_on` and `reconfigured` are history.

*External code.* Marked so in `PROJECT.json`: the class hierarchies and outcomes of the SDKs, and Chroma
refusing vectors of another dimension. `Measure` and `ReadScore` rely on `GEval.measure`
leaving its score in the object, which is how `DeepEvalClient._run` reads it
(`evaluation/deepeval/client.py:123-170`); `Upsert` on Chroma replacing a chunk of the same id (it
embeds all chunks before it adds any); `similarity_search` on Chroma returning the nearest chunks.

## 3. What TLC checks

| Run | Result | What it shows |
|---|---|---|
| `engine_laws` | passes, 12 701 states | the engine's six laws |
| `gate_approvals` | passes, 2.3 million states | baseline history and what a gate call sees of it |
| `gate_decisions` | passes, 890 thousand states | types, full results, reports, refinement of `ReleaseLedger` |
| `runner_timed` | passes, 81 037 states | runner, evaluators and adapters: safety and termination |
| `corpus_ingestion` | passes, 813 864 states | the RAG service over deployments, crashes and failures |
| `faster_runs` | violated | a speed-up is filed as a regression |
| `vacuous_pass` | violated | PASS without a single scored metric |
| `unsaved_run` | violated | a decision on a run whose results are not stored yet |
| `version_tie` | violated | two baselines of one version |
| `corpus_rollback` | violated | a rollback that serves the wrong corpus |
| `label_grader` | violated | an outage filed under the wrong metric |
| `cached_judge` | violated | a case with another case's score |

The properties, by the hazard they are about:

- *Outages against scores.* `OutagesNeverScore`: aggregates are those of the run without
  its failed and skipped results. `PassMeansRequirementsMet`: PASS implies that every
  requirement which may neither be missing nor fail was measured and met.
  `PassedMeansGraded`: a passed case has been examined by all its evaluators, each in time.
  `PartialExactlyOnOutage`: PARTIAL if and only if something did not execute.
  `OutagesReachTheGate`: an outage of a required metric triggers its infrastructure action;
  it fails for evaluators that do not name their results after themselves, and
  `ReportedOutagesReachTheGate` says what is left: it holds for them too if they report the outage themselves.
- *Answers that say nothing.* Judges skip what they cannot judge, and a skip counts as passed.
  `UngroundedNeverPasses`: a case to be answered from references does not pass on an answer without any context.
  `BlankPassesOnlyUnasked`: with the deterministic checks among the run's evaluators, a blank answer passes only a
  case that its dataset asks nothing literal of (no exact answer, no phrases above a threshold of 0, no schema, no refusal).
- *Adapters.* `AdaptersAgree`: the OpenAI provider and all judges file one error under one type.
  `BadKeyOrAnswerIsFinal`: a call refused with a 401 or a word about its key, or whose answer could not be read, is not
  repeated. That is less than what `types.py` says of retries: OpenAI's 403 and 400, and a Gemini 400 without a word
  about the key, are repeated.
- *Monotone verdicts.* `ImprovementNeverHurts` (better results), `TighterPolicyNeverRelaxes`
  (stricter policy), `NoRegressionAgainstItself` (approve, then decide on the same run: nothing regresses).
- *Summary against verdict.* `NewFailuresAreReasons`: the summary takes minimums from a table of its own, in which the last
  requirement of a metric wins, and tells new failures by them; each of them is a blocking reason, and a regression if no fall is
  tolerated.
- *Races of requests.* `VersionsContiguous`, `LatestOnlyAdvances`,
  `GateSeesApprovedBaselines`, `SettledRunsAreComplete`, and `ImplementsLedger`: every
  interleaving looks to clients as if decisions and approvals were atomic, except that
  what they are based on may be as old as the request itself. `ReportsAgree`: what a report shows of
  a run (rows, marks, aggregates, framework errors) is what the decision on top of it was taken from, and
  the decision can be taken again from it; if the run is gone, so is the report.
- *The RAG store.* `ServesCorpus`: what is served is the corpus that was deployed.
  `OneEmbedding`: vectors of two models never meet. `UnchangedRestartIsFree`: a restart
  does not embed again what was served last. The first and the last hold unless
  a deployment goes back to an earlier corpus while an interrupted ingestion has not been
  made good (`RollbackWhenInterrupted = FALSE`), the second always. `QueriesFitTheStore`: a query
  of the wrong dimension only after the embeddings setting was changed over a filled store.
- *The RAG service.* `NoFileHidesAnother`: every valid dataset file of the start is served, whatever
  lies between. `AsksTheNewest`: a case is asked from the numerically newest dataset of the start.
  `RetrievesTheBest`: the prompt has the best relevant chunks of the corpus of the start, as many as asked for.
  `NoFileHidesAnother` is about starts that succeed; a file that cannot be decoded prevents the start, as
  `Start` does not load one.
- *Termination.* `EveryRunEnds`, with a result for every case.

### Disagreements between the code and what it says

Seven runs exhibit one each; `PROJECT.json` quotes the lines.

1. `faster_runs`: latency and cost are metrics whose score is the raw value, and every
   fall of a metric beyond the tolerance is a regression. With the default policy
   (tolerance 0, block) a faster run is blocked and a slower one is not. The tests do not
   see it because fixture latencies are constant.
2. `vacuous_pass`: README.md promises that a run with no scored metrics cannot pass; the
   guard counts skipped results too.
3. `unsaved_run`: a run can be gated between being listed and having results.
4. `version_tie`: `approve` promises an unambiguous history, but lists and adds in two
   critical sections.
5. `corpus_rollback`: the marker of the corpus before outlives the wipe of the
   collection. After an interrupted ingestion, going back to that corpus skips ingestion
   and serves what the interrupted one left.
6. `label_grader`: an isolated failure is named after the evaluator, not after the metric.
7. `cached_judge`: an abandoned worker's result is discarded, its score in the shared
   metric object is not.

Four more were met while modelling; the model has the code's behaviour, and no run of their own exhibits them:

- `domain/gate_decision.py:26-27` says that `new_failures` "regressed beyond max_regression_tolerance";
  the engine lists the metrics that crossed their minimum, by however little (`policy/engine.py:295-300`).
- `providers/types.py:32-33` says that what is filed as unavailable is "transient by nature and worth a second
  attempt"; the OpenAI provider files every status error without a clause of its own so (`openai_provider.py:84-85`),
  and a refused request (400) or a missing permission (403) is tried again. The Gemini provider does not repeat
  a 403 (`gemini_provider.py:113`), but a 400 without a word about the key.
- `providers/types.py:18-20` says that providers never raise for expected failures; the Gemini provider lets a
  refused connection through (`gemini_provider.py:67-74`). Only its case is lost (`Raise`), without a retry.
- `services/dataset_service.py:45-51` says that a corrupted dataset file is not fatal; one that is not UTF-8 raises
  before it is parsed (`:62`), and the service does not start.

### Bounds, and why they are enough

- *Engine*: two cases (one critical), three scores, three kinds of metric, two selections of
  frameworks, five policies. Two cases make means of one and two scores and partial
  coverage of a metric; the policies cover every action value, both budgets, no, one and two
  requirements, a metric required twice, and tolerances of 0 and 1. The five include
  pairs ordered by `Tighter`. Two metrics fail, are skipped or score independently.
- *Services*: two requests at once, two runs, one crash, one or two datasets, two outcomes.
  Every race found is between two handlers, and each handler is in the middle of
  at most one critical pair of calls; the proofs cover any number. `MaxPolicies`,
  `MaxBaselines`, `MaxDecisions` and `MaxCrashes` guard the first step of a request that
  would exceed them, so that no handler is cut in half. Requests and runs are symmetric
  and no liveness is checked there, which makes the symmetry set sound. Three baselines
  in `gate_approvals` allow a tie and a successor to it; its properties are about versions only, so
  all runs there have one outcome. The outcome is a critical case that passes or fails, so a report has
  something to mark, and the second policy only warns of it.
- *Runner*: ten requests of one or two cases, which together use the three providers and thirteen evaluators (of
  the two others, `ragas_answer_relevancy` needs less and `ragas_context_recall` the same as one that is there); two
  attempts, one run at a time. Two cases are needed for a worker of one to meet the next, and one critical case beside
  one that is not. The live providers may raise every class of the OpenAI hierarchy, every status of
  a Gemini `ClientError` with and without a word about keys, and what no clause catches; answers are good, half good
  and slow, or blank. Timeouts are always on, and as they may never happen, runs without a timeout are
  included except for a call that never returns.
- *RAG service*: no counter is bounded. Four corpora of at most two documents and two pieces (the rollback
  run has six): the same ids with other texts, one document more, no chunks; both kinds of embeddings. Four
  states of the dataset directory: versions 1.10 and 1.9 in the order of their paths with a malformed file and a dataset of
  another name, two files of one id, an undecodable file, and none of the name. Two queries that rank the
  pieces differently, a relevance at the threshold and one below it, `top_k` absent, 0 and 2, and two attempts.
- `CHECK_DEADLOCK FALSE` in the service and runner configurations: the service's instance stops when
  its bounds are used up, and a runner stops when its runs have ended. `engine_laws`, its
  two siblings and the RAG runs check deadlock.

### Fairness

Only `EvaluationRunner` assumes any: weak fairness of each run's own thread. A Python thread
that can go on eventually does, and both waits of the runner are bounded: `Isolate`
is enabled throughout a wait because the timeout is set. Workers have no fairness at all,
an evaluator may stay away for good. A provider's `generate` is assumed to return, as
both SDK clients are configured with timeouts; the retries end because attempts are counted.
GateService states no fairness, as all its properties are safety properties.

## 4. What is proved

Every invariant and action property of the passing runs is a theorem of its specification, for
every value of the constants: any number of requests, runs, cases, evaluators, policies, attempts,
corpora, files and versions. The refinement of the ledger is a theorem too.

| Module | Theorem | Property |
|---|---|---|
| `PolicyEngineProofs` | `NewFailuresHaveReasons` | `[]NewFailuresAreReasons` |
| | `OutagesDoNotScore` | `[]OutagesNeverScore` |
| | `RequirementsMet` | `[]PassMeansRequirementsMet` |
| | `TighterPolicies` | `[]TighterPolicyNeverRelaxes` |
| | `BetterAnswers` | `ImprovementNeverHurts` |
| | `OwnBaseline` | `NoRegressionAgainstItself` |
| `GateServiceProofs` | `TypeCorrect` | `[]TypeOK` |
| | `HistoryHasNoHoles` | `[]VersionsContiguous` |
| | `ApprovedBaselinesAreSeen` | `[]GateSeesApprovedBaselines` |
| | `ReferenceOnlyAdvances` | `LatestOnlyAdvances` |
| | `AnsweredRunsAreComplete` | `[]SettledRunsAreComplete` |
| | `ServicesImplementLedger` | `ImplementsLedger` |
| `ReportServiceProofs` | `ReportsOnlyRead` | `ReportSpec => Spec` of the services |
| | `ReportsAreGrounded` | `[]ReportsAgree` |
| `EvaluationRunnerProofs` | `RunnerTypes` | `[]TypeOK` |
| | `NothingPassesUnexamined` | `[]PassedMeansGraded` |
| | `UngroundedFails` | `[]UngroundedNeverPasses` |
| | `BlankFails` | `[]BlankPassesOnlyUnasked` |
| | `PartialIffOutage` | `[]PartialExactlyOnOutage` |
| | `OutagesReachPolicy` | `[]ReportedOutagesReachTheGate` |
| | `BadKeyOrAnswerNeverRepeated` | `[]BadKeyOrAnswerIsFinal` |
| | `SameErrorEverywhere` | `[]AdaptersAgree` |
| `CorpusIngestionProofs` | `StoreTypes` | `[]TypeOK` |
| | `StoreServesCorpus` (no rollback) | `[]ServesCorpus` |
| | `NoNeedlessEmbedding` (no rollback) | `UnchangedRestartIsFree` |
| | `VectorsAreOfOneModel` | `[]OneEmbedding` |
| `RagServiceProofs` | `ServiceImplementsStore` | `RagSpec => Spec` of the store |
| | `RagTypes` | `[]RagTypeOK` |
| | `EveryValidFileLoads` | `[]NoFileHidesAnother` |
| | `CasesComeFromTheNewest` | `[]AsksTheNewest` |
| | `OnlyASettingSplitsTheVectors` | `[]QueriesFitTheStore` |
| | `TheBestAreRetrieved` (no rollback) | `[]RetrievesTheBest` |

### Induction over data

Sums, means, `load_all`, `int` and the best k of a set are defined by folds or `CHOOSE`, and what they
compute needs induction on the size of a set. The library's induction theorems take an operator and cannot be used;
its theorem that a well-founded order has minimal elements (`WFMin`) takes a set. `FiniteInduction` gets from it
`SubsetInduction` and `CountingUp`, where the hypothesis is a set. A fold is `CHOOSE g : g = ...`: of that nothing
follows until some `g` solves the equation, which is shown by building it up along the sizes of the subsets
(`FoldExists`, `ListFoldExists`, `SumsExist`). After that the fold has its equation, and its laws follow.

### The arguments

*Engine.* The engine has no state; `Inputs` says what it is given. `OutagesDoNotScore` is that both aggregates
sum over the same set; `OwnBaseline` that a mean does not fall below itself. `BetterAnswers` goes through the six checks:
a raised score keeps every mean up because the metric was scored by the same cases, and
the reasons of the better run are among those of the worse, or stand for them. `TighterPolicies` matches each reason of the laxer policy
with one of the stricter that is at least as severe. For `NewFailuresHaveReasons`, the minimum in the table is that of one of the requirements
(`ThresholdOfRequirement`), whose check has the reason; and of two means, one at a minimum and one below it, the second has
fallen (`CrossingIsFalling`).

*Services.* None of their invariants is inductive alone, because a handler
acts on what it has read earlier. `IInv` adds, for each request, what stays true of its local
variables while others write: which locals a program point has set (`LocalsOK`); that the policy it
resolved exists (`PolicyResolved`); that `floor` is at most the newest version now
(`FloorKept`); that the version taken by an approval is at least 1, at most one above the newest now,
and above the floor (`VersionTaken`); that the baseline a gate call read is a row of its dataset not older
than the floor (`ReferenceRead`). They survive the steps of other requests because tables
only grow and the newest version never falls, which is one lemma about appending a
row. With `VersionTaken`, the row that an approval adds either repeats a version or
is the next one, hence no holes; and it replaces the reference only if it is the next one, hence
the reference only advances.

`RunsInv` is about the two stores: a run that was answered has, as
long as the process remembers it, the results it was evaluated to, and the results a
settled request has read are those. A crash forgets both stores at once and the requests
with them, which is where the argument needs that the stores have the same lifetime.

*Ledger.* `LedgerStep` takes the actions of GateService one by one. Most repository calls only read and are stutters of the
ledger, and a decision, an approval, a registration or a stored run is its one step. What a decision was based on is by then
an old read; the ledger allows exactly those baselines that `IInv` still knows of, and `Seeded` (a process that is up has a policy) is
needed for the policy.

*Reports.* `ReportInv` keeps for every decision on an answered run that it follows from the results, the policy and some baseline of
its version (`GroundsKept`), and that what the reader holds is the decided run's (`ReaderOK`). The page names a baseline by dataset
and version only, and two rows can share a version; so the theorem says that there is a baseline of that version from which the
decision can be taken again, not which.

*Runner.* `RunnerInv` says of each result where it comes from: an evaluator of the run, in the order of the list, whose worker
has returned it, or an outage. Workers that were left behind go on, but they only write what is their own, or the cached
metric object, which can spoil a later score (`cached_judge`) but not where a result comes from. Each property then reads the recorded results back:
for `PartialIffOutage` that an error in some result and a recorded outage are the same thing, for `OutagesReachPolicy` that the engine's check
finds that result, for `BlankFails` which deterministic check fails on a blank answer.

*Vector store.* `IInv` in `CorpusIngestionProofs` says when the marker can be trusted: outside an ingestion
and with none cut short it is the fingerprint of the collection's content (`Ingested`), and otherwise it
differs from the fingerprint of the disk (`Interrupted`), so that it is not trusted.
The second part is what a rollback would break; three theorems assume
`RollbackWhenInterrupted = FALSE`, and `corpus_rollback` shows that they have to.
`VectorsAreOfOneModel` needs none of this: chunks are only added to an empty collection.

*RAG service.* `ServiceImplementsStore`: every step is one of the store's or leaves the store alone, so all of the above holds of the service.
`RagInv` joins three parts. `StoreInv`: the vectors are those of the setting unless `reconfigured`. `LibraryInv`:
the repository is what `load_all` makes of the directory of the start, and `LoadedDatasets` says what that is: the last valid file of each id.
`RequestInv`: a request is at hand only while the process serves, the store stands still then, and so what it has retrieved
is still of the corpus of the start. Semantic versions are an order (`BeforeIsAnOrder`), so a finite set of them has a
newest; filtering the k nearest by the threshold gives the best k of what is relevant (`BestOfTheRelevant`).

### Assumptions

All are evaluated by TLC in the runs. None restricts what the code may meet:

- `OneAssumption`: `One` is a positive natural, the unit of scores.
- `LawsAssumption`: finitely many cases, whose results are as the records validate them; a case keeps its `critical` flag
  from one run to the next, and an evaluator its threshold, so that a score no worse than one that passed passes too.
- `GateAssumption`, and the parts about `None` of the others: markers for "nothing" are not values. The default policy is a policy; bounds are naturals.
- `RequestsAssumption`, `RunnerAssumption`: a dataset is a list of cases with ids of their own (`domain/golden_dataset.py:39-48`), the evaluators
  are the deterministic ones with some judges, each once (`main.py` builds the list); requests name a known provider.
- `ProvidersAssumption`: what the call of the OpenAI SDK raises derives from `OpenAIError`; recorded and returned answers have a nonnegative latency.
  Anything may be raised by the Gemini SDK and while an answer is read.
- `JudgesAssumption`: a judge's call raises anything; its score is a nonnegative number, or reading it raises what the client catches.
- `CorpusAssumption`: no fingerprint is the absent or the torn marker.
- `LibraryAssumption`: a directory lists its files; a valid one has a version of three texts of digits.
- `RetrievalAssumption`: a corpus has finitely many chunks, similarities can be compared, limits are naturals.

### Only model-checked

`EveryRunEnds`: liveness under fairness is out of the prover's reach. The seven disagreements that runs exhibit in section 3 are counterexamples, not theorems.
The hazards that no property covers are listed with the reason in `PROJECT.json`.

## 5. What is not modelled

- The dashboard: a client that changes nothing but through the requests of `GateService`. What
  React renders between two navigations is not in this source.
- Judge prompts, explanations and other texts; the order of retrieved chunks and the prompt made of them.
- Authentication, middleware, logging, tracing, settings, CI: they hold no state a decision depends on.
- Token counts and `structured_output`: nothing but reports and traces reads the first, nothing the second.
- `delete` and `count` of the repositories: no handler calls `delete`, and only the status page `count`.
- Several processes: the in-memory stores make the service a single process. Two that overlap on one
  Chroma directory or one database during a rolling deployment are outside the model.
- The second retrieval of a case (`ShowChunks`) finds what the first one found, because the model's similarity is a fixed
  function: an embeddings service that answers one query differently is outside the model.
- Rounding of floats at a tolerance or threshold: means are exact in the model.
- A wall clock that goes back or ties.

## 6. Plan

Done, in this order: the engine and its laws; the services, their ledger and the refinement; the
runner; the proofs about the services; the corpus store and its proofs; providers, evaluators and the runner
over them; the RAG service over the store; reports.

Then the proofs about them, from the results and the engine to the runner, the reports and the RAG service.

To come: termination of a run as a safety property that can be proved, a measure that each step of the runner's own thread
lowers; that the ledger's tables are append-only and its decisions final, once for the ledger and by refinement for the services;
for `DecisionsEvaluateTheRun` and `VersionsUnambiguous`, which the code does not keep, the conditions under which it would.
