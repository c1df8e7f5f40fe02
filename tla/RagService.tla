------------------------------ MODULE RagService ------------------------------
(***************************************************************************)
(* The sample RAG system from start to answer: services/rag_service.py     *)
(* over rag/retriever.py, rag/pipeline.py and rag/provider_adapter.py, the *)
(* golden datasets of services/dataset_service.py, and the start in        *)
(* main.py that loads the datasets and then brings the vector store of     *)
(* CorpusIngestion up to date.                                             *)
(*                                                                         *)
(* The datasets are read once, at the start; the fixtures that go with     *)
(* them are read from disk by every request that answers from them.        *)
(*                                                                         *)
(* Requests only read what they share, so one at a time is enough.  The    *)
(* ranking within what is retrieved is left out: chunks come as sets.      *)
(***************************************************************************)
EXTENDS CorpusIngestion, FiniteSetsExt, SequencesExt

CONSTANTS
    Directories,      \* the states of the dataset directory, by name: [files, fixtures]
    rag_dataset_name, \* the setting
    Cases,            \* the ids of cases, those that are asked for included
    Queries,          \* the queries that are asked, those of the cases included
    Similarity,       \* [Queries -> [text of a chunk -> Nat]], of the embeddings
    RelevanceThreshold,
    TopK,
    Ks,               \* the top_k that requests come with; None for none
    ApiKeys,          \* the live providers that a key is configured for
    SDKOutcomes,      \* for each live provider, the outcomes of a call to it
    MaxAttempts

VARIABLES
    directory,     \* the name of the state that the dataset directory is in
    datasets,      \* the dataset repository: from <<name, version>> to cases
    request,       \* the request at hand
    started_on,    \* history: what directory was when the process started
    reconfigured   \* history: was the embeddings setting changed since an ingestion
                   \* was last completed?

library == <<directory, datasets, started_on>>
rag_vars == <<vars, library, request, reconfigured>>

\* The adapters to the models; what an answer says and costs does not matter here.
P == INSTANCE Providers
       WITH One <- 1, ModelOf <- [p \in ApiKeys |-> p], Pricing <- [m \in {} |-> 0]

-----------------------------------------------------------------------------
(***************************************************************************)
(* Datasets.  A directory has its *.json files in the order of their       *)
(* paths, and fixtures: from the <<name, version>> that the name of a      *)
(* fixtures file is made of to what the file holds.  A version is three    *)
(* numbers, each a sequence of digits.                                     *)
(***************************************************************************)
Dataset(name, version, cases) ==
    [state |-> "valid", id |-> <<name, version>>, cases |-> cases]   \* cases: id -> query

Answers(cases) == [state |-> "valid", cases |-> cases]   \* a fixtures file

Unreadable(state) == [state |-> state]   \* "malformed" or "undecodable", of either kind

\* Those in a directory, and the recorded answers that go with them.
files(dir) == Directories[dir].files
fixtures(dir) == Directories[dir].fixtures

\* What GoldenDataset validates: a version X.Y.Z; and all its cases are among Cases.
IsDataset(file) ==
    /\ file.id[2] \in [1 .. 3 -> Seq(0 .. 9)]
    /\ \A case \in DOMAIN file.cases : case \in Cases /\ file.cases[case] \in Queries

ValidFiles(dir) == {i \in DOMAIN files(dir) : files(dir)[i].state = "valid"}

ASSUME LibraryAssumption ==
    \A dir \in DOMAIN Directories :
        /\ files(dir) \in Seq(Range(files(dir)))
        /\ \A i \in ValidFiles(dir) : IsDataset(files(dir)[i])

\* parse_dataset refuses a malformed file, which is skipped.  A later dataset
\* replaces one of the same id in the repository.
Add(repository, file) ==
    IF file.state = "valid" THEN Upsert([id \in {file.id} |-> file.cases], repository)
    ELSE repository

NoDatasets == [id \in {} |-> None]

\* Variant: gives up at the first file that is malformed.
load_until_malformed(dir) ==
    LET bad == DOMAIN files(dir) \ ValidFiles(dir)
        good == IF bad = {} THEN files(dir) ELSE SubSeq(files(dir), 1, Min(bad) - 1)
    IN  FoldLeft(Add, NoDatasets, good)

load_all(dir) == FoldLeft(Add, NoDatasets, files(dir))

\* The text of a file that is not UTF-8 cannot be read: create_app fails.
Decodable(dir) == \A i \in DOMAIN files(dir) : files(dir)[i].state # "undecodable"

\* int() of a text of digits.
int(digits) == FoldLeft(LAMBDA n, digit : 10 * n + digit, 0, digits)

semver_key(version) == [i \in DOMAIN version |-> int(version[i])]

Before(key, other) ==
    \E i \in DOMAIN key : key[i] < other[i] /\ \A j \in 1 .. i - 1 : key[j] = other[j]

Candidates == {id \in DOMAIN datasets : id[1] = rag_dataset_name}

\* Variant: compares the parts of versions as texts, by their first digits.
get_dataset_by_text ==
    LET text(id) == [i \in DOMAIN id[2] |-> id[2][i][1]]
    IN  CHOOSE id \in Candidates : \A other \in Candidates : ~Before(text(id), text(other))

\* get_dataset(rag_dataset_name, "latest").
get_dataset ==
    CHOOSE id \in Candidates :
        \A other \in Candidates : ~Before(semver_key(id[2]), semver_key(other[2]))

\* A malformed fixtures file is refused, as a missing one is; one that is no UTF-8, or
\* no JSON object, raises what nothing here handles.
get_fixtures(id) ==
    IF id \notin DOMAIN fixtures(directory) \/ fixtures(directory)[id].state = "malformed"
        THEN "fixture_validation_error"
    ELSE IF fixtures(directory)[id].state = "valid" THEN "ready"
    ELSE "fixtures_raised"

-----------------------------------------------------------------------------
(***************************************************************************)
(* Retrieval.                                                              *)
(***************************************************************************)
ASSUME RetrievalAssumption ==
    /\ \A corpus \in Corpora :
          /\ IsFiniteSet(chunk_ids(corpus))
          /\ \A query \in Queries, id \in chunk_ids(corpus) :
                Similarity[query][chunk_documents(corpus)[id]] \in Int
    /\ RelevanceThreshold \in Int /\ TopK \in Nat /\ Ks \subseteq Nat \cup {None}
    /\ MaxAttempts \in Nat

Score(query, id) == Similarity[query][Content[id]]

\* Chroma: the k chunks nearest to the query.
similarity_search(query, k) ==
    LET size == Min({k, Cardinality(DOMAIN collection)})
    IN  CHOOSE nearest \in kSubset(size, DOMAIN collection) :
            \A id \in nearest, other \in DOMAIN collection \ nearest :
                Score(query, id) >= Score(query, other)

\* The number of chunks to look for: "k or self._top_k".
Limit(k) == IF k \in {None, 0} THEN TopK ELSE k

\* Variant: takes only what is above the threshold.
retrieve_above(query, k) ==
    {id \in similarity_search(query, Limit(k)) : Score(query, id) > RelevanceThreshold}

retrieve(query, k) ==
    {id \in similarity_search(query, Limit(k)) : Score(query, id) >= RelevanceThreshold}

\* Chroma raises when it is asked with vectors of another dimension than it holds;
\* a service that computes the vector of the query may raise before.
Mismatch == \E id \in DOMAIN collection : collection[id].by # embeddings

RetrievalErrors ==
    {error \in {"wrong_dimension", "embeddings_raised"} :
        IF error = "wrong_dimension" THEN Mismatch ELSE embeddings \in Remote}

-----------------------------------------------------------------------------
(***************************************************************************)
(* Requests.                                                               *)
(***************************************************************************)
NoRequest ==
    [op |-> None, stage |-> "idle", provider |-> None, dataset |-> None, case |-> None,
     recorded |-> FALSE, query |-> None, k |-> None, attempt |-> 1,
     retrieved |-> {}, shown |-> {}, error |-> None]

Providers == {"deterministic"} \cup DOMAIN SDKOutcomes

\* AppErrors, which have a response of their own, and exceptions that end in a 500.
Refusals == {"not_found", "fixture_validation_error", "provider_configuration_error"}
Escapes == {"fixtures_raised", "wrong_dimension", "embeddings_raised", P!Uncaught}

ASSUME ErrorsAssumption == None \notin P!ProviderErrorType \cup Refusals \cup Escapes

RagInit ==
    /\ Init
    /\ directory \in DOMAIN Directories
    /\ datasets = NoDatasets
    /\ request = NoRequest
    /\ started_on = directory
    /\ reconfigured = FALSE

\* A request at an idle service, and the next state of the one at hand.
Becomes(stage, r) ==
    /\ pc = "serving"
    /\ request.stage = stage
    /\ request' = r
    /\ UNCHANGED <<vars, library, reconfigured>>

Refused(r, error) == [r EXCEPT !.error = error, !.stage = "done"]

\* _build_generation_provider: of the dataset that is the latest, which has to be there.
Ready(provider) ==
    IF Candidates = {} THEN "not_found"
    ELSE P!create(provider, ApiKeys, get_fixtures(get_dataset))

Accepted(r) ==
    LET ready == Ready(r.provider)
    IN  IF ready = "ready" THEN [r EXCEPT !.stage = "retrieve"] ELSE Refused(r, ready)

\* POST /rag/query: for the live providers only.
Query(query, k, provider) ==
    Becomes("idle", Accepted([NoRequest EXCEPT
        !.op = "query", !.query = query, !.k = k, !.provider = provider]))

\* Was an answer to the case recorded for the deterministic provider?
Recorded(id, case) == get_fixtures(id) = "ready" /\ case \in fixtures(directory)[id].cases

\* POST /rag/evaluate/{case_id}, up to the provider.
EvaluateCase(case, provider) ==
    LET asked == [NoRequest EXCEPT !.op = "evaluate", !.case = case, !.provider = provider]
    IN  Becomes("idle",
          IF Candidates = {} \/ case \notin DOMAIN datasets[get_dataset]
            THEN Refused(asked, "not_found")
            ELSE Accepted([asked EXCEPT
                   !.dataset = get_dataset, !.query = datasets[get_dataset][case],
                   !.recorded = Recorded(get_dataset, case)]))

\* GET /rag/chunks: what a query retrieves, or everything.
InspectChunks(query, k) ==
    Becomes("idle", [NoRequest EXCEPT
        !.op = "inspect", !.query = query, !.k = k,
        !.retrieved = IF query = None THEN DOMAIN collection ELSE {},
        !.stage = IF query = None THEN "done" ELSE "retrieve"])

\* Retriever.retrieve, for the prompt or for the reader.
Retrieve ==
    /\ ~Mismatch
    /\ Becomes("retrieve", [request EXCEPT
           !.retrieved = retrieve(request.query, request.k),
           !.stage = IF request.op = "inspect" THEN "done" ELSE "generate"])

RetrievalRaises ==
    \E stage \in {"retrieve", "show"}, error \in RetrievalErrors :
        Becomes(stage, Refused(request, error))

\* What the provider may answer with: None, an error type, or an exception.
GenerationErrors ==
    IF request.provider = "deterministic"
        THEN {IF request.recorded THEN None ELSE "malformed_response"}
        ELSE {P!generate_live(request.provider, outcome).error :
                outcome \in SDKOutcomes[request.provider]}

\* Variant: counts the retries instead of the attempts.
CanRetryOnceMore(error) ==
    request.op = "evaluate" /\ error \in P!Retryable /\ request.attempt <= MaxAttempts

\* retry_provider_call around the whole of RAGProvider.generate, for a case only.
CanRetry(error) ==
    request.op = "evaluate" /\ error \in P!Retryable /\ request.attempt < MaxAttempts

Retry ==
    /\ request.stage = "generate"
    /\ \E error \in GenerationErrors :
          /\ CanRetry(error)
          /\ Becomes("generate", [request EXCEPT
                 !.attempt = request.attempt + 1, !.stage = "retrieve"])

\* RAGPipeline.answer returns, and a case is graded; an exception ends the request.
Answer ==
    /\ request.stage = "generate"
    /\ \E error \in GenerationErrors :
          /\ ~CanRetry(error)
          /\ Becomes("generate", [request EXCEPT
                 !.error = error,
                 !.stage = IF request.op = "evaluate" /\ error # P!Uncaught
                             THEN "show" ELSE "done"])

\* evaluate_case retrieves a second time, for the chunks of its answer.
ShowChunks ==
    /\ ~Mismatch
    /\ Becomes("show", [request EXCEPT
           !.shown = retrieve(request.query, None), !.stage = "done"])

Reply == Becomes("done", NoRequest)

-----------------------------------------------------------------------------
(***************************************************************************)
(* Deployments and starts.                                                 *)
(***************************************************************************)
EditDatasets(dir) ==
    /\ Deployable
    /\ directory' = dir
    /\ UNCHANGED <<vars, datasets, started_on, request, reconfigured>>

\* create_app, up to the comparison of the corpus with the marker.
Start ==
    /\ Decodable(directory)
    /\ Load
    /\ datasets' = load_all(directory)
    /\ started_on' = directory
    /\ UNCHANGED <<directory, request, reconfigured>>

Deploy ==
    /\ UNCHANGED <<library, request>>
    /\ \/ \E corpus \in Corpora : EditCorpus(corpus) /\ UNCHANGED reconfigured
       \/ \E embedder \in Embedders \ {rag_embeddings_provider} :
              Configure(embedder) /\ reconfigured' = TRUE

Ingest ==
    /\ UNCHANGED <<library, request>>
    /\ \/ (Skip \/ ResetCollection \/ AddDocuments \/ EmbeddingFails) /\ UNCHANGED reconfigured
       \/ WriteMarker /\ reconfigured' = FALSE

\* A request at hand is lost with the process.
Stop ==
    /\ Crash
    /\ request' = NoRequest
    /\ UNCHANGED <<library, reconfigured>>

RagNext ==
    \/ \E dir \in DOMAIN Directories : EditDatasets(dir)
    \/ Deploy
    \/ Start
    \/ Ingest
    \/ Stop
    \/ \E query \in Queries, k \in Ks, provider \in DOMAIN SDKOutcomes : Query(query, k, provider)
    \/ \E case \in Cases, provider \in Providers : EvaluateCase(case, provider)
    \/ \E query \in Queries \cup {None}, k \in Ks : InspectChunks(query, k)
    \/ Retrieve
    \/ RetrievalRaises
    \/ Retry
    \/ Answer
    \/ ShowChunks
    \/ Reply

RagTypeOK ==
    /\ {directory, started_on} \subseteq DOMAIN Directories
    /\ \A id \in DOMAIN datasets : DOMAIN datasets[id] \subseteq Cases
    /\ request.op \in {"query", "evaluate", "inspect", None}
    /\ request.stage \in {"idle", "retrieve", "generate", "show", "done"}
    /\ request.provider \in Providers \cup {None}
    /\ request.dataset \in DOMAIN datasets \cup {None}
    /\ request.case \in Cases \cup {None}
    /\ request.query \in Queries \cup {None}
    /\ request.k \in Ks \cup {None}
    /\ request.attempt \in 1 .. Max({1, MaxAttempts})
    /\ request.retrieved \cup request.shown \subseteq DOMAIN collection
    /\ request.error \in P!ProviderErrorType \cup Refusals \cup Escapes \cup {None}
    /\ {request.recorded, reconfigured} \subseteq BOOLEAN

RagSpec == RagInit /\ [][RagNext]_rag_vars

-----------------------------------------------------------------------------
\* "Every other valid file still loads normally" (services/dataset_service.py:51-52):
\* the process serves the datasets of all valid files it was started on, whatever
\* malformed files lie between them, and no others.
NoFileHidesAnother ==
    pc # "down" =>
        DOMAIN datasets = {files(started_on)[i].id : i \in ValidFiles(started_on)}

\* A case is asked from the numerically newest dataset of the start, of its last file,
\* even when the directory has been edited since.
AsksTheNewest ==
    request.dataset # None =>
        \E i \in ValidFiles(started_on) :
            LET file == files(started_on)[i]
            IN  /\ file.id = request.dataset
                /\ file.cases[request.case] = request.query
                /\ \A j \in ValidFiles(started_on) :
                       LET other == files(started_on)[j]
                       IN  /\ j > i => other.id # file.id
                           /\ other.id[1] = rag_dataset_name =>
                                  ~Before(semver_key(file.id[2]), semver_key(other.id[2]))

\* The chunks in the prompt are the best there are in the corpus that the service
\* was started on: as many as asked for, all relevant, none better left out.
RetrievesTheBest ==
    request.query # None /\ request.stage \in {"generate", "show"} =>
        LET relevance(id) == Similarity[request.query][chunks[id]]
            relevant == {id \in DOMAIN chunks : relevance(id) >= RelevanceThreshold}
        IN  /\ request.retrieved \subseteq relevant
            /\ Cardinality(request.retrieved)
                 = Min({Limit(request.k), Cardinality(relevant)})
            /\ \A id \in request.retrieved, other \in relevant \ request.retrieved :
                   relevance(id) >= relevance(other)

\* The vectors of queries fit those of the collection, unless the setting was changed
\* after the collection was filled: nothing in the code brings the two together again.
QueriesFitTheStore == request.error = "wrong_dimension" => reconfigured
=============================================================================
