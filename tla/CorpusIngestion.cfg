\* Restarts, crashes and failing embeddings, with rollbacks to earlier corpora
\* whenever no interrupted ingestion is waiting to be made good, and the requests
\* of the service in between.
SPECIFICATION RagSpec
CONSTANTS
    a = a
    b = b
    None = None
    Torn = Torn
    Corpora <- MCCorpora
    Embedders <- BothEmbedders
    Remote <- OnlyOpenAI
    RollbackWhenInterrupted = FALSE
    Directories <- MCDirectories
    rag_dataset_name = "rag"
    Cases = {"c1", "c2"}
    Queries = {"q1", "q2"}
    Similarity <- MCSimilarity
    RelevanceThreshold = 1
    TopK = 1
    Ks = {None, 0, 2}
    ApiKeys = {"openai"}
    SDKOutcomes <- MCSDKOutcomes
    MaxAttempts = 2
INVARIANTS
    TypeOK
    RagTypeOK
    ServesCorpus
    OneEmbedding
    NoFileHidesAnother
    AsksTheNewest
    RetrievesTheBest
    QueriesFitTheStore
PROPERTIES
    UnchangedRestartIsFree
