\* A rollback to the corpus of the marker after an ingestion that was cut short.
SPECIFICATION Spec
CONSTANTS
    a = a
    b = b
    None = None
    Torn = Torn
    Corpora <- SmallCorpora
    Embedders <- BothEmbedders
    Remote <- OnlyOpenAI
    RollbackWhenInterrupted = TRUE
INVARIANTS
    ServesCorpus
