--------------------------- MODULE CorpusIngestion ---------------------------
(***************************************************************************)
(* The vector store of the sample RAG system, over many starts of the     *)
(* service: rag/loader.py, rag/chunking.py, rag/vector_store.py,          *)
(* rag/corpus_service.py and the wiring in rag/factory.py.                 *)
(*                                                                         *)
(* The corpus is a directory of documents.  At every start it is loaded    *)
(* and split into chunks, and their fingerprint is compared with a marker  *)
(* file next to the Chroma collection.  If they differ the collection is   *)
(* wiped, filled again, and the marker rewritten, in three steps that a    *)
(* crash, or an embeddings service that raises, can separate.              *)
(*                                                                         *)
(* The corpus and the settings belong to a deployment: they change while   *)
(* no process is starting.                                                 *)
(***************************************************************************)
EXTENDS Naturals, Sequences

CONSTANTS
    Corpora,     \* functions from the ids of documents to the pieces they split into
    Embedders,   \* the values of AQG_RAG_EMBEDDINGS_PROVIDER in use
    Remote,      \* those among them that call a service, which may fail
    RollbackWhenInterrupted, \* may a deployment go back to an earlier corpus
                             \* while an ingestion that was cut short is not made good?
    None,        \* no marker file
    Torn         \* a marker file that was cut off while it was written

VARIABLES
    disk,          \* the corpus directory
    rag_embeddings_provider, \* the setting
    collection,    \* the Chroma collection: from chunk id to [text, by]
    marker,        \* the file .corpus_hash
    pc,            \* where create_app is
    chunks,        \* what the process has loaded: from chunk id to text
    embeddings,    \* the embeddings object of the process
    deployed,      \* history: the fingerprints of the corpora deployed so far
    interrupted,   \* history: has an ingestion been cut short and none completed since?
    served         \* history: the fingerprint of the corpus served last

deployment == <<disk, rag_embeddings_provider, deployed>>
store == <<collection, marker>>
process == <<chunks, embeddings>>
vars == <<deployment, store, pc, process, interrupted, served>>

-----------------------------------------------------------------------------
\* load_corpus and chunk_documents: every piece of every document, under the id
\* "<source>::chunk-<index>".  An empty document has no chunks.
chunk_ids(corpus) ==
    UNION {{<<source, i - 1>> : i \in DOMAIN corpus[source]} : source \in DOMAIN corpus}

chunk_documents(corpus) == [id \in chunk_ids(corpus) |-> corpus[id[1]][id[2] + 1]]

\* hash_chunks: ids and texts, in no order.  Metadata and embeddings do not enter.
hash_chunks(cs) == {<<id, cs[id]>> : id \in DOMAIN cs}

Fingerprint(corpus) == hash_chunks(chunk_documents(corpus))

\* The texts that the collection holds.
Content == [id \in DOMAIN collection |-> collection[id].text]

NoChunks == [id \in {} |-> None]

ASSUME CorpusAssumption ==
    /\ \A c \in Corpora : Fingerprint(c) \notin {None, Torn}
    /\ RollbackWhenInterrupted \in BOOLEAN

TypeOK ==
    /\ disk \in Corpora
    /\ rag_embeddings_provider \in Embedders
    /\ DOMAIN collection \subseteq UNION {chunk_ids(c) : c \in Corpora}
    /\ \A id \in DOMAIN collection : collection[id].by \in Embedders
    /\ marker \in {Fingerprint(c) : c \in Corpora} \cup {None, Torn}
    /\ pc \in {"down", "compare", "add", "mark", "serving"}
    /\ chunks \in {chunk_documents(c) : c \in Corpora} \cup {NoChunks}
    /\ embeddings \in Embedders
    /\ deployed \subseteq {Fingerprint(c) : c \in Corpora}
    /\ interrupted \in BOOLEAN
    /\ served \in deployed \cup {None}

Init ==
    /\ disk \in Corpora
    /\ rag_embeddings_provider \in Embedders
    /\ collection = NoChunks
    /\ marker = None
    /\ pc = "down"
    /\ chunks = NoChunks
    /\ embeddings = rag_embeddings_provider
    /\ deployed = {Fingerprint(disk)}
    /\ interrupted = FALSE
    /\ served = None

-----------------------------------------------------------------------------
\* A deployment: a corpus edited, or brought back; a setting changed.
Deployable == pc \in {"down", "serving"}

EditCorpus(corpus) ==
    /\ Deployable
    /\ Fingerprint(corpus) \in deployed => RollbackWhenInterrupted \/ ~interrupted
    /\ disk' = corpus
    /\ deployed' = deployed \cup {Fingerprint(corpus)}
    /\ UNCHANGED <<rag_embeddings_provider, store, pc, process, interrupted, served>>

Configure(embedder) ==
    /\ Deployable
    /\ rag_embeddings_provider' = embedder
    /\ UNCHANGED <<disk, deployed, store, pc, process, interrupted, served>>

-----------------------------------------------------------------------------
\* create_app: build the embeddings, open the collection, load and split the corpus.
Load ==
    /\ pc = "down"
    /\ embeddings' = rag_embeddings_provider
    /\ chunks' = chunk_documents(disk)
    /\ pc' = "compare"
    /\ UNCHANGED <<deployment, store, interrupted, served>>

\* Variant: taking an empty corpus for one that was not ingested yet.
UpToDateUnlessEmpty == chunks # NoChunks /\ marker = hash_chunks(chunks)

UpToDate == marker = hash_chunks(chunks)

\* ingest_if_needed returns early: the service starts on the collection as it is.
Skip ==
    /\ pc = "compare"
    /\ UpToDate
    /\ pc' = "serving"
    /\ served' = hash_chunks(chunks)
    /\ UNCHANGED <<deployment, store, process, interrupted>>

\* Variants: the marker written before the collection is filled; no wipe.
ResetCollectionMarkerFirst ==
    /\ pc = "compare"
    /\ ~UpToDate
    /\ collection' = NoChunks
    /\ marker' = hash_chunks(chunks)
    /\ pc' = "add"
    /\ UNCHANGED <<deployment, process, interrupted, served>>

ResetCollectionNot ==
    /\ pc = "compare"
    /\ ~UpToDate
    /\ pc' = "add"
    /\ UNCHANGED <<deployment, store, process, interrupted, served>>

\* replace_all, first step: reset_collection.
ResetCollection ==
    /\ pc = "compare"
    /\ ~UpToDate
    /\ collection' = NoChunks
    /\ pc' = "add"
    /\ UNCHANGED <<deployment, marker, process, interrupted, served>>

Embedded == [id \in DOMAIN chunks |-> [text |-> chunks[id], by |-> embeddings]]

\* An upsert: a chunk replaces the one of the same id.
Upsert(new, old) ==
    [id \in DOMAIN new \cup DOMAIN old |-> IF id \in DOMAIN new THEN new[id] ELSE old[id]]

\* Second step: embed the chunks and add them, if there are any.
AddDocuments ==
    /\ pc = "add"
    /\ collection' = Upsert(Embedded, collection)
    /\ pc' = "mark"
    /\ UNCHANGED <<deployment, marker, process, interrupted, served>>

\* The embeddings service raises before anything is added: create_app fails.
EmbeddingFails ==
    /\ pc = "add"
    /\ chunks # NoChunks
    /\ embeddings \in Remote
    /\ pc' = "down"
    /\ interrupted' = TRUE
    /\ UNCHANGED <<deployment, store, process, served>>

\* Variant: digesting the ids of the chunks only.
WriteMarkerOfIds ==
    /\ pc = "mark"
    /\ marker' = DOMAIN chunks
    /\ pc' = "serving"
    /\ interrupted' = FALSE
    /\ served' = hash_chunks(chunks)
    /\ UNCHANGED <<deployment, collection, process>>

\* Third step: the marker.
WriteMarker ==
    /\ pc = "mark"
    /\ marker' = hash_chunks(chunks)
    /\ pc' = "serving"
    /\ interrupted' = FALSE
    /\ served' = hash_chunks(chunks)
    /\ UNCHANGED <<deployment, collection, process>>

\* The process ends, between any two steps or while it writes the marker.
Crash ==
    /\ pc # "down"
    /\ pc' = "down"
    /\ \/ UNCHANGED marker
       \/ pc = "mark" /\ marker' = Torn
    /\ interrupted' = (interrupted \/ pc \in {"add", "mark"})
    /\ UNCHANGED <<deployment, collection, process, served>>

Next ==
    \/ \E corpus \in Corpora : EditCorpus(corpus)
    \/ \E embedder \in Embedders : Configure(embedder)
    \/ Load
    \/ Skip
    \/ ResetCollection
    \/ AddDocuments
    \/ EmbeddingFails
    \/ WriteMarker
    \/ Crash

Spec == Init /\ [][Next]_vars

-----------------------------------------------------------------------------
\* "The corpus on disk is the source of truth" (rag/factory.py:20): once the
\* service is up, the collection holds exactly the chunks of the corpus it was
\* started on, whatever was deployed and cut short before.
ServesCorpus == pc = "serving" => Content = chunks

\* The vectors of the collection all come from one embeddings model, so that their
\* distances to a query can be compared, however settings and corpora change.
OneEmbedding ==
    \A a, b \in DOMAIN collection : collection[a].by = collection[b].by

\* "A normal app restart with an unchanged corpus does no embedding work"
\* (rag/corpus_service.py:14-15): what was served last is not wiped to be embedded again.
UnchangedRestartIsFree ==
    [][ResetCollection => hash_chunks(chunks) # served]_vars
=============================================================================
