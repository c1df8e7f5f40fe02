------------------------ MODULE CorpusIngestionProofs ------------------------
(***************************************************************************)
(* What CorpusIngestion promises, for any corpora and embeddings.          *)
(*                                                                         *)
(* ServesCorpus and UnchangedRestartIsFree rest on the marker being        *)
(* trustworthy whenever it matches the corpus on disk.  It is not after an *)
(* interrupted ingestion: it then still names the corpus before.  Ingested *)
(* says when it can be trusted, and Interrupted that otherwise it does not *)
(* match, which is where the theorems need that nobody rolls back.         *)
(***************************************************************************)
EXTENDS CorpusIngestion, TLAPS

DiskDeployed ==
    /\ disk \in Corpora
    /\ Fingerprint(disk) \in deployed
    /\ marker \in deployed \cup {None, Torn}
    /\ served \in deployed \cup {None}

Loaded == pc \in {"compare", "add", "mark"} => chunks = chunk_documents(disk)

Filled ==
    /\ pc = "add" => DOMAIN collection = {}
    /\ pc \in {"mark", "serving"} => Content = chunks

\* Outside an ingestion, and with none cut short, the marker is that of the content.
Ingested ==
    ~interrupted /\ pc \in {"down", "compare", "serving"} =>
        /\ marker = served
        /\ marker # None => hash_chunks(Content) = marker

\* During an ingestion, or after it was cut short, it is not that of the disk.
Interrupted ==
    /\ interrupted => Fingerprint(disk) \notin {marker, served}
    /\ pc \in {"add", "mark"} => hash_chunks(chunks) \notin {marker, served}

PCType == pc \in {"down", "compare", "add", "mark", "serving"}

IInv ==
    /\ PCType
    /\ DiskDeployed
    /\ Loaded
    /\ Filled
    /\ Ingested
    /\ Interrupted

-----------------------------------------------------------------------------
\* Two lists of chunks with one fingerprint are equal (hash_chunks digests ids and texts).
LEMMA FingerprintInjective ==
    ASSUME NEW f, NEW g,
           f = [id \in DOMAIN f |-> f[id]], g = [id \in DOMAIN g |-> g[id]],
           hash_chunks(f) = hash_chunks(g)
    PROVE  f = g
<1>1. ASSUME NEW id \in DOMAIN f PROVE id \in DOMAIN g /\ g[id] = f[id]
  <2>1. <<id, f[id]>> \in hash_chunks(g)
    BY <1>1 DEF hash_chunks
  <2>2. PICK j \in DOMAIN g : <<id, f[id]>> = <<j, g[j]>>
    BY <2>1 DEF hash_chunks
  <2> QED BY <2>2
<1>2. ASSUME NEW id \in DOMAIN g PROVE id \in DOMAIN f
  <2>1. <<id, g[id]>> \in hash_chunks(f)
    BY <1>2 DEF hash_chunks
  <2>2. PICK j \in DOMAIN f : <<id, g[id]>> = <<j, f[j]>>
    BY <2>1 DEF hash_chunks
  <2> QED BY <2>2
<1>3. DOMAIN f = DOMAIN g
  BY <1>1, <1>2
<1> QED BY <1>1, <1>3

\* Adding the chunks to an empty collection makes them its content.
LEMMA AddingToEmpty ==
    ASSUME DOMAIN collection = {}, chunks = chunk_documents(disk),
           collection' = Upsert(Embedded, collection)
    PROVE  Content' = chunks
<1>1. DOMAIN Embedded = DOMAIN chunks
  BY DEF Embedded
<1>2. DOMAIN collection' = DOMAIN chunks
  BY <1>1 DEF Upsert
<1>3. ASSUME NEW id \in DOMAIN chunks PROVE collection'[id].text = chunks[id]
  <2>1. collection'[id] = Embedded[id]
    BY <1>1, <1>3 DEF Upsert
  <2>2. Embedded[id] = [text |-> chunks[id], by |-> embeddings]
    BY <1>3 DEF Embedded
  <2> QED BY <2>1, <2>2
<1>4. chunks = [id \in DOMAIN chunks |-> chunks[id]]
  BY DEF chunk_documents
<1> QED BY <1>2, <1>3, <1>4 DEF Content

\* A matching marker can be trusted: an early return serves the corpus.
LEMMA TrustedMarker ==
    ASSUME IInv, pc = "compare", UpToDate
    PROVE  ~interrupted /\ Content = chunks
<1>1. chunks = chunk_documents(disk) /\ marker = Fingerprint(disk)
  BY DEF IInv, Loaded, UpToDate, Fingerprint
<1>2. ~interrupted
  BY <1>1 DEF IInv, Interrupted
<1>3. marker # None
  BY <1>1, CorpusAssumption DEF IInv, DiskDeployed
<1>4. hash_chunks(Content) = hash_chunks(chunks)
  BY <1>2, <1>3 DEF IInv, Ingested, UpToDate
<1>5. /\ Content = [id \in DOMAIN Content |-> Content[id]]
      /\ chunks = [id \in DOMAIN chunks |-> chunks[id]]
  BY <1>1 DEF Content, chunk_documents
<1> QED BY <1>2, <1>4, <1>5, FingerprintInjective

-----------------------------------------------------------------------------
LEMMA InitInv == Init => IInv
BY CorpusAssumption
   DEF Init, IInv, PCType, DiskDeployed, Loaded, Filled, Ingested, Interrupted

LEMMA StepInv ==
    ASSUME RollbackWhenInterrupted = FALSE, IInv, [Next]_vars
    PROVE  IInv'
<1> USE DEF IInv, PCType
<1>1. ASSUME NEW corpus \in Corpora, EditCorpus(corpus) PROVE IInv'
  <2>1. Content' = Content
    BY <1>1 DEF EditCorpus, store, Content
  <2>2. DiskDeployed'
    BY <1>1 DEF EditCorpus, DiskDeployed, store
  <2>3. Interrupted'
    <3>1. Fingerprint(disk)' = Fingerprint(corpus)
      <4>1. disk' = corpus
        BY <1>1 DEF EditCorpus
      <4>2. Fingerprint(disk)' = Fingerprint(disk')
        BY Zenon DEF Fingerprint, chunk_documents, chunk_ids, hash_chunks
      <4> QED BY <4>1, <4>2, Zenon
    <3>2. Fingerprint(corpus) \notin {None, Torn}
      BY CorpusAssumption
    <3>3. interrupted => Fingerprint(corpus) \notin deployed
      BY <1>1 DEF EditCorpus
    <3> QED
      BY <1>1, <3>1, <3>2, <3>3 DEF EditCorpus, Deployable, Interrupted, DiskDeployed, store
  <2> QED
    BY <1>1, <2>1, <2>2, <2>3
       DEF EditCorpus, Deployable, Loaded, Filled, Ingested, store, process
<1>2. ASSUME NEW embedder \in Embedders, Configure(embedder) PROVE IInv'
  <2>1. Content' = Content
    BY <1>2 DEF Configure, store, Content
  <2> QED
    BY <1>2, <2>1
       DEF Configure, DiskDeployed, Loaded, Filled, Ingested, Interrupted, store, process
<1>3. CASE Load
  <2>1. Content' = Content
    BY <1>3 DEF Load, store, Content
  <2> QED
    BY <1>3, <2>1
       DEF Load, DiskDeployed, Loaded, Filled, Ingested, Interrupted, deployment, store
<1>4. CASE Skip
  <2>1. Content' = Content
    BY <1>4 DEF Skip, store, Content
  <2>2. ~interrupted /\ Content = chunks
    BY <1>4, TrustedMarker DEF Skip
  <2>3. hash_chunks(chunks) = marker
    BY <1>4 DEF Skip, UpToDate
  <2>4. marker \in deployed
    BY <1>4, <2>3 DEF Skip, DiskDeployed, Loaded, Fingerprint
  <2> QED
    BY <1>4, <2>1, <2>2, <2>3, <2>4
       DEF Skip, DiskDeployed, Loaded, Filled, Ingested, Interrupted, deployment, store, process
<1>5. CASE ResetCollection
  <2>1. hash_chunks(chunks) = Fingerprint(disk)
    BY <1>5 DEF ResetCollection, Loaded, Fingerprint
  <2>2. hash_chunks(chunks) \notin {marker, served}
    BY <1>5, <2>1 DEF ResetCollection, UpToDate, Ingested, Interrupted
  <2>3. DOMAIN collection' = {}
    BY <1>5 DEF ResetCollection, NoChunks
  <2> QED
    BY <1>5, <2>2, <2>3
       DEF ResetCollection, DiskDeployed, Loaded, Filled, Ingested, Interrupted,
           deployment, process
<1>6. CASE AddDocuments
  <2>1. Content' = chunks
    BY <1>6, AddingToEmpty DEF AddDocuments, Loaded, Filled
  <2> QED
    BY <1>6, <2>1
       DEF AddDocuments, DiskDeployed, Loaded, Filled, Ingested, Interrupted,
           deployment, process
<1>7. CASE EmbeddingFails
  <2>1. Fingerprint(disk) = hash_chunks(chunks)
    BY <1>7 DEF EmbeddingFails, Loaded, Fingerprint
  <2> QED
    BY <1>7, <2>1
       DEF EmbeddingFails, DiskDeployed, Loaded, Filled, Ingested, Interrupted,
           deployment, store, process
<1>8. CASE WriteMarker
  <2>1. hash_chunks(chunks) = Fingerprint(disk)
    BY <1>8 DEF WriteMarker, Loaded, Fingerprint
  <2>2. Content' = chunks
    BY <1>8 DEF WriteMarker, Filled, Content
  <2>3. hash_chunks(Content)' = hash_chunks(chunks)
    BY <2>2 DEF hash_chunks
  <2> QED
    BY <1>8, <2>1, <2>2, <2>3
       DEF WriteMarker, DiskDeployed, Loaded, Filled, Ingested, Interrupted,
           deployment, process
<1>9. CASE Crash
  <2>1. Content' = Content
    BY <1>9 DEF Crash, Content
  <2>2. pc \in {"add", "mark"} => hash_chunks(chunks) = Fingerprint(disk)
    BY DEF Loaded, Fingerprint
  <2>3. Fingerprint(disk) # Torn
    BY CorpusAssumption DEF DiskDeployed
  <2> QED
    BY <1>9, <2>1, <2>2, <2>3
       DEF Crash, DiskDeployed, Loaded, Filled, Ingested, Interrupted, deployment, process
<1>10. CASE UNCHANGED vars
  BY <1>10 DEF vars, deployment, store, process, DiskDeployed, Loaded, Filled, Ingested,
               Interrupted, Content
<1> QED
  BY <1>1, <1>2, <1>3, <1>4, <1>5, <1>6, <1>7, <1>8, <1>9, <1>10 DEF Next

-----------------------------------------------------------------------------
\* Whatever was deployed, crashed or failed before, a service that is up holds the
\* corpus it was started on, if no deployment rolls back over an interrupted ingestion.
THEOREM StoreServesCorpus ==
    ASSUME RollbackWhenInterrupted = FALSE
    PROVE  Spec => []ServesCorpus
<1>1. IInv => ServesCorpus
  BY DEF IInv, Filled, ServesCorpus
<1> QED BY <1>1, InitInv, StepInv, PTL DEF Spec

\* Under the same condition, a corpus that was served last is never embedded again.
THEOREM NoNeedlessEmbedding ==
    ASSUME RollbackWhenInterrupted = FALSE
    PROVE  Spec => UnchangedRestartIsFree
<1>1. IInv /\ ResetCollection => hash_chunks(chunks) # served
  <2> SUFFICES ASSUME IInv, ResetCollection PROVE hash_chunks(chunks) # served
    OBVIOUS
  <2>1. hash_chunks(chunks) = Fingerprint(disk)
    BY DEF ResetCollection, IInv, Loaded, Fingerprint
  <2> QED
    BY <2>1 DEF ResetCollection, UpToDate, IInv, Ingested, Interrupted
<1> QED BY <1>1, InitInv, StepInv, PTL DEF Spec, UnchangedRestartIsFree

-----------------------------------------------------------------------------
EmptyWhenAdding == pc = "add" => DOMAIN collection = {}

\* With or without rollbacks, the vectors of the collection are of one embeddings
\* model: the collection is empty whenever chunks are added to it.
THEOREM VectorsAreOfOneModel == Spec => []OneEmbedding
<1> DEFINE EInv == EmptyWhenAdding /\ OneEmbedding
<1>1. Init => EInv
  BY DEF Init, EmptyWhenAdding, OneEmbedding, NoChunks
<1>2. EInv /\ [Next]_vars => EInv'
  <2> SUFFICES ASSUME EInv, [Next]_vars PROVE EInv'
    OBVIOUS
  <2>1. CASE ResetCollection
    BY <2>1 DEF ResetCollection, NoChunks, EmptyWhenAdding, OneEmbedding
  <2>2. CASE AddDocuments
    <3>1. /\ DOMAIN collection = {}
          /\ DOMAIN Embedded = DOMAIN chunks
          /\ collection' = Upsert(Embedded, collection)
      BY <2>2 DEF AddDocuments, Embedded, EmptyWhenAdding
    <3>2. DOMAIN collection' = DOMAIN chunks
      BY <3>1 DEF Upsert
    <3>3. ASSUME NEW id \in DOMAIN chunks PROVE collection'[id].by = embeddings
      <4>1. collection'[id] = Embedded[id]
        BY <3>1, <3>3 DEF Upsert
      <4>2. Embedded[id] = [text |-> chunks[id], by |-> embeddings]
        BY <3>3 DEF Embedded
      <4> QED BY <4>1, <4>2
    <3> QED
      BY <2>2, <3>2, <3>3 DEF AddDocuments, EmptyWhenAdding, OneEmbedding
  <2>3. ASSUME UNCHANGED collection, pc' # "add" \/ pc' = pc PROVE EInv'
    BY <2>3 DEF EmptyWhenAdding, OneEmbedding
  <2> QED
    BY <2>1, <2>2, <2>3
       DEF Next, EditCorpus, Configure, Load, Skip, EmbeddingFails, WriteMarker, Crash,
           vars, store
<1> QED BY <1>1, <1>2, PTL DEF Spec
-----------------------------------------------------------------------------
\* What TypeOK rests on: an ingestion is of the corpus that is deployed.
TypeInv ==
    /\ TypeOK
    /\ Loaded
    /\ Fingerprint(disk) \in deployed

\* A chunk that is added belongs to the corpus on disk.
LEMMA UpsertTypes ==
    ASSUME TypeInv, AddDocuments
    PROVE  /\ DOMAIN collection' \subseteq UNION {chunk_ids(c) : c \in Corpora}
           /\ \A id \in DOMAIN collection' : collection'[id].by \in Embedders
<1>1. /\ DOMAIN chunks = chunk_ids(disk)
      /\ disk \in Corpora
  BY DEF TypeInv, TypeOK, Loaded, AddDocuments, chunk_documents
<1>2. /\ DOMAIN Embedded = DOMAIN chunks
      /\ collection' = Upsert(Embedded, collection)
  BY DEF Embedded, AddDocuments
<1>3. DOMAIN collection' = DOMAIN chunks \cup DOMAIN collection
  BY <1>2 DEF Upsert
<1>4. DOMAIN collection' \subseteq UNION {chunk_ids(c) : c \in Corpora}
  BY <1>1, <1>3 DEF TypeInv, TypeOK
<1>5. ASSUME NEW id \in DOMAIN collection' PROVE collection'[id].by \in Embedders
  <2>1. CASE id \in DOMAIN chunks
    <3>1. collection'[id] = Embedded[id]
      BY <1>2, <1>3, <2>1 DEF Upsert
    <3>2. Embedded[id] = [text |-> chunks[id], by |-> embeddings]
      BY <2>1 DEF Embedded
    <3> QED BY <3>1, <3>2 DEF TypeInv, TypeOK
  <2>2. CASE id \notin DOMAIN chunks
    <3>1. id \in DOMAIN collection /\ collection'[id] = collection[id]
      BY <1>2, <1>3, <1>5, <2>2 DEF Upsert
    <3> QED BY <3>1 DEF TypeInv, TypeOK
  <2> QED BY <2>1, <2>2
<1> QED BY <1>4, <1>5

LEMMA StepTypes == TypeInv /\ [Next]_vars => TypeInv'
<1> SUFFICES ASSUME TypeInv, [Next]_vars PROVE TypeInv'
  OBVIOUS
<1> USE DEF TypeInv, TypeOK
<1>1. ASSUME NEW corpus \in Corpora, EditCorpus(corpus) PROVE TypeInv'
  <2>1. Fingerprint(disk)' = Fingerprint(corpus)
    <3>1. disk' = corpus
      BY <1>1 DEF EditCorpus
    <3>2. Fingerprint(disk)' = Fingerprint(disk')
      BY Zenon DEF Fingerprint, chunk_documents, chunk_ids, hash_chunks
    <3> QED BY <3>1, <3>2, Zenon
  <2> QED BY <1>1, <2>1 DEF EditCorpus, Deployable, Loaded, store, process
<1>2. ASSUME NEW embedder \in Embedders, Configure(embedder) PROVE TypeInv'
  BY <1>2 DEF Configure, Loaded, store, process
<1>3. CASE Load
  BY <1>3 DEF Load, Loaded, deployment, store
<1>4. pc \in {"compare", "add", "mark"} => hash_chunks(chunks) = Fingerprint(disk)
  BY DEF Loaded, Fingerprint
<1>5. CASE Skip
  BY <1>4, <1>5 DEF Skip, Loaded, deployment, store, process
<1>6. CASE ResetCollection
  BY <1>6 DEF ResetCollection, NoChunks, Loaded, deployment, process
<1>7. CASE AddDocuments
  BY <1>7, UpsertTypes DEF AddDocuments, Loaded, deployment, process
<1>8. CASE EmbeddingFails
  BY <1>8 DEF EmbeddingFails, Loaded, deployment, store, process
<1>9. CASE WriteMarker
  BY <1>4, <1>9 DEF WriteMarker, Loaded, deployment, process
<1>10. CASE Crash
  BY <1>10 DEF Crash, Loaded, deployment, process
<1>11. CASE UNCHANGED vars
  BY <1>11 DEF vars, Loaded, deployment, store, process
<1> QED
  BY <1>1, <1>2, <1>3, <1>5, <1>6, <1>7, <1>8, <1>9, <1>10, <1>11 DEF Next

(***************************************************************************)
(* Type correctness, with or without rollbacks: every chunk in the store   *)
(* is one of some corpus and was embedded by some embeddings object; the   *)
(* marker is the fingerprint of a corpus, torn, or not there; and only a   *)
(* corpus that was deployed is ever served (replace_all's three steps and  *)
(* the starts around them).                                                *)
(***************************************************************************)
THEOREM StoreTypes == Spec => []TypeOK
<1>1. Init => TypeInv
  BY DEF Init, TypeInv, TypeOK, Loaded, NoChunks
<1>2. TypeInv => TypeOK
  BY DEF TypeInv
<1> QED BY <1>1, <1>2, StepTypes, PTL DEF Spec
=============================================================================
