---------------------------- MODULE VectorStores ----------------------------
(***************************************************************************)
(* RagLeap's documents over the eleven vector backends: ingest_text,       *)
(* delete_document, update_document and search, by several threads, with   *)
(* remote calls that fail and processes that die.                          *)
(*                                                                         *)
(* What a backend is, as far as this goes, is a record:                    *)
(*   text  - where a chunk's text lives: in a local row beside the vector, *)
(*           in the vector itself, or with it in one SQL table;            *)
(*   locked - whether a lock is held for the whole operation;              *)
(*   file  - whether the index is a file, rewritten after every change;    *)
(*   lazy  - whether the index is unset until init_schema has run.         *)
(* A chunk is <<document, index>>; the index holds <<id, chunk>> and so do *)
(* the rows, the id being a row number (FAISS) or the chunk's own key.     *)
(***************************************************************************)
EXTENDS Integers, FiniteSets

CONSTANTS
    VThreads, VDocs,
    NChunks,        \* chunks a document is cut into
    Backends,       \* the backends to check, records as below
    MaxRemoteFaults, MaxRestarts,   \* bounds
    NoThread

Trait(text, locked, file, lazy) ==
    [text |-> text, locked |-> locked, file |-> file, lazy |-> lazy]

PgVector   == Trait("sql", FALSE, FALSE, FALSE)
Faiss      == Trait("row", TRUE, TRUE, TRUE)
Pinecone   == Trait("row", TRUE, FALSE, TRUE)
Qdrant     == Trait("row", TRUE, FALSE, TRUE)
Milvus     == Trait("row", TRUE, FALSE, TRUE)
Weaviate   == Trait("row", TRUE, FALSE, TRUE)
Chroma     == Trait("vector", TRUE, FALSE, TRUE)
LanceDB    == Trait("vector", TRUE, FALSE, TRUE)
Upstash    == Trait("vector", TRUE, FALSE, TRUE)
Redis      == Trait("vector", TRUE, FALSE, TRUE)
OpenSearch == Trait("vector", FALSE, FALSE, FALSE)

AllBackends == {PgVector, Faiss, Pinecone, Qdrant, Milvus, Weaviate, Chroma,
                LanceDB, Upstash, Redis, OpenSearch}

ASSUME VectorAssumption == Backends \subseteq AllBackends /\ NChunks \in Nat

VARIABLES
    backend,
    registered,     \* documents with a registry row
    rows, vecs,     \* text rows, and the index: sets of <<id, chunk>>
    indexFile,      \* the index as last written to disk
    lastRowId,
    opened,         \* init_schema has run in this process
    lockedBy,
    op,             \* per thread: its operation
    fate,           \* unused, ingesting, stored, touched by a delete, gone
    kept,           \* the chunks ingest_text reported as stored
    remoteFaults, restarts

vecVars == <<backend, registered, rows, vecs, indexFile, lastRowId, opened, lockedBy,
             op, fate, kept, remoteFaults, restarts>>

IdleOp == [pc |-> "idle", doc |-> NoThread, next |-> 1, stored |-> {}, clean |-> FALSE,
           then |-> "return"]

VecInit ==
    /\ backend \in Backends
    /\ registered = {} /\ rows = {} /\ vecs = {} /\ indexFile = {} /\ lastRowId = 0
    /\ opened = TRUE /\ lockedBy = NoThread
    /\ op = [t \in VThreads |-> IdleOp]
    /\ fate = [d \in VDocs |-> "unused"] /\ kept = [d \in VDocs |-> {}]
    /\ remoteFaults = 0 /\ restarts = 0

----------------------------------------------------------------------------
Free == ~backend.locked \/ lockedBy = NoThread
Hold(t) == lockedBy' = IF backend.locked THEN t ELSE NoThread
Release == lockedBy' = NoThread
Ready == opened \/ ~backend.lazy

Chunk(t) == <<op[t].doc, op[t].next>>
OfDoc(d) == {x \in rows \cup vecs : x[2][1] = d}

(***************************************************************************)
(* ingest_text: a new id, the document first, then chunk by chunk.         *)
(***************************************************************************)
IngestText(t) ==
    /\ op[t].pc \in {"idle", "ingest"} /\ Free
    /\ \E d \in VDocs :
        /\ fate[d] = "unused"
        /\ fate' = [fate EXCEPT ![d] = "ingesting"]
        /\ registered' = registered \cup {d}
        /\ op' = [op EXCEPT ![t] = [IdleOp EXCEPT !.pc = "embed", !.doc = d]]
    /\ UNCHANGED <<backend, rows, vecs, indexFile, lastRowId, opened, lockedBy, kept,
                   remoteFaults, restarts>>

\* A chunk whose embedding fails is skipped; when all of them do, the
\* document is deleted again and the call raises.
EmbedChunk(t) ==
    /\ op[t].pc = "embed"
    /\ \/ /\ op[t].next <= NChunks
          /\ \/ op' = [op EXCEPT ![t].next = @ + 1]
             \/ op' = [op EXCEPT ![t].pc = "put"]
          /\ UNCHANGED <<fate, kept>>
       \/ /\ op[t].next > NChunks /\ op[t].stored = {}
          /\ op' = [op EXCEPT ![t].pc = "delete", ![t].clean = Ready]
          /\ fate' = [fate EXCEPT ![op[t].doc] = "touched"]
          /\ UNCHANGED kept
       \/ /\ op[t].next > NChunks /\ op[t].stored # {}
          /\ op' = [op EXCEPT ![t] = IdleOp]
          /\ kept' = [kept EXCEPT ![op[t].doc] = op[t].stored]
          /\ fate' = [fate EXCEPT ![op[t].doc] = IF @ = "ingesting" THEN "stored" ELSE @]
    /\ UNCHANGED <<backend, registered, rows, vecs, indexFile, lastRowId, opened, lockedBy,
                   remoteFaults, restarts>>

Stored(t) == [op EXCEPT ![t].pc = "embed", ![t].next = @ + 1, ![t].stored = @ \cup {Chunk(t)}]

Raised(t) == [op EXCEPT ![t] = IdleOp]

\* As the code would be if row numbers were taken from the rows that exist.
NewRowIdReused(n) == Cardinality(rows) + 1

\* AUTOINCREMENT: a row number is never used again.
NewRowId(n) == n + 1

\* insert_chunk, first part: the row, committed by itself; or all of it
\* where the text is stored with the vector.
PutChunk(t) ==
    /\ op[t].pc = "put" /\ Free
    /\ \/ /\ backend.text = "row"
          /\ LET id == IF backend.file THEN NewRowId(lastRowId) ELSE Chunk(t) IN
             rows' = rows \cup {<<id, Chunk(t)>>}
          /\ lastRowId' = IF backend.file THEN NewRowId(lastRowId) ELSE lastRowId
          /\ op' = [op EXCEPT ![t].pc = "vector"]
          /\ Hold(t) /\ UNCHANGED vecs
       \/ /\ backend.text = "vector" /\ Ready
          /\ vecs' = vecs \cup {<<Chunk(t), Chunk(t)>>}
          /\ op' = Stored(t)
          /\ UNCHANGED <<rows, lastRowId, lockedBy>>
       \/ /\ backend.text = "sql" /\ op[t].doc \in registered
          /\ rows' = rows \cup {<<Chunk(t), Chunk(t)>>}
          /\ vecs' = vecs \cup {<<Chunk(t), Chunk(t)>>}
          /\ op' = Stored(t)
          /\ UNCHANGED <<lastRowId, lockedBy>>
       \/ /\ \/ backend.text = "vector" /\ ~Ready
             \/ backend.text = "sql" /\ op[t].doc \notin registered    \* foreign key
          /\ op' = Raised(t)
          /\ UNCHANGED <<rows, vecs, lastRowId, lockedBy>>
    /\ UNCHANGED <<backend, registered, indexFile, opened, fate, kept, remoteFaults, restarts>>

\* As the code would be if only deletes wrote the index file.
AfterInsertUnsaved(new) == indexFile

\* _save_index_if_persistent, at the end of insert_chunk.
AfterInsert(new) == IF backend.file THEN new ELSE indexFile

\* insert_chunk, second part, still under the lock.
PutVector(t) ==
    /\ op[t].pc = "vector"
    /\ \/ /\ Ready
          /\ vecs' = vecs \cup {x \in rows : x[2] = Chunk(t)}
          /\ indexFile' = AfterInsert(vecs')
          /\ op' = Stored(t)
       \/ /\ ~Ready
          /\ op' = Raised(t)
          /\ UNCHANGED <<vecs, indexFile>>
    /\ Release
    /\ UNCHANGED <<backend, registered, rows, lastRowId, opened, fate, kept, remoteFaults,
                   restarts>>

----------------------------------------------------------------------------
\* A delete that has everything of the document to take, and an open index.
IsClean(d) == Ready /\ fate[d] = "stored"

\* delete_document, and update_document, which goes on to ingest the text
\* under a new id.
DeleteDocument(t) ==
    /\ op[t].pc = "idle"
    /\ \E d \in VDocs, then \in {"return", "ingest"} :
        /\ fate[d] \in {"ingesting", "stored"}
        /\ op' = [op EXCEPT ![t] = [IdleOp EXCEPT !.pc = "delete", !.doc = d, !.then = then,
                                        !.clean = IsClean(d)]]
        /\ fate' = [fate EXCEPT ![d] = "touched"]
    /\ UNCHANGED <<backend, registered, rows, vecs, indexFile, lastRowId, opened, lockedBy, kept,
                   remoteFaults, restarts>>

Deleted(t) ==
    [op EXCEPT ![t] = IF op[t].then = "ingest" THEN [IdleOp EXCEPT !.pc = "ingest"] ELSE IdleOp]

Gone(t) == fate' = [fate EXCEPT ![op[t].doc] = IF op[t].clean THEN "gone" ELSE @]

\* First the vectors: the ones the rows name, or the document's.  An index
\* that is not open is passed over; only FAISS fails on it.
DeleteVectors(t) ==
    LET d == op[t].doc
        named == IF backend.text = "row" THEN {x \in vecs : \E r \in rows : r[1] = x[1] /\ r[2][1] = d}
                                         ELSE {x \in vecs : x[2][1] = d}
    IN
    /\ op[t].pc = "delete" /\ Free
    /\ \/ /\ backend.text # "sql" /\ ~(backend.file /\ ~Ready)
          /\ vecs' = IF Ready THEN vecs \ named ELSE vecs
          /\ op' = [op EXCEPT ![t].pc = "unregister"]
          /\ Hold(t)
          /\ UNCHANGED <<registered, rows, fate>>
       \/ /\ backend.text = "sql"
          /\ registered' = registered \ {d}
          /\ rows' = rows \ OfDoc(d) /\ vecs' = vecs \ OfDoc(d)
          /\ op' = Deleted(t) /\ Gone(t)
          /\ UNCHANGED lockedBy
       \/ /\ backend.file /\ ~Ready
          /\ op' = Raised(t)
          /\ UNCHANGED <<registered, rows, vecs, fate, lockedBy>>
    /\ UNCHANGED <<backend, indexFile, lastRowId, opened, kept, remoteFaults, restarts>>

\* Then the rows of the document and its chunks, in one commit.
Unregister(t) ==
    LET d == op[t].doc IN
    /\ op[t].pc = "unregister"
    /\ registered' = registered \ {d}
    /\ rows' = rows \ OfDoc(d)
    /\ IF backend.file
       THEN op' = [op EXCEPT ![t].pc = "save"] /\ UNCHANGED <<fate, lockedBy>>
       ELSE op' = Deleted(t) /\ Gone(t) /\ Release
    /\ UNCHANGED <<backend, vecs, indexFile, lastRowId, opened, kept, remoteFaults, restarts>>

SaveIndex(t) ==
    /\ op[t].pc = "save"
    /\ indexFile' = vecs
    /\ op' = Deleted(t) /\ Gone(t) /\ Release
    /\ UNCHANGED <<backend, registered, rows, vecs, lastRowId, opened, kept, remoteFaults,
                   restarts>>

\* An exception leaves the with-block: the lock is released and what was
\* committed stays.
RemoteCallFails(t) ==
    /\ remoteFaults < MaxRemoteFaults
    /\ \/ op[t].pc = "vector"
       \/ op[t].pc = "put" /\ Free /\ backend.text # "row"
       \/ op[t].pc = "delete" /\ Free
    /\ remoteFaults' = remoteFaults + 1
    /\ op' = Raised(t)
    /\ lockedBy' = IF lockedBy = t THEN NoThread ELSE lockedBy
    /\ UNCHANGED <<backend, registered, rows, vecs, indexFile, lastRowId, opened, fate, kept,
                   restarts>>

\* The process dies: rows are durable, remote indexes go on, a FAISS index
\* is what its file says.
Restart ==
    /\ restarts < MaxRestarts
    /\ restarts' = restarts + 1
    /\ op' = [t \in VThreads |-> IdleOp] /\ lockedBy' = NoThread
    /\ opened' = FALSE
    /\ vecs' = IF backend.file THEN indexFile ELSE vecs
    /\ fate' = [d \in VDocs |-> IF fate[d] = "ingesting" THEN "touched" ELSE fate[d]]
    /\ UNCHANGED <<backend, registered, rows, indexFile, lastRowId, kept, remoteFaults>>

InitSchema ==
    /\ ~opened /\ opened' = TRUE
    /\ UNCHANGED <<backend, registered, rows, vecs, indexFile, lastRowId, lockedBy, op, fate,
                   kept, remoteFaults, restarts>>

\* ingest_batch runs its items in threads at once, each as an ingest_text of its own.
VecNext ==
    \/ Restart \/ InitSchema
    \/ \E t \in VThreads :
        \/ IngestText(t) \/ EmbedChunk(t) \/ PutChunk(t) \/ PutVector(t) \/ DeleteDocument(t)
        \/ DeleteVectors(t) \/ Unregister(t) \/ SaveIndex(t) \/ RemoteCallFails(t)

VecSpec == VecInit /\ [][VecNext]_vecVars

----------------------------------------------------------------------------
\* search_dense: the vector found, and the text returned with it.  A vector
\* whose row is missing is skipped.
SearchDense ==
    IF ~Ready THEN {}
    ELSE IF backend.text = "row"
         THEN {<<p[1][2], p[2][2]>> : p \in {p \in vecs \X rows : p[1][1] = p[2][1]}}
         ELSE {<<v[2], v[2]>> : v \in vecs}

VecTypeOK ==
    /\ backend \in AllBackends /\ registered \subseteq VDocs
    /\ lockedBy \in VThreads \cup {NoThread} /\ lastRowId \in Nat
    /\ \A t \in VThreads : op[t].next \in 1..(NChunks + 1)
    /\ \A d \in VDocs : kept[d] \subseteq ({d} \X (1..NChunks))

(***************************************************************************)
(* A search returns with a vector the text it was made from, and nothing   *)
(* of a document that delete_document has reported deleted (after its      *)
(* ingestion ended, with the index open), whatever died, failed or ran at  *)
(* the same time, and whatever vectors a crash left without their rows.    *)
(***************************************************************************)
SearchIsHonest ==
    \A f \in SearchDense : f[1] = f[2] /\ fate[f[1][1]] # "gone"

(***************************************************************************)
(* Every chunk ingest_text reported as stored is found by searches until   *)
(* someone deletes its document, also after a restart.                     *)
(***************************************************************************)
StoredIsFound ==
    Ready => \A d \in VDocs : fate[d] = "stored" =>
        \A c \in kept[d] : <<c, c>> \in SearchDense

(***************************************************************************)
(* Searches of every backend find what was reported as stored and nothing  *)
(* that is gone, across failing remote calls, concurrent ingests and       *)
(* deletes, and restarts.                                                  *)
(***************************************************************************)
VectorStoresAreSound == SearchIsHonest /\ StoredIsFound
============================================================================
