----------------------------- MODULE IngestTxn ------------------------------
(***************************************************************************)
(* The transaction in which run_job stores one document                    *)
(* (pg_raggraph_core/src/ingest/run.rs), run by several writers against    *)
(* one database, with the administration functions that delete under it.   *)
(*                                                                         *)
(* PostgreSQL is modelled at READ COMMITTED, the level both deployments    *)
(* use: a statement sees what is committed when it starts.  Of its locks,  *)
(* the two that order these transactions are kept:                         *)
(*   - the UNIQUE index on documents.content_hash, which makes an INSERT   *)
(*     wait for another transaction that inserted the same hash;           *)
(*   - the KEY SHARE lock an INSERT takes on its namespaces row for the    *)
(*     foreign key, which makes a DELETE of that row wait.                 *)
(* The entities and relationships of a chunk are one step here.            *)
(***************************************************************************)
EXTENDS Naturals

CONSTANTS
    Writers,        \* connections that run run_job
    Namespaces,     \* names a namespace may have
    Hashes,         \* content hashes of the sources
    NChunks,        \* chunks of every source (0 chunks is an Err)
    NoDoc,          \* no document has this hash
    Extension,      \* TRUE: SpiPgClient in a bgworker; FALSE: TokioPgClient
    Administered    \* TRUE: namespaces and documents are also dropped

ASSUME IngestTxnAssumption ==
    /\ NChunks \in Nat \ {0}
    /\ NoDoc \notin [ns : Namespaces, chunks : 0..NChunks]
    /\ Extension \in BOOLEAN
    /\ Administered \in BOOLEAN

VARIABLES
    \* committed state
    documents,      \* per hash, the document: its namespace and chunk count
    namespaces,     \* rows of pgrg.namespaces
    \* per writer: where run_job is, its request, whether insert_document
    \* inserted a row, chunks stored with their extraction so far
    phase, req, wrote, nchunks,
    \* namespace_drop(n, false) calls between their check and their DELETE
    dropping

tables == <<documents, namespaces>>
local  == <<phase, req, wrote, nchunks>>
vars   == <<documents, namespaces, phase, req, wrote, nchunks, dropping>>

Request  == [ns : Namespaces, hash : Hashes]
Document == [ns : Namespaces, chunks : 0..NChunks]

\* present, absent: what the test for the hash said.
\* raised: run_job returns Err and the transaction is healthy.
\* refused: the server rejected a statement and the transaction is aborted.
Open  == {"begun", "present", "absent", "writing", "extracting", "raised", "refused"}
Ended == {"completed", "skipped", "failed", "died"}

Init ==
    /\ documents = [h \in Hashes |-> NoDoc]
    /\ namespaces \in SUBSET Namespaces
    /\ phase = [w \in Writers |-> "idle"]
    /\ req \in [Writers -> Request]
    /\ wrote = [w \in Writers |-> FALSE]
    /\ nchunks = [w \in Writers |-> 0]
    /\ dropping = {}

-----------------------------------------------------------------------------
(* run_job *)

Goto(w, p) == phase' = [phase EXCEPT ![w] = p]

Stored(r) == documents[r.hash] # NoDoc /\ documents[r.hash].ns = r.ns

\* Mutation: no UNIQUE index on content_hash.
Contended_never(w, h) == FALSE

\* The uncommitted row of another writer that an INSERT of hash h waits for.
Contended(w, h) ==
    \E v \in Writers \ {w} : phase[v] \in Open /\ wrote[v] /\ req[v].hash = h

\* Mutation: documents.namespace without a foreign key.
Referenced_never(n) == FALSE

\* KEY SHARE on the row of namespace n.
Referenced(n) == \E w \in Writers : phase[w] \in Open /\ wrote[w] /\ req[w].ns = n

\* BEGIN, for a job that was just claimed.
begin(w, r) ==
    /\ phase[w] \notin Open
    /\ Goto(w, "begun")
    /\ req' = [req EXCEPT ![w] = r]
    /\ wrote' = [wrote EXCEPT ![w] = FALSE]
    /\ nchunks' = [nchunks EXCEPT ![w] = 0]
    /\ UNCHANGED <<tables, dropping>>

\* Mutation: the test forgets the namespace.
document_exists_by_hash_global(w) ==
    /\ phase[w] = "begun"
    /\ Goto(w, IF documents[req[w].hash] # NoDoc THEN "present" ELSE "absent")
    /\ UNCHANGED <<tables, req, wrote, nchunks, dropping>>

\* Mutation: no incremental skip.
document_exists_by_hash_never(w) ==
    /\ phase[w] = "begun"
    /\ Goto(w, "absent")
    /\ UNCHANGED <<tables, req, wrote, nchunks, dropping>>

\* SkippedDuplicate, or on to chunking and embedding.  The test is on the
\* namespace and the hash.
document_exists_by_hash(w) ==
    /\ phase[w] = "begun"
    /\ Goto(w, IF Stored(req[w]) THEN "present" ELSE "absent")
    /\ UNCHANGED <<tables, req, wrote, nchunks, dropping>>

\* run_job's Err: the source cannot be read (begun); it is not UTF-8, has no
\* chunks or cannot be embedded (absent); the provider or the embedding of an
\* entity name fails after a chunk was inserted (extracting).
raise(w) ==
    /\ phase[w] \in {"begun", "absent", "extracting"}
    /\ Goto(w, "raised")
    /\ UNCHANGED <<tables, req, wrote, nchunks, dropping>>

\* Mutation: ON CONFLICT (content_hash) DO UPDATE.
insert_document_upsert(w) ==
    /\ phase[w] = "absent"
    /\ ~Contended(w, req[w].hash)
    /\ req[w].ns \in namespaces
    /\ Goto(w, "writing")
    /\ wrote' = [wrote EXCEPT ![w] = TRUE]
    /\ UNCHANGED <<tables, req, nchunks, dropping>>

\* INSERT ... ON CONFLICT (content_hash) DO NOTHING; the index is on the hash
\* alone.  A row that is inserted needs its namespace (foreign key).
insert_document(w) ==
    /\ phase[w] = "absent"
    /\ ~Contended(w, req[w].hash)
    /\ \/ /\ documents[req[w].hash] # NoDoc
          /\ Goto(w, "writing")
          /\ UNCHANGED wrote
       \/ /\ documents[req[w].hash] = NoDoc
          /\ req[w].ns \in namespaces
          /\ Goto(w, "writing")
          /\ wrote' = [wrote EXCEPT ![w] = TRUE]
       \/ /\ documents[req[w].hash] = NoDoc
          /\ req[w].ns \notin namespaces
          /\ Goto(w, "refused")
          /\ UNCHANGED wrote
    /\ UNCHANGED <<tables, req, nchunks, dropping>>

\* Mutation: chunks.document_id without a foreign key.
insert_chunk_unchecked(w) ==
    /\ phase[w] = "writing"
    /\ nchunks[w] < NChunks
    /\ Goto(w, "extracting")
    /\ UNCHANGED <<tables, req, wrote, nchunks, dropping>>

\* Mutation: one chunk too many.
insert_chunk_past_end(w) ==
    /\ phase[w] = "writing"
    /\ nchunks[w] <= NChunks
    /\ Goto(w, IF wrote[w] THEN "extracting" ELSE "refused")
    /\ UNCHANGED <<tables, req, wrote, nchunks, dropping>>

\* The chunk names the id run_job minted for the document: if the document's
\* INSERT did nothing, no row has that id and the foreign key refuses it.
insert_chunk(w) ==
    /\ phase[w] = "writing"
    /\ nchunks[w] < NChunks
    /\ Goto(w, IF wrote[w] THEN "extracting" ELSE "refused")
    /\ UNCHANGED <<tables, req, wrote, nchunks, dropping>>

\* Entities, chunk_entities and relationships of the chunk just inserted: all
\* of them, or the server refuses one (a link to an entity that lost its row, a
\* deadlock: EntityResolution).
persist_chunk_extraction(w) ==
    /\ phase[w] = "extracting"
    /\ \/ /\ Goto(w, "writing")
          /\ nchunks' = [nchunks EXCEPT ![w] = @ + 1]
       \/ /\ Goto(w, "refused")
          /\ UNCHANGED nchunks
    /\ UNCHANGED <<tables, req, wrote, dropping>>

\* COMMIT makes the writer's rows visible.
Publish(w) ==
    documents' = IF wrote[w]
                 THEN [documents EXCEPT ![req[w].hash] =
                          [ns |-> req[w].ns, chunks |-> nchunks[w]]]
                 ELSE documents

commit(w) ==
    /\ phase[w] = "writing"
    /\ nchunks[w] = NChunks
    /\ Publish(w)
    /\ Goto(w, "completed")
    /\ UNCHANGED <<namespaces, req, wrote, nchunks, dropping>>

\* Ok(SkippedDuplicate): the COMMIT of a transaction that wrote nothing.
commit_skipped(w) ==
    /\ phase[w] = "present"
    /\ Goto(w, "skipped")
    /\ UNCHANGED <<tables, req, wrote, nchunks, dropping>>

\* Mutation: COMMIT whatever run_job returned.
rollback_commits(w) ==
    /\ ~Extension
    /\ phase[w] \in {"raised", "refused"}
    /\ Publish(w)
    /\ Goto(w, "failed")
    /\ UNCHANGED <<namespaces, req, wrote, nchunks, dropping>>

\* Sidecar: process_one sends ROLLBACK for every Err.
rollback(w) ==
    /\ ~Extension
    /\ phase[w] \in {"raised", "refused"}
    /\ Goto(w, "failed")
    /\ UNCHANGED <<tables, req, wrote, nchunks, dropping>>

\* Extension: the closure turns Err into a JobOutcome and returns, so that
\* BackgroundWorker::transaction commits; SpiPgClient::rollback does nothing.
commit_after_err(w) ==
    /\ Extension
    /\ phase[w] = "raised"
    /\ Publish(w)
    /\ Goto(w, "failed")
    /\ UNCHANGED <<namespaces, req, wrote, nchunks, dropping>>

\* The connection or the process is gone and the transaction with it.  In the
\* extension a refused statement is an ERROR that ends the bgworker.
die(w) ==
    /\ phase[w] \in Open
    /\ Goto(w, "died")
    /\ UNCHANGED <<tables, req, wrote, nchunks, dropping>>

-----------------------------------------------------------------------------
(* Administration: the SQL functions of the extension, or the same DELETEs   *)
(* sent by hand                                                              *)

namespace_create(n) ==
    /\ namespaces' = namespaces \union {n}
    /\ UNCHANGED <<documents, local, dropping>>

\* Mutation: documents.namespace without ON DELETE CASCADE.
DeleteNamespace_alone(n) ==
    /\ ~Referenced(n)
    /\ namespaces' = namespaces \ {n}
    /\ UNCHANGED documents

\* DELETE FROM pgrg.namespaces and the cascades of its foreign keys.
DeleteNamespace(n) ==
    /\ ~Referenced(n)
    /\ namespaces' = namespaces \ {n}
    /\ documents' = [h \in Hashes |->
          IF documents[h] # NoDoc /\ documents[h].ns = n THEN NoDoc ELSE documents[h]]

namespace_drop_cascade(n) ==
    /\ Administered
    /\ DeleteNamespace(n)
    /\ UNCHANGED <<local, dropping>>

\* cascade = false: an error when the namespace has documents ...
namespace_drop_check(n) ==
    /\ Administered
    /\ \A h \in Hashes : ~Stored([ns |-> n, hash |-> h])
    /\ dropping' = dropping \union {n}
    /\ UNCHANGED <<tables, local>>

\* ... and the same DELETE, a statement later, when it had none.
namespace_drop_delete(n) ==
    /\ n \in dropping
    /\ DeleteNamespace(n)
    /\ dropping' = dropping \ {n}
    /\ UNCHANGED local

delete_document(h) ==
    /\ Administered
    /\ documents[h] # NoDoc
    /\ documents' = [documents EXCEPT ![h] = NoDoc]
    /\ UNCHANGED <<namespaces, local, dropping>>

-----------------------------------------------------------------------------

\* A statement of run_job, or of the transaction around it.
Step(w) ==
    \/ document_exists_by_hash(w)
    \/ raise(w)
    \/ insert_document(w)
    \/ insert_chunk(w)
    \/ persist_chunk_extraction(w)
    \/ commit(w)
    \/ commit_skipped(w)
    \/ rollback(w)
    \/ commit_after_err(w)

Admin ==
    \/ \E n \in Namespaces : namespace_create(n)
    \/ \E n \in Namespaces : namespace_drop_cascade(n)
    \/ \E n \in Namespaces : namespace_drop_check(n)
    \/ \E n \in Namespaces : namespace_drop_delete(n)
    \/ \E h \in Hashes : delete_document(h)

Next ==
    \/ \E w \in Writers, r \in Request : begin(w, r)
    \/ \E w \in Writers : Step(w)
    \/ \E w \in Writers : die(w)
    \/ Admin

Spec == Init /\ [][Next]_vars

-----------------------------------------------------------------------------
(* Properties *)

\* Every variable has its type.
TypeOK ==
    /\ documents \in [Hashes -> Document \union {NoDoc}]
    /\ namespaces \subseteq Namespaces
    /\ phase \in [Writers -> Open \union Ended \union {"idle"}]
    /\ req \in [Writers -> Request]
    /\ wrote \in [Writers -> BOOLEAN]
    /\ nchunks \in [Writers -> 0..NChunks]
    /\ dropping \subseteq Namespaces

\* "Per-document transaction atomicity": no reader sees a document without
\* all of its chunks.
WholeDocuments ==
    \A h \in Hashes : documents[h] # NoDoc => documents[h].chunks = NChunks

\* No document, committed or about to be, is left without its namespace,
\* whichever way drops and inserts interleave.
ReferencesHold ==
    /\ \A h \in Hashes : documents[h] # NoDoc => documents[h].ns \in namespaces
    /\ \A w \in Writers : (phase[w] \in Open /\ wrote[w]) => req[w].ns \in namespaces

\* run_job says Ok of a document that is in the database when it decides so,
\* whoever stored it: Completed when its COMMIT ends, SkippedDuplicate when its
\* test ends, never of a document that an ON CONFLICT, or a drop, made
\* disappear.  (A document deleted between the test and the COMMIT that follows
\* is reported as skipped all the same.)
OkMeansStored ==
    [][ \A w \in Writers :
          (phase'[w] # phase[w] /\ phase'[w] \in {"completed", "present"})
              => Stored(req[w])' ]_vars

\* The same content is written once at a time: an uncommitted row has its
\* hash to itself, so that COMMIT never overwrites a document.
OneRowPerHash ==
    \A w \in Writers :
        (phase[w] \in Open /\ wrote[w])
            => documents[req[w].hash] = NoDoc /\ ~Contended(w, req[w].hash)

\* The implemented contract: whole documents when Err rolls back ...
Store == INSTANCE DocumentStore WITH Sizes <- {NChunks}
ImplementsStore == Store!Spec

\* ... and documents of any size when it commits.
PartialStore == INSTANCE DocumentStore WITH Sizes <- 0..NChunks
ImplementsPartialStore == PartialStore!Spec

\* "the ON CONFLICT (content_hash) clause would otherwise turn the second
\* insert into SkippedDuplicate": content that is already stored in the
\* namespace is never refused.
DuplicatesAreSkipped ==
    [][ \A w \in Writers :
          (phase[w] # "refused" /\ phase'[w] = "refused") => ~Stored(req[w]) ]_vars
=============================================================================
