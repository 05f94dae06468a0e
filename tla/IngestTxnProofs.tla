-------------------------- MODULE IngestTxnProofs ---------------------------
(***************************************************************************)
(* Theorems about IngestTxn, for every set of writers, namespaces and      *)
(* hashes, every number of chunks and both deployments.                    *)
(***************************************************************************)
EXTENDS IngestTxn, TLAPS

\* An open transaction that wrote no row has stored no chunk either; a run
\* that has not reached insert_document has written nothing.
WritesInOrder ==
    \A w \in Writers :
        /\ (phase[w] \in Open /\ ~wrote[w]) => nchunks[w] = 0
        /\ phase[w] \in {"begun", "absent"} => ~wrote[w]
        /\ phase[w] = "extracting" => wrote[w] /\ nchunks[w] < NChunks

ShapeInv == TypeOK /\ WritesInOrder

TxnInv ==
    /\ ShapeInv
    /\ OneRowPerHash
    /\ ReferencesHold

USE IngestTxnAssumption

-----------------------------------------------------------------------------

(* One step of run_job, of the end of its transaction or of an              *)
(* administration function keeps the types and the order of the writes.     *)
LEMMA ShapeStep ==
    ASSUME ShapeInv, [Next]_vars
    PROVE  ShapeInv'
<1> USE DEF ShapeInv, TypeOK, WritesInOrder, Open, Ended, Goto, tables, local
<1>1. ASSUME NEW w \in Writers, NEW r \in Request, begin(w, r) PROVE ShapeInv'
  BY <1>1 DEF begin
<1>2. ASSUME NEW w \in Writers, document_exists_by_hash(w) PROVE ShapeInv'
  BY <1>2 DEF document_exists_by_hash
<1>3. ASSUME NEW w \in Writers, raise(w) PROVE ShapeInv'
  BY <1>3 DEF raise
<1>4. ASSUME NEW w \in Writers, insert_document(w) PROVE ShapeInv'
  BY <1>4 DEF insert_document
<1>5. ASSUME NEW w \in Writers, insert_chunk(w) PROVE ShapeInv'
  BY <1>5 DEF insert_chunk
<1>6. ASSUME NEW w \in Writers, persist_chunk_extraction(w) PROVE ShapeInv'
  BY <1>6 DEF persist_chunk_extraction
<1>7. ASSUME NEW w \in Writers, Publish(w) PROVE documents' \in [Hashes -> Document \union {NoDoc}]
  BY <1>7 DEF Publish, Request, Document
<1>8. ASSUME NEW w \in Writers, commit(w) \/ commit_after_err(w) PROVE ShapeInv'
  BY <1>7, <1>8 DEF commit, commit_after_err
<1>9. ASSUME NEW w \in Writers, rollback(w) \/ commit_skipped(w) \/ die(w) PROVE ShapeInv'
  BY <1>9 DEF rollback, commit_skipped, die
<1>10. CASE Admin
  BY <1>10 DEF Admin, namespace_create, namespace_drop_cascade, namespace_drop_check,
               namespace_drop_delete, DeleteNamespace, delete_document
<1>11. CASE UNCHANGED vars
  BY <1>11 DEF vars
<1>12. QED
  BY <1>1, <1>2, <1>3, <1>4, <1>5, <1>6, <1>8, <1>9, <1>10, <1>11 DEF Next, Step

(* Every variable keeps its type.                                           *)
THEOREM TxnTypeCorrect == Spec => [](TypeOK /\ WritesInOrder)
<1>1. Init => ShapeInv
  BY DEF Init, ShapeInv, TypeOK, WritesInOrder, Open
<1>2. QED
  BY <1>1, ShapeStep, PTL DEF Spec, ShapeInv

-----------------------------------------------------------------------------

(* The row of an uncommitted document has its hash to itself and keeps its  *)
(* namespace alive.  INSERT waits for the unique index, DELETE waits for    *)
(* the KEY SHARE lock, and both facts are needed at once: a COMMIT keeps    *)
(* the references because the namespace of its row cannot have been dropped *)
(* under it.                                                                *)
LEMMA LocksStep ==
    ASSUME TxnInv, [Next]_vars
    PROVE  OneRowPerHash' /\ ReferencesHold'
<1> USE DEF TxnInv, ShapeInv, TypeOK, WritesInOrder, OneRowPerHash, ReferencesHold,
            Contended, Open, Ended, Goto, tables, local, Request, Document
<1> DEFINE Good == OneRowPerHash /\ ReferencesHold
<1>1. ASSUME NEW w \in Writers, NEW r \in Request, begin(w, r) PROVE Good'
  BY <1>1 DEF begin
<1>2. ASSUME NEW w \in Writers, document_exists_by_hash(w) PROVE Good'
  BY <1>2 DEF document_exists_by_hash
<1>3. ASSUME NEW w \in Writers, raise(w) PROVE Good'
  BY <1>3 DEF raise
<1>4. ASSUME NEW w \in Writers, insert_document(w) PROVE Good'
  <2>1. ReferencesHold'
    BY <1>4 DEF insert_document
  <2>2. OneRowPerHash'
    BY <1>4 DEF insert_document
  <2>3. QED
    BY <2>1, <2>2
<1>5. ASSUME NEW w \in Writers, insert_chunk(w) PROVE Good'
  BY <1>5 DEF insert_chunk
<1>6. ASSUME NEW w \in Writers, persist_chunk_extraction(w) PROVE Good'
  BY <1>6 DEF persist_chunk_extraction
<1>7. ASSUME NEW w \in Writers, commit(w) \/ commit_after_err(w) PROVE Good'
  <2>1. ReferencesHold'
    BY <1>7 DEF commit, commit_after_err, Publish
  <2>2. OneRowPerHash'
    BY <1>7 DEF commit, commit_after_err, Publish
  <2>3. QED
    BY <2>1, <2>2
<1>8. ASSUME NEW w \in Writers, rollback(w) \/ commit_skipped(w) \/ die(w) PROVE Good'
  BY <1>8 DEF rollback, commit_skipped, die
<1>9. ASSUME NEW n \in Namespaces, DeleteNamespace(n), UNCHANGED local PROVE Good'
  <2>1. ReferencesHold'
    BY <1>9 DEF DeleteNamespace, Referenced
  <2>2. OneRowPerHash'
    BY <1>9 DEF DeleteNamespace
  <2>3. QED
    BY <2>1, <2>2
<1>10. CASE Admin
  BY <1>9, <1>10 DEF Admin, namespace_create, namespace_drop_cascade, namespace_drop_check,
                     namespace_drop_delete, delete_document
<1>11. CASE UNCHANGED vars
  BY <1>11 DEF vars
<1>12. QED
  BY <1>1, <1>2, <1>3, <1>4, <1>5, <1>6, <1>7, <1>8, <1>10, <1>11 DEF Next, Step

(* The inductive invariant of the transaction.                              *)
THEOREM TxnInvariant == Spec => []TxnInv
<1>1. Init => OneRowPerHash /\ ReferencesHold
  BY DEF Init, OneRowPerHash, ReferencesHold, Open, Contended
<1>2. TxnInv /\ ShapeInv' /\ [Next]_vars => TxnInv'
  BY LocksStep DEF TxnInv
<1>3. QED
  BY <1>1, <1>2, TxnTypeCorrect, PTL DEF Spec, TxnInv, ShapeInv

(* No committed document, and no row about to be committed, is left without *)
(* its namespace.                                                           *)
THEOREM ReferencesAlwaysHold == Spec => []ReferencesHold
<1>1. TxnInv => ReferencesHold
  BY DEF TxnInv
<1>2. QED
  BY <1>1, TxnInvariant, PTL

(* No two open transactions hold the same content hash.                     *)
THEOREM HashesAreExclusive == Spec => []OneRowPerHash
<1>1. TxnInv => OneRowPerHash
  BY DEF TxnInv
<1>2. QED
  BY <1>1, TxnInvariant, PTL

(* run_job says Ok only of a document that is in the database.              *)
THEOREM OkIsTruthful == Spec => OkMeansStored
<1>1. ASSUME TxnInv, [Next]_vars
      PROVE  [\A w \in Writers :
                (phase'[w] # phase[w] /\ phase'[w] \in {"completed", "present"})
                    => Stored(req[w])']_vars
  <2> SUFFICES ASSUME NEW w \in Writers, phase'[w] # phase[w],
                      phase'[w] \in {"completed", "present"}
               PROVE  Stored(req[w])'
    OBVIOUS
  <2> USE DEF TxnInv, ShapeInv, TypeOK, WritesInOrder, Open, Ended, Goto, Stored
  <2>1. document_exists_by_hash(w) \/ commit(w)
    BY <1>1 DEF Next, Step, vars, tables, local, begin, document_exists_by_hash, raise,
                insert_document, insert_chunk, persist_chunk_extraction, commit, commit_skipped,
                rollback, commit_after_err, die, Admin, namespace_create, namespace_drop_cascade,
                namespace_drop_check, namespace_drop_delete, delete_document
  <2>2. CASE document_exists_by_hash(w)
    BY <2>2 DEF document_exists_by_hash, tables
  <2>3. CASE commit(w)
    <3>1. wrote[w]
      BY <1>1, <2>3 DEF commit
    <3>2. QED
      BY <1>1, <2>3, <3>1 DEF commit, Publish, Request, Document
  <2>4. QED
    BY <2>1, <2>2, <2>3
<1>2. QED
  BY <1>1, TxnInvariant, PTL DEF Spec, OkMeansStored

-----------------------------------------------------------------------------
(* Refinement *)

(* A COMMIT of n chunks publishes a document that was not there, under a    *)
(* namespace that exists, or nothing.                                       *)
LEMMA PublishIsNew ==
    ASSUME TxnInv, NEW w \in Writers, phase[w] \in Open, Publish(w), wrote[w]
    PROVE  /\ req[w].hash \in Hashes
           /\ documents[req[w].hash] = NoDoc
           /\ [ns |-> req[w].ns, chunks |-> nchunks[w]] \in Document
           /\ req[w].ns \in namespaces
           /\ documents' = [documents EXCEPT ![req[w].hash] =
                               [ns |-> req[w].ns, chunks |-> nchunks[w]]]
BY DEF TxnInv, ShapeInv, TypeOK, OneRowPerHash, ReferencesHold, Publish, Request, Document

(* Every step but a COMMIT leaves the tables alone or is an administration  *)
(* function.                                                                *)
LEMMA OtherSteps ==
    ASSUME [Next]_vars, \A w \in Writers : ~commit(w) /\ ~commit_after_err(w)
    PROVE  UNCHANGED tables \/ Admin
BY DEF Next, Step, vars, tables, local, begin, document_exists_by_hash, raise,
       insert_document, insert_chunk, persist_chunk_extraction, commit_skipped, rollback, die

(* Documents of any size appear once, under their namespace, and go with    *)
(* it: what both deployments promise.                                       *)
THEOREM RefinesPartialStore == Spec => ImplementsPartialStore
<1>1. Init => PartialStore!Init
  BY DEF Init, PartialStore!Init
<1>2. ASSUME TxnInv, [Next]_vars PROVE [PartialStore!Next]_(PartialStore!vars)
  <2> USE DEF PartialStore!Next, PartialStore!vars, tables
  <2>1. ASSUME NEW w \in Writers, commit(w) \/ commit_after_err(w)
        PROVE  [PartialStore!Next]_(PartialStore!vars)
    <3>1. CASE wrote[w]
      BY <1>2, <2>1, <3>1, PublishIsNew
         DEF commit, commit_after_err, Open, PartialStore!Publish, PartialStore!Document, Document
    <3>2. CASE ~wrote[w]
      BY <2>1, <3>2 DEF commit, commit_after_err, Publish
    <3>3. QED
      BY <3>1, <3>2
  <2>2. CASE Admin
    BY <2>2 DEF Admin, namespace_create, namespace_drop_cascade, namespace_drop_check,
                namespace_drop_delete, DeleteNamespace, delete_document, tables,
                PartialStore!Delete, PartialStore!CreateNamespace, PartialStore!DropNamespace
  <2>3. QED
    BY <1>2, <2>1, <2>2, OtherSteps
<1>3. QED
  BY <1>1, <1>2, TxnInvariant, PTL DEF Spec, ImplementsPartialStore, PartialStore!Spec

(* The sidecar publishes whole documents only: its Err is followed by a     *)
(* ROLLBACK, so that only a run that stored every chunk commits its row.    *)
THEOREM RefinesStore == ~Extension /\ Spec => ImplementsStore
<1>1. Init => Store!Init
  BY DEF Init, Store!Init
<1>2. ASSUME ~Extension, TxnInv, [Next]_vars PROVE [Store!Next]_(Store!vars)
  <2> USE DEF Store!Next, Store!vars, tables
  <2>1. ASSUME NEW w \in Writers, commit(w) PROVE [Store!Next]_(Store!vars)
    <3>1. CASE wrote[w]
      <4> DEFINE doc == [ns |-> req[w].ns, chunks |-> nchunks[w]]
      <4>1. phase[w] \in Open /\ Publish(w) /\ nchunks[w] = NChunks /\ UNCHANGED namespaces
        BY <2>1 DEF commit, Open
      <4>2. /\ req[w].hash \in Hashes
            /\ documents[req[w].hash] = NoDoc
            /\ doc \in Document
            /\ doc.ns \in namespaces
            /\ documents' = [documents EXCEPT ![req[w].hash] = doc]
        BY <1>2, <3>1, <4>1, PublishIsNew
      <4>3. doc \in Store!Document
        BY <4>1, <4>2 DEF Document, Store!Document
      <4>4. Store!Publish(req[w].hash, doc)
        BY <4>1, <4>2 DEF Store!Publish
      <4>5. QED
        BY <4>2, <4>3, <4>4
    <3>2. CASE ~wrote[w]
      BY <2>1, <3>2 DEF commit, Publish
    <3>3. QED
      BY <3>1, <3>2
  <2>2. CASE Admin
    BY <2>2 DEF Admin, namespace_create, namespace_drop_cascade, namespace_drop_check,
                namespace_drop_delete, DeleteNamespace, delete_document, tables,
                Store!Delete, Store!CreateNamespace, Store!DropNamespace
  <2>3. QED
    BY <1>2, <2>1, <2>2, OtherSteps DEF commit_after_err
<1>3. CASE ~Extension
  <2>1. TxnInv /\ [Next]_vars => [Store!Next]_(Store!vars)
    BY <1>2, <1>3
  <2>2. QED
    BY <1>1, <2>1, TxnInvariant, PTL DEF Spec, ImplementsStore, Store!Spec
<1>4. QED
  BY <1>3

(* Sidecar: no reader ever sees a document without all of its chunks.       *)
THEOREM DocumentsAreWhole == ~Extension /\ Spec => []WholeDocuments
<1>1. Init => WholeDocuments
  BY DEF Init, WholeDocuments
<1>2. ASSUME ~Extension, TxnInv, WholeDocuments, [Next]_vars PROVE WholeDocuments'
  <2>1. ASSUME NEW w \in Writers, commit(w) PROVE WholeDocuments'
    BY <1>2, <2>1 DEF commit, Publish, WholeDocuments, TxnInv, ShapeInv, TypeOK, Request
  <2>2. CASE Admin
    BY <1>2, <2>2 DEF Admin, namespace_create, namespace_drop_cascade, namespace_drop_check,
                      namespace_drop_delete, DeleteNamespace, delete_document, tables,
                      WholeDocuments, TxnInv, ShapeInv, TypeOK
  <2>3. QED
    BY <1>2, <2>1, <2>2, OtherSteps DEF commit_after_err, tables, WholeDocuments
<1>3. CASE ~Extension
  <2>1. TxnInv /\ WholeDocuments /\ [Next]_vars => WholeDocuments'
    BY <1>2, <1>3
  <2>2. QED
    BY <1>1, <2>1, TxnInvariant, PTL DEF Spec
<1>4. QED
  BY <1>3
=============================================================================
