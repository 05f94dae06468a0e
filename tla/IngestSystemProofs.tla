------------------------- MODULE IngestSystemProofs -------------------------
(***************************************************************************)
(* Theorems about IngestSystem: that it uses its two parts as their own    *)
(* modules allow, so that what is proved of them carries over, and what    *)
(* holds between them.                                                     *)
(***************************************************************************)
EXTENDS IngestSystem, TLAPS

QueueTheorems == INSTANCE JobQueueProofs WITH AtomicSweep <- Extension
TxnTheorems   == INSTANCE IngestTxnProofs WITH Writers <- Workers

USE IngestSystemAssumption

-----------------------------------------------------------------------------
(* The parts *)

(* The constants of the system meet the assumptions of both parts.          *)
LEMMA PartAssumptions ==
    QueueTheorems!JobQueueAssumption /\ TxnTheorems!IngestTxnAssumption
BY DEF QueueTheorems!JobQueueAssumption, TxnTheorems!IngestTxnAssumption

(* Claims, verdicts and sweeps are those of the queue on its own; the       *)
(* statements of run_job do not touch pgrg.ingest_jobs.                     *)
THEOREM SystemUsesQueue == Spec => ImplementsQueue
<1>1. Init => Queue!Init
  BY DEF Init
<1>2. [Next]_vars => [Queue!Next]_(Queue!vars)
  BY DEF Next, vars, queue, Queue!Next, Queue!vars, enqueue, claim_select, claim_update,
         Step, run_job, complete_job, fail_job, Abandon, Reap, Tick, Admin
<1>3. QED
  BY <1>1, <1>2, PTL DEF Spec, ImplementsQueue, Queue!Spec


(* The two instances of JobQueue are one specification.                     *)
LEMMA SameQueue == Queue!Spec => QueueTheorems!Spec
<1>1. /\ Queue!Init => QueueTheorems!Init
      /\ [Queue!Next]_(Queue!vars) => [QueueTheorems!Next]_(QueueTheorems!vars)
  BY DEF
     Queue!Init, QueueTheorems!Init, Queue!rows, QueueTheorems!rows, Queue!workers,
         QueueTheorems!workers, Queue!vars, QueueTheorems!vars, Queue!Terminal,
         QueueTheorems!Terminal, Queue!enqueue, QueueTheorems!enqueue, Queue!Busy,
         QueueTheorems!Busy, Queue!Locked, QueueTheorems!Locked, Queue!Claimable,
         QueueTheorems!Claimable, Queue!Touch, QueueTheorems!Touch, Queue!claim_select,
         QueueTheorems!claim_select, Queue!claim_update, QueueTheorems!claim_update,
         Queue!run_job, QueueTheorems!run_job, Queue!Release, QueueTheorems!Release,
         Queue!WriteVerdict, QueueTheorems!WriteVerdict, Queue!complete_job,
         QueueTheorems!complete_job, Queue!fail_job, QueueTheorems!fail_job,
         Queue!Abandon, QueueTheorems!Abandon, Queue!Stale, QueueTheorems!Stale,
         Queue!Retryable, QueueTheorems!Retryable, Queue!Exhausted,
         QueueTheorems!Exhausted, Queue!run_reaper_sweep,
         QueueTheorems!run_reaper_sweep, Queue!reap_requeue, QueueTheorems!reap_requeue,
         Queue!reap_fail_capped, QueueTheorems!reap_fail_capped, Queue!ReaperAbandon,
         QueueTheorems!ReaperAbandon, Queue!Older, QueueTheorems!Older, Queue!Tick,
         QueueTheorems!Tick, Queue!Next, QueueTheorems!Next
<1>2. QED
  BY <1>1, PTL DEF Queue!Spec, QueueTheorems!Spec

(* The two instances of IngestTxn are one specification.                    *)
LEMMA SameTxn == Txn!Spec => TxnTheorems!Spec
<1>1. /\ Txn!Init => TxnTheorems!Init
      /\ [Txn!Next]_(Txn!vars) => [TxnTheorems!Next]_(TxnTheorems!vars)
  BY DEF
     Txn!Init, TxnTheorems!Init, Txn!tables, TxnTheorems!tables, Txn!local,
         TxnTheorems!local, Txn!vars, TxnTheorems!vars, Txn!Request,
         TxnTheorems!Request, Txn!Document, TxnTheorems!Document, Txn!Open,
         TxnTheorems!Open, Txn!Goto, TxnTheorems!Goto, Txn!Stored, TxnTheorems!Stored,
         Txn!Contended, TxnTheorems!Contended, Txn!Referenced, TxnTheorems!Referenced,
         Txn!begin, TxnTheorems!begin, Txn!document_exists_by_hash,
         TxnTheorems!document_exists_by_hash, Txn!raise, TxnTheorems!raise,
         Txn!insert_document, TxnTheorems!insert_document, Txn!insert_chunk,
         TxnTheorems!insert_chunk, Txn!persist_chunk_extraction,
         TxnTheorems!persist_chunk_extraction, Txn!Publish, TxnTheorems!Publish,
         Txn!commit, TxnTheorems!commit, Txn!commit_skipped, TxnTheorems!commit_skipped,
         Txn!rollback, TxnTheorems!rollback,
         Txn!commit_after_err, TxnTheorems!commit_after_err, Txn!die, TxnTheorems!die,
         Txn!namespace_create, TxnTheorems!namespace_create, Txn!DeleteNamespace,
         TxnTheorems!DeleteNamespace, Txn!namespace_drop_cascade,
         TxnTheorems!namespace_drop_cascade, Txn!namespace_drop_check,
         TxnTheorems!namespace_drop_check, Txn!namespace_drop_delete,
         TxnTheorems!namespace_drop_delete, Txn!delete_document,
         TxnTheorems!delete_document, Txn!Step, TxnTheorems!Step, Txn!Admin,
         TxnTheorems!Admin, Txn!Next, TxnTheorems!Next
<1>2. QED
  BY <1>1, PTL DEF Txn!Spec, TxnTheorems!Spec

(* What is proved of the queue holds of the system: here, its types.        *)
LEMMA QueueTyped == Spec => []Queue!TypeOK
<1>1. QueueTheorems!TypeOK => Queue!TypeOK
  BY DEF QueueTheorems!TypeOK, Queue!TypeOK, QueueTheorems!Status, Queue!Status,
         QueueTheorems!Terminal, Queue!Terminal, QueueTheorems!PC, Queue!PC
<1>2. QueueTheorems!Spec => []QueueTheorems!TypeOK
  BY PartAssumptions, QueueTheorems!TypeCorrect
<1>3. QED
  BY <1>1, <1>2, SystemUsesQueue, SameQueue, PTL DEF ImplementsQueue

(* Transactions begin, step and die as on their own, for a request that is  *)
(* the content of a job; the statements of the queue touch no document.     *)
THEOREM SystemUsesTxn == Spec => ImplementsTxn
<1>1. Init => Txn!Init
  BY DEF Init
<1>2. Queue!TypeOK /\ [Next]_vars => [Txn!Next]_(Txn!vars)
  <2> SUFFICES ASSUME Queue!TypeOK, [Next]_vars PROVE [Txn!Next]_(Txn!vars)
    OBVIOUS
  <2> USE DEF Txn!Next, Txn!vars
  <2>1. ASSUME NEW w \in Workers, claim_update(w) PROVE Txn!Next
    <3>1. Content[job[w]] \in Txn!Request
      BY <2>1 DEF claim_update, Queue!claim_update, Queue!TypeOK
    <3>2. QED
      BY <2>1, <3>1 DEF claim_update
  <2>2. ASSUME NEW w \in Workers, Step(w) \/ Abandon(w) PROVE [Txn!Next]_(Txn!vars)
    BY <2>2 DEF Step, Abandon, txn
  <2>3. CASE Admin
    BY <2>3 DEF Admin
  <2>4. QED
    BY <2>1, <2>2, <2>3 DEF Next, vars, txn, enqueue, claim_select, run_job, complete_job,
                            fail_job, Reap, Tick
<1>3. QED
  BY <1>1, <1>2, QueueTyped, PTL DEF Spec, ImplementsTxn, Txn!Spec

(* What is proved of the transaction holds of the system: its invariant.    *)
LEMMA TxnsAreSound == Spec => []TxnTheorems!TxnInv
<1>1. TxnTheorems!Spec => []TxnTheorems!TxnInv
  BY PartAssumptions, TxnTheorems!TxnInvariant
<1>2. QED
  BY <1>1, SystemUsesTxn, SameTxn, PTL DEF ImplementsTxn

(* The store's contract survives crashes, retries and slow workers.         *)
THEOREM SystemImplementsStore == Spec => ImplementsStore
<1>1. TxnTheorems!Spec => TxnTheorems!ImplementsPartialStore
  BY PartAssumptions, TxnTheorems!RefinesPartialStore
<1>2. /\ TxnTheorems!PartialStore!Init => Txn!PartialStore!Init
      /\ [TxnTheorems!PartialStore!Next]_(TxnTheorems!PartialStore!vars)
            => [Txn!PartialStore!Next]_(Txn!PartialStore!vars)
  BY DEF
       TxnTheorems!PartialStore!Init, Txn!PartialStore!Init,
         TxnTheorems!PartialStore!vars, Txn!PartialStore!vars,
         TxnTheorems!PartialStore!Document, Txn!PartialStore!Document,
         TxnTheorems!PartialStore!Publish, Txn!PartialStore!Publish,
         TxnTheorems!PartialStore!Delete, Txn!PartialStore!Delete,
         TxnTheorems!PartialStore!CreateNamespace, Txn!PartialStore!CreateNamespace,
         TxnTheorems!PartialStore!DropNamespace, Txn!PartialStore!DropNamespace,
         TxnTheorems!PartialStore!Next, Txn!PartialStore!Next
<1>3. QED
  BY <1>1, <1>2, SystemUsesTxn, SameTxn, PTL
     DEF ImplementsTxn, ImplementsStore, TxnTheorems!ImplementsPartialStore,
         Txn!ImplementsPartialStore, TxnTheorems!PartialStore!Spec, Txn!PartialStore!Spec

-----------------------------------------------------------------------------
(* Between the parts *)

(* A transaction is open only while its worker is between the claim and the *)
(* verdict, and it works on the content of the job that worker holds.       *)
THEOREM ClaimsMatchTxns == Spec => []TxnFollowsClaim
<1>1. Init => TxnFollowsClaim
  BY DEF Init, Queue!Init, Txn!Init, TxnFollowsClaim, Queue!Busy, Txn!Open
<1>2. Queue!TypeOK /\ TxnTheorems!TxnInv /\ TxnFollowsClaim /\ [Next]_vars => TxnFollowsClaim'
  <2> SUFFICES ASSUME Queue!TypeOK, TxnTheorems!TxnInv, TxnFollowsClaim, [Next]_vars
               PROVE  TxnFollowsClaim'
    OBVIOUS
  <2>0. req \in [Workers -> TxnTheorems!Request]
        /\ phase \in [Workers -> TxnTheorems!Open \union TxnTheorems!Ended \union {"idle"}]
    BY DEF TxnTheorems!TxnInv, TxnTheorems!ShapeInv, TxnTheorems!TypeOK
  <2> USE <2>0 DEF TxnFollowsClaim, Queue!TypeOK, Queue!PC, Queue!Busy, Txn!Open, txn, queue
  <2>1. ASSUME NEW j \in Jobs, enqueue(j) PROVE TxnFollowsClaim'
    BY <2>1 DEF enqueue, Queue!enqueue, Queue!workers
  <2>2. ASSUME NEW w \in Workers, claim_select(w) PROVE TxnFollowsClaim'
    BY <2>2 DEF claim_select, Queue!claim_select
  <2>3. ASSUME NEW w \in Workers, claim_update(w) PROVE TxnFollowsClaim'
    BY <2>3 DEF claim_update, Queue!claim_update, Txn!begin, Txn!Goto
  <2>4. ASSUME NEW w \in Workers, Step(w) PROVE TxnFollowsClaim'
    BY <2>4 DEF Step, Txn!Step, Txn!Goto, Txn!document_exists_by_hash, Txn!raise,
                Txn!insert_document, Txn!insert_chunk, Txn!persist_chunk_extraction,
                Txn!commit, Txn!commit_skipped, Txn!rollback, Txn!commit_after_err
  <2>5. ASSUME NEW w \in Workers, run_job(w) PROVE TxnFollowsClaim'
    BY <2>5 DEF run_job, Queue!run_job
  <2>6. ASSUME NEW w \in Workers, complete_job(w) \/ fail_job(w) PROVE TxnFollowsClaim'
    BY <2>6 DEF complete_job, fail_job, Queue!complete_job, Queue!fail_job,
                Queue!WriteVerdict, Queue!Release
  <2>7. ASSUME NEW w \in Workers, Abandon(w) PROVE TxnFollowsClaim'
    BY <2>7 DEF Abandon, Queue!Abandon, Queue!Release, Txn!die, Txn!Goto
  <2>8. CASE UNCHANGED <<Queue!workers, phase, req>>
    BY <2>8 DEF Queue!workers
  <2>9. ASSUME NEW r \in Reapers, Reap(r) PROVE UNCHANGED <<Queue!workers, phase, req>>
    BY <2>9 DEF Reap, Queue!run_reaper_sweep, Queue!reap_requeue, Queue!reap_fail_capped,
                Queue!ReaperAbandon, Queue!workers
  <2>10. CASE Tick
    BY <2>10 DEF Tick, Queue!Tick
  <2>11. CASE Admin
    BY <2>11 DEF Admin, Txn!Admin, Txn!local, Txn!namespace_create, Txn!namespace_drop_cascade,
                 Txn!namespace_drop_check, Txn!namespace_drop_delete, Txn!delete_document
  <2>12. CASE UNCHANGED vars
    BY <2>12 DEF vars
  <2>13. QED
    BY <2>1, <2>2, <2>3, <2>4, <2>5, <2>6, <2>7, <2>8, <2>9, <2>10, <2>11, <2>12 DEF Next
<1>3. QED
  BY <1>1, <1>2, QueueTyped, TxnsAreSound, PTL DEF Spec

\* A job that says completed has a row for its document.
CompletedHasRow == \A j \in Jobs : status[j] = "completed" => Txn!Stored(Content[j])

\* Outcomes that have decided for Ok.
OkPhases == {"present", "skipped", "completed"}

\* A worker about to report Ok, or done reporting it, has its document stored.
VerdictsAreTrue ==
    /\ dropping = {}
    /\ \A w \in Workers :
          ((pc[w] = "running" /\ phase[w] \in OkPhases) \/ pc[w] = "completing")
              => Txn!Stored(Content[job[w]])

(* Without deletions a stored document stays stored: DO NOTHING never       *)
(* replaces a row, and a row that is committed had its hash to itself.      *)
LEMMA StoredStays ==
    ASSUME ~Administered, TxnTheorems!TxnInv, dropping = {}, [Txn!Next]_(Txn!vars)
    PROVE  /\ dropping' = {}
           /\ \A r \in Txn!Request : Txn!Stored(r) => Txn!Stored(r)'
<1> USE DEF Txn!Stored, Txn!Request
<1>1. ASSUME NEW w \in Workers, phase[w] \in TxnTheorems!Open, Txn!Publish(w), UNCHANGED dropping
      PROVE  /\ dropping' = {}
             /\ \A r \in Txn!Request : Txn!Stored(r) => Txn!Stored(r)'
  <2>1. wrote[w] => documents[req[w].hash] = NoDoc
    BY <1>1 DEF TxnTheorems!TxnInv, TxnTheorems!OneRowPerHash
  <2>2. documents \in [Hashes -> TxnTheorems!Document \union {NoDoc}]
    BY DEF TxnTheorems!TxnInv, TxnTheorems!ShapeInv, TxnTheorems!TypeOK
  <2>3. QED
    BY <1>1, <2>1, <2>2 DEF Txn!Publish
<1>2. ASSUME NEW w \in Workers, Txn!commit(w) \/ Txn!commit_after_err(w)
      PROVE  phase[w] \in TxnTheorems!Open /\ Txn!Publish(w) /\ UNCHANGED dropping
  BY <1>2 DEF Txn!commit, Txn!commit_after_err, TxnTheorems!Open
<1>3. CASE Txn!Admin
  BY <1>3 DEF Txn!Admin, Txn!namespace_create, Txn!namespace_drop_cascade,
              Txn!namespace_drop_check, Txn!namespace_drop_delete, Txn!delete_document
<1>4. CASE UNCHANGED <<documents, dropping>>
  BY <1>4
<1>5. QED
  BY <1>1, <1>2, <1>3, <1>4
     DEF Txn!Next, Txn!vars, Txn!Step, Txn!tables, Txn!begin, Txn!document_exists_by_hash,
         Txn!raise, Txn!insert_document, Txn!insert_chunk, Txn!persist_chunk_extraction,
         Txn!commit_skipped, Txn!rollback, Txn!die

(* A run decides for Ok only over a stored document.                        *)
LEMMA OkIsStored ==
    ASSUME TxnTheorems!TxnInv, NEW w \in Workers, Txn!Step(w), phase'[w] \in OkPhases
    PROVE  Txn!Stored(req[w])' \/ (phase[w] \in OkPhases /\ UNCHANGED documents)
<1> USE DEF Txn!Stored, Txn!Goto, TxnTheorems!TxnInv, TxnTheorems!ShapeInv,
            TxnTheorems!TypeOK, TxnTheorems!WritesInOrder, TxnTheorems!Open, TxnTheorems!Request
<1>1. Txn!document_exists_by_hash(w) \/ Txn!commit(w) \/ Txn!commit_skipped(w)
  BY DEF OkPhases, Txn!Step, Txn!document_exists_by_hash, Txn!raise, Txn!insert_document,
         Txn!insert_chunk, Txn!persist_chunk_extraction, Txn!rollback, Txn!commit_after_err
<1>2. CASE Txn!document_exists_by_hash(w)
  BY <1>2 DEF OkPhases, Txn!document_exists_by_hash, Txn!tables
<1>3. CASE Txn!commit(w)
  <2>1. wrote[w]
    BY <1>3 DEF Txn!commit
  <2>2. NoDoc # [ns |-> req[w].ns, chunks |-> nchunks[w]]
    OBVIOUS
  <2>3. QED
    BY <1>3, <2>1, <2>2 DEF Txn!commit, Txn!Publish
<1>4. CASE Txn!commit_skipped(w)
  BY <1>4 DEF Txn!commit_skipped, Txn!tables, OkPhases
<1>5. QED
  BY <1>1, <1>2, <1>3, <1>4

(* A job that says completed has its document in the database, in part or   *)
(* whole, whatever was killed, retried, run twice or reported late: all     *)
(* that the extension can promise.                                          *)
LEMMA CompletedKeepsRow == ~Administered /\ Spec => []CompletedHasRow
<1> DEFINE Inv == VerdictsAreTrue /\ CompletedHasRow
<1>1. Init => Inv
  BY DEF Init, Queue!Init, Txn!Init, VerdictsAreTrue, CompletedHasRow
<1>2. ASSUME ~Administered, Queue!TypeOK, TxnTheorems!TxnInv, TxnFollowsClaim, Inv, [Next]_vars,
             [Txn!Next]_(Txn!vars)
      PROVE  Inv'
  <2>1. /\ dropping' = {}
        /\ \A j \in Jobs : Txn!Stored(Content[j]) => Txn!Stored(Content[j])'
    BY <1>2, StoredStays DEF VerdictsAreTrue
  <2>2. \A j \in Jobs : Txn!Stored(Content[j]) => Txn!Stored(Content[j])'
    BY <2>1
  <2> USE DEF VerdictsAreTrue, CompletedHasRow, Queue!TypeOK, Queue!PC, txn, queue
  <2>3. ASSUME UNCHANGED <<pc, job, phase>>,
               \A j \in Jobs : status'[j] = "completed" => status[j] = "completed"
        PROVE  Inv'
    BY <1>2, <2>1, <2>3
  <2>4. ASSUME NEW w \in Workers, UNCHANGED <<status, phase>>,
               \A v \in Workers \ {w} : pc'[v] = pc[v] /\ job'[v] = job[v],
               pc'[w] \in {"idle", "claiming"}
        PROVE  Inv'
    BY <1>2, <2>1, <2>4
  <2>5. ASSUME NEW w \in Workers, claim_update(w) PROVE Inv'
    <3>1. /\ job[w] \in Jobs /\ status'[job[w]] = "running" /\ UNCHANGED job
          /\ \A j \in Jobs \ {job[w]} : status'[j] = status[j]
          /\ pc'[w] = "running" /\ phase'[w] = "begun"
          /\ \A v \in Workers \ {w} : pc'[v] = pc[v] /\ phase'[v] = phase[v]
      BY <1>2, <2>5 DEF claim_update, Queue!claim_update, Txn!begin, Txn!Goto,
                        TxnTheorems!TxnInv, TxnTheorems!ShapeInv, TxnTheorems!TypeOK
    <3>2. QED
      BY <1>2, <2>1, <2>2, <3>1 DEF OkPhases
  <2>6. ASSUME NEW w \in Workers, Step(w) PROVE Inv'
    <3>1. /\ Txn!Step(w) /\ UNCHANGED queue
          /\ pc[w] = "running" /\ job[w] \in Jobs /\ req[w] = Content[job[w]]
          /\ req \in [Workers -> TxnTheorems!Request]
          /\ phase \in [Workers -> TxnTheorems!Open \union TxnTheorems!Ended \union {"idle"}]
      BY <1>2, <2>6 DEF Step, TxnFollowsClaim, Queue!Busy, TxnTheorems!TxnInv,
                        TxnTheorems!ShapeInv, TxnTheorems!TypeOK
    <3>2. UNCHANGED req /\ \A v \in Workers \ {w} : phase'[v] = phase[v]
      BY <3>1 DEF Txn!Step, Txn!Goto, Txn!document_exists_by_hash, Txn!raise,
                  Txn!insert_document, Txn!insert_chunk, Txn!persist_chunk_extraction,
                  Txn!commit, Txn!commit_skipped, Txn!rollback, Txn!commit_after_err
    <3>3. phase'[w] \in OkPhases => Txn!Stored(Content[job[w]])'
      <4>1. phase'[w] \in OkPhases => Txn!Stored(req[w])' \/ phase[w] \in OkPhases
        BY <1>2, <3>1, OkIsStored
      <4>2. CASE Txn!Stored(req[w])'
        BY <3>1, <3>2, <4>2 DEF Txn!Stored
      <4>3. CASE phase[w] \in OkPhases
        BY <1>2, <2>2, <3>1, <4>3
      <4>4. QED
        BY <4>1, <4>2, <4>3
    <3>4. QED
      BY <1>2, <2>1, <2>2, <3>1, <3>2, <3>3
  <2>7. ASSUME NEW w \in Workers, run_job(w) PROVE Inv'
    <3>1. /\ pc[w] = "running" /\ phase[w] \in {"completed", "skipped", "failed"}
          /\ pc'[w] = IF phase[w] = "failed" THEN "failing" ELSE "completing"
          /\ \A v \in Workers \ {w} : pc'[v] = pc[v]
          /\ UNCHANGED <<job, status, phase>>
      BY <1>2, <2>7 DEF run_job, Queue!run_job, Queue!rows
    <3>2. QED
      BY <1>2, <2>1, <2>2, <3>1 DEF OkPhases
  <2>8. ASSUME NEW w \in Workers, complete_job(w) \/ fail_job(w) PROVE Inv'
    <3>1. /\ job[w] \in Jobs
          /\ pc[w] = "completing" \/ status'[job[w]] = "failed"
          /\ \A j \in Jobs \ {job[w]} : status'[j] = status[j]
          /\ pc'[w] = "idle"
          /\ \A v \in Workers \ {w} : pc'[v] = pc[v] /\ job'[v] = job[v]
          /\ UNCHANGED phase
      BY <1>2, <2>8 DEF complete_job, fail_job, Queue!complete_job, Queue!fail_job,
                        Queue!WriteVerdict, Queue!Release
    <3>2. QED
      BY <1>2, <2>1, <2>2, <3>1
  <2>9. ASSUME NEW w \in Workers, Abandon(w) PROVE Inv'
    <3>1. /\ UNCHANGED status
          /\ pc'[w] = "idle"
          /\ \A v \in Workers \ {w} : pc'[v] = pc[v] /\ job'[v] = job[v] /\ phase'[v] = phase[v]
      BY <1>2, <2>9 DEF Abandon, Queue!Abandon, Queue!Release, Queue!rows, Txn!die, Txn!Goto,
                        TxnTheorems!TxnInv, TxnTheorems!ShapeInv, TxnTheorems!TypeOK
    <3>2. QED
      BY <1>2, <2>1, <2>2, <3>1
  <2>10. ASSUME NEW w \in Workers, claim_select(w) PROVE Inv'
    BY <2>4, <2>10 DEF claim_select, Queue!claim_select, Queue!rows
  <2>11. ASSUME NEW r \in Reapers, Reap(r) PROVE Inv'
    BY <2>3, <2>11 DEF Reap, Queue!run_reaper_sweep, Queue!reap_requeue, Queue!reap_fail_capped,
                       Queue!ReaperAbandon, Queue!workers, Queue!rows
  <2>12. ASSUME NEW j \in Jobs, enqueue(j) PROVE Inv'
    BY <2>3, <2>12 DEF enqueue, Queue!enqueue, Queue!workers
  <2>13. CASE Tick
    BY <2>3, <2>13 DEF Tick, Queue!Tick
  <2>14. CASE Admin
    BY <2>3, <2>14 DEF Admin, Txn!Admin, Txn!local, Txn!namespace_create,
                       Txn!namespace_drop_cascade, Txn!namespace_drop_check,
                       Txn!namespace_drop_delete, Txn!delete_document
  <2>15. CASE UNCHANGED vars
    BY <2>3, <2>15 DEF vars
  <2>16. QED
    BY <1>2, <2>5, <2>6, <2>7, <2>8, <2>9, <2>10, <2>11, <2>12, <2>13, <2>14, <2>15 DEF Next
<1>3. CASE ~Administered
  <2>1. Queue!TypeOK /\ TxnTheorems!TxnInv /\ TxnFollowsClaim /\ Inv /\ [Next]_vars
          /\ [Txn!Next]_(Txn!vars) => Inv'
    BY <1>2, <1>3
  <2>2. QED
    BY <1>1, <2>1, QueueTyped, TxnsAreSound, ClaimsMatchTxns, SystemUsesTxn, PTL
       DEF Spec, ImplementsTxn, Txn!Spec
<1>4. QED
  BY <1>3

(* Sidecar: a job that says completed has every chunk of its document in    *)
(* the database.  An attempt that was cut off left nothing, so that a retry *)
(* that skips, skips a whole document.                                      *)
THEOREM CompletedIsStored ==
    ~Extension /\ ~Administered /\ Spec => []CompletedMeansStored
<1>1. ~Extension /\ TxnTheorems!Spec => []TxnTheorems!WholeDocuments
  BY PartAssumptions, TxnTheorems!DocumentsAreWhole
<1>2. TxnTheorems!TxnInv /\ TxnTheorems!WholeDocuments /\ CompletedHasRow => CompletedMeansStored
  BY DEF TxnTheorems!WholeDocuments, CompletedHasRow, CompletedMeansStored, Txn!Stored, Txn!Request
<1>3. QED
  BY <1>1, <1>2, CompletedKeepsRow, TxnsAreSound, SystemUsesTxn, SameTxn, PTL DEF ImplementsTxn

-----------------------------------------------------------------------------
(* Retries *)

\* Every job has a source of its own.
OwnContent == \A i, j \in Jobs : Content[i].hash = Content[j].hash => i = j

\* What is stored is the source of a job, and nobody stores a run's source
\* between its existence test and its INSERT.
Uncontested ==
    /\ \A h \in Hashes : documents[h] # NoDoc =>
            \E j \in Jobs : Content[j].hash = h /\ Content[j].ns = documents[h].ns
    /\ \A w \in Workers :
            /\ phase[w] = "absent" => documents[req[w].hash] = NoDoc
            /\ phase[w] = "writing" => wrote[w]

(* Two open transactions of prompt workers are about different hashes.      *)
LEMMA RunsAreApart ==
    ASSUME OwnContent, Queue!TypeOK, Queue!SingleRunner, TxnFollowsClaim,
           NEW v \in Workers, NEW w \in Workers, phase[v] \in Txn!Open, phase[w] \in Txn!Open,
           req[v].hash = req[w].hash
    PROVE  v = w
<1>1. \A u \in {v, w} : Queue!Busy(u) /\ job[u] \in Jobs /\ req[u] = Content[job[u]]
  BY DEF TxnFollowsClaim, Queue!Busy, Queue!TypeOK, Queue!PC
<1>2. job[v] = job[w]
  BY <1>1 DEF OwnContent
<1>3. QED
  BY <1>1, <1>2 DEF Queue!SingleRunner

(* No step of a transaction contests another's hash.                        *)
LEMMA UncontestedStep ==
    ASSUME OwnContent, Queue!TypeOK, Queue!SingleRunner, TxnFollowsClaim, TxnTheorems!TxnInv,
           Uncontested, [Txn!Next]_(Txn!vars)
    PROVE  Uncontested'
<1>0. /\ req \in [Workers -> TxnTheorems!Request]
      /\ phase \in [Workers -> TxnTheorems!Open \union TxnTheorems!Ended \union {"idle"}]
      /\ wrote \in [Workers -> BOOLEAN]
      /\ documents \in [Hashes -> TxnTheorems!Document \union {NoDoc}]
  BY DEF TxnTheorems!TxnInv, TxnTheorems!ShapeInv, TxnTheorems!TypeOK
<1>1. ASSUME NEW w \in Workers, phase[w] \in Txn!Open
      PROVE  job[w] \in Jobs /\ req[w] = Content[job[w]]
  BY <1>1 DEF TxnFollowsClaim, Queue!Busy, Queue!TypeOK, Queue!PC
<1>2. ASSUME NEW w \in Workers, UNCHANGED <<documents, req, wrote>>,
             \A v \in Workers \ {w} : phase'[v] = phase[v],
             phase'[w] \notin {"absent", "writing"}
      PROVE  Uncontested'
  BY <1>2 DEF Uncontested
<1>3. ASSUME NEW w \in Workers, NEW r \in Txn!Request, Txn!begin(w, r) PROVE Uncontested'
  BY <1>0, <1>3 DEF Txn!begin, Txn!Goto, Txn!tables, Uncontested
<1>4. ASSUME NEW w \in Workers, Txn!document_exists_by_hash(w) PROVE Uncontested'
  <2>1. phase[w] = "begun" /\ UNCHANGED <<documents, req, wrote>>
        /\ phase' = [phase EXCEPT ![w] = IF Txn!Stored(req[w]) THEN "present" ELSE "absent"]
    BY <1>4 DEF Txn!document_exists_by_hash, Txn!Goto, Txn!tables
  <2>2. job[w] \in Jobs /\ req[w] = Content[job[w]]
    BY <1>1, <2>1 DEF Txn!Open
  <2>3. documents[req[w].hash] = NoDoc \/ Txn!Stored(req[w])
    <3>1. SUFFICES ASSUME documents[req[w].hash] # NoDoc PROVE Txn!Stored(req[w])
      OBVIOUS
    <3>2. PICK j \in Jobs : Content[j].hash = req[w].hash /\ Content[j].ns = documents[req[w].hash].ns
      BY <1>0, <3>1 DEF Uncontested, TxnTheorems!Request
    <3>3. j = job[w]
      BY <2>2, <3>2 DEF OwnContent
    <3>4. QED
      BY <2>2, <3>1, <3>2, <3>3 DEF Txn!Stored
  <2>4. QED
    BY <1>0, <2>1, <2>3 DEF Uncontested
<1>5. ASSUME NEW w \in Workers, Txn!insert_document(w) PROVE Uncontested'
  <2>1. phase[w] = "absent" /\ documents[req[w].hash] = NoDoc
    BY <1>5 DEF Txn!insert_document, Uncontested
  <2>2. QED
    BY <1>0, <1>5, <2>1 DEF Txn!insert_document, Txn!Goto, Txn!tables, Uncontested
<1>6. ASSUME NEW w \in Workers, Txn!persist_chunk_extraction(w) PROVE Uncontested'
  <2>1. wrote[w]
    BY <1>6 DEF Txn!persist_chunk_extraction, TxnTheorems!TxnInv, TxnTheorems!ShapeInv,
                TxnTheorems!WritesInOrder
  <2>2. QED
    BY <1>0, <1>6, <2>1 DEF Txn!persist_chunk_extraction, Txn!Goto, Txn!tables, Uncontested
<1>7. ASSUME NEW w \in Workers, Txn!raise(w) \/ Txn!insert_chunk(w) \/ Txn!commit_skipped(w)
                                   \/ Txn!rollback(w) \/ Txn!die(w)
      PROVE  Uncontested'
  BY <1>0, <1>2, <1>7 DEF Txn!raise, Txn!insert_chunk, Txn!commit_skipped, Txn!rollback, Txn!die,
                          Txn!Goto, Txn!tables
<1>8. ASSUME NEW w \in Workers, Txn!commit(w) \/ Txn!commit_after_err(w) PROVE Uncontested'
  <2>1. /\ phase[w] \in {"writing", "raised"} /\ UNCHANGED <<req, wrote>> /\ Txn!Publish(w)
        /\ phase'[w] \notin {"absent", "writing"} /\ \A v \in Workers \ {w} : phase'[v] = phase[v]
    BY <1>0, <1>8 DEF Txn!commit, Txn!commit_after_err, Txn!Goto
  <2>2. job[w] \in Jobs /\ req[w] = Content[job[w]]
    BY <1>1, <2>1 DEF Txn!Open
  <2>3. ASSUME NEW v \in Workers \ {w}, phase[v] = "absent" PROVE req[v].hash # req[w].hash
    BY <2>1, <2>3, RunsAreApart DEF Txn!Open
  <2>4. documents' = documents
        \/ documents' = [documents EXCEPT ![req[w].hash] = [ns |-> req[w].ns, chunks |-> nchunks[w]]]
    BY <2>1 DEF Txn!Publish
  <2>5. \A h \in Hashes : documents'[h] # NoDoc =>
            \E j \in Jobs : Content[j].hash = h /\ Content[j].ns = documents'[h].ns
    BY <1>0, <2>2, <2>4 DEF Uncontested, TxnTheorems!Request
  <2>6. \A v \in Workers : phase'[v] = "absent" => documents'[req'[v].hash] = NoDoc
    BY <1>0, <2>1, <2>3, <2>4 DEF Uncontested, TxnTheorems!Request
  <2>7. QED
    BY <2>1, <2>5, <2>6 DEF Uncontested
<1>9. CASE Txn!Admin
  <2>1. /\ UNCHANGED <<phase, req, wrote>>
        /\ \A h \in Hashes : documents'[h] \in {documents[h], NoDoc}
    BY <1>0, <1>9 DEF Txn!Admin, Txn!local, Txn!tables, Txn!namespace_create, Txn!namespace_drop_cascade,
                      Txn!namespace_drop_check, Txn!namespace_drop_delete, Txn!delete_document,
                      Txn!DeleteNamespace
  <2>2. QED
    BY <1>0, <2>1 DEF Uncontested, TxnTheorems!Request
<1>10. CASE UNCHANGED Txn!vars
  BY <1>10 DEF Txn!vars, Uncontested
<1>11. QED
  BY <1>3, <1>4, <1>5, <1>6, <1>7, <1>8, <1>9, <1>10 DEF Txn!Next, Txn!Step

(* Prompt workers of the system run no job twice at once.                   *)
LEMMA SystemRunsOnce == Prompt /\ Spec => []Queue!SingleRunner
<1>1. Prompt /\ QueueTheorems!Spec => []QueueTheorems!SingleRunner
  BY PartAssumptions, QueueTheorems!PromptWorkersAreSafe
<1>2. QueueTheorems!SingleRunner => Queue!SingleRunner
  BY DEF QueueTheorems!SingleRunner, Queue!SingleRunner, QueueTheorems!Busy, Queue!Busy
<1>3. QED
  BY <1>1, <1>2, SystemUsesQueue, SameQueue, PTL DEF ImplementsQueue

(* Wherever an attempt was cut off, the next one finds the document whole,  *)
(* and skips it, or not at all: the chunks of run_job never name a document *)
(* that its INSERT did not write.                                           *)
THEOREM RetriesAreHarmless == Prompt /\ OwnContent /\ Spec => RetriesNeverCollide
<1>1. Init => Uncontested
  BY DEF Init, Txn!Init, Uncontested
<1>2. ASSUME Uncontested, [Txn!Next]_(Txn!vars), TxnTheorems!TxnInv
      PROVE  \A w \in Workers :
                (phase[w] \in {"absent", "writing"} /\ phase'[w] = "refused") => req[w].ns \notin namespaces
  <2>1. SUFFICES ASSUME NEW w \in Workers, phase[w] \in {"absent", "writing"}, phase'[w] = "refused"
                 PROVE  req[w].ns \notin namespaces
    OBVIOUS
  <2>2. phase \in [Workers -> TxnTheorems!Open \union TxnTheorems!Ended \union {"idle"}]
    BY <1>2 DEF TxnTheorems!TxnInv, TxnTheorems!ShapeInv, TxnTheorems!TypeOK
  <2>3. Txn!insert_document(w) \/ Txn!insert_chunk(w)
    BY <1>2, <2>1, <2>2
       DEF Txn!Next, Txn!vars, Txn!Step, Txn!Goto, Txn!begin, Txn!document_exists_by_hash, Txn!raise,
           Txn!insert_document, Txn!insert_chunk, Txn!persist_chunk_extraction, Txn!commit, Txn!commit_skipped,
           Txn!rollback, Txn!commit_after_err, Txn!die, Txn!Admin, Txn!local, Txn!namespace_create,
           Txn!namespace_drop_cascade, Txn!namespace_drop_check, Txn!namespace_drop_delete,
           Txn!delete_document
  <2>4. QED
    BY <1>2, <2>1, <2>2, <2>3 DEF Txn!insert_document, Txn!insert_chunk, Txn!Goto, Uncontested
<1>3. CASE Prompt /\ OwnContent
  <2>1. Queue!TypeOK /\ Queue!SingleRunner /\ TxnFollowsClaim /\ TxnTheorems!TxnInv /\ Uncontested
            /\ [Txn!Next]_(Txn!vars) => Uncontested'
    BY <1>3, UncontestedStep
  <2>2. Uncontested /\ TxnTheorems!TxnInv /\ [Txn!Next]_(Txn!vars) =>
            [\A w \in Workers :
                (phase[w] \in {"absent", "writing"} /\ phase'[w] = "refused") => req[w].ns \notin namespaces]_vars
    BY <1>2
  <2>3. QED
    BY <1>1, <1>3, <2>1, <2>2, QueueTyped, SystemRunsOnce, TxnsAreSound, ClaimsMatchTxns, SystemUsesTxn, PTL
       DEF Spec, ImplementsTxn, Txn!Spec, RetriesNeverCollide
<1>4. QED
  BY <1>3
=============================================================================
