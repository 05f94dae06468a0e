---------------------------- MODULE IngestSystem ----------------------------
(***************************************************************************)
(* The queue and the document transaction together: what process_one       *)
(* (sidecar) and pg_raggraph_worker_main (extension) do between the claim  *)
(* of a job and its verdict.  Each worker of JobQueue is a writer of       *)
(* IngestTxn; its verdict follows the outcome of the transaction, and a    *)
(* crash takes both with it.                                               *)
(***************************************************************************)
EXTENDS Naturals

CONSTANTS
    Jobs, Workers, Reapers, Stamps, NoJob, MaxAttempts, StaleAge, Prompt,
    Namespaces, Hashes, NChunks, NoDoc, Administered,
    Extension,      \* TRUE: extension; FALSE: sidecar
    Content,        \* per job, the namespace and the hash of its source
    Crashes         \* TRUE: workers are killed, connections are lost

VARIABLES
    status, attempt_count, age, enqueued_at, pc, job, attempt, hold, swept,
    documents, namespaces, phase, req, wrote, nchunks, dropping

queue == <<status, attempt_count, age, enqueued_at, pc, job, attempt, hold, swept>>
txn   == <<documents, namespaces, phase, req, wrote, nchunks, dropping>>
vars  == <<queue, txn>>

Queue == INSTANCE JobQueue WITH AtomicSweep <- Extension
Txn   == INSTANCE IngestTxn WITH Writers <- Workers

ASSUME IngestSystemAssumption ==
    /\ NoJob \notin Jobs
    /\ Stamps \subseteq Nat
    /\ MaxAttempts \in Nat \ {0} /\ StaleAge \in Nat \ {0} /\ NChunks \in Nat \ {0}
    /\ NoDoc \notin [ns : Namespaces, chunks : 0..NChunks]
    /\ Content \in [Jobs -> Txn!Request]
    /\ {Prompt, Extension, Administered, Crashes} \subseteq BOOLEAN

\* req means nothing before the first claim.
Init ==
    /\ Queue!Init
    /\ Txn!Init
    /\ \E j \in Jobs : req = [w \in Workers |-> Content[j]]

-----------------------------------------------------------------------------

enqueue(j) == Queue!enqueue(j) /\ UNCHANGED txn

claim_select(w) == Queue!claim_select(w) /\ UNCHANGED txn

\* The claim commits and the job's transaction begins.
claim_update(w) == Queue!claim_update(w) /\ Txn!begin(w, Content[job[w]])

\* A statement of run_job on behalf of the job in hand.
Step(w) ==
    /\ pc[w] = "running"
    /\ Txn!Step(w)
    /\ UNCHANGED queue

\* The transaction is over: Ok and Err choose the verdict.
run_job(w) ==
    /\ phase[w] \in {"completed", "skipped", "failed"}
    /\ Queue!run_job(w)
    /\ pc'[w] = IF phase[w] = "failed" THEN "failing" ELSE "completing"
    /\ UNCHANGED txn

complete_job(w) == Queue!complete_job(w) /\ UNCHANGED txn
fail_job(w)     == Queue!fail_job(w) /\ UNCHANGED txn

\* An ERROR ends the bgworker, which is restarted and polls again.
Errored(w) == Extension /\ pc[w] = "running" /\ phase[w] = "refused"

\* Mutation: the transaction survives its worker.
Abandon_leaks_txn(w) ==
    /\ Crashes \/ Errored(w)
    /\ Queue!Abandon(w)
    /\ UNCHANGED txn

\* The worker is gone, and its open transaction with it.
Abandon(w) ==
    /\ Crashes \/ Errored(w)
    /\ Queue!Abandon(w)
    /\ IF phase[w] \in Txn!Open THEN Txn!die(w) ELSE UNCHANGED txn

Reap(r) ==
    /\ \/ Queue!run_reaper_sweep(r)
       \/ Queue!reap_requeue(r)
       \/ Queue!reap_fail_capped(r)
       \/ Queue!ReaperAbandon(r)
    /\ UNCHANGED txn

Tick == Queue!Tick /\ UNCHANGED txn

Admin == Txn!Admin /\ UNCHANGED queue

Next ==
    \/ \E j \in Jobs : enqueue(j)
    \/ \E w \in Workers : claim_select(w)
    \/ \E w \in Workers : claim_update(w)
    \/ \E w \in Workers : Step(w)
    \/ \E w \in Workers : run_job(w)
    \/ \E w \in Workers : complete_job(w)
    \/ \E w \in Workers : fail_job(w)
    \/ \E w \in Workers : Abandon(w)
    \/ \E r \in Reapers : Reap(r)
    \/ Tick
    \/ Admin

Spec == Init /\ [][Next]_vars

\* As in JobQueue and IngestTxn.
Fairness ==
    /\ WF_vars(Tick)
    /\ \A w \in Workers :
        /\ WF_vars(claim_select(w))
        /\ SF_vars(claim_update(w))
        /\ WF_vars(Step(w) /\ ~Txn!insert_document(w) /\ ~Txn!raise(w))
        /\ SF_vars(Step(w) /\ Txn!insert_document(w))
        /\ WF_vars(run_job(w) \/ complete_job(w) \/ fail_job(w))
        /\ WF_vars(Errored(w) /\ Abandon(w))
    /\ \A r \in Reapers :
        /\ WF_vars(Queue!run_reaper_sweep(r) /\ UNCHANGED txn)
        /\ WF_vars(Queue!reap_requeue(r) /\ UNCHANGED txn)
        /\ SF_vars(Queue!reap_fail_capped(r) /\ UNCHANGED txn)

FairSpec == Spec /\ Fairness

-----------------------------------------------------------------------------
(* Properties *)

\* The parts are used as their own modules allow: what is proved about them
\* holds of the system.
ImplementsQueue == Queue!Spec
ImplementsTxn   == Txn!Spec

\* The contract of the document store holds under the queue's reruns, in the
\* deployment whose Err commits too.
ImplementsStore == Txn!ImplementsPartialStore

\* Sidecar: a completed job has its whole document in the database, every
\* chunk of it, through crashes between COMMIT or ROLLBACK and the verdict,
\* retries that skip, reruns of slow workers and late verdicts (where nothing
\* is deleted).  The extension cannot say so: a crash between commit_after_err
\* and fail_job leaves a partial document that the retry skips as a duplicate.
CompletedMeansStored ==
    \A j \in Jobs : status[j] = "completed" =>
        Txn!Stored(Content[j]) /\ documents[Content[j].hash].chunks = NChunks

\* A worker that holds a job works on that job's source.
TxnFollowsClaim ==
    \A w \in Workers :
        /\ phase[w] \in Txn!Open => pc[w] = "running"
        /\ Queue!Busy(w) => req[w] = Content[job[w]]

\* Retries are harmless: when no two jobs have the same content and no live
\* worker outlasts the reaper, the document and the chunks of a run are only
\* ever refused for want of its namespace, wherever the previous attempt was
\* cut off.  (What may refuse the entities of a chunk is EntityResolution's.)
RetriesNeverCollide ==
    [][ \A w \in Workers :
          (phase[w] \in {"absent", "writing"} /\ phase'[w] = "refused")
              => req[w].ns \notin namespaces ]_vars

\* Every enqueued job ends with a verdict, whatever its document waits for,
\* runs into, or loses to a crash.
EveryJobSettles ==
    \A j \in Jobs : status[j] = "queued" ~> status[j] \in Queue!Terminal
=============================================================================
