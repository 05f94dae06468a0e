--------------------------- MODULE JobQueueProofs ---------------------------
(***************************************************************************)
(* Theorems about JobQueue, for every set of jobs, workers and reapers,    *)
(* every attempt limit and reaper interval, and both deployments.          *)
(***************************************************************************)
EXTENDS JobQueue, TLAPS

\* A row that was never inserted was never claimed.
AbsentIsFresh == \A j \in Jobs : status[j] = "absent" => attempt_count[j] = 0

\* The row lock of a claim in flight keeps the row queued.
ClaimLockHeld == \A w \in Workers : pc[w] = "claiming" => status[job[w]] = "queued"

\* As long as the row still says running under a worker's own attempt,
\* updated_at is the time of that worker's claim.
HoldTracksAge ==
    \A w \in Workers :
        (/\ Busy(w)
         /\ status[job[w]] = "running"
         /\ attempt[w] = attempt_count[job[w]]) => hold[w] = age[job[w]]

\* A worker whose claim was taken back had it for the whole interval.
SupersededIsStale ==
    \A w \in Workers :
        (/\ Busy(w)
         /\ status[job[w]] = "queued" \/ attempt[w] < attempt_count[job[w]])
            => hold[w] = StaleAge

QueueInv ==
    /\ TypeOK
    /\ AttemptCap
    /\ AbsentIsFresh
    /\ ClaimLockHeld
    /\ OneClaimantPerAttempt
    /\ HoldTracksAge
    /\ SupersededIsStale

USE JobQueueAssumption

-----------------------------------------------------------------------------

(* Every variable keeps its type, in both deployments: the statements of    *)
(* queue.rs and reaper.rs only ever write statuses of the CHECK constraint. *)
THEOREM TypeCorrect == Spec => []TypeOK
<1>1. Init => TypeOK
  BY DEF Init, TypeOK, Status, PC, Terminal
<1>2. TypeOK /\ [Next]_vars => TypeOK'
  <2> SUFFICES ASSUME TypeOK, [Next]_vars PROVE TypeOK'
    OBVIOUS
  <2> USE DEF TypeOK, Status, PC, Terminal, rows, workers
  <2>1. ASSUME NEW j \in Jobs, enqueue(j) PROVE TypeOK'
    BY <2>1 DEF enqueue
  <2>2. ASSUME NEW w \in Workers, claim_select(w) PROVE TypeOK'
    BY <2>2 DEF claim_select, Claimable
  <2>3. ASSUME NEW w \in Workers, claim_update(w) PROVE TypeOK'
    BY <2>3 DEF claim_update, Touch
  <2>4. ASSUME NEW w \in Workers, run_job(w) PROVE TypeOK'
    BY <2>4 DEF run_job
  <2>5. ASSUME NEW w \in Workers, complete_job(w) PROVE TypeOK'
    BY <2>5 DEF complete_job, WriteVerdict, Touch, Release
  <2>6. ASSUME NEW w \in Workers, fail_job(w) PROVE TypeOK'
    BY <2>6 DEF fail_job, WriteVerdict, Touch, Release
  <2>7. ASSUME NEW w \in Workers, Abandon(w) PROVE TypeOK'
    BY <2>7 DEF Abandon, Release
  <2>8. ASSUME NEW r \in Reapers, run_reaper_sweep(r) PROVE TypeOK'
    BY <2>8 DEF run_reaper_sweep
  <2>9. ASSUME NEW r \in Reapers, reap_requeue(r) PROVE TypeOK'
    BY <2>9 DEF reap_requeue
  <2>10. ASSUME NEW r \in Reapers, reap_fail_capped(r) PROVE TypeOK'
    BY <2>10 DEF reap_fail_capped
  <2>11. ASSUME NEW r \in Reapers, ReaperAbandon(r) PROVE TypeOK'
    BY <2>11 DEF ReaperAbandon
  <2>12. CASE Tick
    BY <2>12 DEF Tick, Older
  <2>13. CASE UNCHANGED vars
    BY <2>13 DEF vars
  <2>14. QED
    BY <2>1, <2>2, <2>3, <2>4, <2>5, <2>6, <2>7, <2>8, <2>9, <2>10, <2>11,
       <2>12, <2>13 DEF Next
<1>3. QED
  BY <1>1, <1>2, PTL DEF Spec

-----------------------------------------------------------------------------

(* The inductive strengthening.  AttemptCap alone is not inductive: a claim *)
(* stays within the cap because the row it locked is still queued           *)
(* (ClaimLockHeld), which holds because nobody else can have it locked      *)
(* (OneClaimantPerAttempt).  RerunOnlyAfterStale needs both facts about     *)
(* hold: it follows updated_at until the claim is taken back, and it is     *)
(* saturated from then on.                                                  *)
THEOREM QueueInvariant == Spec => []QueueInv
<1>1. Init => QueueInv
  BY DEF Init, QueueInv, TypeOK, AttemptCap, AbsentIsFresh, ClaimLockHeld,
         OneClaimantPerAttempt, HoldTracksAge, SupersededIsStale, Busy,
         Status, PC, Terminal
<1>2. QueueInv /\ TypeOK' /\ [Next]_vars => QueueInv'
  <2> SUFFICES ASSUME QueueInv, TypeOK', [Next]_vars PROVE QueueInv'
    OBVIOUS
  <2> USE DEF QueueInv, TypeOK, Status, PC, Terminal, rows, workers, Busy
  <2>1. ASSUME NEW j \in Jobs, enqueue(j) PROVE QueueInv'
    BY <2>1 DEF enqueue, AttemptCap, AbsentIsFresh, ClaimLockHeld,
                OneClaimantPerAttempt, HoldTracksAge, SupersededIsStale
  <2>2. ASSUME NEW w \in Workers, claim_select(w) PROVE QueueInv'
    <3>1. ClaimLockHeld'
      BY <2>2 DEF claim_select, Claimable, ClaimLockHeld
    <3>2. OneClaimantPerAttempt'
      BY <2>2 DEF claim_select, Claimable, Locked, OneClaimantPerAttempt
    <3>3. QED
      BY <2>2, <3>1, <3>2 DEF claim_select, AttemptCap, AbsentIsFresh,
                              HoldTracksAge, SupersededIsStale
  <2>3. ASSUME NEW w \in Workers, claim_update(w) PROVE QueueInv'
    <3>1. job[w] \in Jobs /\ status[job[w]] = "queued"
      BY <2>3 DEF claim_update, ClaimLockHeld
    <3>2. AttemptCap' /\ AbsentIsFresh'
      BY <2>3, <3>1 DEF claim_update, AttemptCap, AbsentIsFresh
    <3>3. ClaimLockHeld'
      BY <2>3 DEF claim_update, ClaimLockHeld, OneClaimantPerAttempt
    <3>4. OneClaimantPerAttempt'
      BY <2>3, <3>1 DEF claim_update, OneClaimantPerAttempt
    <3>5. HoldTracksAge'
      BY <2>3, <3>1 DEF claim_update, Touch, OneClaimantPerAttempt, HoldTracksAge
    <3>6. SupersededIsStale'
      BY <2>3, <3>1 DEF claim_update, OneClaimantPerAttempt, SupersededIsStale
    <3>7. QED
      BY <3>2, <3>3, <3>4, <3>5, <3>6
  <2>4. ASSUME NEW w \in Workers, run_job(w) PROVE QueueInv'
    BY <2>4 DEF run_job, AttemptCap, AbsentIsFresh, ClaimLockHeld,
                OneClaimantPerAttempt, HoldTracksAge, SupersededIsStale
  <2>5. ASSUME NEW w \in Workers, NEW v \in Terminal, pc[w] \in {"completing", "failing"},
               WriteVerdict(w, v)
        PROVE  QueueInv'
    <3>1. job[w] \in Jobs /\ attempt_count[job[w]] > 0
      BY <2>5 DEF OneClaimantPerAttempt
    <3>2. AttemptCap' /\ AbsentIsFresh'
      BY <2>5, <3>1 DEF WriteVerdict, AttemptCap, AbsentIsFresh
    <3>3. ClaimLockHeld'
      BY <2>5 DEF WriteVerdict, Release, Locked, ClaimLockHeld
    <3>4. OneClaimantPerAttempt'
      BY <2>5 DEF WriteVerdict, Release, OneClaimantPerAttempt
    <3>5. HoldTracksAge' /\ SupersededIsStale'
      BY <2>5, <3>1 DEF WriteVerdict, Touch, Release, HoldTracksAge, SupersededIsStale
    <3>6. QED
      BY <3>2, <3>3, <3>4, <3>5
  <2>6. ASSUME NEW w \in Workers, Abandon(w) PROVE QueueInv'
    BY <2>6 DEF Abandon, Release, AttemptCap, AbsentIsFresh, ClaimLockHeld,
                OneClaimantPerAttempt, HoldTracksAge, SupersededIsStale
  <2>7. ASSUME UNCHANGED <<attempt_count, enqueued_at, workers>>,
               \A j \in Jobs :
                  \/ status'[j] = status[j] /\ age'[j] = age[j]
                  \/ j \in Retryable /\ status'[j] = "queued"
                  \/ j \in Exhausted /\ status'[j] = "failed"
        PROVE  QueueInv'
    <3>1. \A j \in Retryable \union Exhausted : status[j] = "running" /\ age[j] = StaleAge
      BY DEF Retryable, Exhausted, Stale
    <3>2. AttemptCap' /\ AbsentIsFresh'
      BY <2>7, <3>1 DEF Retryable, AttemptCap, AbsentIsFresh
    <3>3. ClaimLockHeld' /\ OneClaimantPerAttempt'
      BY <2>7, <3>1 DEF ClaimLockHeld, OneClaimantPerAttempt
    <3>4. HoldTracksAge'
      BY <2>7 DEF HoldTracksAge
    <3>5. SupersededIsStale'
      BY <2>7, <3>1 DEF HoldTracksAge, SupersededIsStale, OneClaimantPerAttempt
    <3>6. QED
      BY <3>2, <3>3, <3>4, <3>5
  <2>8. ASSUME NEW r \in Reapers, run_reaper_sweep(r) PROVE QueueInv'
    BY <2>7, <2>8 DEF run_reaper_sweep
  <2>9. ASSUME NEW r \in Reapers, reap_requeue(r) PROVE QueueInv'
    BY <2>7, <2>9 DEF reap_requeue
  <2>10. ASSUME NEW r \in Reapers, reap_fail_capped(r) PROVE QueueInv'
    BY <2>7, <2>10 DEF reap_fail_capped
  <2>11. CASE Tick
    BY <2>11 DEF Tick, Older, AttemptCap, AbsentIsFresh, ClaimLockHeld,
                 OneClaimantPerAttempt, HoldTracksAge, SupersededIsStale
  <2>12. CASE UNCHANGED <<rows, workers>>
    BY <2>12 DEF AttemptCap, AbsentIsFresh, ClaimLockHeld,
                 OneClaimantPerAttempt, HoldTracksAge, SupersededIsStale
  <2>13. QED
    BY <2>1, <2>2, <2>3, <2>4, <2>5, <2>6, <2>8, <2>9, <2>10, <2>11, <2>12
       DEF Next, vars, complete_job, fail_job, ReaperAbandon
<1>3. QED
  BY <1>1, <1>2, TypeCorrect, PTL DEF Spec

(* A row is claimed at most MaxAttempts times, crashes and late verdicts    *)
(* included, and a queued row always has an attempt left.                   *)
THEOREM AttemptCapHolds == Spec => []AttemptCap
<1>1. QueueInv => AttemptCap
  BY DEF QueueInv
<1>2. QED
  BY <1>1, QueueInvariant, PTL

(* The claim statement hands every attempt of a row to one worker.          *)
THEOREM ClaimsAreExclusive == Spec => []OneClaimantPerAttempt
<1>1. QueueInv => OneClaimantPerAttempt
  BY DEF QueueInv
<1>2. QED
  BY <1>1, QueueInvariant, PTL

(* A second worker gets a live worker's job only after a full interval.     *)
THEOREM RerunsAreLate == Spec => []RerunOnlyAfterStale
<1>1. QueueInv => RerunOnlyAfterStale
  BY DEF QueueInv, TypeOK, OneClaimantPerAttempt, SupersededIsStale,
         RerunOnlyAfterStale, Busy
<1>2. QED
  BY <1>1, QueueInvariant, PTL

-----------------------------------------------------------------------------
(* When no live worker outlasts the reaper interval *)

\* A live worker's claim is the row's current one and is not stale yet.
FreshClaims ==
    /\ LiveClaimIsCurrent
    /\ \A w \in Workers : Busy(w) => hold[w] < StaleAge

(* Every statement keeps live claims current: a claim cannot take a row a   *)
(* live worker has, because that row is running, and the reaper cannot      *)
(* either, because the row is younger than the interval.                    *)
LEMMA FreshClaimsStep ==
    ASSUME Prompt, QueueInv, FreshClaims, [Next]_vars
    PROVE  FreshClaims'
<1> USE DEF QueueInv, TypeOK, PC, rows, workers, Busy, FreshClaims, LiveClaimIsCurrent
<1>1. ASSUME NEW j \in Jobs, enqueue(j) PROVE FreshClaims'
  BY <1>1 DEF enqueue
<1>2. ASSUME NEW w \in Workers, claim_select(w) PROVE FreshClaims'
  BY <1>2 DEF claim_select
<1>3. ASSUME NEW w \in Workers, claim_update(w) PROVE FreshClaims'
  <2>1. \A v \in Workers : Busy(v) => job[v] # job[w]
    BY <1>3 DEF claim_update, ClaimLockHeld
  <2>2. QED
    BY <1>3, <2>1 DEF claim_update
<1>4. ASSUME NEW w \in Workers, run_job(w) PROVE FreshClaims'
  BY <1>4 DEF run_job
<1>5. ASSUME NEW w \in Workers, NEW v \in Terminal, pc[w] \in {"completing", "failing"},
             WriteVerdict(w, v)
      PROVE  FreshClaims'
  <2>1. \A u \in Workers : (Busy(u) /\ u # w) => job[u] # job[w]
    BY <1>5 DEF OneClaimantPerAttempt
  <2>2. QED
    BY <1>5, <2>1 DEF WriteVerdict, Release
<1>6. ASSUME NEW w \in Workers, Abandon(w) PROVE FreshClaims'
  BY <1>6 DEF Abandon, Release
<1>7. ASSUME UNCHANGED <<attempt_count, workers>>,
             \A j \in Jobs : ~Stale(j) => status'[j] = status[j]
      PROVE  FreshClaims'
  <2>1. \A w \in Workers : Busy(w) => job[w] \in Jobs /\ ~Stale(job[w])
    BY DEF Stale, HoldTracksAge
  <2>2. QED
    BY <1>7, <2>1
<1>8. ASSUME NEW r \in Reapers,
             run_reaper_sweep(r) \/ reap_requeue(r) \/ reap_fail_capped(r)
      PROVE  FreshClaims'
  BY <1>7, <1>8 DEF run_reaper_sweep, reap_requeue, reap_fail_capped, Retryable, Exhausted
<1>9. CASE Tick
  BY <1>9 DEF Tick, Older
<1>10. CASE UNCHANGED <<rows, workers>>
  BY <1>10
<1>11. QED
  BY <1>1, <1>2, <1>3, <1>4, <1>5, <1>6, <1>8, <1>9, <1>10
     DEF Next, vars, complete_job, fail_job, ReaperAbandon, Terminal

(* A worker that is prompt holds the current claim of its row until it      *)
(* writes the verdict.                                                      *)
LEMMA FreshClaimsInvariant == Prompt /\ Spec => []FreshClaims
<1>1. Init => FreshClaims
  BY DEF Init, FreshClaims, LiveClaimIsCurrent, Busy
<1>2. Prompt /\ QueueInv /\ FreshClaims /\ [Next]_vars => FreshClaims'
  BY FreshClaimsStep
<1>3. CASE Prompt
  <2>1. QueueInv /\ FreshClaims /\ [Next]_vars => FreshClaims'
    BY <1>2, <1>3
  <2>2. QED
    BY <1>1, <2>1, QueueInvariant, PTL DEF Spec
<1>4. QED
  BY <1>3

(* No job is in the hands of two workers.                                   *)
THEOREM PromptWorkersAreSafe == Prompt /\ Spec => []SingleRunner
<1>1. QueueInv /\ FreshClaims => SingleRunner
  BY DEF QueueInv, TypeOK, OneClaimantPerAttempt, FreshClaims, LiveClaimIsCurrent,
         SingleRunner, Busy
<1>2. QED
  BY <1>1, QueueInvariant, FreshClaimsInvariant, PTL

(* The verdict UPDATE, although unguarded, only ever lands on the claim it  *)
(* belongs to (complete_job and fail_job, WHERE id = $1).                   *)
THEOREM PromptVerdictsAreCurrent == Prompt /\ Spec => []LiveClaimIsCurrent
<1>1. FreshClaims => LiveClaimIsCurrent
  BY DEF FreshClaims
<1>2. QED
  BY <1>1, FreshClaimsInvariant, PTL

(* The reaper only takes rows whose claimant is gone.                       *)
THEOREM PromptReaperIsCrashRecovery == Prompt /\ Spec => ReapsOnlyCrashed
<1>1. ASSUME Prompt, QueueInv, FreshClaims, [Next]_vars
      PROVE  [\A j \in Jobs :
                (/\ status[j] = "running" /\ status'[j] # "running" /\ UNCHANGED pc)
                    => \A w \in Workers : ~(Busy(w) /\ job[w] = j)]_vars
  <2> SUFFICES ASSUME NEW j \in Jobs, status[j] = "running", status'[j] # "running",
                      UNCHANGED pc, NEW w \in Workers, Busy(w), job[w] = j
               PROVE  FALSE
    OBVIOUS
  <2>1. ~Stale(j)
    BY <1>1 DEF QueueInv, TypeOK, FreshClaims, LiveClaimIsCurrent, HoldTracksAge, Stale
  <2>2. \A v \in Workers : ~complete_job(v) /\ ~fail_job(v) /\ ~claim_update(v)
    BY <1>1 DEF complete_job, fail_job, WriteVerdict, Release, claim_update, QueueInv, TypeOK
  <2>3. QED
    BY <1>1, <2>1, <2>2
       DEF Next, vars, rows, enqueue, claim_select, run_job, Abandon, run_reaper_sweep,
           reap_requeue, reap_fail_capped, ReaperAbandon, Tick, Retryable, Exhausted,
           QueueInv, TypeOK
<1>2. CASE Prompt
  <2>1. QueueInv /\ FreshClaims /\ [Next]_vars
          => [\A j \in Jobs :
                (/\ status[j] = "running" /\ status'[j] # "running" /\ UNCHANGED pc)
                    => \A w \in Workers : ~(Busy(w) /\ job[w] = j)]_vars
    BY <1>1, <1>2
  <2>2. QED
    BY <1>2, <2>1, QueueInvariant, FreshClaimsInvariant, PTL DEF Spec, ReapsOnlyCrashed
<1>3. QED
  BY <1>2

-----------------------------------------------------------------------------
(* Refinement *)

(* An empty pgrg.ingest_jobs is an empty abstract queue.                    *)
LEMMA LifecycleInit == Init => Lifecycle!Init
BY DEF Init, Lifecycle!Init

(* The UPDATE of a claim starts a queued job that has an attempt left,      *)
(* although it tests neither: the row lock and the reaper's cap do.         *)
LEMMA ClaimRefines ==
    ASSUME QueueInv, NEW w \in Workers, claim_update(w)
    PROVE  job[w] \in Jobs /\ Lifecycle!Start(job[w])
BY DEF claim_update, Lifecycle!Start, QueueInv, TypeOK, PC, ClaimLockHeld, AttemptCap

(* Each statement of the reaper, and both together, are one recovery step.  *)
LEMMA SweepRefines ==
    ASSUME QueueInv, UNCHANGED attempt_count,
           NEW R \in {{}, Retryable}, NEW X \in {{}, Exhausted},
           status' = [j \in Jobs |-> IF j \in R THEN "queued"
                                 ELSE IF j \in X THEN "failed" ELSE status[j]]
    PROVE  R \in SUBSET Jobs /\ X \in SUBSET Jobs /\ Lifecycle!Recover(R, X)
BY DEF Lifecycle!Recover, Retryable, Exhausted, Stale, QueueInv, TypeOK, AttemptCap

(* Every statement but the UPDATE of a verdict is a step of the strict      *)
(* contract, or invisible to a reader of the table.                         *)
LEMMA StepRefines ==
    ASSUME QueueInv, [Next]_vars,
           \A w \in Workers : ~complete_job(w) /\ ~fail_job(w)
    PROVE  [Lifecycle!Next]_(Lifecycle!vars)
<1> USE DEF Lifecycle!Next, Lifecycle!vars, rows
<1>1. ASSUME NEW j \in Jobs, enqueue(j) PROVE Lifecycle!Submit(j)
  BY <1>1 DEF enqueue, Lifecycle!Submit
<1>2. ASSUME NEW w \in Workers, claim_update(w) PROVE \E j \in Jobs : Lifecycle!Start(j)
  BY <1>2, ClaimRefines
<1>3. ASSUME NEW r \in Reapers, run_reaper_sweep(r)
      PROVE  \E R, X \in SUBSET Jobs : Lifecycle!Recover(R, X)
  BY <1>3, SweepRefines DEF run_reaper_sweep
<1>4. ASSUME NEW r \in Reapers, reap_requeue(r)
      PROVE  \E R, X \in SUBSET Jobs : Lifecycle!Recover(R, X)
  <2>1. status' = [j \in Jobs |-> IF j \in Retryable THEN "queued"
                             ELSE IF j \in {} THEN "failed" ELSE status[j]]
    BY <1>4 DEF reap_requeue
  <2>2. QED
    BY <1>4, <2>1, SweepRefines DEF reap_requeue
<1>5. ASSUME NEW r \in Reapers, reap_fail_capped(r)
      PROVE  \E R, X \in SUBSET Jobs : Lifecycle!Recover(R, X)
  <2>1. status' = [j \in Jobs |-> IF j \in {} THEN "queued"
                             ELSE IF j \in Exhausted THEN "failed" ELSE status[j]]
    BY <1>5 DEF reap_fail_capped
  <2>2. QED
    BY <1>5, <2>1, SweepRefines DEF reap_fail_capped
<1>6. QED
  BY <1>1, <1>2, <1>3, <1>4, <1>5
     DEF Next, vars, claim_select, run_job, Abandon, ReaperAbandon, Tick

(* The queue implements the contract with late verdicts, always ...         *)
THEOREM RefinesLateLifecycle == Spec => ImplementsLateLifecycle
<1>1. ASSUME QueueInv, NEW w \in Workers, complete_job(w) \/ fail_job(w)
      PROVE  \E j \in Jobs, v \in Lifecycle!Verdict : Lifecycle!LateSettle(j, v)
  <2>1. job[w] \in Jobs /\ attempt_count[job[w]] > 0
    BY <1>1 DEF complete_job, fail_job, Busy, QueueInv, TypeOK, OneClaimantPerAttempt
  <2>2. \E v \in Lifecycle!Verdict : Lifecycle!LateSettle(job[w], v)
    BY <1>1, <2>1 DEF complete_job, fail_job, WriteVerdict, Lifecycle!LateSettle,
                      Lifecycle!Verdict
  <2>3. QED
    BY <2>1, <2>2
<1>2. QueueInv /\ [Next]_vars => [Lifecycle!LateNext]_(Lifecycle!vars)
  BY <1>1, StepRefines DEF Lifecycle!LateNext
<1>3. QED
  BY <1>2, LifecycleInit, QueueInvariant, PTL
     DEF Spec, ImplementsLateLifecycle, Lifecycle!LateSpec

(* ... and the strict contract when no live worker outlasts the interval.   *)
THEOREM RefinesLifecycle == Prompt /\ Spec => ImplementsLifecycle
<1>1. ASSUME QueueInv, FreshClaims, NEW w \in Workers, complete_job(w) \/ fail_job(w)
      PROVE  \E j \in Jobs, v \in Lifecycle!Verdict : Lifecycle!Settle(j, v)
  <2>1. job[w] \in Jobs /\ status[job[w]] = "running"
    BY <1>1 DEF complete_job, fail_job, Busy, QueueInv, TypeOK, FreshClaims, LiveClaimIsCurrent
  <2>2. \E v \in Lifecycle!Verdict : Lifecycle!Settle(job[w], v)
    BY <1>1, <2>1 DEF complete_job, fail_job, WriteVerdict, Lifecycle!Settle, Lifecycle!Verdict
  <2>3. QED
    BY <2>1, <2>2
<1>2. QueueInv /\ FreshClaims /\ [Next]_vars => [Lifecycle!Next]_(Lifecycle!vars)
  BY <1>1, StepRefines DEF Lifecycle!Next
<1>3. QED
  BY <1>2, LifecycleInit, QueueInvariant, FreshClaimsInvariant, PTL
     DEF Spec, ImplementsLifecycle, Lifecycle!Spec
=============================================================================
