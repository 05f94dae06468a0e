------------------------------ MODULE JobQueue ------------------------------
(***************************************************************************)
(* The durable job queue pgrg.ingest_jobs: the rows, the workers that      *)
(* claim and settle them, and the reapers that take stale claims back.     *)
(* One module covers both deployments, which share the SQL:                *)
(*                                                                         *)
(*   extension  pg_raggraph/src/bgw       bgworkers, one launcher whose    *)
(*                                        sweep is a single transaction    *)
(*   sidecar    pg_raggraph_sidecar/src   tokio tasks, one reaper task per *)
(*                                        process, two autocommit UPDATEs  *)
(*                                                                         *)
(* The ingest pipeline is one step here, with either outcome.              *)
(*                                                                         *)
(* Time.  The only use of a clock is the reaper's                          *)
(*     updated_at < now() - interval                                       *)
(* so a row carries the number of Ticks since updated_at was written,      *)
(* saturated at StaleAge, the first age the predicate accepts; a worker    *)
(* carries the Ticks since its claim, saturated alike.                     *)
(***************************************************************************)
EXTENDS Naturals

CONSTANTS
    Jobs,           \* ids of the rows that may be enqueued
    Workers,        \* bgworkers, or worker tasks of every sidecar process
    Reapers,        \* the launcher, or one reaper task per sidecar process
    Stamps,         \* values of enqueued_at; equal ones are unordered
    NoJob,          \* held by a worker that has no job
    MaxAttempts,    \* the literal 3 of both reaper statements
    StaleAge,       \* Ticks after which a running row is stale
    AtomicSweep,    \* TRUE: extension; FALSE: sidecar
    Prompt          \* TRUE: no live worker outlasts the reaper interval

ASSUME JobQueueAssumption ==
    /\ NoJob \notin Jobs
    /\ Stamps \subseteq Nat
    /\ MaxAttempts \in Nat \ {0}
    /\ StaleAge \in Nat \ {0}
    /\ AtomicSweep \in BOOLEAN
    /\ Prompt \in BOOLEAN

VARIABLES
    \* the table
    status, attempt_count, age, enqueued_at,
    \* the workers: program counter, job held, attempt_count the claim
    \* returned, Ticks since the claim
    pc, job, attempt, hold,
    \* the reapers: TRUE between the two statements of a sidecar sweep
    swept

rows    == <<status, attempt_count, age, enqueued_at>>
workers == <<pc, job, attempt, hold>>
vars    == <<status, attempt_count, age, enqueued_at, pc, job, attempt, hold, swept>>

Terminal == {"completed", "failed"}
Status   == {"absent", "queued", "running"} \union Terminal
PC       == {"idle", "claiming", "running", "completing", "failing"}

Init ==
    /\ status = [j \in Jobs |-> "absent"]
    /\ attempt_count = [j \in Jobs |-> 0]
    /\ age = [j \in Jobs |-> 0]
    /\ enqueued_at \in [Jobs -> Stamps]
    /\ pc = [w \in Workers |-> "idle"]
    /\ job = [w \in Workers |-> NoJob]
    /\ attempt = [w \in Workers |-> 0]
    /\ hold = [w \in Workers |-> 0]
    /\ swept = [r \in Reapers |-> FALSE]

-----------------------------------------------------------------------------
(* Enqueueing *)

\* INSERT of a row with attempt_count 0 and updated_at now().  enqueued_at is
\* the start time of the inserting transaction, which may commit after a later
\* one: any stamp, not the largest so far (Init draws it).
enqueue(j) ==
    /\ status[j] = "absent"
    /\ status' = [status EXCEPT ![j] = "queued"]
    /\ UNCHANGED <<attempt_count, age, enqueued_at, workers, swept>>

-----------------------------------------------------------------------------
(* Workers *)

\* A worker past its claim that has not written its verdict yet.
Busy(w) == pc[w] \in {"running", "completing", "failing"}

\* FOR UPDATE: the row lock a claim in flight holds.
Locked(j) == \E w \in Workers : pc[w] = "claiming" /\ job[w] = j

\* Mutation: the CTE without FOR UPDATE SKIP LOCKED.
Claimable_unlocked == {j \in Jobs : status[j] = "queued"}

\* Mutation: failed rows are picked up again.
Claimable_failed == {j \in Jobs : status[j] \in {"queued", "failed"} /\ ~Locked(j)}

Claimable == {j \in Jobs : status[j] = "queued" /\ ~Locked(j)}

\* Mutation: updated_at is not written.
Touch_never(j) == UNCHANGED age

\* SET updated_at = now()
Touch(j) == age' = [age EXCEPT ![j] = 0]

\* The CTE of the claim: oldest queued row nobody else has locked.
claim_select(w) ==
    /\ pc[w] = "idle"
    /\ \E j \in Claimable :
        /\ \A k \in Claimable : enqueued_at[j] <= enqueued_at[k]
        /\ job' = [job EXCEPT ![w] = j]
    /\ pc' = [pc EXCEPT ![w] = "claiming"]
    /\ UNCHANGED <<rows, attempt, hold, swept>>

\* The UPDATE of the claim and the commit of its transaction.
claim_update(w) ==
    /\ pc[w] = "claiming"
    /\ status' = [status EXCEPT ![job[w]] = "running"]
    /\ attempt_count' = [attempt_count EXCEPT ![job[w]] = @ + 1]
    /\ Touch(job[w])
    /\ attempt' = [attempt EXCEPT ![w] = attempt_count[job[w]] + 1]
    /\ hold' = [hold EXCEPT ![w] = 0]
    /\ pc' = [pc EXCEPT ![w] = "running"]
    /\ UNCHANGED <<enqueued_at, job, swept>>

\* The document transaction: Ok or Err.
run_job(w) ==
    /\ pc[w] = "running"
    /\ \E next \in {"completing", "failing"} : pc' = [pc EXCEPT ![w] = next]
    /\ UNCHANGED <<rows, job, attempt, hold, swept>>

\* Back to the top of the poll loop.
Release(w) ==
    /\ pc' = [pc EXCEPT ![w] = "idle"]
    /\ job' = [job EXCEPT ![w] = NoJob]
    /\ attempt' = [attempt EXCEPT ![w] = 0]
    /\ hold' = [hold EXCEPT ![w] = 0]

\* UPDATE ... WHERE id = $1, with no test of status or attempt_count; waits
\* for a claim that has the row locked.
WriteVerdict(w, verdict) ==
    /\ ~Locked(job[w])
    /\ status' = [status EXCEPT ![job[w]] = verdict]
    /\ Touch(job[w])
    /\ Release(w)
    /\ UNCHANGED <<attempt_count, enqueued_at, swept>>

complete_job(w) == pc[w] = "completing" /\ WriteVerdict(w, "completed")

\* Mutation: a status the CHECK of migration 005 does not list.
fail_job_error(w) == pc[w] = "failing" /\ WriteVerdict(w, "error")

fail_job(w) == pc[w] = "failing" /\ WriteVerdict(w, "failed")

\* The worker stops without writing a verdict and polls again: bgworker
\* ERROR or panic and restart, sidecar killed, connection lost, a `?` out of
\* process_one, a fail UPDATE whose error is dropped by .ok().  A claim in
\* flight rolls back and unlocks its row.
Abandon(w) ==
    /\ pc[w] # "idle"
    /\ Release(w)
    /\ UNCHANGED <<rows, swept>>

-----------------------------------------------------------------------------
(* Reapers *)

\* Mutation: the predicate without status = 'running'.
Stale_any(j) == status[j] # "absent" /\ age[j] = StaleAge

\* Mutation: one Tick early.
Stale_early(j) == status[j] = "running" /\ age[j] + 1 >= StaleAge

Stale(j) == status[j] = "running" /\ age[j] = StaleAge

\* Mutation: attempt_count <= 3.
Retryable_atmost == {j \in Jobs : Stale(j) /\ attempt_count[j] <= MaxAttempts}

Retryable == {j \in Jobs : Stale(j) /\ attempt_count[j] < MaxAttempts}

\* Mutation: attempt_count > 3.
Exhausted_beyond == {j \in Jobs : Stale(j) /\ attempt_count[j] > MaxAttempts}

\* Mutation: the fail-cap statement without its interval.
Exhausted_fresh == {j \in Jobs : status[j] = "running" /\ attempt_count[j] >= MaxAttempts}

Exhausted == {j \in Jobs : Stale(j) /\ attempt_count[j] >= MaxAttempts}

\* Extension: both statements in one transaction of the launcher.
run_reaper_sweep(r) ==
    /\ AtomicSweep
    /\ status' = [j \in Jobs |-> IF j \in Retryable THEN "queued"
                            ELSE IF j \in Exhausted THEN "failed"
                            ELSE status[j]]
    /\ age' = [j \in Jobs |-> IF j \in Retryable \union Exhausted THEN 0 ELSE age[j]]
    /\ UNCHANGED <<attempt_count, enqueued_at, workers, swept>>

\* Sidecar: the requeue statement, committed on its own ...
reap_requeue(r) ==
    /\ ~AtomicSweep
    /\ ~swept[r]
    /\ status' = [j \in Jobs |-> IF j \in Retryable THEN "queued" ELSE status[j]]
    /\ age' = [j \in Jobs |-> IF j \in Retryable THEN 0 ELSE age[j]]
    /\ swept' = [swept EXCEPT ![r] = TRUE]
    /\ UNCHANGED <<attempt_count, enqueued_at, workers>>

\* ... then the fail-cap statement, with a now() of its own.
reap_fail_capped(r) ==
    /\ ~AtomicSweep
    /\ swept[r]
    /\ status' = [j \in Jobs |-> IF j \in Exhausted THEN "failed" ELSE status[j]]
    /\ age' = [j \in Jobs |-> IF j \in Exhausted THEN 0 ELSE age[j]]
    /\ swept' = [swept EXCEPT ![r] = FALSE]
    /\ UNCHANGED <<attempt_count, enqueued_at, workers>>

\* The process dies, or the second statement errors: the sweep is over.
ReaperAbandon(r) ==
    /\ swept[r]
    /\ swept' = [swept EXCEPT ![r] = FALSE]
    /\ UNCHANGED <<rows, workers>>

-----------------------------------------------------------------------------
(* Time *)

Older(n) == IF n < StaleAge THEN n + 1 ELSE n

Tick ==
    /\ Prompt => \A w \in Workers : Busy(w) => hold[w] + 1 < StaleAge
    /\ age' = [j \in Jobs |-> IF status[j] = "absent" THEN 0 ELSE Older(age[j])]
    /\ hold' = [w \in Workers |-> IF Busy(w) THEN Older(hold[w]) ELSE hold[w]]
    /\ UNCHANGED <<status, attempt_count, enqueued_at, pc, job, attempt, swept>>

-----------------------------------------------------------------------------

Next ==
    \/ \E j \in Jobs : enqueue(j)
    \/ \E w \in Workers : claim_select(w)
    \/ \E w \in Workers : claim_update(w)
    \/ \E w \in Workers : run_job(w)
    \/ \E w \in Workers : complete_job(w)
    \/ \E w \in Workers : fail_job(w)
    \/ \E w \in Workers : Abandon(w)
    \/ \E r \in Reapers : run_reaper_sweep(r)
    \/ \E r \in Reapers : reap_requeue(r)
    \/ \E r \in Reapers : reap_fail_capped(r)
    \/ \E r \in Reapers : ReaperAbandon(r)
    \/ Tick

Spec == Init /\ [][Next]_vars

\* The poll loops and the reaper's ticker run forever, run_job ends (local
\* work, HTTP calls under a timeout) and time passes.  Strong fairness where
\* Abandon or ReaperAbandon can interrupt: not every claim, and not every
\* sweep, is cut short.  Nothing makes anybody enqueue or crash.
Fairness ==
    /\ WF_vars(Tick)
    /\ \A w \in Workers :
        /\ WF_vars(claim_select(w))
        /\ SF_vars(claim_update(w))
        /\ WF_vars(run_job(w))
        /\ WF_vars(complete_job(w) \/ fail_job(w))
    /\ \A r \in Reapers :
        /\ WF_vars(run_reaper_sweep(r))
        /\ WF_vars(reap_requeue(r))
        /\ SF_vars(reap_fail_capped(r))

FairSpec == Spec /\ Fairness

-----------------------------------------------------------------------------
(* Properties *)

\* Every variable has its type; status obeys the CHECK of migration 005.
TypeOK ==
    /\ status \in [Jobs -> Status]
    /\ attempt_count \in [Jobs -> Nat]
    /\ age \in [Jobs -> 0..StaleAge]
    /\ enqueued_at \in [Jobs -> Stamps]
    /\ pc \in [Workers -> PC]
    /\ job \in [Workers -> Jobs \union {NoJob}]
    /\ \A w \in Workers : pc[w] # "idle" => job[w] \in Jobs
    /\ attempt \in [Workers -> Nat]
    /\ hold \in [Workers -> 0..StaleAge]
    /\ swept \in [Reapers -> BOOLEAN]

\* No row is claimed more than MaxAttempts times, and a row that is still
\* queued has an attempt left, although the claim itself tests neither: only
\* the two predicates of the reaper keep the count in range.
AttemptCap ==
    \A j \in Jobs :
        /\ attempt_count[j] <= MaxAttempts
        /\ status[j] = "queued" => attempt_count[j] < MaxAttempts
        /\ status[j] = "running" => attempt_count[j] > 0

\* The attempt_count a claim returns names its holder: two workers that hold
\* the same row hold different attempts of it, none beyond the row's count,
\* and at most one claim is in flight per row (FOR UPDATE SKIP LOCKED).
OneClaimantPerAttempt ==
    \A v, w \in Workers :
        /\ Busy(w) => attempt[w] \in 1..attempt_count[job[w]]
        /\ (Busy(v) /\ Busy(w) /\ v # w /\ job[v] = job[w])
              => attempt[v] # attempt[w]
        /\ (pc[v] = "claiming" /\ pc[w] = "claiming" /\ v # w) => job[v] # job[w]

\* A job is running twice only because the earlier claimant has had it for
\* the whole reaper interval: a claim starts its own interval, it does not
\* inherit the age of the enqueue, the requeue or an earlier claim.
RerunOnlyAfterStale ==
    \A v, w \in Workers :
        (Busy(v) /\ Busy(w) /\ job[v] = job[w] /\ attempt[v] < attempt[w])
            => hold[v] = StaleAge

\* "processes each job exactly once" read as mutual exclusion: no job is in
\* the hands of two workers.
SingleRunner ==
    \A v, w \in Workers :
        (Busy(v) /\ Busy(w) /\ job[v] = job[w]) => v = w

\* What makes the unguarded verdict UPDATEs safe: a live worker's claim is
\* the row's current one, so that the verdict is written over its own claim.
LiveClaimIsCurrent ==
    \A w \in Workers :
        Busy(w) => /\ status[job[w]] = "running"
                   /\ attempt_count[job[w]] = attempt[w]

\* The reaper is "EXCLUSIVELY crash recovery": it takes a row only when no
\* live worker has it.
ReapsOnlyCrashed ==
    [][ \A j \in Jobs :
          (/\ status[j] = "running" /\ status'[j] # "running" /\ UNCHANGED pc)
              => \A w \in Workers : ~(Busy(w) /\ job[w] = j) ]_vars

\* The implemented contracts.
Lifecycle == INSTANCE JobLifecycle
ImplementsLifecycle     == Lifecycle!Spec
ImplementsLateLifecycle == Lifecycle!LateSpec

\* Every enqueued job ends with a verdict, however often its workers crash:
\* crashes cost attempts, attempts are bounded, and the reaper gives up.
EveryJobSettles == \A j \in Jobs : status[j] = "queued" ~> status[j] \in Terminal
=============================================================================
