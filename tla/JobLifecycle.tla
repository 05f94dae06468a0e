---------------------------- MODULE JobLifecycle ----------------------------
(***************************************************************************)
(* What pgrg.ingest_jobs promises to somebody who only reads the status    *)
(* and attempt_count columns: no workers, no row locks, no reaper, no      *)
(* clock.  JobQueue is the detailed specification that implements it.      *)
(*                                                                         *)
(* Spec is the contract when a verdict is only ever written over the claim *)
(* it belongs to.  LateSpec adds the one step a worker whose claim was     *)
(* taken away can still make: its unguarded UPDATE ... WHERE id = $1.      *)
(***************************************************************************)
EXTENDS Naturals

CONSTANTS
    Jobs,           \* ids of the rows that may be enqueued
    MaxAttempts     \* claims a row may receive

VARIABLES
    status,         \* "absent" until the row is inserted
    attempt_count

vars == <<status, attempt_count>>

Verdict == {"completed", "failed"}
Status  == {"absent", "queued", "running"} \union Verdict

Init ==
    /\ status = [j \in Jobs |-> "absent"]
    /\ attempt_count = [j \in Jobs |-> 0]

Submit(j) ==
    /\ status[j] = "absent"
    /\ status' = [status EXCEPT ![j] = "queued"]
    /\ UNCHANGED attempt_count

Start(j) ==
    /\ status[j] = "queued"
    /\ attempt_count[j] < MaxAttempts
    /\ status' = [status EXCEPT ![j] = "running"]
    /\ attempt_count' = [attempt_count EXCEPT ![j] = @ + 1]

Settle(j, verdict) ==
    /\ status[j] = "running"
    /\ status' = [status EXCEPT ![j] = verdict]
    /\ UNCHANGED attempt_count

\* Rows in Retried go back to the queue, rows in Exhausted are given up.
Recover(Retried, Exhausted) ==
    /\ \A j \in Retried : status[j] = "running" /\ attempt_count[j] < MaxAttempts
    /\ \A j \in Exhausted : status[j] = "running" /\ attempt_count[j] = MaxAttempts
    /\ status' = [j \in Jobs |-> IF j \in Retried   THEN "queued"
                            ELSE IF j \in Exhausted THEN "failed"
                            ELSE status[j]]
    /\ UNCHANGED attempt_count

\* A verdict for some attempt that was started, whatever the row says now.
LateSettle(j, verdict) ==
    /\ attempt_count[j] > 0
    /\ status' = [status EXCEPT ![j] = verdict]
    /\ UNCHANGED attempt_count

Next ==
    \/ \E j \in Jobs : Submit(j) \/ Start(j)
    \/ \E j \in Jobs, v \in Verdict : Settle(j, v)
    \/ \E R, X \in SUBSET Jobs : Recover(R, X)

LateNext == Next \/ \E j \in Jobs, v \in Verdict : LateSettle(j, v)

Spec     == Init /\ [][Next]_vars
LateSpec == Init /\ [][LateNext]_vars
=============================================================================
