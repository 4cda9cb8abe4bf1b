------------------------------ MODULE JobBoard ------------------------------
(***************************************************************************)
(* What a job queue promises (platform/engine/jobs/job-types.ts): every    *)
(* call moves one job along its life cycle in one step, no more jobs run   *)
(* than the concurrency limit allows, an outcome is final, after a restart *)
(* nothing is left running that nobody executes, and the dead letters are  *)
(* of jobs that failed for good: no more than were agreed on if a list of  *)
(* the store shows that many, and otherwise every one of them.             *)
(***************************************************************************)
EXTENDS Naturals, FiniteSets

CONSTANTS
    Jobs,
    Concurrency,
    MaxRetries,     \* of every job
    MaxDlqSize,     \* most dead letters
    PageSize        \* most entries that a list shows

VARIABLES
    status,         \* of each job; "absent" until it is enqueued
    retries,        \* retryCount
    dead,           \* the jobs in the dead letter queue
    serving         \* FALSE from a crash to the end of the recovery

boardVars == <<status, retries, dead, serving>>

Running == {j \in Jobs : status[j] = "running"}

Init ==
    /\ status = [j \in Jobs |-> "absent"]
    /\ retries = [j \in Jobs |-> 0]
    /\ dead = {}
    /\ serving \in BOOLEAN

Move(j, from, to) ==
    /\ status[j] \in from
    /\ status' = [status EXCEPT ![j] = to]
    /\ UNCHANGED <<dead, serving>>

Enqueue(j) ==
    /\ serving /\ Move(j, {"absent"}, "queued")
    /\ UNCHANGED retries

Dequeue(j) ==
    /\ serving /\ Cardinality(Running) < Concurrency
    /\ Move(j, {"queued"}, "running")
    /\ UNCHANGED retries

Complete(j) ==
    /\ serving /\ Move(j, {"running"}, "completed")
    /\ UNCHANGED retries

Retry(j) ==
    /\ serving /\ retries[j] < MaxRetries
    /\ Move(j, {"running"}, "queued")
    /\ retries' = [retries EXCEPT ![j] = @ + 1]

Fail(j) ==
    /\ serving /\ Move(j, {"running"}, "failed")
    /\ UNCHANGED retries

Cancel(j) ==
    /\ serving /\ Move(j, {"queued", "running"}, "cancelled")
    /\ UNCHANGED retries

(* The dead letter queue, where an entry makes room for another if the queue
   is seen to be full. *)
Full == MaxDlqSize <= PageSize /\ Cardinality(dead) >= MaxDlqSize

Evict(j) ==
    /\ serving /\ j \in dead /\ Full
    /\ dead' = dead \ {j}
    /\ UNCHANGED <<status, retries, serving>>

Bury(j) ==
    /\ serving /\ status[j] = "failed" /\ retries[j] >= MaxRetries
    /\ ~Full
    /\ dead' = dead \cup {j}
    /\ UNCHANGED <<status, retries, serving>>

Crash ==
    /\ serving /\ serving' = FALSE
    /\ UNCHANGED <<status, retries, dead>>

Recover(j) ==
    /\ ~serving /\ Move(j, {"running"}, "queued")
    /\ UNCHANGED retries

Restart ==
    /\ ~serving /\ Running = {}
    /\ serving' = TRUE
    /\ UNCHANGED <<status, retries, dead>>

Next ==
    \/ Crash \/ Restart
    \/ \E j \in Jobs :
        \/ Enqueue(j) \/ Dequeue(j) \/ Complete(j) \/ Retry(j)
        \/ Fail(j) \/ Cancel(j) \/ Evict(j) \/ Bury(j) \/ Recover(j)

Spec == Init /\ [][Next]_boardVars
=============================================================================
