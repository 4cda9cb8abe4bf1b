--------------------------- MODULE AgentExecution ---------------------------
(***************************************************************************)
(* AgentExecutionService (src/src/webapp/services/                         *)
(* agent-execution-service.ts) on top of Dispatcher.invoke, with the       *)
(* entries it keeps in the session tracker (src/src/webapp/                *)
(* session-tracker.ts).                                                    *)
(*                                                                         *)
(* A run is one call of execute.  It keeps a record in JOB_STORE and an    *)
(* AbortController in JOB_ABORT, prepares the call (resolving the adapter, *)
(* retrieving documents), invokes the agent and records what came of it.   *)
(* A user may cancel it at any time.  The tracker has one entry per agent, *)
(* which all runs of the agent share.                                      *)
(*                                                                         *)
(* Each execute makes a Dispatcher of its own, so runs and groups share    *)
(* no state; which of the two a behaviour is about is chosen in Init.      *)
(***************************************************************************)
EXTENDS Dispatcher

CONSTANTS
    Runs,           \* the calls of execute
    Agents,
    AgentOf,        \* the agent of each run
    MaxHistory      \* MAX_HISTORY: ended runs that are kept

ASSUME AgentExecutionAssumption ==
    /\ Runs \cup Grouped \subseteq Calls /\ Runs \cap Grouped = {}
    /\ IsFiniteSet(Runs)
    /\ AgentOf \in [Runs -> Agents]
    /\ MaxHistory \in Nat

VARIABLES
    serving,        \* whether the behaviour is one of the service
    job,            \* job.status of each run, "none" before it
    stored,         \* the runs in JOB_STORE
    since,          \* the order in which they started
    controllers,    \* the runs in JOB_ABORT
    tracker         \* the status the tracker shows for each agent

serviceVars == <<job, stored, since, controllers, tracker>>
vars == <<dispatcherVars, serving, serviceVars>>

Statuses == {"none", "running", "completed", "failed", "cancelled"}

TypeOK ==
    /\ call \in [Calls -> [at : Places, attempt : Nat, retries : 0..MaxRetries,
                           revisions : 0..MaxRevisions, signal : {"heard", "deaf"}]]
    /\ aborted \subseteq Runs
    /\ level \in 0..Len(Groups)
    /\ activeCount \in Nat
    /\ semaphoreQueue \in Seq(Grouped)
    /\ onFailure \in {"continue", "abort"}
    /\ serving \in BOOLEAN
    /\ job \in [Runs -> Statuses]
    /\ stored \subseteq Runs
    /\ since \in [Runs -> Nat]
    /\ controllers \subseteq Runs
    /\ tracker \in [Agents -> Statuses \ {"cancelled"}]

Init ==
    /\ call = [c \in Calls |-> Resting("idle")]
    /\ aborted = {}
    /\ level = 0 /\ activeCount = 0 /\ semaphoreQueue = <<>>
    /\ onFailure \in {"continue", "abort"}
    /\ serving \in BOOLEAN
    /\ job = [r \in Runs |-> "none"]
    /\ stored = {} /\ controllers = {}
    /\ since = [r \in Runs |-> 0]
    /\ tracker = [a \in Agents |-> "none"]

-----------------------------------------------------------------------------
Over(status) == {r \in stored : status[r] # "running"}

(* Mutant: the oldest records go, also those of runs under way. *)
PrunedByAge(status) ==
    {r \in stored : Cardinality({s \in stored : since[s] > since[r]}) < MaxHistory}

(* pruneHistory: what is left of the records.  Only ended runs are dropped, the
   oldest first, when there are more records than MaxHistory. *)
Pruned(status) ==
    IF Cardinality(stored) <= MaxHistory THEN stored
    ELSE {r \in stored : status[r] = "running" \/
            Cardinality({s \in Over(status) : since[s] > since[r]}) < MaxHistory}

(* The finally block of execute. *)
Unwind(r) ==
    /\ controllers' = controllers \ {r}
    /\ stored' = Pruned(job')
    /\ UNCHANGED since

(* Entries of the tracker are changed, never made, when a run ends. *)
Track(r, status) ==
    tracker' = IF tracker[AgentOf[r]] = "none" THEN tracker
               ELSE [tracker EXCEPT ![AgentOf[r]] = status]

-----------------------------------------------------------------------------
(* execute up to its first wait.  Runs of the auto-orchestration are not told
   to the tracker. *)
Execute(r) ==
    /\ serving /\ job[r] = "none"
    /\ job' = [job EXCEPT ![r] = "running"]
    /\ stored' = stored \cup {r} /\ controllers' = controllers \cup {r}
    /\ since' = [since EXCEPT ![r] = 1 + Cardinality({s \in Runs : job[s] # "none"})]
    /\ \/ tracker' = [tracker EXCEPT ![AgentOf[r]] = "running"]
       \/ UNCHANGED tracker
    /\ call' = [call EXCEPT ![r].at = "preparing"]
    /\ UNCHANGED <<aborted, level, activeCount, semaphoreQueue, onFailure, serving>>

(* An exception before the try block (no adapter, the tracker's store, the
   retrieval): nothing is undone, the record says "running" for good. *)
Lose(r) ==
    /\ call[r].at = "preparing"
    /\ call' = [call EXCEPT ![r].at = "lost"]
    /\ UNCHANGED <<aborted, level, activeCount, semaphoreQueue, onFailure, serving,
                   serviceVars>>

Invoke(r) ==
    /\ call[r].at = "preparing" /\ r \notin aborted
    /\ call' = [call EXCEPT ![r] = Attempt(r)]
    /\ UNCHANGED <<aborted, level, activeCount, semaphoreQueue, onFailure, serving,
                   serviceVars>>

(* The run ends as one that was cancelled; the tracker hears nothing. *)
Drop(r) ==
    /\ call' = [call EXCEPT ![r] = Resting("failure")]
    /\ job' = [job EXCEPT ![r] = "cancelled"]
    /\ UNCHANGED tracker
    /\ Unwind(r)

CancelledBefore(r) ==
    /\ call[r].at = "preparing" /\ r \in aborted
    /\ Drop(r)
    /\ UNCHANGED <<aborted, level, activeCount, semaphoreQueue, onFailure, serving>>

(* invoke has come back to a run that was not cancelled. *)
Completed(r) ==
    /\ job' = [job EXCEPT ![r] = "completed"] /\ Track(r, "completed")

(* Mutant: the tracker is not told. *)
FailedUntold(r) ==
    /\ job' = [job EXCEPT ![r] = "failed"] /\ UNCHANGED tracker

Failed(r) ==
    /\ job' = [job EXCEPT ![r] = "failed"] /\ Track(r, "failed")

(* The store of the tracker throws in failAgent, which the catch block calls:
   the record is left as it is. *)
FailedHalfway(r) == UNCHANGED job /\ Track(r, "failed")

(* An exception after a success, from the tracker or the audit log, makes the
   run a failed one. *)
Record(r, how) ==
    /\ call' = [call EXCEPT ![r] = Resting(how)]
    /\ \/ how = "success" /\ Completed(r)
       \/ Failed(r)
       \/ FailedHalfway(r)
    /\ Unwind(r)

(* Mutant: the signal is not looked at after the invocation. *)
ReturnedUnchecked(r, how) ==
    /\ Record(r, how)
    /\ UNCHANGED <<aborted, level, activeCount, semaphoreQueue, onFailure>>

Returned(r, how) ==
    /\ \/ r \notin aborted /\ Record(r, how)
       \/ r \in aborted /\ Drop(r)
    /\ UNCHANGED <<aborted, level, activeCount, semaphoreQueue, onFailure>>

(* cancelJob and, when the attempt under way hears the signal, what follows in
   the same turn: invoke throws ABORTED. *)
Mark(r) ==
    /\ job[r] = "running" /\ r \in stored
    /\ aborted' = aborted \cup (controllers \cap {r})
    /\ UNCHANGED <<level, activeCount, semaphoreQueue, onFailure, serving>>

CancelJob(r) ==
    /\ Mark(r)
    /\ call[r].at = "invoking" /\ call[r].signal = "heard"
    /\ Drop(r)

CancelUnheard(r) ==
    /\ Mark(r)
    /\ ~(call[r].at = "invoking" /\ call[r].signal = "heard")
    /\ job' = [job EXCEPT ![r] = "cancelled"]
    /\ controllers' = controllers \ {r}
    /\ UNCHANGED <<call, stored, since, tracker>>

-----------------------------------------------------------------------------
Answer(c) ==
    \E how \in Answers(c) :
        /\ UNCHANGED serving
        /\ \/ c \in Grouped /\ Release(c, how) /\ UNCHANGED serviceVars
           \/ c \in Runs /\ Returned(c, how)

Again(c) ==
    /\ Revise(c) \/ Retry(c) \/ NextAttempt(c)
    /\ UNCHANGED <<aborted, level, activeCount, semaphoreQueue, onFailure, serving,
                   serviceVars>>

Dispatch ==
    /\ ~serving /\ UNCHANGED <<serving, serviceVars>>
    /\ StartGroup \/ \E c \in Grouped : Acquire(c)

Prepare(r) == Invoke(r) \/ CancelledBefore(r) \/ Lose(r)
Cancel(r) == CancelJob(r) \/ CancelUnheard(r)

Proceed(c) == Answer(c) \/ Again(c)

Next ==
    \/ \E c \in Calls : Proceed(c)
    \/ Dispatch
    \/ \E r \in Runs : Execute(r) \/ Prepare(r) \/ Cancel(r)

(* An attempt ends, if only by its timer; timers and promises run on; the
   preparation of a run comes to an end. *)
Fairness ==
    /\ \A c \in Calls : WF_vars(Proceed(c))
    /\ WF_vars(Dispatch)
    /\ \A r \in Runs : WF_vars(Prepare(r))

Spec == Init /\ [][Next]_vars /\ Fairness

-----------------------------------------------------------------------------
(* Runs that execute has not left yet. *)
Going == At("preparing") \cup At("invoking") \cup At("backoff")

(* The semaphore is exact: a slot is counted for every call that holds one, no
   more are taken than there are, and nobody waits for a slot that is free,
   whatever way the calls before it ended. *)
SlotsExact ==
    /\ activeCount = Cardinality(Holding)
    /\ activeCount + Cardinality(Woken) <= MaxConcurrency
    /\ Waiting # {} => activeCount + Cardinality(Woken) = MaxConcurrency

(* The end of the loop in invoke, "all retries exhausted", is never reached:
   a call that backs off has an attempt left. *)
AttemptLeft == \A c \in At("backoff") : call[c].attempt <= MaxRetries + MaxRevisions

(* A run that was cancelled stays cancelled, also when its signal came between
   two attempts and a later one succeeds. *)
CancelledStays ==
    [][\A r \in Runs : job[r] = "cancelled" => job'[r] = "cancelled"]_vars

(* The record of a run that execute has not left is not pruned, and the run can
   be aborted until it has been cancelled. *)
CanBeCancelled ==
    \A r \in Runs \cap Going : job[r] = "running" => r \in stored \cap controllers

(* An agent that is shown as running without any run of it was cancelled or
   lost: the tracker hears of every other end. *)
TrackerFollows ==
    \A a \in Agents : tracker[a] = "running" =>
        \E r \in Runs : AgentOf[r] = a /\ (r \in Going \cup At("lost") \/ r \in aborted)

(* Every call that is under way returns. *)
EveryCallReturns ==
    \A c \in Calls :
        c \in Going \cup At("waiting") \cup At("woken") ~> c \in Ended \cup At("lost")
=============================================================================
