----------------------------- MODULE Dispatcher -----------------------------
(***************************************************************************)
(* Dispatcher.invoke and the bounded groups of Dispatcher                  *)
(* (src/platform/engine/dispatcher.ts).                                    *)
(*                                                                         *)
(* A call is one invocation of an agent, with its attempts.  An attempt    *)
(* races the runtime adapter against a timer and, when the call has an     *)
(* abort signal, against the signal.  What follows an answer up to the     *)
(* next wait (the log of revisions is written synchronously) is one turn   *)
(* of the event loop and one step here.                                    *)
(*                                                                         *)
(* dispatchStateParallel runs the groups of a state one after the other.   *)
(* The calls of a group take the slots of a counting semaphore; who gets   *)
(* none waits in a queue, and a call that ends wakes the head, which takes *)
(* its slot in a later turn.  A sequential dispatch is one with groups of  *)
(* one.  Which agents a group leaves out (not found, over budget) and in   *)
(* which order it admits the others is left open.                          *)
(***************************************************************************)
EXTENDS Naturals, Sequences, FiniteSets

CONSTANTS
    Calls,          \* the invocations
    Groups,         \* the groups of a state: a sequence of sets of calls
    MaxConcurrency, \* slots of a group
    MaxRetries,     \* maxTransientRetries, or maxRetries
    MaxRevisions    \* maxRevisionAttempts

ASSUME DispatcherAssumption ==
    /\ MaxConcurrency \in Nat \ {0}
    /\ MaxRetries \in Nat /\ MaxRevisions \in Nat
    /\ Groups \in Seq(SUBSET Calls)
    /\ \A i, j \in DOMAIN Groups : i # j => Groups[i] \cap Groups[j] = {}
    /\ \A i \in DOMAIN Groups : IsFiniteSet(Groups[i])

VARIABLES
    call,           \* per call: where it stands, its attempt and its budgets
    aborted,        \* the calls whose signal is aborted
    level,          \* the group that is dispatched, 0 before the first
    activeCount,    \* of the semaphore
    semaphoreQueue, \* the calls that wait for a slot
    onFailure       \* whether a failed call ends the dispatch after its group

dispatcherVars == <<call, aborted, level, activeCount, semaphoreQueue, onFailure>>

Grouped == UNION {Groups[i] : i \in DOMAIN Groups}

Outcomes == {"success", "failure"}
Places == {"idle", "preparing", "waiting", "woken", "invoking", "backoff", "lost"}
              \cup Outcomes

At(place) == {c \in Calls : call[c].at = place}
Ended == {c \in Calls : call[c].at \in Outcomes}

-----------------------------------------------------------------------------
(* invoke: the loop over the attempts of one call.                         *)

Resting(place) ==
    [at |-> place, attempt |-> 0, retries |-> 0, revisions |-> 0, signal |-> "deaf"]

(* _withTimeout listens to the signal; one that is aborted already is not
   heard any more. *)
Attempt(c) ==
    [call[c] EXCEPT !.at = "invoking", !.attempt = @ + 1,
                    !.signal = IF c \in aborted THEN "deaf" ELSE "heard"]

(* Mutant: the revision is not counted. *)
ReviseUncounted(c) ==
    /\ call[c].at = "invoking" /\ call[c].revisions < MaxRevisions
    /\ call' = [call EXCEPT ![c].at = "backoff"]

(* An answer below the threshold, or a failed validation: the agent is asked
   to revise, as often as maxRevisionAttempts says. *)
Revise(c) ==
    /\ call[c].at = "invoking" /\ call[c].revisions < MaxRevisions
    /\ call' = [call EXCEPT ![c].at = "backoff", ![c].revisions = @ + 1]

(* Mutant: one retry too many. *)
RetryOnceMore(c) ==
    /\ call[c].at = "invoking" /\ call[c].retries <= MaxRetries
    /\ call' = [call EXCEPT ![c].at = "backoff", ![c].retries = @ + 1]

(* A timeout or an error that is not fatal.  The write of the revision log
   may be that error, after the revision was counted. *)
Retry(c) ==
    /\ call[c].at = "invoking" /\ call[c].retries < MaxRetries
    /\ \E revised \in {n \in 0..1 : call[c].revisions + n <= MaxRevisions} :
         call' = [call EXCEPT ![c].at = "backoff", ![c].retries = @ + 1,
                              ![c].revisions = @ + revised]

NextAttempt(c) ==
    /\ call[c].at = "backoff"
    /\ call' = [call EXCEPT ![c] = Attempt(c)]

(* What invoke may end with: an approved answer, or a failure: a fatal error, a
   predecessor's contract that does not hold, a spent budget, an exception while
   an error is handled.  Its counters are gone then. *)
Answers(c) == {how \in Outcomes : call[c].at = "invoking"}

-----------------------------------------------------------------------------
(* A group: _runBoundedGroup.                                              *)

(* The orders in which the calls of S may be admitted. *)
Orders(S) ==
    {line \in [1..Cardinality(S) -> S] :
        \A i, j \in 1..Cardinality(S) : line[i] = line[j] => i = j}

(* Promise.allSettled has returned for the current group. *)
GroupSettled == level > 0 => Groups[level] \subseteq Ended

Aborts ==
    /\ onFailure = "abort" /\ level > 0
    /\ \E c \in Groups[level] : call[c].at # "success"

(* All calls of the group run up to acquire in one turn.  Those of leftOut end
   without a slot. *)
StartGroup ==
    /\ level < Len(Groups) /\ GroupSettled /\ ~Aborts
    /\ level' = level + 1
    /\ \E leftOut \in SUBSET Groups[level + 1] :
       \E line \in Orders(Groups[level + 1] \ leftOut) :
         LET slots == IF MaxConcurrency < Len(line) THEN MaxConcurrency ELSE Len(line)
             admitted == {line[i] : i \in 1..slots}
         IN  /\ activeCount' = slots
             /\ semaphoreQueue' = SubSeq(line, slots + 1, Len(line))
             /\ call' = [c \in Calls |->
                    IF c \in leftOut THEN [call[c] EXCEPT !.at = "failure"]
                    ELSE IF c \in admitted THEN Attempt(c)
                    ELSE IF c \in Groups[level + 1] THEN [call[c] EXCEPT !.at = "waiting"]
                    ELSE call[c]]
    /\ UNCHANGED <<aborted, onFailure>>

(* Mutant: the slot is given back, but the head of the queue is not woken. *)
ReleaseSilently(c, how) ==
    /\ semaphoreQueue # <<>> /\ UNCHANGED semaphoreQueue
    /\ call' = [call EXCEPT ![c] = Resting(how)]

(* The finally block: a call ends, gives its slot back and wakes the head of
   the queue. *)
ReleaseWaking(c, how) ==
    /\ semaphoreQueue # <<>>
    /\ semaphoreQueue' = Tail(semaphoreQueue)
    /\ call' = [call EXCEPT ![c] = Resting(how), ![Head(semaphoreQueue)].at = "woken"]

ReleaseNobody(c, how) ==
    /\ semaphoreQueue = <<>> /\ UNCHANGED semaphoreQueue
    /\ call' = [call EXCEPT ![c] = Resting(how)]

(* Mutant: no finally, a call that fails keeps its slot. *)
ReleaseOnSuccess(c, how) ==
    /\ \/ /\ how = "success" /\ activeCount' = activeCount - 1
          /\ (ReleaseWaking(c, how) \/ ReleaseNobody(c, how))
       \/ /\ how = "failure" /\ UNCHANGED <<activeCount, semaphoreQueue>>
          /\ call' = [call EXCEPT ![c] = Resting(how)]
    /\ UNCHANGED <<aborted, level, onFailure>>

Release(c, how) ==
    /\ activeCount' = activeCount - 1
    /\ ReleaseWaking(c, how) \/ ReleaseNobody(c, how)
    /\ UNCHANGED <<aborted, level, onFailure>>

(* The call that was woken counts itself and starts. *)
Acquire(c) ==
    /\ call[c].at = "woken"
    /\ activeCount' = activeCount + 1
    /\ call' = [call EXCEPT ![c] = Attempt(c)]
    /\ UNCHANGED <<aborted, level, semaphoreQueue, onFailure>>

-----------------------------------------------------------------------------
(* The calls of the group that hold a slot. *)
Holding == {c \in Grouped : call[c].at \in {"invoking", "backoff"}}
Waiting == {c \in Grouped : call[c].at = "waiting"}
Woken == {c \in Grouped : call[c].at = "woken"}
=============================================================================
