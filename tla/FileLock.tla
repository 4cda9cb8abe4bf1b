------------------------------ MODULE FileLock ------------------------------
(***************************************************************************)
(* withFileLock (src/webapp/file-lock.ts), for one lock path.              *)
(*                                                                         *)
(* Each Node process that loads the file owns a map _writeLocks from paths *)
(* to promises.  A call to withFileLock creates a promise of its own,      *)
(* stores it in the map as the new tail of the chain, and waits for the    *)
(* promise it displaced.  A call settles its promise only after its        *)
(* critical section has run, never when it gives up waiting.               *)
(*                                                                         *)
(* A call is identified with the promise it creates, so the set Calls is   *)
(* at the same time the set of promises.  Distinct paths have distinct     *)
(* chains and do not interact; one path is modelled.                       *)
(***************************************************************************)
CONSTANTS
    Calls,          \* the calls of withFileLock on one path
    Procs,          \* the processes whose modules make them
    ProcOf,         \* the process that makes each call
    NoCall          \* "no promise": an absent map entry, Promise.resolve()

ASSUME FileLockAssumption ==
    /\ ProcOf \in [Calls -> Procs]
    /\ NoCall \notin Calls

VARIABLES
    pc,             \* where each call stands
    tail,           \* per process, the promise stored in _writeLocks
    prev,           \* the promise each call awaits
    settled,        \* the promises that have been resolved
    before          \* history: <<d, c>> when d was called before c, same process

vars == <<pc, tail, prev, settled, before>>

CallState == {"idle", "waiting", "running", "done", "timedOut"}

TypeOK ==
    /\ pc \in [Calls -> CallState]
    /\ tail \in [Procs -> Calls \cup {NoCall}]
    /\ prev \in [Calls -> Calls \cup {NoCall}]
    /\ settled \subseteq Calls
    /\ before \subseteq Calls \X Calls

Init ==
    /\ pc = [c \in Calls |-> "idle"]
    /\ tail = [p \in Procs |-> NoCall]
    /\ prev = [c \in Calls |-> NoCall]
    /\ settled = {}
    /\ before = {}

(* The promise c awaits is resolved: Promise.resolve() or a settled one. *)
PrevSettled(c) == prev[c] = NoCall \/ prev[c] \in settled

(* The pairs that calling c adds to the history. *)
CalledBefore(c) ==
    {d \in Calls : ProcOf[d] = ProcOf[c] /\ pc[d] # "idle"} \X {c}

(* Process p has no continuation of a settled await left to run: timers fire
   only between the turns of the event loop. *)
NoPendingEntry(p) ==
    \A c \in Calls : ProcOf[c] = p /\ pc[c] = "waiting" => ~PrevSettled(c)

(* Mutated forms of definitions below, which the properties must reject:
   a timer that settles the promise it abandons; a finally block
   that always deletes the map entry, one that removes the map, and one that
   forgets to resolve; a call that does not store its promise. *)
TimeOutThatSettles(c) ==
    /\ pc[c] = "waiting"
    /\ NoPendingEntry(ProcOf[c])
    /\ pc' = [pc EXCEPT ![c] = "timedOut"]
    /\ tail' = [tail EXCEPT ![ProcOf[c]] = c]
    /\ settled' = settled \cup {c}
    /\ UNCHANGED <<prev, before>>

FinishThatAlwaysDeletes(c) ==
    /\ pc[c] = "running"
    /\ pc' = [pc EXCEPT ![c] = "done"]
    /\ tail' = [tail EXCEPT ![ProcOf[c]] = NoCall]
    /\ settled' = settled \cup {c}
    /\ UNCHANGED <<prev, before>>

FinishThatUnmapsProcess(c) ==
    /\ pc[c] = "running"
    /\ pc' = [pc EXCEPT ![c] = "done"]
    /\ tail' = [p \in Procs \ {ProcOf[c]} |-> tail[p]]
    /\ settled' = settled \cup {c}
    /\ UNCHANGED <<prev, before>>

FinishThatForgetsToResolve(c) ==
    /\ pc[c] = "running"
    /\ pc' = [pc EXCEPT ![c] = "done"]
    /\ tail' = IF tail[ProcOf[c]] = c
               THEN [tail EXCEPT ![ProcOf[c]] = NoCall]
               ELSE tail
    /\ UNCHANGED <<prev, settled, before>>

CallThatDoesNotStore(c) ==
    /\ pc[c] = "idle"
    /\ pc' = [pc EXCEPT ![c] = "waiting"]
    /\ prev' = [prev EXCEPT ![c] = tail[ProcOf[c]]]
    /\ before' = before \cup CalledBefore(c)
    /\ UNCHANGED <<tail, settled>>

(* The synchronous part of a call, up to its await. *)
Call(c) ==
    /\ pc[c] = "idle"
    /\ pc' = [pc EXCEPT ![c] = "waiting"]
    /\ prev' = [prev EXCEPT ![c] = tail[ProcOf[c]]]
    /\ tail' = [tail EXCEPT ![ProcOf[c]] = c]
    /\ before' = before \cup CalledBefore(c)
    /\ UNCHANGED settled

(* The race is won by the predecessor: fn starts. *)
Enter(c) ==
    /\ pc[c] = "waiting"
    /\ PrevSettled(c)
    /\ pc' = [pc EXCEPT ![c] = "running"]
    /\ UNCHANGED <<tail, prev, settled, before>>

(* The race is won by the timer, the predecessor being unsettled.  The call
   puts its own promise back into the map and throws; nothing ever
   settles that promise. *)
TimeOut(c) ==
    /\ pc[c] = "waiting"
    /\ NoPendingEntry(ProcOf[c])
    /\ pc' = [pc EXCEPT ![c] = "timedOut"]
    /\ tail' = [tail EXCEPT ![ProcOf[c]] = c]
    /\ UNCHANGED <<prev, settled, before>>

(* fn returned or threw: the finally block. *)
Finish(c) ==
    /\ pc[c] = "running"
    /\ pc' = [pc EXCEPT ![c] = "done"]
    /\ tail' = IF tail[ProcOf[c]] = c
               THEN [tail EXCEPT ![ProcOf[c]] = NoCall]
               ELSE tail
    /\ settled' = settled \cup {c}
    /\ UNCHANGED <<prev, before>>

Next == \E c \in Calls : Call(c) \/ Enter(c) \/ TimeOut(c) \/ Finish(c)

Spec == Init /\ [][Next]_vars

(* The event loop runs a settled continuation, and fn returns.  Nothing
   obliges anybody to call, and the timer is never obliged to win. *)
Fairness == \A c \in Calls : WF_vars(Enter(c)) /\ WF_vars(Finish(c))

FairSpec == Spec /\ Fairness

-----------------------------------------------------------------------------
Running(c) == pc[c] = "running"

(* At most one call made in a process runs its function at a time, whatever
   the timers do (file-lock.ts: "prevent concurrent writes"). *)
MutualExclusion ==
    \A c, d \in Calls :
        Running(c) /\ Running(d) /\ ProcOf[c] = ProcOf[d] => c = d

(* Two calls of a process come to wait for the same promise only when the
   call that owns it has timed out: a timed out call that put itself back
   into the map forks the chain, and exclusion survives because its promise
   is never settled. *)
ForksOnlyBehindTimeOut ==
    \A c, d \in Calls :
        /\ pc[c] = "waiting" /\ pc[d] = "waiting" /\ c # d
        /\ ProcOf[c] = ProcOf[d] /\ prev[c] = prev[d]
        => prev[c] # NoCall /\ pc[prev[c]] = "timedOut"

(* The lock is granted in the order of the calls of a process: no call runs
   or has run while one made before it still waits. *)
FirstComeFirstServed ==
    \A c, d \in Calls :
        <<d, c>> \in before /\ pc[d] = "waiting" => pc[c] \notin {"running", "done"}

(* The claim of the comment at file-lock.ts:32, "Evict the stale predecessor
   so future callers don't wait on it": a call gives up only while another
   one holds the lock. *)
TimeOutOnlyWhileHeld ==
    [][\A c \in Calls :
        pc[c] = "waiting" /\ pc'[c] = "timedOut"
            => \E d \in Calls : Running(d) /\ ProcOf[d] = ProcOf[c]]_vars

(* Every call that waits gets the lock, or a call of its process times out:
   no order of calls, completions and deleted map entries loses a waiter. *)
EveryWaiterServed ==
    \A c \in Calls :
        pc[c] = "waiting" ~>
            \/ Running(c)
            \/ \E d \in Calls : pc[d] = "timedOut" /\ ProcOf[d] = ProcOf[c]
=============================================================================
