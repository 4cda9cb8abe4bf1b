----------------------------- MODULE ToolExecutor -----------------------------
(***************************************************************************)
(* ToolExecutor (src/platform/engine/tool-executor.ts) with its            *)
(* AdapterResultCache (src/platform/engine/adapter-result-cache.ts): the   *)
(* results of side effects are kept by key, an operation that fails again  *)
(* and again is blocked for a while, and no more than a number of          *)
(* operations are awaited at a time.                                       *)
(*                                                                         *)
(* An operation that times out is not stopped: nobody waits for it any     *)
(* more, but it may take its effect later.  Time is left open: an entry    *)
(* may outlive its ttl, and a cooldown may end, at any moment.             *)
(***************************************************************************)
EXTENDS Naturals, FiniteSets

CONSTANTS
    Requests,       \* operation and parameters
    KeyOf,          \* the key of each in the cache
    OperationOf,    \* adapter and operation, which a circuit is kept for
    SideEffects,    \* the requests that are not read-only
    Threshold,      \* circuitBreakerFailureThreshold
    MaxInFlight,    \* maxConcurrentExecutions
    MaxAbandoned    \* bound on the operations of a request left behind

Keys == {KeyOf[r] : r \in Requests}
Operations == {OperationOf[r] : r \in Requests}

ASSUME ToolExecutorAssumption ==
    /\ SideEffects \subseteq Requests
    /\ KeyOf \in [Requests -> Keys] /\ OperationOf \in [Requests -> Operations]
    /\ \A q, r \in Requests : KeyOf[q] = KeyOf[r] => OperationOf[q] = OperationOf[r]
    /\ Threshold \in Nat \ {0} /\ MaxInFlight \in Nat \ {0} /\ MaxAbandoned \in Nat

VARIABLES
    cache,          \* _entries, per key
    durable,        \* the store is one that outlives the process
    store,          \* the keys whose entry in such a store is not too old
    inFlight,
    failures,       \* _circuitFailures, per operation
    open,           \* operations whose _circuitOpenUntil is in the future
    abandoned,      \* operations under way that nobody waits for, per request
    effects,        \* history: how often the effect of a request was taken, up to 2
    row,            \* history: failures of an operation since its last success
    excused         \* history: requests whose effect may be taken twice

executorVars == <<cache, store, durable, inFlight, failures, open, abandoned>>
effectVars == <<effects, row, excused>>

KeptAs(k) == {r \in Requests : KeyOf[r] = k}

ExecutorTypeOK ==
    /\ cache \in [Keys -> {"none", "live", "expired"}]
    /\ durable \in BOOLEAN
    /\ store \subseteq Keys
    /\ inFlight \in 0..MaxInFlight
    /\ failures \in [Operations -> 0..(Threshold - 1)]
    /\ open \subseteq Operations
    /\ abandoned \in [Requests -> 0..MaxAbandoned]
    /\ effects \in [Requests -> 0..2]
    /\ row \in [Operations -> 0..Threshold]
    /\ excused \subseteq Requests

ExecutorInit ==
    /\ cache = [k \in Keys |-> "none"]
    /\ durable \in BOOLEAN /\ store = {}
    /\ inFlight = 0
    /\ failures = [o \in Operations |-> 0]
    /\ open = {}
    /\ abandoned = [r \in Requests |-> 0]
    /\ effects = [r \in Requests |-> 0]
    /\ row = [o \in Operations |-> 0]
    /\ excused = {}

-----------------------------------------------------------------------------
(* The cache.  A write of the file that throws is ignored. *)
Persist(entries) ==
    store' \in {store} \cup (IF durable THEN {{k \in Keys : entries[k] = "live"}} ELSE {})

Put(k) ==
    /\ cache' = [cache EXCEPT ![k] = "live"]
    /\ Persist(cache')

(* get: an entry that is too old is deleted. *)
Looks(r, skipCache) == r \in SideEffects /\ ~skipCache

Hit(r, skipCache) == Looks(r, skipCache) /\ cache[KeyOf[r]] = "live"

LookedUp(r, skipCache) ==
    IF Looks(r, skipCache) /\ cache[KeyOf[r]] = "expired"
    THEN /\ cache' = [cache EXCEPT ![KeyOf[r]] = "none"]
         /\ Persist(cache')
    ELSE UNCHANGED <<cache, store>>

(* The entry in the file is the same one, or an older one. *)
Expire(k) ==
    /\ \/ k \in store /\ store' = store \ {k} /\ UNCHANGED cache
       \/ /\ k \notin store /\ cache[k] = "live"
          /\ cache' = [cache EXCEPT ![k] = "expired"] /\ UNCHANGED store
    /\ excused' = excused \cup KeptAs(k)
    /\ UNCHANGED <<durable, inFlight, failures, open, abandoned, effects, row>>

(* Mutant: the file is not read. *)
LoadedNothing == [k \in Keys |-> "none"]

(* _load, in a new process. *)
Loaded == [k \in Keys |-> IF k \in store THEN "live" ELSE "none"]

-----------------------------------------------------------------------------
(* The circuit of an operation.  One whose time is over is as good as none. *)
CoolDown(o) ==
    /\ o \in open
    /\ open' = open \ {o}
    /\ UNCHANGED <<cache, store, durable, inFlight, failures, abandoned, effectVars>>

(* Mutant: a success does not start the count again. *)
SucceededUncounted(o) ==
    /\ open' = open \ {o}
    /\ row' = [row EXCEPT ![o] = 0]
    /\ UNCHANGED failures

RecordSuccess(o) ==
    /\ failures' = [failures EXCEPT ![o] = 0]
    /\ open' = open \ {o}
    /\ row' = [row EXCEPT ![o] = 0]

(* Mutant: an open circuit does not start the count again. *)
RecordFailureOnly(o) ==
    /\ failures' = [failures EXCEPT ![o] = @ + 1]
    /\ open' = IF failures[o] + 1 >= Threshold THEN open \cup {o} ELSE open
    /\ row' = [row EXCEPT ![o] = IF @ < Threshold THEN @ + 1 ELSE @]

RecordFailure(o) ==
    /\ failures' = [failures EXCEPT ![o] = (@ + 1) % Threshold]
    /\ open' = IF failures[o] + 1 = Threshold THEN open \cup {o} ELSE open
    /\ row' = [row EXCEPT ![o] = IF @ < Threshold THEN @ + 1 ELSE @]

-----------------------------------------------------------------------------
(* execute.  First the cache, then the circuit, then the limit of operations
   in flight; what is left is started. *)
Served(r, skipCache) ==
    /\ Hit(r, skipCache)
    /\ UNCHANGED <<executorVars, effectVars>>

Rejected(r, skipCache) ==
    /\ ~Hit(r, skipCache)
    /\ LookedUp(r, skipCache)
    /\ OperationOf[r] \in open \/ inFlight >= MaxInFlight
    /\ UNCHANGED <<durable, inFlight, failures, open, abandoned, effectVars>>

(* others: whether the same request is under way already. *)
Started(r, skipCache, others) ==
    /\ ~Hit(r, skipCache)
    /\ LookedUp(r, skipCache)
    /\ OperationOf[r] \notin open /\ inFlight < MaxInFlight
    /\ inFlight' = inFlight + 1
    /\ excused' = IF skipCache \/ others \/ abandoned[r] > 0 THEN excused \cup {r} ELSE excused
    /\ UNCHANGED <<durable, failures, open, abandoned, effects, row>>

Taken(r) == [effects EXCEPT ![r] = IF @ < 2 THEN @ + 1 ELSE @]

(* Mutant: nothing is kept. *)
SucceededUnkept(r) ==
    /\ RecordSuccess(OperationOf[r])
    /\ inFlight' = inFlight - 1
    /\ effects' = Taken(r)
    /\ UNCHANGED <<cache, store, durable, abandoned, excused>>

Succeeded(r) ==
    /\ RecordSuccess(OperationOf[r])
    /\ inFlight' = inFlight - 1
    /\ effects' = Taken(r)
    /\ IF r \in SideEffects THEN Put(KeyOf[r]) ELSE UNCHANGED <<cache, store>>
    /\ UNCHANGED <<durable, abandoned, excused>>

(* The adapter reports a failure, or throws; the effect may have been taken. *)
Failed(r) ==
    /\ RecordFailure(OperationOf[r])
    /\ inFlight' = inFlight - 1
    /\ \/ effects' = Taken(r) /\ excused' = excused \cup {r}
       \/ UNCHANGED <<effects, excused>>
    /\ UNCHANGED <<cache, store, durable, abandoned>>

(* Mutant: the slot is kept until the operation itself ends. *)
TimedOutHoldingSlot(r) ==
    /\ abandoned[r] < MaxAbandoned
    /\ abandoned' = [abandoned EXCEPT ![r] = @ + 1]
    /\ RecordFailure(OperationOf[r])
    /\ excused' = excused \cup {r}
    /\ UNCHANGED <<cache, store, durable, inFlight, effects>>

TimedOut(r) ==
    /\ abandoned[r] < MaxAbandoned
    /\ abandoned' = [abandoned EXCEPT ![r] = @ + 1]
    /\ RecordFailure(OperationOf[r])
    /\ inFlight' = inFlight - 1
    /\ excused' = excused \cup {r}
    /\ UNCHANGED <<cache, store, durable, effects>>

(* What becomes of an operation that nobody waits for. *)
LateAnswer(r) ==
    /\ abandoned[r] > 0
    /\ abandoned' = [abandoned EXCEPT ![r] = @ - 1]
    /\ effects' \in {Taken(r), effects}
    /\ UNCHANGED <<cache, store, durable, inFlight, failures, open, row, excused>>

(* A new process.  under: the requests that were awaited. *)
Restarted(under) ==
    /\ cache' = Loaded
    /\ inFlight' = 0
    /\ failures' = [o \in Operations |-> 0]
    /\ open' = {}
    /\ row' = [o \in Operations |-> 0]
    /\ \A r \in under : abandoned[r] < MaxAbandoned
    /\ abandoned' = [r \in Requests |-> IF r \in under THEN abandoned[r] + 1 ELSE abandoned[r]]
    /\ excused' = excused \cup under
                     \cup {r \in Requests : cache[KeyOf[r]] = "live" /\ KeyOf[r] \notin store}
    /\ UNCHANGED <<durable, store, effects>>
=============================================================================
