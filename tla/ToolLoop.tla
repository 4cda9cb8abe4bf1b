------------------------------- MODULE ToolLoop -------------------------------
(***************************************************************************)
(* completeWithToolExecution (src/platform/engine/runtime-adapter/         *)
(* tool-loop.ts): a model is asked, the tools it calls are executed one    *)
(* after the other through ToolExecutionMiddleware and the ToolExecutor,   *)
(* and it is asked again with their results.                               *)
(*                                                                         *)
(* A loop is one attempt of the dispatcher to run an agent.  Attempts that *)
(* timed out go on (only a cancellation reaches them, by the abort signal),*)
(* so several loops that do the same work run side by side.  Between two   *)
(* waits a loop takes one step per tool call.                              *)
(***************************************************************************)
EXTENDS ToolExecutor

CONSTANTS
    Loops,
    NoRequest,
    MaxRounds,      \* maxToolRounds
    MaxFanout,      \* maxToolCallsPerRound
    MaxCrashes      \* bound on restarts of the process

ASSUME ToolLoopAssumption ==
    /\ IsFiniteSet(Loops) /\ NoRequest \notin Requests
    /\ MaxRounds \in Nat /\ MaxFanout \in Nat \ {0} /\ MaxCrashes \in Nat

VARIABLES
    loop,           \* per loop: where it stands, whether its signal is aborted,
                    \* its round, the calls left in it, the one that is executed
    told,           \* history: the requests a loop was told the success of
    crashes

loopVars == <<loop, told, crashes>>
vars == <<executorVars, effectVars, loopVars>>

At(pc) == {l \in Loops : loop[l].pc = pc}
Going == At("model") \cup At("calling") \cup At("executing")

TypeOK ==
    /\ ExecutorTypeOK
    /\ loop \in [Loops -> [pc : {"idle", "model", "calling", "executing", "done", "failed"},
                           aborted : BOOLEAN, round : 0..MaxRounds, left : 0..MaxFanout,
                           req : Requests \cup {NoRequest}, timed : BOOLEAN]]
    /\ \A l \in At("executing") : loop[l].req \in Requests /\ loop[l].left > 0
    /\ told \subseteq Requests
    /\ crashes \in 0..MaxCrashes

Resting(pc) ==
    [pc |-> pc, aborted |-> FALSE, round |-> 0, left |-> 0, req |-> NoRequest, timed |-> FALSE]

Init ==
    /\ ExecutorInit
    /\ loop = [l \in Loops |-> Resting("idle")]
    /\ told = {} /\ crashes = 0

Becomes(l, next) ==
    /\ loop' = [loop EXCEPT ![l] = next]
    /\ UNCHANGED crashes

-----------------------------------------------------------------------------
(* The model is asked. *)
Begin(l) ==
    /\ l \in At("idle")
    /\ Becomes(l, Resting("model"))
    /\ UNCHANGED <<executorVars, effectVars, told>>

(* Mutant: the rounds are not counted. *)
CallsToolsForever(l) ==
    /\ l \in At("model") /\ ~loop[l].aborted
    /\ \E calls \in 1..MaxFanout :
        Becomes(l, [loop[l] EXCEPT !.pc = "calling", !.left = calls])
    /\ UNCHANGED <<executorVars, effectVars, told>>

CallsTools(l) ==
    /\ l \in At("model") /\ ~loop[l].aborted /\ loop[l].round < MaxRounds
    /\ \E calls \in 1..MaxFanout :
        Becomes(l, [loop[l] EXCEPT !.pc = "calling", !.round = @ + 1, !.left = calls])
    /\ UNCHANGED <<executorVars, effectVars, told>>

(* It calls no tool; it throws; it calls tools after the last round, too many
   of them, or in a loop that was cancelled. *)
EndsLoop(l) ==
    /\ l \in At("model")
    /\ \E how \in {"done", "failed"} : Becomes(l, Resting(how))
    /\ UNCHANGED <<executorVars, effectVars, told>>

-----------------------------------------------------------------------------
(* A tool is called.  The gates of the middleware (unknown tool, role, policy,
   identity, permission, isolation, time-out) throw, which ends the loop, and so
   does the signal. *)
Refused(l) ==
    /\ l \in At("calling")
    /\ Becomes(l, Resting("failed"))
    /\ UNCHANGED <<executorVars, effectVars, told>>

(* The next call of the round, or the model again. *)
Answered(l) ==
    Becomes(l, [loop[l] EXCEPT !.pc = IF loop[l].left = 1 THEN "model" ELSE "calling",
                               !.left = @ - 1, !.req = NoRequest, !.timed = FALSE])

UnderWay(r) == \E l \in At("executing") : loop[l].req = r

CallAnswered(l) ==
    /\ l \in At("calling") /\ ~loop[l].aborted
    /\ Answered(l)
    /\ \/ UNCHANGED <<executorVars, effectVars, told>>      \* no such adapter or operation
       \/ \E r \in Requests, skipCache \in BOOLEAN :
            \/ Served(r, skipCache) /\ told' = told \cup {r}
            \/ Rejected(r, skipCache) /\ UNCHANGED told

CallStarted(l) ==
    /\ l \in At("calling") /\ ~loop[l].aborted
    /\ \E r \in Requests, skipCache, timed \in BOOLEAN :
        /\ Started(r, skipCache, UnderWay(r))
        /\ Becomes(l, [loop[l] EXCEPT !.pc = "executing", !.req = r, !.timed = timed])
    /\ UNCHANGED told

(* Mutant: a failure is reported as any result. *)
ToolAnswersAlways(l) ==
    LET r == loop[l].req IN
    /\ l \in At("executing")
    /\ Answered(l)
    /\ (Succeeded(r) \/ Failed(r)) /\ told' = told \cup {r}

ToolAnswers(l) ==
    LET r == loop[l].req IN
    /\ l \in At("executing")
    /\ Answered(l)
    /\ \/ Succeeded(r) /\ told' = told \cup {r}
       \/ Failed(r) /\ UNCHANGED told

ToolTimesOut(l) ==
    /\ l \in At("executing") /\ loop[l].timed
    /\ Answered(l)
    /\ TimedOut(loop[l].req)
    /\ UNCHANGED told

-----------------------------------------------------------------------------
Cancel(l) ==
    /\ l \in Going /\ ~loop[l].aborted
    /\ Becomes(l, [loop[l] EXCEPT !.aborted = TRUE])
    /\ UNCHANGED <<executorVars, effectVars, told>>

Crash ==
    /\ crashes < MaxCrashes
    /\ crashes' = crashes + 1
    /\ Restarted({loop[l].req : l \in At("executing")})
    /\ loop' = [l \in Loops |-> IF l \in Going THEN Resting("failed") ELSE loop[l]]
    /\ UNCHANGED told

Time ==
    /\ \/ \E k \in Keys : Expire(k)
       \/ \E o \in Operations : CoolDown(o)
       \/ \E r \in Requests : LateAnswer(r)
    /\ UNCHANGED loopVars

Model(l) == CallsTools(l) \/ EndsLoop(l)
Call(l) == Refused(l) \/ CallAnswered(l) \/ CallStarted(l)
Tool(l) == ToolAnswers(l) \/ ToolTimesOut(l)
Proceed(l) == Model(l) \/ Call(l) \/ Tool(l)

Next ==
    \/ \E l \in Loops : Begin(l) \/ Proceed(l) \/ Cancel(l)
    \/ Crash \/ Time

(* Models and adapters answer some day. *)
Fairness == \A l \in Loops : WF_vars(Proceed(l))

Spec == Init /\ [][Next]_vars /\ Fairness

-----------------------------------------------------------------------------
(* The promise of the executor, "prevent duplicate side effects" (tool-executor
   .ts:7): what a loop was told the success of was done, if only by a request
   with the same key; and it was done once, whatever retries and restarts came
   after it, unless the entry ran out or was not written, the cache was left out,
   or a second operation was started while the end of a first was not known. *)
EffectsOnce ==
    \A r \in SideEffects :
        /\ r \in told => \E q \in Requests : KeyOf[q] = KeyOf[r] /\ effects[q] > 0
        /\ effects[r] > 1 => r \in excused

(* The count of operations in flight is that of the loops that wait for one and
   is not lost by any way an operation ends; and a circuit opens only after
   failures in a row, in the order in which they ended. *)
LimitsExact ==
    /\ inFlight = Cardinality(At("executing"))
    /\ \A o \in open : row[o] = Threshold

(* A loop that runs comes to an end, whatever the model asks for. *)
LoopsEnd == \A l \in Loops : l \in Going ~> l \notin Going
=============================================================================
