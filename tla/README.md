# A specification of the orchestration core

This project specifies and verifies the part of the platform that decides what
happens next, does it, and remembers it: the orchestration engine and what it
keeps on disk, the timers that drive it, the execution of agents and of their
tools, the job queue, and the two locks that keep writers apart. Paths are relative
to the root of the repository. The modules are TLA+; `*.cfg` are the TLC
configurations; the modules whose names end in `Proofs` hold theorems for TLAPS.

## 1. The system

The platform runs a *pipeline*: a linear flow of states (`IDLE`, `ONBOARDING`,
`PHASE_1`, `CRITIC_1`, ..., `PHASE_5_EXECUTING`, `COMPLETED`), of which a command
mode selects some. In most states agents are run; in a critic state a gate judges
their deliverables. One server process (`src/webapp/server.ts`), the MCP server
and the command line all create an engine over the same files.

| component | state it keeps | operations | talks to |
|---|---|---|---|
| engine, `platform/engine/engine.ts` | the machine, the marker as loaded | start, advance, error, stop, recover, pause, reset | all of the following |
| state machine, `state-machine.ts` | state, history, gate results | advance, error, recover, serialize | calls back to persist |
| session, `state-persistence.ts` | `session-state.json`: status, mode, history, transition marker | load, save (merge), intent, complete | file store, durable mirror |
| event log, `transition-event-log.ts` | `transition-events.json` | append unless duplicate, replay | file store |
| lease, `transition-lease.ts` | `transition-lease.json` | acquire, renew, release | file store |
| write lock, `src/webapp/file-lock.ts` | a map from paths to promises, in memory | withFileLock | every service that writes |
| file store, `src/webapp/store.ts` | the files | atomic write (temporary file, rename) | |
| orchestrator routes, `src/webapp/routes/orchestrator.ts` | the engine instance, overrides, approvals | command, advance, reset, override, pause | engine |
| auto-orchestration, `src/webapp/services/auto-orchestration.ts` | `command-queue.json`, flags in memory | claim, dispatch, cycle, finalize (two timers) | routes, execution service, write lock |
| execution service, `agent-execution-service.ts` | runs and their abort controllers | execute, cancel | dispatcher, session tracker |
| dispatcher, `platform/engine/dispatcher.ts` | attempts of an invocation, semaphore of a group | invoke, retry, revise, bounded group | runtime adapter |
| job queue and worker, `platform/engine/jobs/` | jobs, dead letters, timers | enqueue, dequeue, complete, fail, cancel, recover | storage provider |
| tool loop, `runtime-adapter/tool-loop.ts` | round, results so far | ask the model, call its tools | middleware, executor |
| tool executor, `tool-executor.ts` | failures and cooldowns per operation, operations in flight | execute | result cache, adapters |
| result cache, `adapter-result-cache.ts` | results by operation and parameters, a file | get, set | a store |

What is hard here:

* *Crashes.* An advance performs six writes to three files. The process may end
  between any two, and the next one decides from the files where the pipeline
  stands, by the session or by a replay of the log.
* *Failures in the middle.* A write may throw before or after the file changed;
  the catch and finally blocks of `advance` cover only a part of it.
* *Several processes* on the same files, kept apart by a lease that is itself a
  file, and by promises that live in one process only.
* *Time-outs* that do not stop what they time out: of the lock, of jobs, of
  invocations.
* *Interleaving at awaits* of routes, timers and worker loops.
* *Repetition.* An attempt that failed or timed out is made again, by the
  dispatcher, the queue or a restart, and its side effects must not be.
* *Bounds.* Queues, pages of lists, slots of a group, operations in flight,
  rounds of a loop: each is counted in one place and used up in several.

What makes each part correct is stated in section 4 for the parts that are
modelled. Section 7 says what is not.

## 2. The modules

| module | models | checked by | proved in |
|---|---|---|---|
| `FileLock` | `withFileLock` | `MCFileLock` | `FileLockProofs` |
| `TransitionLease` | `TransitionLeaseManager` as the engine uses it | `MCTransitionLease` | `TransitionLeaseProofs` |
| `ExclusiveHolder` | what a lease promises (abstract) | by refinement | `TransitionLeaseProofs` |
| `TransitionEngine` | the engine of one process with its machine, session, log and lease file | `MCTransitionEngine` | `TransitionEngineProofs` |
| `WriteAhead` | what the engine promises of the pipeline (abstract) | by refinement | `TransitionEngineProofs` |
| `EngineFleet` | engines of several processes over one session, log and lease | `MCEngineFleet` | `EngineFleetProofs` |
| `AutoOrchestration` | the two timers over the command queue, and the routes they post to | `MCAutoOrchestration` | `AutoOrchestrationProofs` |
| `CommandBoard` | what the command queue promises (abstract) | by refinement | `AutoOrchestrationProofs` |
| `Dispatcher` | the attempts of an invocation, the bounded groups of a state | through `AgentExecution` | `AgentExecutionProofs` |
| `AgentExecution` | the execution service on top of it | `MCAgentExecution` | `AgentExecutionProofs` |
| `ToolExecutor` | the tool executor with the result cache | through `ToolLoop` | `ToolLoopProofs` |
| `ToolLoop` | the loops of models and tools on top of it | `MCToolLoop` | `ToolLoopProofs` |
| `JobQueue` | the persistent queue, one worker, routes, recovery | `MCJobQueue` | `JobQueueProofs` |
| `JobBoard` | the life cycle of a job (abstract) | by refinement | `JobQueueProofs` |

The `MC` modules give the constants their values for TLC. Definitions marked as
mutants or mutated forms (`CallThatDoesNotStore`, `ReplayedIntents`, ...) are those
a plausible mistake would have put in the place of the definition that follows
them. No behaviour uses them: they document which mistake each property would
catch (`"mutants"` in `PROJECT.json`).

How the modules compose: a command of `AutoOrchestration` is executed by runs of
`AgentExecution`, which is `Dispatcher` extended; an attempt of the dispatcher is a
loop of `ToolLoop`, which is `ToolExecutor` extended; the advance that follows is
one of `TransitionEngine`, under a lease of `TransitionLease`, or of `EngineFleet`, which is
`TransitionLease` extended; the command queue is
read and written under a lock of `FileLock`. Extended modules are checked
together. Between the others the interface is narrowed on purpose:
`AutoOrchestration` keeps of the engine only its state and its marker, in every way
that `TransitionEngine` shows them to change, and of the lock its exclusion.

### FileLock

A call creates a promise, puts it into the map and awaits the one it displaced;
call and promise are identified. `Call` is the code up to the `await`, `Enter` and
`TimeOut` are the two outcomes of the race, `Finish` is the finally block. The
timer is nondeterministic, but fires only when no continuation is pending, since
timers run between the turns of the event loop. Each process has its own map
(`tail[p]`).

### TransitionLease

One action is one access to the lease file: `AcquireRead`, `AcquireWrite`,
`AcquireVerify` and so on. `Spec` interleaves them arbitrarily, as processes do;
`SerialSpec` lets a call run to its end, as it does in one process, where the
calls are synchronous. A worker may abandon the lease (the engine throws outside
its try block) or die. Tokens and time are numbers; `MaxToken` and `MaxClock`
bound them for TLC.

### TransitionEngine

One action is one write of the code, or the step in memory that goes with it:

    LoadSession ReplayEvent* ReplayDone CreateMachine        createEngine
    StartAdvance WriteIntent LogIntent Renew                 engine.advance
      [GateFailed | GatePassed] Move WriteComplete
      LogApplied | LogFailed, Release
    HookFails Fail Recover Pause Reset                       the other operations
    Crash LeaseExpires                                       the environment

A write has three outcomes: it succeeds (`ok`), throws with the file as it was
(`lost`), or throws although the file has changed (`late`: the copy to the durable
mirror failed). `advance` is synchronous, so apart from crashes nothing
interleaves with it. A crash is possible between any two actions and loses
`machine`, `marker`, `adv` and the replay's variables; `session`, `log` and
`lease` stay. Transition ids are numbered; their only use is equality.

The budget limits how often each kind of trouble (crash, throwing write,
rejected gate, error, reset) strikes in a run; `Budgets` is the set of budgets a
behaviour may start with. It bounds the environment and
not the engine: without trouble the flow itself is finite.

`trail`, `acceptable` and `intact` are history variables, which no guard reads:
`trail[i]` is the replay of the first `i-1` events; `acceptable` is the set of
states in which a restart may bring the engine up; `intact` says that the last
advance started from files that agreed with the machine and that no save outside
an advance happened under an `IN_PROGRESS` marker.

### EngineFleet

`TransitionEngine` asks what one process does when things fail, `EngineFleet` what
several do to each other. Each has an engine that has read the session once
(`LoadSession`, `ReplayLog`) and keeps it: the server's engine (`getEngine` in
`orchestrator.ts:911`) lives as long as the server. The files are read (`ReadFile`)
and written back as a whole, so that an action is one access and what another
process wrote in between is lost. The lease has its clock and its races; a renewal
that is refused (`RenewRefused`) stops nothing. `pauseAtCheckpoint` takes no lease.
States are numbered along one flow; gates, errors and writes that throw are left to
`TransitionEngine`. `disturbed` is a history: two engines were in the middle of
their writes at once, or one ended after it had saved a transition and before it had
logged it (the gap of finding 3).

### AutoOrchestration

An action is the code between two awaits, of a timer or of the handler of the route
that it posts to. That of `POST /advance` is cut in two where it awaits the agents
which a HYBRID run injects before the next state (`orchestrator.ts:1356`): the pause
and the review gate are looked at before, the engine is moved after, and anything may
happen in between.

    Claim PostCommand PostAdvance [FirstInjected] Note | Reject   the dispatcher
    Read Judge... [Executed] Advance [NextInjected]
        | Catch, SettleCommand                                    the cycle
    Enqueue UserReset UserAdvance UserError Pause ...             callers of the API
    Crash                                                         the environment

A route that awaits goes on with the engine it holds although `active-pack` or a reset
has created another (`replaced`); what it then writes is abstracted to the marker it
may leave (`intent`). The await of an advance that a user asks for is not a step of
its own. The histories say whose run it is: `owner`, the command whose run has begun,
`from`, the state in which `POST /command` left the engine, `overtaken`, the commands
settled or moved on by what a cycle had read before their run began, and `cutShort`,
those at work when a caller, a crash or a failed write struck.

The two timers are started one after the other with the same period
(`server.ts:1047`), so that a claim between the read and the judgement of a cycle is
nothing unusual. Verdicts, outcomes of agents and callers are inputs. What the
model makes visible, and the code leaves as it is:

* `CONTINUE` does not reset the engine, so the dispatcher's first advance leaves a
  state without its agents, or a critic without a verdict.
* A reset under a command that is `PROCESSING` strands it: the engine is `IDLE`,
  nobody settles the command, and it blocks the queue for good.
* A command that is queued while the orchestration is paused ends in `ERROR`, and so
  does one whose agents run when it is paused (the advance answers 409).
* Agents that fail leave the engine in the middle of a run; what the next command's
  cycle does before its reset is done to the old run.

### Dispatcher and AgentExecution

A call is one invocation with its attempts; `Attempt`, `Retry`, `Revise` and the
answers are its loop. What follows an answer up to the next wait is one turn of the
event loop and one step. A group is the semaphore of `dispatchStateParallel`: a
woken call takes its slot in a later turn, which is where a slot can be lost. Runs
of the service add the record in `JOB_STORE`, the controller in `JOB_ABORT` and the
tracker's entry, which all runs of an agent share. Each `execute` makes its own
dispatcher, so a behaviour is either one of groups or one of runs (`serving`).
An exception before the try block is `Lose`: the record stays `running`.

### ToolExecutor and ToolLoop

`Served`, `Rejected` and `Started` are the three ways through the synchronous first
half of `execute`, `Succeeded`, `Failed` and `TimedOut` the ways out of its await. An
operation that timed out becomes `abandoned`: nobody waits for it, and `LateAnswer`
may yet take its effect. A loop is one attempt of an agent; attempts that timed out
go on, as only a cancellation reaches them, so several loops doing the same work
share one executor. The gates of `tool-execution-middleware.ts` are a refusal that
may happen at any call (`Refused`). A request without a time limit (the model may
ask for the limit 0) is not `timed`. Time is left open: an entry may outlive its
ttl and a cooldown may end at any moment, and a circuit whose time is over is as
good as none. `durable` says whether the store outlives the process. The one that
`agent-runtime-adapter.ts:235` installs is memory; a file is what the header of
`adapter-result-cache.ts` speaks of.

`effects`, `row`, `told` and `excused` are histories. `excused` names the requests
whose effect may be taken twice, each with its reason: the entry ran out or was not
written, the caller asked to skip the cache, an operation failed or timed out after
it may have taken its effect, or a second one was started while the end of a first
was not known.

### JobQueue

One action is one access to the storage provider with the code that follows it up
to the next await. With a remote provider the accesses of concurrent operations
interleave freely. The methods of the file and the SQLite provider are synchronous,
so an operation runs in the microtasks that follow the event which started it:
`ready` holds the actors with a pending microtask, and no other event is handled
before it is empty. Loops of one worker, one client (a request at a time), the
callback of a time-out, and the start of the process are the actors. A list shows as many
documents as fit in a page, in an order that no write changes (`Place`: the names of
the files, the rows of the table); dequeue filters by type and sorts by priority what
is left. Which of several jobs of one priority is taken, that created first, is left
open. A job of an index route is completed
by the route although nobody dequeued it: it stays queued. No code of the server
starts a `JobWorker` today; the worker is modelled as its module and tests use it.

## 3. The runs

| run | instance | distinct states | shows |
|---|---|---|---|
| `FileLock.cfg` | 5 calls, 2 processes | 14 thousand | exclusion, order, shape of the chain, no lost waiter |
| `FileLockEviction.cfg` | the same | | violation: a time-out poisons the lock |
| `LeaseSerial.cfg` | 3 workers, TTL 2, 5 instants, 3 tokens | 715 thousand | exclusive, bounded, implements `ExclusiveHolder` |
| `LeaseAcrossProcesses.cfg` | the same, interleaved | | violation: two holders |
| `Engine.cfg` | 5 states, 2 modes; 2 crashes, 1 throw, 1 rejection, or 1 crash, 1 rejection, 1 error, 1 reset | 484 thousand | crash safety, trace, log, refinement of `WriteAhead`, liveness |
| `EngineRecovery.cfg` | the same; 2 crashes | | violation: recovery goes back over committed states |
| `EngineFleet.cfg` | 2 engines, 3 states, 3 tokens, TTL 1, 2 instants, undisturbed | 353 thousand | the log leads as far as any engine, whatever is stale |
| `JobQueue.cfg` | 2 loops, 3 jobs and 1 crash with a file, 1 job with a remote store; 1 retry, page 1 | 404 thousand | life cycle, no orphans, limits, refinement of `JobBoard`, liveness |
| `JobQueueLoops.cfg` | the same | | violation: a cancelled job ends a loop of the worker |
| `AutoOrchestration.cfg` | 4 states, 3 commands of 3 kinds, queue of 2, a HYBRID state, review gate, 1 trouble | 424 thousand | outcomes, what strands a command, refinement of `CommandBoard`, liveness |
| `AgentExecution.cfg` | groups of 4 and 1 with 2 slots, or 2 runs of one agent; 2 retries, 1 revision | 50 thousand | semaphore, attempts, cancellation, tracker, liveness |
| `ToolLoop.cfg` | 2 loops, 2 requests with one key, 1 slot, threshold 2, 1 round of 2 calls, 1 crash | 346 thousand | effects once, limits exact, loops end |

Why the bounds are enough. Five calls allow a holder, a call that times out behind
it, one that waits for the timed out call, one that comes later, and one of
another process. Three tokens and five instants let a lease be taken, renewed,
run out and be taken over twice. The flow of five states has each kind of state
(start, phase, critic, structural, end), and the two modes differ in whether they
select the phase, so that a reset changes the flow. Two crashes are needed for a
crash during recovery, or in an advance after one. Three tokens let an engine
advance twice while another is still where both began, so that one transition is
performed twice; the second instant ends a lease in the middle of an advance. The
run does not go on from disturbed states, of which `LogLeads` says nothing and which
stay disturbed. Two loops and one running job
allowed make loops compete; one retry gives a job a second attempt while the executor
of its first goes on. A list of one document is cut as soon as there are two: the job
of the index route keeps the one behind it from the worker and not the one before it,
and the count of the active jobs falls short of them; with a limit of one dead letter,
a second failure evicts the first. A longer page with more jobs, to fill it, asks
nothing else. Three
commands overflow a queue of two and put a command that resets, one that does not
and one that is refused behind one another; one trouble at every place of the two
timers is what the code can meet at once (with two, the type invariant,
`DoneUnlessInterfered`, `OnlyTroubleStrands` and `AdvancesMoveWhatWasRead` were checked
to hold as well, in 4.2 million states). Four calls over two slots leave two waiting when
one is woken. Two loops and one slot make one operation be rejected while another
is in flight; two requests with one key are the smallest case in which the cache
answers for another request; two calls in a round are enough for a retry of the
same request within a loop and, with a threshold of two, to open a circuit.
`CHECK_DEADLOCK FALSE` is used because calls, time and budgets are finite: the
systems may stop.

## 4. What the properties say

* `MutualExclusion`, `FirstComeFirstServed`, `ForksOnlyBehindTimeOut`,
  `EveryWaiterServed`: the lock of a process is exclusive and fair, in spite of
  time-outs that fork the chain of waiters.
* `NoSplitBrain`, `HolderOwnsFile`, `BlocksAtMostTTL`, `ImplementsExclusiveHolder`:
  one worker at a time holds the lease, the file says so, and it cannot be blocked
  for longer than its time to live.
* `CrashKeepsTransition`: after a crash anywhere in an advance, whatever threw
  before, the engine comes up in the state the transition left or the one it
  enters; only the former after a failed gate, only the latter once the event
  `applied` is logged. The condition `intact` excludes the two cases of the next
  section.
* `TraceLeadsToState`: the history, in memory and in the session, is a connected
  path that leads to the state, through errors, recoveries, replays and resets.
* `AppliedNeverDropped`: the duplicate check of the log never drops a completed
  transition, although a resumed one reuses an id.
* `ImplementsWriteAhead`: the pipeline is only ever in `ERROR` or in a state that
  the log announced before, and only successors of the present state are announced.
* `PipelineSettles`: unless it is reset, the pipeline always ends in `COMPLETED` or
  `ERROR`, or it comes to stand off its flow (`OffItsFlow`), which takes a reset
  and a restart (section 5).
* `LogLeads`: engines that know of different states may perform a transition twice,
  under different ids or the one that both loaded, and may set the session back; the
  log still leads as far as any of them has come, up to the event that is about to
  be written, so that a replay loses nothing. This holds as long as they do not write
  at once: the lease is what keeps them apart, and where it fails, events are lost.
* `NoOrphans`: a job that the store calls running is in the hands of a living loop,
  with either provider and through time-outs, cancellation, retries and recovery.
  `ImplementsJobBoard`: with a file provider every call acts as one step of a job's
  life cycle; the dead letters stay within their bound if a page shows that many, and
  otherwise none is evicted, which is the case by default (1000 and 50).
  `IndexJobNeverEnds`: the job of an index
  route is queued until somebody cancels it. `JobsSettle`: a queued job that
  the worker accepts is settled as long as a loop lives and no page of jobs that the
  worker leaves alone is queued before it (`ShutOut`). By default, with a limit of 1000
  jobs, a page of 50 and index jobs that never end, that case is within reach, and the
  job then waits for good; jobs that the worker accepts do not cause it.
* `ImplementsCommandBoard`: commands are taken in order, one at a time, and an
  outcome is final. `DoneUnlessInterfered`: the run that a `DONE` command began
  was completed, or a cycle judged for it an end that it had read before that run
  began (`overtaken`), or a caller, a crash or a failed write cut it short (`cutShort`).
  `OnlyTroubleStrands`: the timers
  alone never strand a command. `AdvancesMoveWhatWasRead`: the first advance leaves the
  state in which `POST /command` left the engine, and the cycle, which reads the state
  several awaits before it advances, moves the engine only out of that state, in the
  run of the command that is processed and after the agents of the state. It holds over
  the await of the injected agents too, although the route looks at nothing again: no
  timer but the one that awaits moves the engine meanwhile, and what else may is a
  caller or a crash. The exceptions are named, and the run is violated without any of
  them: a command that a cycle overtook or that was cut short; a cycle that read its
  state before the run began (`cyc.run`); one that took the command up while the
  dispatcher had yet to clear the state executed last, and so leaves out agents
  (`cyc.early`); a pause that comes while agents are injected does not hold the
  advance. `CommandsSettle`: every command gets an outcome, leaves the
  queue, or waits behind a pause or a stranded one.
* `SlotsExact`: a slot is counted for every call that holds one and no free slot has
  a waiter. `AttemptLeft`: the end of the loop in `invoke`, "All retries exhausted",
  is never reached. `CancelledStays`, `CanBeCancelled`, `TrackerFollows`: a
  cancellation is final, possible until `execute` has left, and the tracker hears of
  every end but a cancellation and a lost run. `EveryCallReturns`.
* `EffectsOnce`: a side effect that is not excused is taken once, and what a loop is
  told to have succeeded was done, by a request of the same key. `LimitsExact`: the
  count in flight is that of the loops that wait, and a circuit opens only after
  failures in a row. `LoopsEnd`: every loop ends whatever the model asks for.

Fairness. `FileLock`: the event loop runs a settled continuation, and the function
under the lock returns; calls and timers are never obliged to happen.
`TransitionEngine`: the process is restarted, a call that runs goes on, a lease
runs out, and somebody keeps asking for the next transition. The last is an
assumption about users. The timer of the server asks too, but it refuses to while
the marker is `IN_PROGRESS`, which is what a restart finds after a crash in an
advance; then it takes a call of the API or of the command line.
`AutoOrchestration`: the two timers run on, requests and agents end. `AgentExecution`:
an attempt ends, if only by its timer. `ToolLoop`: a model and an adapter answer some
day, or their timers do. `JobQueue` needs strong fairness for a loop, because
requests may come in between its events for ever; the event loop of the process
serves timers and requests in turn.

## 5. What the code does not do as it says

Each of the first four is a run that ends in a violation, listed as a finding.

1. `file-lock.ts:32` says that a time-out evicts the stale predecessor so that later
   callers do not wait for it. The call stores its own promise, which nothing
   resolves: every later caller times out (`FileLockEviction.cfg`).
2. `transition-lease.test.js:40` promises no split brain. Two processes that both
   read an expired lease may write and verify in turn, and both hold it
   (`LeaseAcrossProcesses.cfg`).
3. `state-persistence.ts:5` promises recovery to the last committed state. A crash
   between `saveTransitionComplete` and the event `applied` leaves a gap in the
   log; a crash in a later advance replays up to the gap (`EngineRecovery.cfg`).
4. `worker.ts:4` promises a continuous loop. When its job is cancelled or timed out,
   `complete` throws, the catch block calls `fail`, which throws too, and the loop is
   gone until a restart (`JobQueueLoops.cfg`).

The following were met while modelling and have no run of their own.

* The page shows "Command completed" for a command that is `DONE`. A cycle that still
  reads the `COMPLETED` of the run before settles a command that was claimed a
  moment ago and has not reset the engine yet (`overtaken` in
  `DoneUnlessInterfered`; without it TLC finds the case with no trouble at all).
* `_lastAutoExecutedState` outlives a run and is cleared by the dispatcher only after its
  advance has been answered (`auto-orchestration.ts:379`). A cycle that comes in between
  and reads the state that was executed last moves it on without its agents
  (`cyc.early` in `AdvancesMoveWhatWasRead`).
* A pause that comes while `POST /advance` awaits injected agents is answered with
  success, and the engine is moved nevertheless.
* `pauseAtCheckpoint` saves what its engine remembers, without the lease and without a
  look at the session. An engine that has not seen a transition of another process
  takes the session back before it, and whoever starts next starts there, although
  `state-persistence.ts:5` promises the last committed state. `EngineFleet` has these
  behaviours; the log, which `LogLeads` is about, still tells the truth, but only a
  start under an `IN_PROGRESS` marker reads it.
* `persistent-queue.ts:27` calls 1000 a hard cap of the depth. The lists that are
  counted are cut at 50 entries, so that the cap is never reached.
* `job-types.ts:66` says that `dequeue` takes the job of the highest priority. It
  sorts, and filters by type, what is left after the provider has cut the list in
  the order of its files: beyond 50 queued jobs the highest may not be among them, and
  behind 50 index jobs, which stay queued for good, a job of another type is never
  taken (`ShutOut` in `JobsSettle`, which the run violates without it).
* `persistent-queue.ts:29` calls 1000 a hard cap of the dead letters. A list of 50 never
  shows that it is reached, and nothing is evicted.
* `file-lock.ts:11` says that the lock is shared by `server.ts` and `mcp-server.ts`. It
  lives in the memory of each process; the MCP server's `queue_command` writes the
  command queue without the server's lock.
* A reset keeps the log of the run it ends, and a crash in the new run's next
  advance replays the old run.
* The phases chosen at a reset are kept in memory. If the mode does not select them
  (combination runs, `orchestrator.ts:1690` and `1875`), a restart leaves the engine
  in a state that is not on its flow, from which no advance leads on
  (`OffItsFlow` in `PipelineSettles`).
* `hashParams` (`adapter-result-cache.ts:56`) hands the list of top-level keys to
  `JSON.stringify`, which filters nested objects by it too. Operations that differ in
  a nested parameter only share a result; the second is reported as done and is not.
  `__agentContext`, which the middleware adds to every git operation, is nested.
  `adapter-result-cache.test.js:53` ("differentiates by params") tries flat ones.
* `tool-executor.ts:7` promises no duplicate side effects after a restart. The store
  of the runtime adapters is memory of the process, and each adapter has its own
  executor over it, which overwrites what the others kept.
* `dispatcher.ts:1688` says that at most `maxConcurrency` invocations run at a time.
  That is so of invocations that are awaited; the adapter's work goes on after a
  time-out.
* `agent-execution-service.ts:260` says that `execute` returns immediately with the id
  of a job. It returns when the agent has ended.

## 6. What is proved

All theorems hold for every value of the constants that the named assumptions
allow (`FileLockAssumption`, `LeaseAssumption`, `FleetAssumption`, `EngineAssumption`,
`QueueAssumption`, `DispatcherAssumption`, `AgentExecutionAssumption`,
`OrchestrationAssumption`, `ToolExecutorAssumption`, `ToolLoopAssumption`): any number
of calls, processes, workers, jobs, commands, loops and requests, any flow with
distinct states, any limits, any amount of trouble. Every invariant, every action property and every
refinement that a run checks is a theorem; the two theorems about the job queue that
need more than its assumption say so below.

* `FileLockProofs`: type correctness, mutual exclusion, order and the shape of the
  chain. The invariant `IInv` adds to the properties what the code relies on
  silently: a promise is settled exactly when its call is done, a waiting call's
  promise is in its process's map or displaced by one that waits for it, and a
  running call's predecessor is settled. Exclusion alone is not inductive: it
  holds only because a timed out call never settles its promise.
* `TransitionLeaseProofs`: `NoSplitBrain`, `HolderOwnsFile` and `BlocksAtMostTTL`
  for `SerialSpec`, and that `SerialSpec` implements `ExclusiveHolder`. The
  invariant ties what a holder knows (token, expiry) to the file. `TypeCorrect` is
  about `Spec`, the lease with all its races, which the fleet uses.
* `TransitionEngineProofs`: `TypeCorrect`, and `CrashKeepsTransitionTheorem`.
  `CrashKeepsTransition` speaks of the machine, which a crash destroys; so the
  invariant `CrashInv` speaks of `BootsInto`, the state in which a start of the
  engine would come up: the status of the session or, under an `IN_PROGRESS`
  marker, the end of the replay of the whole log. `TrailOk` says that `trail`
  is the replay of every prefix, `LoopOk` that the loop of the start follows it,
  `AdvanceOk` what each point of an advance has written, and `RecoveryOk` that
  `BootsInto` and the machine are acceptable. Each write of the advance either
  leaves `BootsInto` alone or moves it within the acceptable states. The
  invariant was model-checked before it was proved.

  `TraceLeadsToStateTheorem` is about whole histories. `Leads` is a property of a
  history with its state, and `TraceInv` claims it of the machine, the session and
  the replay in progress; what is proved is that an empty history has it, that a move,
  an error and a return to the last good state keep it, and that every action does one
  of these or copies.

  `AppliedNeverDroppedTheorem` needs to know why a resumed transition, which reuses
  its id, is not a duplicate: `OneTarget`, one id is one transition in the log, in the
  markers on disk and in memory and in the advance under way, and `Unapplied`, none of
  those that are pending has an applied event. The second is where the order of the
  writes counts: the marker is taken away before the applied event is written.

  `ImplementsWriteAheadTheorem` adds `AheadOk`: every state that the machine, the
  session, their histories, a replay or an applied event names is announced. The
  histories belong to it, since an error and a reset return to states in them. A step
  that logs an intent is `Announce`, every other one `Enter`, `Fail` or a stutter.
* `EngineFleetProofs`: `FleetUsesLease`, `FleetTypeCorrect` and `LogLeadsTheorem`, about
  any number of engines that know the session only as it was when they started. The
  invariant has two layers. At every time, disturbed or not, `Standing` says what
  belongs to each stage of an advance, and `OneTarget` that there is an assignment of
  transitions to ids which the log, the session, every memory and every copy that is
  yet to be written back agree with. While nobody has disturbed (`Quiet`), one engine
  writes (`Alone`), what it has read is what the files hold (`Current`), and the log
  leads as far as anybody has come, but for the transition about to be logged (`Lead`).
  `OneTarget` is needed because `appendTransitionEvent` drops a duplicate: only then
  does the event that is there already lead as far as the one dropped would.

  `ReplayOf` is a recursive function. What an event more does to it, for logs of any
  length, is an induction over data; the theorems for it in the library take an operator
  and are of no use here, but that the natural numbers are well founded
  (`NatLessThanWellFounded`, `WFMin`) is about sets, and gives `SetInduction`.
* `AutoOrchestrationProofs`: `TypeCorrect`, `NoStrandingOfItsOwn`,
  `DoneUnlessInterferedTheorem`, `AdvancesMoveWhatWasReadTheorem`, and that the
  auto-orchestration implements `CommandBoard`. `QueueMoves` reduces every action to
  an arrival, a claim or a settlement. `OneProcessing` says that one command is
  processed at most; without it a settlement could change two entries. `Attended`
  says that the command which is processed while the dispatcher works is its own,
  and that it leaves it only to an engine that has left `IDLE`, unless a caller
  interfered.

  `DoneUnlessInterfered` and the action property need `RunInv`. `Phases` says of every
  command that is processed and not excused that its run has not begun, and then the
  engine is where `POST /command` left it, or that the run under way is its own and how
  far it is. `Advancing` says that what the cycle read before it awaited the agents of
  the state, or those injected, still holds when it moves the engine, `Opening` the
  same of the first advance, and `Told` that the cycle reports as done only what is
  finished. They hold because the dispatcher claims nothing while a command is processed, because
  the cycle does not start again before it has ended, and because whoever else moves
  the engine in between is recorded: in `overtaken` if it is the cycle, on what it read
  of an earlier run, and in `cutShort` if it is not one of the timers.
* `AgentExecutionProofs`: `SlotsExact`, `AttemptLeft`, `CanBeCancelled`,
  `TrackerFollows` and `CancelledStays`. `Waits` ties the queue of the semaphore to the
  calls that wait, `Budgets` pays every attempt after the first with a retry or a
  revision, `Records` ties the record, the controller and the signal of a run.
* `ToolLoopProofs`: `EffectsOnce` and `LimitsExact`. `Single` says that an operation
  under way that is not excused is alone and has not taken its effect, `Kept` that an
  effect that is not excused is in the cache, and that nothing is in the cache, in
  its file or told to a loop that was not done. `Rows` relates the count of a circuit,
  which a success or an opening sets back, to the failures in a row.
* `JobQueueProofs`: `TypeCorrect` and `IndexJobNeverEndsTheorem`; `NoOrphansTheorem`,
  with either provider and any interleaving, if the documents of the jobs that the
  loops can hold fit in a page (`WorkerCount <= PageSize`). There are never more
  running jobs than loops, so the list that `recover` makes finds them all.

  `ImplementsJobBoardTheorem` holds with a file provider and under two hypotheses:
  `WorkerCount <= PageSize` and `WorkerCount <= Concurrency`, which hold of the defaults
  (one loop, a limit of three, pages of 50).
  The invariant `FileInv` explains why calls that interleave look like one step each:
  `OneByOne`, storage accesses of different actors are pending together only when the
  loops of a worker start; `Agreement`, what an actor has read still holds when it
  writes; `FewDead`, the limit of the dead letters where a page shows that many. About
  the size of the page and that limit nothing is assumed. The second hypothesis is needed because
  the model leaves open which of several jobs of one priority is taken: two loops
  that start together count before either has written, and may then pick two of them,
  where those of the code pick the same. The run has two loops, a limit of
  one, a page of one and two priorities, and so covers a case that the theorem leaves out.

Only model-checked, not proved: what is stated with `~>` (`EveryWaiterServed`,
`PipelineSettles`, `JobsSettle`, `CommandsSettle`, `EveryCallReturns`, `LoopsEnd`),
since liveness under fairness is beyond the prover; and `JobBoard` with more loops than
running jobs allowed. The properties of the runs that expect a violation
(`TimeOutOnlyWhileHeld`, `NoSplitBrain` across processes, `RecoveryLoadsCommitted`,
`LoopsContinue`) are false. The replay of `TransitionEngine` is an unfolding of one
operator per event, and that of `EngineFleet` a recursive function, so that no recursive
operator is in the way of a proof.

## 7. What is not modelled, and what could follow

`PROJECT.json` lists every component with its status and every hazard with the
property that covers it, or why none does yet. Left out on purpose: calls of
language models, the adapters' own work, parsers of Markdown deliverables and scores
(the gate's verdict is an input), reports, the user interface, authentication. Of
the engine: templates, governance, run history, checkpoints and the gate validator;
of a start with an unknown status only the known states are modelled. Of the
auto-orchestration: the quarantine of entries, remediation tasks, notifications and
the route `/recover`. Of the queue: the in-memory and the BullMQ binding, `stop`. Of
the cache: `invalidate`, which nothing calls.

What could follow, most important first:

1. The creation times of jobs, with which the refinement of `JobBoard` could be proved
   for more loops than running jobs allowed, as loops that start together then pick the
   same job.
2. The stages of a rollout and the caps per workspace; the records of A2A requests;
   the tables of the life cycle; the durable mirror as a store of its own.
