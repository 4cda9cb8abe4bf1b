------------------------------ MODULE JobQueue ------------------------------
(***************************************************************************)
(* PersistentQueue (platform/engine/jobs/persistent-queue.ts) with the     *)
(* loops of one JobWorker (worker.ts), the time-out timers, and the HTTP   *)
(* routes that enqueue, finish and cancel jobs through instances of the    *)
(* queue of their own.                                                     *)
(*                                                                         *)
(* A queue operation is a chain of accesses to the storage provider; one   *)
(* action is one access with the code that follows it up to the next       *)
(* await.  With a "remote" provider the accesses of concurrent operations  *)
(* interleave freely.  The methods of a "file" provider (and of the SQLite *)
(* one) are synchronous, so that an operation runs in the microtasks that  *)
(* follow the timer, request or executor that started it: ready holds the  *)
(* actors with such a microtask pending, in order, and no other event is   *)
(* handled before it is empty.                                             *)
(***************************************************************************)
EXTENDS Integers, Sequences, FiniteSets

CONSTANTS
    Jobs,
    NoJob,
    RouteJobs,      \* the jobs of the index routes, which no worker executes for them
    Handled,        \* the jobs whose type the worker's filter accepts
    Priority,       \* of each job
    Place,          \* of each job's document in the order in which the store lists
    WorkerCount,
    Concurrency,
    MaxRetries,     \* of every job
    PageSize,       \* most documents a list returns
    MaxQueueSize,
    MaxDlqSize,
    Offered,        \* bound on the jobs enqueued with each provider
    MaxCrashes,     \* bound on crashes with each provider
    MaxLeaked       \* bound on the timers of a job that nothing can clear

Providers == {"file", "remote"}

ASSUME QueueAssumption ==
    /\ NoJob \notin Jobs
    /\ RouteJobs \subseteq Jobs /\ Handled \subseteq Jobs
    /\ Priority \in [Jobs -> Nat] /\ Place \in [Jobs -> Nat]
    /\ WorkerCount \in Nat /\ Concurrency \in Nat /\ MaxRetries \in Nat
    /\ PageSize \in Nat \ {0} /\ MaxQueueSize \in Nat /\ MaxDlqSize \in Nat \ {0}
    /\ Offered \in [Providers -> SUBSET Jobs]
    /\ MaxCrashes \in [Providers -> Nat]
    /\ MaxLeaked \in Nat

VARIABLES
    provider,       \* "file" or "remote"
    doc,            \* collection "jobs"
    dlq,            \* collection "jobs-dlq"
    timer,          \* the worker's queue: is the timer kept for the job in _timeouts live?
    leaked,         \* live timers of the job that _timeouts has forgotten
    indexing,       \* jobs an index route has yet to finish
    act,            \* what each actor is doing
    ready,          \* actors with a pending microtask, in order ("file" only)
    crashes

vars == <<provider, doc, dlq, timer, leaked, indexing, act, ready, crashes>>

Loops == 1..WorkerCount
Client == WorkerCount + 1       \* the routes, one request at a time
Timer == WorkerCount + 2        \* the callback of a time-out
Boot == WorkerCount + 3         \* start of the process: recover, then worker.start
Actors == 1..(WorkerCount + 3)

Status == {"absent", "queued", "running", "completed", "failed", "cancelled"}

(* A resting actor waits for an event, the others for a storage access. *)
Resting == {"off", "idle", "sleeping", "executing", "dead"}
Pending == {"listing", "picking", "taking", "completing", "storing",
            "failing", "giving up", "burying", "evicting", "interring",
            "counting", "inserting", "cancelling", "withdrawing",
            "recovering", "requeueing"}

(* The states with no job at hand. *)
Free == {"off", "idle", "sleeping", "dead", "listing", "picking",
         "recovering", "requeueing"}

(* pc; the job at hand, its retryCount as read; whether the failure is a
   transient one; the jobs of the last list still to be written. *)
Activity ==
    {x \in [pc : Resting \cup Pending, job : Jobs \cup {NoJob}, seen : Nat,
            transient : BOOLEAN, rest : SUBSET Jobs] :
        x.pc \in Free \/ x.job \in Jobs}

At(pc) == [pc |-> pc, job |-> NoJob, seen |-> 0, transient |-> FALSE, rest |-> {}]
AtJob(pc, j) == [At(pc) EXCEPT !.job = j]
Failing(j, transient) == [AtJob("failing", j) EXCEPT !.transient = transient]

TypeOK ==
    /\ provider \in Providers
    /\ doc \in [Jobs -> [status : Status, retries : Nat]]
    /\ dlq \subseteq Jobs
    /\ timer \in [Jobs -> {"none", "live"}]
    /\ leaked \in [Jobs -> Nat]
    /\ indexing \subseteq Jobs
    /\ act \in [Actors -> Activity]
    /\ ready \in Seq(Actors)
    /\ crashes \in Nat

Init ==
    /\ provider \in Providers
    /\ doc = [j \in Jobs |-> [status |-> "absent", retries |-> 0]]
    /\ dlq = {}
    /\ timer = [j \in Jobs |-> "none"]
    /\ leaked = [j \in Jobs |-> 0]
    /\ indexing = {}
    /\ act = [a \in Actors |-> At("off")]
    /\ ready = <<>>
    /\ crashes = 0

With(s) == {j \in Jobs : doc[j].status = s}
Up == act[Boot].pc = "idle"

(* storage.list: the documents that fit in a page.  Their order is that of the
   file names, or of the rows' insertion, and no write changes it. *)
Page(docs) == {j \in docs : Cardinality({k \in docs : Place[k] < Place[j]}) < PageSize}
PageLength(docs) == IF Cardinality(docs) < PageSize THEN Cardinality(docs) ELSE PageSize

-----------------------------------------------------------------------------
(* The event loop.  An event is handled when no microtask is left; an actor
   takes its turn when it is first in line, or, with a remote provider, when
   the answer to its request comes in. *)
Becomes(a, next) ==
    /\ act' = [act EXCEPT ![a] = next]
    /\ ready' = (IF ready = <<>> THEN <<>> ELSE Tail(ready))
                \o (IF provider = "file" /\ next.pc \in Pending THEN <<a>> ELSE <<>>)

OnEvent(a, next) ==
    /\ ready = <<>>
    /\ Becomes(a, next)

Turn(a, pc) ==
    /\ act[a].pc = pc
    /\ provider = "file" => ready # <<>> /\ Head(ready) = a

(* What an actor does when its operation has ended. *)
Done(a) == IF a \in Loops THEN At("listing") ELSE At("idle")

(* _startTimeout: a timer already in the map is forgotten, not cleared. *)
StartTimeout(j) ==
    /\ timer' = [timer EXCEPT ![j] = "live"]
    /\ leaked' = IF timer[j] = "live" THEN [leaked EXCEPT ![j] = @ + 1] ELSE leaked

(* _clearTimeout: the map of a route's own queue instance is empty. *)
ClearTimeout(a, j) ==
    /\ timer' = IF a = Client THEN timer ELSE [timer EXCEPT ![j] = "none"]
    /\ UNCHANGED leaked

Write(j, s, r) == doc' = [doc EXCEPT ![j] = [status |-> s, retries |-> r]]
-----------------------------------------------------------------------------
(* Mutated forms of definitions below, which the properties must reject: a
   worker started without recover, a recovery that gives back an attempt,
   complete and fail without their check of the status, an off-by-one in the
   limits of the dead letter queue and of the running jobs. *)
RecoverWriteUncounted ==
    /\ Turn(Boot, "requeueing")
    /\ \E j \in act[Boot].rest :
        /\ Write(j, "queued", doc[j].retries - 1)
        /\ Becomes(Boot, [act[Boot] EXCEPT !.rest = @ \ {j}])
    /\ UNCHANGED <<provider, dlq, timer, leaked, indexing, crashes>>

RecoverListNothing ==
    /\ Turn(Boot, "recovering")
    /\ Becomes(Boot, At("requeueing"))
    /\ UNCHANGED <<provider, doc, dlq, timer, leaked, indexing, crashes>>

CompleteReadUnchecked(a) ==
    LET j == act[a].job IN
    /\ Turn(a, "completing")
    /\ ClearTimeout(a, j)
    /\ Becomes(a, [act[a] EXCEPT !.pc = "storing", !.seen = doc[j].retries])
    /\ UNCHANGED <<provider, doc, dlq, indexing, crashes>>

FailReadUnchecked(a) ==
    LET j == act[a].job IN
    /\ Turn(a, "failing")
    /\ ClearTimeout(a, j)
    /\ Becomes(a, [act[a] EXCEPT !.pc = "giving up", !.seen = doc[j].retries])
    /\ UNCHANGED <<provider, doc, dlq, indexing, crashes>>

DlqOverfull == PageLength(dlq) > MaxDlqSize

BelowLimitByOne == PageLength(With("running")) + 1 < Concurrency

-----------------------------------------------------------------------------
(* dequeue: count the running jobs, list the queued ones, write the best of
   them back as running.  null sends the loop to sleep. *)
Poll(l) ==
    /\ Up
    /\ act[l].pc = "sleeping"
    /\ OnEvent(l, At("listing"))
    /\ UNCHANGED <<provider, doc, dlq, timer, leaked, indexing, crashes>>

BelowLimit == PageLength(With("running")) < Concurrency

DequeueCount(l) ==
    /\ Turn(l, "listing")
    /\ Becomes(l, At(IF BelowLimit THEN "picking" ELSE "sleeping"))
    /\ UNCHANGED <<provider, doc, dlq, timer, leaked, indexing, crashes>>

(* The filter by type and the sort come after the cut. *)
Best ==
    LET candidates == Page(With("queued")) \cap Handled
    IN  {j \in candidates : \A k \in candidates : Priority[k] <= Priority[j]}

DequeuePick(l) ==
    /\ Turn(l, "picking")
    /\ \/ /\ Best = {}
          /\ Becomes(l, At("sleeping"))
       \/ \E j \in Best :
            Becomes(l, [AtJob("taking", j) EXCEPT !.seen = doc[j].retries])
    /\ UNCHANGED <<provider, doc, dlq, timer, leaked, indexing, crashes>>

DequeueWrite(l) ==
    LET j == act[l].job IN
    /\ Turn(l, "taking")
    /\ timer[j] = "live" => leaked[j] < MaxLeaked
    /\ Write(j, "running", act[l].seen)
    /\ StartTimeout(j)
    /\ Becomes(l, AtJob("executing", j))
    /\ UNCHANGED <<provider, dlq, indexing, crashes>>

(* The executor answers, or throws an error of some severity. *)
Executed(l) ==
    LET j == act[l].job IN
    /\ act[l].pc = "executing"
    /\ \/ OnEvent(l, AtJob("completing", j))
       \/ \E t \in BOOLEAN : OnEvent(l, Failing(j, t))
    /\ UNCHANGED <<provider, doc, dlq, timer, leaked, indexing, crashes>>

-----------------------------------------------------------------------------
(* complete.  A job that is not running any more makes it throw; the worker
   and the routes then both call fail, with an error that is not transient. *)
CompleteRead(a) ==
    LET j == act[a].job IN
    /\ Turn(a, "completing")
    /\ \/ /\ doc[j].status = "running"
          /\ ClearTimeout(a, j)
          /\ Becomes(a, [act[a] EXCEPT !.pc = "storing", !.seen = doc[j].retries])
       \/ /\ doc[j].status # "running"
          /\ Becomes(a, Failing(j, FALSE))
          /\ UNCHANGED <<timer, leaked>>
    /\ UNCHANGED <<provider, doc, dlq, indexing, crashes>>

CompleteWrite(a) ==
    /\ Turn(a, "storing")
    /\ Write(act[a].job, "completed", act[a].seen)
    /\ Becomes(a, Done(a))
    /\ UNCHANGED <<provider, dlq, timer, leaked, indexing, crashes>>

-----------------------------------------------------------------------------
(* fail.  When it throws, the loop that called it from its catch block ends
   for good; the timer and the routes do not look at the rejection. *)
Refused(a) == IF a \in Loops THEN At("dead") ELSE At("idle")

FailRead(a) ==
    LET j == act[a].job IN
    /\ Turn(a, "failing")
    /\ \/ /\ doc[j].status = "running"
          /\ ClearTimeout(a, j)
          /\ Becomes(a, [act[a] EXCEPT !.pc = "giving up", !.seen = doc[j].retries])
       \/ /\ doc[j].status # "running"
          /\ Becomes(a, Refused(a))
          /\ UNCHANGED <<timer, leaked>>
    /\ UNCHANGED <<provider, doc, dlq, indexing, crashes>>

FailRetry(a) ==
    /\ Turn(a, "giving up")
    /\ act[a].transient /\ act[a].seen < MaxRetries
    /\ Write(act[a].job, "queued", act[a].seen + 1)
    /\ Becomes(a, Done(a))
    /\ UNCHANGED <<provider, dlq, timer, leaked, indexing, crashes>>

FailFinally(a) ==
    /\ Turn(a, "giving up")
    /\ ~(act[a].transient /\ act[a].seen < MaxRetries)
    /\ Write(act[a].job, "failed", act[a].seen)
    /\ Becomes(a, IF act[a].seen >= MaxRetries
                  THEN AtJob("burying", act[a].job)
                  ELSE Done(a))
    /\ UNCHANGED <<provider, dlq, timer, leaked, indexing, crashes>>

(* The dead letter queue: list it, delete one entry if it is full, write. *)
DlqFull == PageLength(dlq) >= MaxDlqSize

DlqList(a) ==
    /\ Turn(a, "burying")
    /\ \/ /\ ~DlqFull
          /\ Becomes(a, [act[a] EXCEPT !.pc = "interring"])
       \/ /\ DlqFull
          /\ \E oldest \in Page(dlq) :
                Becomes(a, [act[a] EXCEPT !.pc = "evicting", !.rest = {oldest}])
    /\ UNCHANGED <<provider, doc, dlq, timer, leaked, indexing, crashes>>

DlqEvict(a) ==
    /\ Turn(a, "evicting")
    /\ dlq' = dlq \ act[a].rest
    /\ Becomes(a, AtJob("interring", act[a].job))
    /\ UNCHANGED <<provider, doc, timer, leaked, indexing, crashes>>

DlqWrite(a) ==
    /\ Turn(a, "interring")
    /\ dlq' = dlq \cup {act[a].job}
    /\ Becomes(a, Done(a))
    /\ UNCHANGED <<provider, doc, timer, leaked, indexing, crashes>>

(* A timer fires: the one in the map, or one the map has forgotten. *)
TimeOut(j) ==
    /\ act[Timer].pc = "idle"
    /\ \/ timer[j] = "live" /\ timer' = [timer EXCEPT ![j] = "none"] /\ UNCHANGED leaked
       \/ leaked[j] > 0 /\ leaked' = [leaked EXCEPT ![j] = @ - 1] /\ UNCHANGED timer
    /\ OnEvent(Timer, Failing(j, TRUE))
    /\ UNCHANGED <<provider, doc, dlq, indexing, crashes>>

-----------------------------------------------------------------------------
(* The routes.  enqueue counts at most a page of queued and one of running
   jobs. *)
Request(activity) ==
    /\ Up
    /\ act[Client].pc = "idle"
    /\ OnEvent(Client, activity)

Enqueue(j) ==
    /\ doc[j].status = "absent" /\ j \in Offered[provider]
    /\ Request(AtJob("counting", j))
    /\ UNCHANGED <<provider, doc, dlq, timer, leaked, indexing, crashes>>

ActiveDepth == PageLength(With("queued")) + PageLength(With("running"))

EnqueueCount ==
    /\ Turn(Client, "counting")
    /\ Becomes(Client, IF ActiveDepth >= MaxQueueSize
                       THEN At("idle")
                       ELSE [act[Client] EXCEPT !.pc = "inserting"])
    /\ UNCHANGED <<provider, doc, dlq, timer, leaked, indexing, crashes>>

EnqueueWrite ==
    LET j == act[Client].job IN
    /\ Turn(Client, "inserting")
    /\ Write(j, "queued", 0)
    /\ indexing' = indexing \cup ({j} \cap RouteJobs)
    /\ Becomes(Client, At("idle"))
    /\ UNCHANGED <<provider, dlq, timer, leaked, crashes>>

(* runIndexJob has indexed the files, or has thrown. *)
Indexed(j) ==
    /\ j \in indexing
    /\ \E pc \in {"completing", "failing"} : Request(AtJob(pc, j))
    /\ indexing' = indexing \ {j}
    /\ UNCHANGED <<provider, doc, dlq, timer, leaked, crashes>>

Cancel(j) ==
    /\ doc[j].status # "absent"
    /\ Request(AtJob("cancelling", j))
    /\ UNCHANGED <<provider, doc, dlq, timer, leaked, indexing, crashes>>

CancelRead ==
    LET j == act[Client].job IN
    /\ Turn(Client, "cancelling")
    /\ Becomes(Client, IF doc[j].status \in {"queued", "running"}
                       THEN [act[Client] EXCEPT !.pc = "withdrawing", !.seen = doc[j].retries]
                       ELSE At("idle"))
    /\ UNCHANGED <<provider, doc, dlq, timer, leaked, indexing, crashes>>

CancelWrite ==
    /\ Turn(Client, "withdrawing")
    /\ Write(act[Client].job, "cancelled", act[Client].seen)
    /\ Becomes(Client, At("idle"))
    /\ UNCHANGED <<provider, dlq, timer, leaked, indexing, crashes>>

-----------------------------------------------------------------------------
(* The process starts: recover writes the jobs it listed as running back as
   queued, one by one; then worker.start calls dequeue in every loop. *)
Start ==
    /\ act[Boot].pc = "off"
    /\ OnEvent(Boot, At("recovering"))
    /\ UNCHANGED <<provider, doc, dlq, timer, leaked, indexing, crashes>>

RecoverList ==
    /\ Turn(Boot, "recovering")
    /\ Becomes(Boot, [At("requeueing") EXCEPT !.rest = Page(With("running"))])
    /\ UNCHANGED <<provider, doc, dlq, timer, leaked, indexing, crashes>>

RecoverWrite ==
    /\ Turn(Boot, "requeueing")
    /\ \E j \in act[Boot].rest :
        /\ Write(j, "queued", doc[j].retries)
        /\ Becomes(Boot, [act[Boot] EXCEPT !.rest = @ \ {j}])
    /\ UNCHANGED <<provider, dlq, timer, leaked, indexing, crashes>>

Serve ==
    /\ Turn(Boot, "requeueing")
    /\ act[Boot].rest = {}
    /\ act' = [a \in Actors |-> IF a \in Loops THEN At("listing") ELSE At("idle")]
    /\ ready' = IF provider = "file" THEN [i \in Loops |-> i] ELSE <<>>
    /\ UNCHANGED <<provider, doc, dlq, timer, leaked, indexing, crashes>>

(* The documents stay, everything in memory is lost. *)
Crash ==
    /\ Up /\ crashes < MaxCrashes[provider]
    /\ crashes' = crashes + 1
    /\ timer' = [j \in Jobs |-> "none"]
    /\ leaked' = [j \in Jobs |-> 0]
    /\ indexing' = {}
    /\ act' = [a \in Actors |-> At("off")]
    /\ ready' = <<>>
    /\ UNCHANGED <<provider, doc, dlq>>

-----------------------------------------------------------------------------
Complete(a) == CompleteRead(a) \/ CompleteWrite(a)

Fail(a) ==
    \/ FailRead(a) \/ FailRetry(a) \/ FailFinally(a)
    \/ DlqList(a) \/ DlqEvict(a) \/ DlqWrite(a)

(* Steps that end a wait for the storage, and the events that start one. *)
Turns ==
    \/ \E l \in Loops : DequeueCount(l) \/ DequeuePick(l) \/ DequeueWrite(l)
    \/ EnqueueCount \/ EnqueueWrite \/ CancelRead \/ CancelWrite
    \/ RecoverList \/ RecoverWrite \/ Serve
    \/ \E a \in Actors : Complete(a) \/ Fail(a)

LoopEvent(l) == Poll(l) \/ Executed(l)

Requests == \E j \in Jobs : Enqueue(j) \/ Indexed(j) \/ Cancel(j)

Next ==
    \/ Crash \/ Start \/ Requests \/ Turns
    \/ \E j \in Jobs : TimeOut(j)
    \/ \E l \in Loops : LoopEvent(l)

(* Requests, time-outs and crashes need not happen.  Storage accesses are
   answered, executors end, and the event loop gives every kind of event its
   turn, however many requests come in between: strong fairness. *)
Fairness ==
    /\ WF_vars(Start \/ Turns)
    /\ \A l \in Loops : SF_vars(LoopEvent(l))

Spec == Init /\ [][Next]_vars /\ Fairness

-----------------------------------------------------------------------------
(* Whenever the process is up, with either provider, a job that the store
   calls running is in the hands of a living loop: one that executes it, or
   is about to write its outcome.  Nothing but recover would ever look at
   such a job again otherwise. *)
Holding == {"executing", "completing", "storing", "failing", "giving up"}
NoOrphans ==
    Up => \A j \in With("running") :
            \E l \in Loops : act[l].job = j /\ act[l].pc \in Holding

(* runIndexJob (routes/rag.ts) completes a job that nobody dequeued: if no
   worker accepts its type, the job is queued for good, whether the indexing
   succeeded or not, until somebody cancels it. *)
IndexJobNeverEnds ==
    \A j \in RouteJobs \ Handled : doc[j].status \in {"absent", "queued", "cancelled"}

(* With a file provider the calls behave as if each were one step, although
   two loops of a worker that starts take the same job.  The dead letters are
   among what is promised (persistent-queue.test.js:276, "caps DLQ size by
   evicting oldest entries"): as many as agreed on where a page shows that
   many, and otherwise, as by default, none is ever evicted. *)
Filed(f, otherwise) == IF provider = "file" THEN f ELSE otherwise
Board == INSTANCE JobBoard WITH
    status <- Filed([j \in Jobs |-> doc[j].status], [j \in Jobs |-> "absent"]),
    retries <- Filed([j \in Jobs |-> doc[j].retries], [j \in Jobs |-> 0]),
    dead <- Filed(dlq, {}),
    serving <- Filed(Up, TRUE)
ImplementsJobBoard == Board!Spec

(* With a file provider, a queued job that the worker accepts is settled
   some day, over time-outs, retries and restarts, as long as a loop lives and
   no page of jobs that the worker leaves alone is queued before it: dequeue
   filters a list that is already cut (line 134), and the jobs of the index
   routes stay queued for good.  The others that the worker accepts, finitely
   many, never shut it out, whatever their priority and their place. *)
Settled == {"completed", "failed", "cancelled"}
AllDead == \A l \in Loops : act[l].pc = "dead"
ShutOut(j) ==
    Cardinality({k \in With("queued") \ Handled : Place[k] < Place[j]}) >= PageSize
JobsSettle ==
    \A j \in Handled :
        provider = "file" /\ doc[j].status = "queued"
            ~> doc[j].status \in Settled \/ AllDead \/ ShutOut(j)

(* worker.ts:4, "Continuous dequeue -> execute -> complete/fail loop": no
   loop ends before the worker is stopped. *)
LoopsContinue == provider = "file" => \A l \in Loops : act[l].pc # "dead"
=============================================================================
