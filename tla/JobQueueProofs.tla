--------------------------- MODULE JobQueueProofs ---------------------------
(***************************************************************************)
(* Three results about the job queue, for any jobs, loops, limits and any  *)
(* interleaving of the storage accesses.                                   *)
(*                                                                         *)
(* With either storage provider no job is left running without a living    *)
(* loop that holds it, if the documents of the jobs that the loops can     *)
(* hold fit in one page of a list.  While the process is up, every running *)
(* job has a holder; a loop holds one job, so there are never more running *)
(* jobs than loops, and the list that recover makes after a crash finds    *)
(* them all.                                                               *)
(*                                                                         *)
(* A job of an index route that no worker accepts never ends.              *)
(*                                                                         *)
(* With a file provider the queue implements JobBoard.  What an actor has  *)
(* read still holds when it writes, as nobody else has a storage access    *)
(* pending but the loops of a worker that starts.                          *)
(***************************************************************************)
EXTENDS JobQueue, FiniteSetTheorems, SequenceTheorems, TLAPS

(* The types of the actors and of their activities. *)
LEMMA ActorTypes ==
    /\ Loops \subseteq Actors
    /\ Client \in Actors /\ Timer \in Actors /\ Boot \in Actors
    /\ Client \notin Loops /\ Timer \notin Loops /\ Boot \notin Loops
    /\ Boot # Client /\ Boot # Timer
  BY QueueAssumption DEF QueueAssumption, Loops, Client, Timer, Boot, Actors

LEMMA ActivityTypes ==
    /\ \A pc \in Free : At(pc) \in Activity
    /\ \A S \in SUBSET Jobs : [At("requeueing") EXCEPT !.rest = S] \in Activity
    /\ \A pc \in Resting \cup Pending, j \in Jobs :
         /\ AtJob(pc, j) \in Activity
         /\ \A r \in Nat : [AtJob(pc, j) EXCEPT !.seen = r] \in Activity
    /\ \A j \in Jobs, t \in BOOLEAN : Failing(j, t) \in Activity
<1>1. \A pc \in Free : At(pc) \in Activity
  BY DEF At, Activity, Free, Resting, Pending
<1>2. "requeueing" \in Free /\ "requeueing" \in Resting \cup Pending
  BY DEF Free, Pending
<1>3. \A S \in SUBSET Jobs : [At("requeueing") EXCEPT !.rest = S] \in Activity
  BY <1>2 DEF At, Activity
<1>4. ASSUME NEW pc \in Resting \cup Pending, NEW j \in Jobs
      PROVE  /\ AtJob(pc, j) \in Activity
             /\ \A r \in Nat : [AtJob(pc, j) EXCEPT !.seen = r] \in Activity
  BY DEF At, AtJob, Activity
<1>5. ASSUME NEW j \in Jobs, NEW t \in BOOLEAN
      PROVE  Failing(j, t) \in Activity
  BY DEF Failing, At, AtJob, Activity, Pending
<1>6. QED
  BY <1>1, <1>3, <1>4, <1>5

LEMMA ActivityEdits ==
  ASSUME NEW x \in Activity
  PROVE  /\ \A S \in SUBSET Jobs : [x EXCEPT !.rest = S] \in Activity
         /\ x.job \in Jobs =>
              \A pc \in Resting \cup Pending :
                /\ [x EXCEPT !.pc = pc] \in Activity
                /\ \A r \in Nat : [x EXCEPT !.pc = pc, !.seen = r] \in Activity
                /\ \A S \in SUBSET Jobs :
                     [x EXCEPT !.pc = pc, !.rest = S] \in Activity
  BY DEF Activity

LEMMA FreshJob ==
  ASSUME NEW pc, NEW j, NEW t
  PROVE  /\ AtJob(pc, j).pc = pc /\ AtJob(pc, j).job = j
         /\ Failing(j, t).pc = "failing" /\ Failing(j, t).job = j
  BY DEF Failing, AtJob, At

LEMMA SameJob ==
  ASSUME NEW x \in Activity, NEW pc, NEW r
  PROVE  /\ [x EXCEPT !.pc = pc, !.seen = r].pc = pc
         /\ [x EXCEPT !.pc = pc, !.seen = r].job = x.job
  BY DEF Activity

LEMMA BecomesTypes ==
  ASSUME TypeOK, NEW a \in Actors, NEW next \in Activity, Becomes(a, next)
  PROVE  act' \in [Actors -> Activity] /\ ready' \in Seq(Actors)
<1>1. act' \in [Actors -> Activity]
  BY DEF TypeOK, Becomes
<1>2. (IF ready = <<>> THEN <<>> ELSE Tail(ready)) \in Seq(Actors)
  BY EmptySeq, HeadTailProperties DEF TypeOK
<1>3. (IF provider = "file" /\ next.pc \in Pending THEN <<a>> ELSE <<>>) \in Seq(Actors)
  BY EmptySeq
<1>4. ready' \in Seq(Actors)
  BY <1>2, <1>3, ConcatProperties DEF Becomes
<1>5. QED
  BY <1>1, <1>4

LEMMA WriteTypes ==
  ASSUME TypeOK, NEW j, NEW st \in Status, NEW r \in Nat, Write(j, st, r)
  PROVE  doc' \in [Jobs -> [status : Status, retries : Nat]]
  BY DEF TypeOK, Write

LEMMA TimeoutTypes ==
  ASSUME TypeOK, NEW a, NEW j, StartTimeout(j) \/ ClearTimeout(a, j)
  PROVE  timer' \in [Jobs -> {"none", "live"}] /\ leaked' \in [Jobs -> Nat]
  BY DEF TypeOK, StartTimeout, ClearTimeout

LEMMA ExpiryTypes ==
  ASSUME TypeOK, NEW j \in Jobs, TimeOut(j)
  PROVE  timer' \in [Jobs -> {"none", "live"}] /\ leaked' \in [Jobs -> Nat]
<1>1. leaked[j] \in Nat /\ (leaked[j] > 0 => leaked[j] - 1 \in Nat)
  BY DEF TypeOK
<1>2. QED
  BY <1>1 DEF TimeOut, TypeOK

LEMMA CountTypes == TypeOK => crashes + 1 \in Nat
  BY DEF TypeOK

LEMMA LoopOrder == [i \in Loops |-> i] \in Seq(Actors)
<1>1. WorkerCount \in Nat /\ [i \in Loops |-> i] \in [1..WorkerCount -> Actors]
  BY ActorTypes, QueueAssumption DEF Loops, QueueAssumption
<1>2. QED
  BY <1>1, SeqDef, Zenon

(* What the actions below have in common: a step of the type invariant is
   the sum of these parts. *)
LEMMA TypeParts ==
  ASSUME TypeOK, provider' = provider,
         doc' \in [Jobs -> [status : Status, retries : Nat]],
         dlq' \subseteq Jobs, indexing' \subseteq Jobs,
         timer' \in [Jobs -> {"none", "live"}], leaked' \in [Jobs -> Nat],
         NEW a \in Actors, NEW next \in Activity, Becomes(a, next),
         crashes' \in Nat
  PROVE  TypeOK'
  BY BecomesTypes DEF TypeOK

LEMMA InitTypes == Init => TypeOK
<1> SUFFICES ASSUME Init PROVE TypeOK
  OBVIOUS
<1>1. At("off") \in Activity
  BY ActivityTypes DEF Free
<1>2. ready \in Seq(Actors)
  BY EmptySeq DEF Init
<1>3. QED
  BY <1>1, <1>2, QueueAssumption DEF Init, TypeOK, Status, QueueAssumption

(* The fields of an activity. *)
LEMMA ActivityFields ==
  ASSUME TypeOK, NEW a \in Actors
  PROVE  /\ act[a] \in Activity
         /\ act[a].pc \in Resting \cup Pending /\ act[a].job \in Jobs \cup {NoJob}
         /\ act[a].seen \in Nat /\ act[a].transient \in BOOLEAN
         /\ act[a].rest \subseteq Jobs
         /\ act[a].pc \notin Free => act[a].job \in Jobs
  BY DEF TypeOK, Activity

LEMMA DequeueTypes ==
  ASSUME TypeOK, NEW l \in Loops,
         \/ Poll(l) \/ DequeueCount(l) \/ DequeuePick(l) \/ DequeueWrite(l)
         \/ Executed(l)
  PROVE  TypeOK'
<1> l \in Actors
  BY ActorTypes
<1> USE ActivityFields, ActivityTypes DEF Resting, Pending, Free
<1>1. CASE Poll(l)
  BY <1>1, TypeParts DEF Poll, OnEvent, TypeOK
<1>2. CASE DequeueCount(l)
  <2>1. At(IF BelowLimit THEN "picking" ELSE "sleeping") \in Activity
    OBVIOUS
  <2>2. QED
    BY <1>2, <2>1, TypeParts DEF DequeueCount, TypeOK
<1>3. CASE DequeuePick(l)
  <2>1. \/ Becomes(l, At("sleeping"))
        \/ \E j \in Best : Becomes(l, [AtJob("taking", j) EXCEPT !.seen = doc[j].retries])
    BY <1>3 DEF DequeuePick
  <2>2. Best \subseteq Jobs
    BY DEF Best, Page, With
  <2>3. \A j \in Best :
          [AtJob("taking", j) EXCEPT !.seen = doc[j].retries] \in Activity
    <3>1. SUFFICES ASSUME NEW j \in Jobs
                   PROVE [AtJob("taking", j) EXCEPT !.seen = doc[j].retries] \in Activity
      BY <2>2
    <3>2. doc[j].retries \in Nat
      BY DEF TypeOK
    <3>3. QED
      BY <3>2, ActivityTypes DEF Pending
  <2>4. \E next \in Activity : Becomes(l, next)
    BY <2>1, <2>3
  <2>5. QED
    BY <1>3, <2>4, TypeParts DEF DequeuePick, TypeOK
<1>4. CASE DequeueWrite(l)
  <2>0. act[l].job \in Jobs
    BY <1>4, ActivityFields DEF DequeueWrite, Turn
  <2>1. doc' \in [Jobs -> [status : Status, retries : Nat]]
    BY <1>4, WriteTypes DEF DequeueWrite, Status
  <2>2. timer' \in [Jobs -> {"none", "live"}] /\ leaked' \in [Jobs -> Nat]
    BY <1>4, TimeoutTypes DEF DequeueWrite
  <2>3. AtJob("executing", act[l].job) \in Activity
    BY <2>0, ActivityTypes
  <2>4. QED
    BY <1>4, <2>1, <2>2, <2>3, TypeParts DEF DequeueWrite, TypeOK
<1>5. CASE Executed(l)
  <2>0. act[l].job \in Jobs
    BY <1>5, ActivityFields DEF Executed
  <2>1. /\ AtJob("completing", act[l].job) \in Activity
        /\ \A t \in BOOLEAN : Failing(act[l].job, t) \in Activity
    BY <2>0, ActivityTypes
  <2>2. \E next \in Activity : Becomes(l, next)
    BY <1>5, <2>1 DEF Executed, OnEvent
  <2>3. QED
    BY <1>5, <2>2, TypeParts DEF Executed, TypeOK
<1>6. QED
  BY <1>1, <1>2, <1>3, <1>4, <1>5

LEMMA OutcomeTypes ==
  ASSUME TypeOK, NEW a \in Actors, Complete(a) \/ Fail(a)
  PROVE  TypeOK'
<1>1. act[a].pc \in Pending /\ act[a].job \in Jobs
  BY ActivityFields
  DEF Complete, Fail, CompleteRead, CompleteWrite, FailRead, FailRetry, FailFinally,
      DlqList, DlqEvict, DlqWrite, Turn, Free, Pending
<1>2. /\ Done(a) \in Activity /\ Refused(a) \in Activity
      /\ \A pc \in Pending : AtJob(pc, act[a].job) \in Activity
      /\ Failing(act[a].job, FALSE) \in Activity
      /\ \A pc \in Pending, r \in Nat : [act[a] EXCEPT !.pc = pc, !.seen = r] \in Activity
      /\ \A pc \in Pending : [act[a] EXCEPT !.pc = pc] \in Activity
      /\ \A pc \in Pending, S \in SUBSET Jobs :
            [act[a] EXCEPT !.pc = pc, !.rest = S] \in Activity
  BY <1>1, ActivityFields, ActivityTypes, ActivityEdits DEF Done, Refused, Free
<1>3. CASE CompleteRead(a) \/ FailRead(a)
  <2>1. timer' \in [Jobs -> {"none", "live"}] /\ leaked' \in [Jobs -> Nat]
    BY <1>3, TimeoutTypes DEF CompleteRead, FailRead, TypeOK
  <2>2. doc[act[a].job].retries \in Nat
    BY <1>1 DEF TypeOK
  <2>3. \E next \in Activity : Becomes(a, next)
    BY <1>2, <1>3, <2>2 DEF CompleteRead, FailRead, Pending
  <2>4. QED
    BY <1>3, <2>1, <2>3, TypeParts DEF CompleteRead, FailRead, TypeOK
<1>4. CASE CompleteWrite(a) \/ FailRetry(a) \/ FailFinally(a)
  <2>1. act[a].seen \in Nat /\ act[a].seen + 1 \in Nat
    BY ActivityFields
  <2>2. doc' \in [Jobs -> [status : Status, retries : Nat]]
    BY <1>4, <2>1, WriteTypes DEF CompleteWrite, FailRetry, FailFinally, Status
  <2>3. \E next \in Activity : Becomes(a, next)
    BY <1>2, <1>4 DEF CompleteWrite, FailRetry, FailFinally, Pending
  <2>4. QED
    BY <1>4, <2>2, <2>3, TypeParts DEF CompleteWrite, FailRetry, FailFinally, TypeOK
<1>5. CASE DlqList(a)
  <2>1. \A oldest \in Page(dlq) : {oldest} \in SUBSET Jobs
    BY DEF Page, TypeOK
  <2>2. \E next \in Activity : Becomes(a, next)
    BY <1>2, <1>5, <2>1 DEF DlqList, Pending
  <2>3. QED
    BY <1>5, <2>2, TypeParts DEF DlqList, TypeOK
<1>6. CASE DlqEvict(a) \/ DlqWrite(a)
  <2>1. dlq' \subseteq Jobs
    BY <1>1, <1>6 DEF DlqEvict, DlqWrite, TypeOK
  <2>2. \E next \in Activity : Becomes(a, next)
    BY <1>2, <1>6 DEF DlqEvict, DlqWrite, Pending
  <2>3. QED
    BY <1>6, <2>1, <2>2, TypeParts DEF DlqEvict, DlqWrite, TypeOK
<1>7. QED
  BY <1>3, <1>4, <1>5, <1>6 DEF Complete, Fail

LEMMA RouteTypes ==
  ASSUME TypeOK,
         \/ \E j \in Jobs : TimeOut(j) \/ Enqueue(j) \/ Indexed(j) \/ Cancel(j)
         \/ EnqueueCount \/ EnqueueWrite \/ CancelRead \/ CancelWrite
  PROVE  TypeOK'
<1> USE ActorTypes, ActivityTypes DEF Resting, Pending, Free
<1>1. CASE \E j \in Jobs : TimeOut(j)
  <2>1. PICK j \in Jobs : TimeOut(j)
    BY <1>1
  <2>2. timer' \in [Jobs -> {"none", "live"}] /\ leaked' \in [Jobs -> Nat]
    BY <2>1, ExpiryTypes
  <2>3. Failing(j, TRUE) \in Activity
    OBVIOUS
  <2>4. QED
    BY <2>1, <2>2, <2>3, TypeParts DEF TimeOut, OnEvent, TypeOK
<1>2. CASE \E j \in Jobs : Enqueue(j) \/ Indexed(j) \/ Cancel(j)
  <2>1. PICK j \in Jobs : Enqueue(j) \/ Indexed(j) \/ Cancel(j)
    BY <1>2
  <2>2. \E next \in Activity : Becomes(Client, next)
    BY <2>1 DEF Enqueue, Indexed, Cancel, Request, OnEvent
  <2>3. QED
    BY <2>1, <2>2, TypeParts DEF Enqueue, Indexed, Cancel, TypeOK
<1>3. CASE EnqueueCount \/ EnqueueWrite \/ CancelRead \/ CancelWrite
  <2>1. act[Client].job \in Jobs /\ act[Client].seen \in Nat
    BY <1>3, ActivityFields
    DEF EnqueueCount, EnqueueWrite, CancelRead, CancelWrite, Turn
  <2>2. doc[act[Client].job].retries \in Nat
    BY <2>1 DEF TypeOK
  <2>3. \E next \in Activity : Becomes(Client, next)
    <3>1. /\ [act[Client] EXCEPT !.pc = "inserting"] \in Activity
          /\ \A r \in Nat :
               [act[Client] EXCEPT !.pc = "withdrawing", !.seen = r] \in Activity
      BY <2>1, ActivityFields, ActivityEdits
    <3>2. QED
      BY <1>3, <2>2, <3>1 DEF EnqueueCount, EnqueueWrite, CancelRead, CancelWrite
  <2>4. doc' \in [Jobs -> [status : Status, retries : Nat]]
    BY <1>3, <2>1, WriteTypes
    DEF EnqueueCount, EnqueueWrite, CancelRead, CancelWrite, Status, TypeOK
  <2>5. indexing' \subseteq Jobs
    BY <1>3, <2>1 DEF EnqueueCount, EnqueueWrite, CancelRead, CancelWrite, TypeOK
  <2>6. QED
    BY <1>3, <2>3, <2>4, <2>5, TypeParts
    DEF EnqueueCount, EnqueueWrite, CancelRead, CancelWrite, TypeOK
<1>4. QED
  BY <1>1, <1>2, <1>3

LEMMA BootTypes ==
  ASSUME TypeOK, Start \/ RecoverList \/ RecoverWrite \/ Serve \/ Crash
  PROVE  TypeOK'
<1> USE ActorTypes, ActivityTypes, ActivityFields DEF Resting, Pending, Free
<1>1. CASE Start
  BY <1>1, TypeParts DEF Start, OnEvent, TypeOK
<1>2. CASE RecoverList
  <2>1. [At("requeueing") EXCEPT !.rest = Page(With("running"))] \in Activity
    BY DEF Page, With
  <2>2. \E next \in Activity : Becomes(Boot, next)
    BY <1>2, <2>1 DEF RecoverList
  <2>3. QED
    BY <1>2, <2>2, TypeParts DEF RecoverList, TypeOK
<1>3. CASE RecoverWrite
  <2>1. PICK j \in act[Boot].rest :
          /\ Write(j, "queued", doc[j].retries)
          /\ Becomes(Boot, [act[Boot] EXCEPT !.rest = @ \ {j}])
    BY <1>3 DEF RecoverWrite
  <2>2. doc' \in [Jobs -> [status : Status, retries : Nat]]
    <3>1. j \in Jobs /\ doc[j].retries \in Nat
      BY DEF TypeOK
    <3>2. QED
      BY <2>1, <3>1, WriteTypes DEF Status
  <2>3. [act[Boot] EXCEPT !.rest = @ \ {j}] \in Activity
    BY ActivityEdits
  <2>4. QED
    BY <1>3, <2>1, <2>2, <2>3, TypeParts DEF RecoverWrite, TypeOK
<1>4. CASE Serve
  <2>1. [i \in Loops |-> i] \in Seq(Actors)
    BY LoopOrder
  <2>2. ready' \in Seq(Actors)
    BY <1>4, <2>1, EmptySeq DEF Serve
  <2>3. QED
    BY <1>4, <2>2 DEF Serve, TypeOK
<1>5. CASE Crash
  <2>1. ready' \in Seq(Actors)
    BY <1>5, EmptySeq DEF Crash
  <2>2. At("off") \in Activity
    OBVIOUS
  <2>3. act' \in [Actors -> Activity]
    BY <1>5, <2>2 DEF Crash
  <2>4. QED
    BY <1>5, <2>1, <2>3, CountTypes DEF Crash, TypeOK
<1>6. QED
  BY <1>1, <1>2, <1>3, <1>4, <1>5

LEMMA NextTypes == TypeOK /\ [Next]_vars => TypeOK'
<1> SUFFICES ASSUME TypeOK, [Next]_vars PROVE TypeOK'
  OBVIOUS
<1>1. CASE UNCHANGED vars
  BY <1>1 DEF vars, TypeOK
<1>2. CASE Next
  BY <1>2, ActorTypes, DequeueTypes, OutcomeTypes, RouteTypes, BootTypes
  DEF Next, Turns, Requests, LoopEvent
<1>3. QED
  BY <1>1, <1>2

(* Type correctness of every state of the queue, its worker and its routes. *)
THEOREM TypeCorrect == Spec => []TypeOK
  BY InitTypes, NextTypes, PTL DEF Spec

-----------------------------------------------------------------------------
(* The inductive invariant. *)
BootStates == act[Boot].pc \in {"off", "recovering", "requeueing", "idle"}

Quiet == ~Up => \A a \in Actors : a # Boot => act[a].pc = "off"

FewRunning ==
    IsFiniteSet(With("running")) /\ Cardinality(With("running")) <= WorkerCount

Listed == act[Boot].pc = "requeueing" => With("running") \subseteq act[Boot].rest

IInv == TypeOK /\ BootStates /\ Quiet /\ FewRunning /\ Listed /\ NoOrphans

LEMMA InitIInv == Init => IInv
<1> SUFFICES ASSUME Init PROVE IInv
  OBVIOUS
<1>1. \A a \in Actors : act[a].pc = "off"
  BY DEF Init, At
<1>2. With("running") = {}
  BY DEF Init, With
<1>3. FewRunning
  <2>1. WorkerCount \in Nat
    BY QueueAssumption DEF QueueAssumption
  <2>2. QED
    BY <1>2, <2>1, FS_EmptySet DEF FewRunning
<1>4. QED
  BY <1>1, <1>2, <1>3, InitTypes, ActorTypes
  DEF IInv, BootStates, Quiet, Up, Listed, NoOrphans

(* A set of jobs each of which some loop holds has no more members than
   there are loops. *)
LEMMA Pigeons ==
  ASSUME NEW R, NEW g, \A j \in R : \E l \in Loops : g[l] = j
  PROVE  IsFiniteSet(R) /\ Cardinality(R) <= WorkerCount
<1> DEFINE f == [j \in R |-> CHOOSE l \in Loops : g[l] = j]
<1>1. \A j \in R : f[j] \in Loops /\ g[f[j]] = j
  OBVIOUS
<1>2. f \in [R -> Loops]
  BY <1>1
<1> HIDE DEF f
<1>3. f \in Injection(R, Loops)
  BY <1>1, <1>2 DEF Injection, IsInjective
<1>4. IsFiniteSet(Loops) /\ Cardinality(Loops) = WorkerCount
  BY FS_Interval, QueueAssumption DEF Loops, QueueAssumption
<1>5. QED
  BY <1>3, <1>4, FS_Injection

(* A step of an actor other than Boot that keeps the holders of the jobs that
   are still running keeps the invariant. *)
LEMMA UpPreserved ==
  ASSUME IInv, Up, TypeOK', NoOrphans', act'[Boot] = act[Boot]
  PROVE  IInv'
<1>1. Up' /\ BootStates' /\ Quiet' /\ Listed'
  BY DEF Up, BootStates, Quiet, Listed, IInv
<1>2. FewRunning'
  <2> DEFINE g == [l \in Loops |-> act'[l].job]
  <2>1. \A j \in With("running")' : \E l \in Loops : g[l] = j
    BY <1>1 DEF NoOrphans
  <2> HIDE DEF g
  <2>2. QED
    BY <2>1, Pigeons DEF FewRunning
<1>3. QED
  BY <1>1, <1>2 DEF IInv

(* Writing a document as anything but running makes no orphan, whatever its
   writer does next; nor does a step that writes nothing, if its actor goes
   on holding its job or held none that is running. *)
LEMMA HoldersKept ==
  ASSUME IInv, Up, NEW a \in Actors, a # Boot, NEW next \in Activity, Becomes(a, next),
         \/ /\ doc' = doc
            /\ \/ a \notin Loops
               \/ act[a].pc \notin Holding
               \/ next.pc \in Holding /\ next.job = act[a].job
               \/ act[a].job \in Jobs /\ doc[act[a].job].status # "running"
         \/ \E s \in Status \ {"running"}, r \in Nat : Write(act[a].job, s, r)
  PROVE  NoOrphans' /\ act'[Boot] = act[Boot]
<1>1. /\ act'[a] = next
      /\ \A b \in Actors : b # a => act'[b] = act[b]
  BY DEF Becomes, IInv, TypeOK
<1>2. act'[Boot] = act[Boot]
  BY <1>1, ActorTypes
<1>3. SUFFICES ASSUME NEW j \in Jobs, doc'[j].status = "running"
               PROVE  \E l \in Loops : act'[l].job = j /\ act'[l].pc \in Holding
  BY <1>2 DEF NoOrphans, With
<1>4. doc[j].status = "running" /\ (doc' = doc \/ act[a].job # j)
  <2>1. CASE doc' = doc
    BY <1>3, <2>1
  <2>2. ASSUME NEW s \in Status \ {"running"}, NEW r \in Nat, Write(act[a].job, s, r)
        PROVE  act[a].job # j /\ doc[j].status = "running"
    <3>1. doc \in [Jobs -> [status : Status, retries : Nat]]
      BY DEF IInv, TypeOK
    <3>2. doc' = [doc EXCEPT ![act[a].job] = [status |-> s, retries |-> r]]
      BY <2>2 DEF Write
    <3>3. act[a].job # j
      BY <1>3, <3>1, <3>2
    <3>4. QED
      BY <1>3, <3>1, <3>2, <3>3
  <2>3. QED
    BY <2>1, <2>2
<1>5. PICK l \in Loops : act[l].job = j /\ act[l].pc \in Holding
  BY <1>4 DEF IInv, NoOrphans, With
<1>6. CASE l # a
  BY <1>1, <1>5, <1>6, ActorTypes
<1>7. CASE l = a
  <2>1. doc' = doc
    BY <1>4, <1>5, <1>7
  <2>2. next.pc \in Holding /\ next.job = act[a].job
    <3>1. CASE \E s \in Status \ {"running"}, r \in Nat : Write(act[a].job, s, r)
      <4>1. doc'[j].status # "running"
        BY <1>4, <1>5, <1>7, <3>1 DEF Write, IInv, TypeOK
      <4>2. QED
        BY <1>3, <4>1
    <3>2. QED
      BY <1>4, <1>5, <1>7, <3>1
  <2>3. QED
    BY <1>1, <1>5, <1>7, <2>2
<1>8. QED
  BY <1>2, <1>6, <1>7

LEMMA DequeueKeeps ==
  ASSUME IInv, Up, TypeOK', NEW l \in Loops, LoopEvent(l) \/ DequeueCount(l) \/ DequeuePick(l)
  PROVE  IInv'
<1>0. l \in Actors /\ l # Boot
  BY ActorTypes
<1>1. doc' = doc
  BY DEF LoopEvent, Poll, Executed, DequeueCount, DequeuePick
<1>2. ASSUME NEW next \in Activity, Becomes(l, next),
             act[l].pc \notin Holding \/ (next.pc \in Holding /\ next.job = act[l].job)
      PROVE  IInv'
  BY <1>0, <1>1, <1>2, HoldersKept, UpPreserved
<1>3. \A next : Becomes(l, next) => act'[l] = next
  BY <1>0 DEF Becomes, IInv, TypeOK
<1>4. \A next : Becomes(l, next) => next \in Activity
  BY <1>0, <1>3 DEF TypeOK
<1>5. CASE Poll(l) \/ DequeueCount(l) \/ DequeuePick(l)
  <2>1. act[l].pc \notin Holding
    BY <1>5 DEF Poll, DequeueCount, DequeuePick, Turn, Holding
  <2>2. \E next : Becomes(l, next)
    BY <1>5 DEF Poll, DequeueCount, DequeuePick, OnEvent
  <2>3. QED
    BY <1>2, <1>4, <2>1, <2>2
<1>6. CASE Executed(l)
  <2>1. \E next : Becomes(l, next) /\ next.pc \in Holding /\ next.job = act[l].job
    <3>1. ASSUME Becomes(l, AtJob("completing", act[l].job))
          PROVE  \E next : Becomes(l, next) /\ next.pc \in Holding /\ next.job = act[l].job
      <4> DEFINE n == AtJob("completing", act[l].job)
      <4>1. Becomes(l, n) /\ n.pc = "completing" /\ n.job = act[l].job
        BY <3>1, FreshJob
      <4> HIDE DEF n
      <4>2. QED
        BY <4>1 DEF Holding
    <3>2. ASSUME NEW t \in BOOLEAN, Becomes(l, Failing(act[l].job, t))
          PROVE  \E next : Becomes(l, next) /\ next.pc \in Holding /\ next.job = act[l].job
      <4> DEFINE n == Failing(act[l].job, t)
      <4>1. Becomes(l, n) /\ n.pc = "failing" /\ n.job = act[l].job
        BY <3>2, FreshJob
      <4> HIDE DEF n
      <4>2. QED
        BY <4>1 DEF Holding
    <3>3. QED
      BY <1>6, <3>1, <3>2 DEF Executed, OnEvent
  <2>2. QED
    BY <1>2, <1>4, <2>1
<1>7. QED
  BY <1>5, <1>6 DEF LoopEvent

(* The one write of the state running: its writer executes the job, and was
   holding none before. *)
LEMMA DequeueWriteKeeps ==
  ASSUME IInv, Up, TypeOK', NEW l \in Loops, DequeueWrite(l)
  PROVE  IInv'
<1>0. l \in Actors /\ l # Boot
  BY ActorTypes
<1>1. /\ act'[l].pc = "executing" /\ act'[l].job = act[l].job
      /\ \A b \in Actors : b # l => act'[b] = act[b]
      /\ act[l].pc \notin Holding
  BY <1>0 DEF DequeueWrite, Becomes, AtJob, At, IInv, TypeOK, Turn, Holding
<1>2. ASSUME NEW j \in Jobs, doc'[j].status = "running"
      PROVE  \E k \in Loops : act'[k].job = j /\ act'[k].pc \in Holding
  <2>1. CASE j = act[l].job
    BY <1>1, <2>1 DEF Holding
  <2>2. CASE j # act[l].job
    <3>1. doc[j].status = "running"
      <4>1. doc' = [doc EXCEPT ![act[l].job] = [status |-> "running", retries |-> act[l].seen]]
        BY DEF DequeueWrite, Write
      <4>2. doc \in [Jobs -> [status : Status, retries : Nat]]
        BY DEF IInv, TypeOK
      <4>3. QED
        BY <1>2, <2>2, <4>1, <4>2
    <3>2. PICK k \in Loops : act[k].job = j /\ act[k].pc \in Holding
      BY <3>1 DEF IInv, NoOrphans, With
    <3>3. QED
      BY <1>1, <3>2, ActorTypes
  <2>3. QED
    BY <2>1, <2>2
<1>3. NoOrphans'
  BY <1>2 DEF NoOrphans, With
<1>4. act'[Boot] = act[Boot]
  BY <1>0, <1>1, ActorTypes
<1>5. QED
  BY <1>3, <1>4, UpPreserved

LEMMA OutcomeKeeps ==
  ASSUME IInv, Up, TypeOK', NEW a \in Actors, Complete(a) \/ Fail(a)
  PROVE  IInv'
<1>1. act[a].job \in Jobs /\ a # Boot /\ act[a].seen \in Nat /\ act[a].seen + 1 \in Nat
  <2>1. TypeOK /\ act[Boot].pc = "idle"
    BY DEF IInv, Up
  <2>2. act[a].pc \in {"completing", "storing", "failing", "giving up", "burying",
                       "evicting", "interring"}
    BY DEF Complete, Fail, CompleteRead, CompleteWrite, FailRead, FailRetry,
           FailFinally, DlqList, DlqEvict, DlqWrite, Turn
  <2>3. a # Boot /\ act[a].pc \notin Free
    BY <2>1, <2>2 DEF Free
  <2>4. QED
    BY <2>1, <2>3, ActivityFields
<1>2. \A next : Becomes(a, next) => act'[a] = next /\ next \in Activity
  BY DEF Becomes, IInv, TypeOK
<1>3. CASE CompleteRead(a) \/ FailRead(a)
  <2>1. doc' = doc
    BY <1>3 DEF CompleteRead, FailRead
  <2>2. CASE doc[act[a].job].status # "running"
    <3>1. \E next : Becomes(a, next)
      BY <1>3 DEF CompleteRead, FailRead
    <3>2. QED
      BY <1>1, <1>2, <2>1, <2>2, <3>1, HoldersKept, UpPreserved
  <2>3. CASE doc[act[a].job].status = "running"
    <3>1. \E next : Becomes(a, next) /\ next.pc \in Holding /\ next.job = act[a].job
      <4>1. act[a] \in Activity
        BY DEF IInv, TypeOK
      <4>2. CASE CompleteRead(a)
        <5> DEFINE n == [act[a] EXCEPT !.pc = "storing", !.seen = doc[act[a].job].retries]
        <5>1. Becomes(a, n)
          BY <2>3, <4>2 DEF CompleteRead
        <5>2. n.pc = "storing" /\ n.job = act[a].job
          BY <4>1, SameJob
        <5> HIDE DEF n
        <5>3. QED
          BY <5>1, <5>2 DEF Holding
      <4>3. CASE FailRead(a)
        <5> DEFINE n == [act[a] EXCEPT !.pc = "giving up", !.seen = doc[act[a].job].retries]
        <5>1. Becomes(a, n)
          BY <2>3, <4>3 DEF FailRead
        <5>2. n.pc = "giving up" /\ n.job = act[a].job
          BY <4>1, SameJob
        <5> HIDE DEF n
        <5>3. QED
          BY <5>1, <5>2 DEF Holding
      <4>4. QED
        BY <1>3, <4>2, <4>3
    <3>2. QED
      BY <1>1, <1>2, <2>1, <3>1, HoldersKept, UpPreserved
  <2>4. QED
    BY <2>2, <2>3
<1>4. CASE CompleteWrite(a) \/ FailRetry(a) \/ FailFinally(a)
  <2>1. \E s \in Status \ {"running"}, r \in Nat : Write(act[a].job, s, r)
    BY <1>1, <1>4 DEF CompleteWrite, FailRetry, FailFinally, Status
  <2>2. \E next : Becomes(a, next)
    BY <1>4 DEF CompleteWrite, FailRetry, FailFinally
  <2>3. QED
    BY <1>1, <1>2, <2>1, <2>2, HoldersKept, UpPreserved
<1>5. CASE DlqList(a) \/ DlqEvict(a) \/ DlqWrite(a)
  <2>1. doc' = doc /\ act[a].pc \notin Holding
    BY <1>5 DEF DlqList, DlqEvict, DlqWrite, Turn, Holding
  <2>2. \E next : Becomes(a, next)
    BY <1>5 DEF DlqList, DlqEvict, DlqWrite
  <2>3. QED
    BY <1>1, <1>2, <2>1, <2>2, HoldersKept, UpPreserved
<1>6. QED
  BY <1>3, <1>4, <1>5 DEF Complete, Fail

LEMMA RouteKeeps ==
  ASSUME IInv, Up, TypeOK',
         \/ \E j \in Jobs : TimeOut(j) \/ Enqueue(j) \/ Indexed(j) \/ Cancel(j)
         \/ EnqueueCount \/ EnqueueWrite \/ CancelRead \/ CancelWrite
  PROVE  IInv'
<1>0. Client \in Actors \ Loops /\ Timer \in Actors \ Loops /\ Client # Boot /\ Timer # Boot
  BY ActorTypes
<1>1. ASSUME NEW a \in {Client, Timer}, NEW next, Becomes(a, next),
             \/ doc' = doc
             \/ \E s \in Status \ {"running"}, r \in Nat : Write(act[a].job, s, r)
      PROVE  IInv'
  <2>1. next \in Activity
    BY <1>0, <1>1 DEF Becomes, IInv, TypeOK
  <2>2. a \in Actors /\ a # Boot /\ a \notin Loops
    BY <1>0
  <2>3. QED
    BY <1>1, <2>1, <2>2, HoldersKept, UpPreserved
<1>2. CASE \E j \in Jobs : TimeOut(j)
  BY <1>1, <1>2 DEF TimeOut, OnEvent
<1>3. CASE \E j \in Jobs : Enqueue(j) \/ Indexed(j) \/ Cancel(j)
  BY <1>1, <1>3 DEF Enqueue, Indexed, Cancel, Request, OnEvent
<1>4. CASE EnqueueCount \/ CancelRead
  BY <1>1, <1>4 DEF EnqueueCount, CancelRead
<1>5. CASE EnqueueWrite \/ CancelWrite
  <2>1. act[Client].seen \in Nat
    BY <1>0, ActivityFields DEF IInv
  <2>2. QED
    BY <1>1, <1>5, <2>1 DEF EnqueueWrite, CancelWrite, Status
<1>6. QED
  BY <1>2, <1>3, <1>4, <1>5

-----------------------------------------------------------------------------
(* The process goes down, and comes up again. *)
LEMMA CrashKeeps == ASSUME IInv, TypeOK', Crash PROVE IInv'
<1>1. /\ \A a \in Actors : act'[a].pc = "off"
      /\ doc' = doc
  BY DEF Crash, At
<1>2. FewRunning'
  BY <1>1 DEF IInv, FewRunning, With
<1>3. QED
  BY <1>1, <1>2, ActorTypes DEF IInv, BootStates, Quiet, Up, Listed, NoOrphans

(* A list of no more documents than fit in a page shows them all. *)
LEMMA WholePage ==
  ASSUME NEW docs \in SUBSET Jobs, IsFiniteSet(docs), Cardinality(docs) <= PageSize
  PROVE  Page(docs) = docs
<1>1. SUFFICES ASSUME NEW j \in docs
               PROVE  Cardinality({k \in docs : Place[k] < Place[j]}) < PageSize
  BY DEF Page
<1> DEFINE before == {k \in docs : Place[k] < Place[j]}
<1>2. before \subseteq docs \ {j}
  BY QueueAssumption DEF QueueAssumption
<1>3. IsFiniteSet(docs \ {j}) /\ Cardinality(docs \ {j}) = Cardinality(docs) - 1
  BY FS_RemoveElement
<1>4. Cardinality(before) <= Cardinality(docs \ {j})
  BY <1>2, <1>3, FS_Subset
<1>5. /\ Cardinality(before) \in Nat /\ Cardinality(docs) \in Nat /\ PageSize \in Nat
  BY <1>2, <1>3, FS_Subset, FS_CardinalityType, QueueAssumption DEF QueueAssumption
<1>6. QED
  BY <1>3, <1>4, <1>5

LEMMA BootKeeps ==
  ASSUME IInv, TypeOK', WorkerCount <= PageSize, Start \/ RecoverList \/ RecoverWrite
  PROVE  IInv'
<1>1. Boot \in Actors /\ ~Up /\ PageSize \in Nat /\ WorkerCount \in Nat
  BY ActorTypes, QueueAssumption
  DEF Start, RecoverList, RecoverWrite, Turn, Up, QueueAssumption
<1>2. \A next : Becomes(Boot, next) =>
        act'[Boot] = next /\ \A a \in Actors : a # Boot => act'[a].pc = "off"
  BY <1>1 DEF Becomes, IInv, TypeOK, Quiet
<1>3. ASSUME NEW next, Becomes(Boot, next), next.pc \in {"recovering", "requeueing"}
      PROVE  /\ act'[Boot].pc \in {"recovering", "requeueing"}
             /\ BootStates' /\ Quiet' /\ NoOrphans'
  BY <1>2, <1>3 DEF BootStates, Quiet, NoOrphans, Up
<1>4. CASE Start
  <2>1. Becomes(Boot, At("recovering")) /\ At("recovering").pc = "recovering" /\ doc' = doc
    BY <1>4 DEF Start, OnEvent, At
  <2>2. act'[Boot].pc = "recovering"
    BY <1>2, <2>1
  <2>3. QED
    BY <1>3, <2>1, <2>2 DEF IInv, FewRunning, With, Listed
<1>5. CASE RecoverList
  <2>1. Page(With("running")) = With("running")
    <3>1. IsFiniteSet(With("running")) /\ Cardinality(With("running")) <= PageSize
      BY <1>1, FS_CardinalityType DEF IInv, FewRunning
    <3>2. QED
      BY <3>1, WholePage DEF With
  <2> DEFINE n == [At("requeueing") EXCEPT !.rest = With("running")]
  <2>2. Becomes(Boot, n) /\ doc' = doc
    BY <1>5, <2>1 DEF RecoverList
  <2>3. n.pc = "requeueing" /\ n.rest = With("running")
    BY DEF At
  <2> HIDE DEF n
  <2>4. Listed' /\ FewRunning'
    BY <1>2, <2>2, <2>3 DEF IInv, FewRunning, With, Listed
  <2>5. QED
    BY <1>3, <2>2, <2>3, <2>4 DEF IInv
<1>6. CASE RecoverWrite
  <2>1. PICK j \in act[Boot].rest :
          /\ Write(j, "queued", doc[j].retries)
          /\ Becomes(Boot, [act[Boot] EXCEPT !.rest = @ \ {j}])
    BY <1>6 DEF RecoverWrite
  <2>2. With("running")' \subseteq With("running") \ {j}
    <3>1. doc \in [Jobs -> [status : Status, retries : Nat]]
      BY DEF IInv, TypeOK
    <3>2. doc' = [doc EXCEPT ![j] = [status |-> "queued", retries |-> doc[j].retries]]
      BY <2>1 DEF Write
    <3>3. \A k \in Jobs : doc'[k].status = "running" => doc[k].status = "running" /\ k # j
      BY <3>1, <3>2
    <3>4. QED
      BY <3>3 DEF With
  <2> DEFINE n == [act[Boot] EXCEPT !.rest = @ \ {j}]
  <2>3. n.pc = "requeueing" /\ n.rest = act[Boot].rest \ {j}
    BY <1>1, <1>6 DEF RecoverWrite, Turn, IInv, TypeOK, Activity
  <2>4. Becomes(Boot, n)
    BY <2>1
  <2> HIDE DEF n
  <2>5. Listed'
    BY <1>1, <1>2, <1>6, <2>2, <2>3, <2>4 DEF IInv, Listed, RecoverWrite, Turn
  <2>6. FewRunning'
    <3>1. /\ IsFiniteSet(With("running")')
          /\ Cardinality(With("running")') <= Cardinality(With("running"))
      BY <2>2, FS_Subset DEF IInv, FewRunning
    <3>2. Cardinality(With("running")') \in Nat /\ Cardinality(With("running")) \in Nat
      BY <3>1, FS_CardinalityType DEF IInv, FewRunning
    <3>3. QED
      BY <1>1, <3>1, <3>2 DEF IInv, FewRunning
  <2>7. QED
    BY <1>3, <2>3, <2>4, <2>5, <2>6 DEF IInv
<1>7. QED
  BY <1>4, <1>5, <1>6

LEMMA ServeKeeps == ASSUME IInv, TypeOK', Serve PROVE IInv'
<1>1. With("running") = {}
  BY DEF Serve, Turn, IInv, Listed
<1>2. act'[Boot].pc = "idle" /\ doc' = doc
  BY ActorTypes DEF Serve, At
<1>3. With("running")' = {}
  BY <1>1, <1>2 DEF With
<1>4. FewRunning'
  <2>1. IsFiniteSet(With("running")') /\ Cardinality(With("running")') = 0
    BY <1>3, FS_EmptySet
  <2>2. QED
    BY <2>1, QueueAssumption DEF FewRunning, QueueAssumption
<1>5. BootStates' /\ Quiet' /\ Listed' /\ NoOrphans'
  BY <1>2, <1>3 DEF BootStates, Quiet, Up, Listed, NoOrphans
<1>6. QED
  BY <1>4, <1>5 DEF IInv

(* Only Boot acts before the process is up. *)
LEMMA DownSteps ==
  ASSUME IInv, ~Up, Next
  PROVE  Start \/ RecoverList \/ RecoverWrite \/ Serve
<1>1. \A a \in Actors : a # Boot => act[a].pc = "off"
  BY DEF IInv, Quiet
<1>2. \A a \in Actors : act[a].pc \in {"off", "recovering", "requeueing"}
  BY <1>1 DEF IInv, BootStates, Up
<1>3. QED
  BY <1>2, ActorTypes
  DEF Next, Turns, Requests, LoopEvent, Crash, TimeOut, Poll, Executed, Enqueue, Indexed,
      Cancel, Request, DequeueCount, DequeuePick, DequeueWrite, EnqueueCount, EnqueueWrite,
      CancelRead, CancelWrite, Complete, Fail, CompleteRead, CompleteWrite, FailRead,
      FailRetry, FailFinally, DlqList, DlqEvict, DlqWrite, Turn

LEMMA NextIInv ==
  ASSUME WorkerCount <= PageSize, IInv, [Next]_vars
  PROVE  IInv'
<1>1. TypeOK'
  BY NextTypes DEF IInv
<1>2. CASE UNCHANGED vars
  BY <1>2 DEF vars, IInv, TypeOK, BootStates, Quiet, Up, FewRunning, With, Listed, NoOrphans
<1>3. CASE Next /\ ~Up
  BY <1>1, <1>3, DownSteps, BootKeeps, ServeKeeps
<1>4. CASE Next /\ Up
  <2>1. ~(Start \/ RecoverList \/ RecoverWrite \/ Serve)
    BY <1>4 DEF Up, Start, RecoverList, RecoverWrite, Serve, Turn
  <2>2. QED
    BY <1>1, <1>4, <2>1, CrashKeeps, DequeueKeeps, DequeueWriteKeeps, OutcomeKeeps, RouteKeeps
    DEF Next, Turns, Requests
<1>5. QED
  BY <1>2, <1>3, <1>4

(* No running job is without a living loop that holds it, with either
   provider, over crashes, time-outs and cancellations. *)
THEOREM NoOrphansTheorem == ASSUME WorkerCount <= PageSize PROVE Spec => []NoOrphans
<1>1. Init => IInv
  BY InitIInv
<1>2. IInv /\ [Next]_vars => IInv'
  BY NextIInv
<1>3. IInv => NoOrphans
  BY DEF IInv
<1>4. QED
  BY <1>1, <1>2, <1>3, PTL DEF Spec

-----------------------------------------------------------------------------
(* Jobs of an index route that no worker accepts.  Whoever has one at hand is
   a route, or is about to find out that the job does not run. *)
Unclaimed == RouteJobs \ Handled

Unclaiming == {"counting", "inserting", "cancelling", "withdrawing",
               "completing", "failing"}

NeverClaimed ==
    \A a \in Actors : act[a].job \in Unclaimed => act[a].pc \in Unclaiming

IndexInv == TypeOK /\ IndexJobNeverEnds /\ NeverClaimed

Idle == {"absent", "queued", "cancelled"}

(* A step of an actor that takes up no unclaimed job, and writes none as
   anything that it may not become. *)
LEMMA IndexKept ==
  ASSUME IndexInv, TypeOK', NEW a \in Actors, NEW next, Becomes(a, next),
         next.job \in Unclaimed => next.pc \in Unclaiming,
         \/ doc' = doc
         \/ \E j \in Jobs, s \in Status, r \in Nat :
               Write(j, s, r) /\ (j \in Unclaimed => s \in Idle)
  PROVE  IndexInv'
<1>1. /\ act'[a] = next
      /\ \A b \in Actors : b # a => act'[b] = act[b]
  BY DEF Becomes, IndexInv, TypeOK
<1>2. NeverClaimed'
  BY <1>1 DEF IndexInv, NeverClaimed
<1>3. IndexJobNeverEnds'
  <2>1. CASE doc' = doc
    BY <2>1 DEF IndexInv, IndexJobNeverEnds
  <2>2. ASSUME NEW j \in Jobs, NEW s \in Status, NEW r \in Nat, Write(j, s, r),
               j \in Unclaimed => s \in Idle
        PROVE  IndexJobNeverEnds'
    <3>1. doc \in [Jobs -> [status : Status, retries : Nat]]
      BY DEF IndexInv, TypeOK
    <3>2. \A k \in Jobs : doc'[k] = IF k = j THEN [status |-> s, retries |-> r] ELSE doc[k]
      BY <2>2, <3>1 DEF Write
    <3>3. \A k \in Unclaimed : k \in Jobs
      BY QueueAssumption DEF QueueAssumption, Unclaimed
    <3>4. ASSUME NEW k \in Unclaimed PROVE doc'[k].status \in Idle
      BY <2>2, <3>2, <3>3, <3>4 DEF IndexInv, IndexJobNeverEnds, Idle, Unclaimed
    <3>5. QED
      BY <3>4 DEF IndexJobNeverEnds, Idle, Unclaimed
  <2>3. QED
    BY <2>1, <2>2
<1>4. QED
  BY <1>2, <1>3 DEF IndexInv

LEMMA Unencumbered ==
  /\ \A pc : At(pc).job \notin Unclaimed
  /\ \A S : [At("requeueing") EXCEPT !.rest = S].job \notin Unclaimed
  BY QueueAssumption DEF QueueAssumption, At, Unclaimed

LEMMA IndexDequeue ==
  ASSUME IndexInv, TypeOK', NEW l \in Loops,
         \/ Poll(l) \/ DequeueCount(l) \/ DequeuePick(l) \/ DequeueWrite(l)
         \/ Executed(l)
  PROVE  IndexInv'
<1>0. l \in Actors
  BY ActorTypes
<1>1. CASE Poll(l) \/ DequeueCount(l)
  BY <1>0, <1>1, IndexKept, Unencumbered DEF Poll, OnEvent, DequeueCount
<1>2. CASE DequeuePick(l)
  <2>1. \/ Becomes(l, At("sleeping"))
        \/ \E j \in Best : Becomes(l, [AtJob("taking", j) EXCEPT !.seen = doc[j].retries])
    BY <1>2 DEF DequeuePick
  <2>2. doc' = doc
    BY <1>2 DEF DequeuePick
  <2>3. CASE Becomes(l, At("sleeping"))
    BY <1>0, <2>2, <2>3, IndexKept, Unencumbered
  <2>4. ASSUME NEW j \in Best,
               Becomes(l, [AtJob("taking", j) EXCEPT !.seen = doc[j].retries])
        PROVE  IndexInv'
    <3>1. [AtJob("taking", j) EXCEPT !.seen = doc[j].retries].job = j /\ j \notin Unclaimed
      BY DEF AtJob, At, Best, Unclaimed
    <3>2. QED
      BY <1>0, <2>2, <2>4, <3>1, IndexKept
  <2>5. QED
    BY <2>1, <2>3, <2>4
<1>3. CASE DequeueWrite(l) \/ Executed(l)
  <2>1. act[l].job \in Jobs \ Unclaimed /\ act[l].seen \in Nat
    BY <1>0, <1>3, ActivityFields
    DEF DequeueWrite, Executed, Turn, Free, IndexInv, NeverClaimed, Unclaiming
  <2>2. CASE DequeueWrite(l)
    <3>1. Becomes(l, AtJob("executing", act[l].job)) /\ Write(act[l].job, "running", act[l].seen)
      BY <2>2 DEF DequeueWrite
    <3>2. AtJob("executing", act[l].job).job = act[l].job /\ "running" \in Status
      BY FreshJob DEF Status
    <3>3. QED
      BY <1>0, <2>1, <3>1, <3>2, IndexKept
  <2>3. CASE Executed(l)
    <3>1. \E next : Becomes(l, next) /\ next.job = act[l].job
      BY <2>3, FreshJob DEF Executed, OnEvent
    <3>2. doc' = doc
      BY <2>3 DEF Executed
    <3>3. QED
      BY <1>0, <2>1, <3>1, <3>2, IndexKept
  <2>4. QED
    BY <1>3, <2>2, <2>3
<1>4. QED
  BY <1>1, <1>2, <1>3

LEMMA IndexOutcome ==
  ASSUME IndexInv, TypeOK', NEW a \in Actors, Complete(a) \/ Fail(a)
  PROVE  IndexInv'
<1>0. act[a].pc \in {"completing", "storing", "failing", "giving up", "burying",
                     "evicting", "interring"}
  BY DEF Complete, Fail, CompleteRead, CompleteWrite, FailRead, FailRetry, FailFinally,
         DlqList, DlqEvict, DlqWrite, Turn
<1>1. act[a] \in Activity /\ act[a].job \in Jobs /\ act[a].seen \in Nat /\ act[a].seen + 1 \in Nat
  <2>1. act[a].pc \notin Free
    BY <1>0 DEF Free
  <2>2. TypeOK
    BY DEF IndexInv
  <2>3. act[a] \in Activity /\ act[a].job \in Jobs /\ act[a].seen \in Nat
    BY <2>1, <2>2, ActivityFields
  <2>4. QED
    BY <2>3
<1>2. Done(a).job \notin Unclaimed /\ Refused(a).job \notin Unclaimed
  BY Unencumbered DEF Done, Refused
<1>3. CASE CompleteRead(a) \/ FailRead(a)
  <2>1. doc' = doc
    BY <1>3 DEF CompleteRead, FailRead
  <2>2. CASE doc[act[a].job].status # "running"
    <3>1. Becomes(a, Failing(act[a].job, FALSE)) \/ Becomes(a, Refused(a))
      BY <1>3, <2>2 DEF CompleteRead, FailRead
    <3>2. Failing(act[a].job, FALSE).pc = "failing"
      BY FreshJob
    <3>3. QED
      BY <1>2, <2>1, <3>1, <3>2, IndexKept DEF Unclaiming
  <2>3. CASE doc[act[a].job].status = "running"
    <3>1. act[a].job \notin Unclaimed
      BY <2>3 DEF IndexInv, IndexJobNeverEnds, Unclaimed
    <3> DEFINE n(pc) == [act[a] EXCEPT !.pc = pc, !.seen = doc[act[a].job].retries]
    <3>2. \A pc : n(pc).job = act[a].job
      BY <1>1, SameJob
    <3>3. Becomes(a, n("storing")) \/ Becomes(a, n("giving up"))
      BY <1>3, <2>3 DEF CompleteRead, FailRead
    <3> HIDE DEF n
    <3>4. QED
      BY <2>1, <3>1, <3>2, <3>3, IndexKept
  <2>4. QED
    BY <2>2, <2>3
<1>4. CASE CompleteWrite(a) \/ FailRetry(a) \/ FailFinally(a)
  <2>1. act[a].job \notin Unclaimed
    BY <1>4 DEF CompleteWrite, FailRetry, FailFinally, Turn, IndexInv, NeverClaimed, Unclaiming
  <2>2. \E s \in Status, r \in Nat : Write(act[a].job, s, r)
    BY <1>1, <1>4 DEF CompleteWrite, FailRetry, FailFinally, Status
  <2>3. Becomes(a, Done(a)) \/ Becomes(a, AtJob("burying", act[a].job))
    BY <1>4 DEF CompleteWrite, FailRetry, FailFinally
  <2>4. QED
    BY <1>1, <1>2, <2>1, <2>2, <2>3, FreshJob, IndexKept
<1>5. CASE DlqList(a) \/ DlqEvict(a) \/ DlqWrite(a)
  <2>1. act[a].job \notin Unclaimed /\ doc' = doc
    BY <1>5 DEF DlqList, DlqEvict, DlqWrite, Turn, IndexInv, NeverClaimed, Unclaiming
  <2>2. /\ \A pc : [act[a] EXCEPT !.pc = pc].job = act[a].job
        /\ \A pc, S : [act[a] EXCEPT !.pc = pc, !.rest = S].job = act[a].job
        /\ AtJob("interring", act[a].job).job = act[a].job
    BY <1>1, FreshJob DEF Activity
  <2>3. ASSUME NEW next, Becomes(a, next), next.job = act[a].job PROVE IndexInv'
    BY <2>1, <2>3, IndexKept
  <2>4. CASE DlqList(a)
    BY <2>2, <2>3, <2>4 DEF DlqList
  <2>5. CASE DlqEvict(a)
    BY <2>2, <2>3, <2>5 DEF DlqEvict
  <2>6. CASE DlqWrite(a)
    BY <1>2, <2>1, <2>6, IndexKept DEF DlqWrite
  <2>7. QED
    BY <1>5, <2>4, <2>5, <2>6
<1>6. QED
  BY <1>3, <1>4, <1>5 DEF Complete, Fail

LEMMA IndexRoutes ==
  ASSUME IndexInv, TypeOK',
         \/ \E j \in Jobs : TimeOut(j) \/ Enqueue(j) \/ Indexed(j) \/ Cancel(j)
         \/ EnqueueCount \/ EnqueueWrite \/ CancelRead \/ CancelWrite
  PROVE  IndexInv'
<1>0. Client \in Actors /\ Timer \in Actors
  BY ActorTypes
<1>1. CASE \E j \in Jobs : TimeOut(j)
  <2>1. PICK j \in Jobs : Becomes(Timer, Failing(j, TRUE))
    BY <1>1 DEF TimeOut, OnEvent
  <2>2. doc' = doc /\ Failing(j, TRUE).pc = "failing"
    BY <1>1, FreshJob DEF TimeOut
  <2>3. QED
    BY <1>0, <2>1, <2>2, IndexKept DEF Unclaiming
<1>2. CASE \E j \in Jobs : Enqueue(j) \/ Indexed(j) \/ Cancel(j)
  <2>1. \E pc \in Unclaiming, j \in Jobs : Becomes(Client, AtJob(pc, j))
    BY <1>2 DEF Enqueue, Indexed, Cancel, Request, OnEvent, Unclaiming
  <2>2. doc' = doc
    BY <1>2 DEF Enqueue, Indexed, Cancel
  <2>3. QED
    BY <1>0, <2>1, <2>2, IndexKept, FreshJob
<1>3. CASE EnqueueCount \/ EnqueueWrite \/ CancelRead \/ CancelWrite
  <2>1. act[Client] \in Activity /\ act[Client].job \in Jobs /\ act[Client].seen \in Nat
    BY <1>0, <1>3, ActivityFields
    DEF EnqueueCount, EnqueueWrite, CancelRead, CancelWrite, Turn, Free, IndexInv
  <2>2. \A r : /\ [act[Client] EXCEPT !.pc = "inserting"].pc = "inserting"
               /\ [act[Client] EXCEPT !.pc = "withdrawing", !.seen = r].pc = "withdrawing"
    BY <2>1 DEF Activity
  <2>3. \E next : Becomes(Client, next) /\ (next.job \in Unclaimed => next.pc \in Unclaiming)
    BY <1>3, <2>2, Unencumbered
    DEF EnqueueCount, EnqueueWrite, CancelRead, CancelWrite, Unclaiming
  <2>4. \/ doc' = doc
        \/ \E s \in Idle, r \in Nat : Write(act[Client].job, s, r)
    BY <1>3, <2>1 DEF EnqueueCount, EnqueueWrite, CancelRead, CancelWrite, Idle
  <2>5. QED
    BY <1>0, <2>1, <2>3, <2>4, IndexKept DEF Idle, Status
<1>4. QED
  BY <1>1, <1>2, <1>3

LEMMA IndexBoot ==
  ASSUME IndexInv, TypeOK', Start \/ RecoverList \/ RecoverWrite \/ Serve \/ Crash
  PROVE  IndexInv'
<1>0. Boot \in Actors
  BY ActorTypes
<1>1. CASE Start \/ RecoverList
  BY <1>0, <1>1, IndexKept, Unencumbered DEF Start, OnEvent, RecoverList
<1>2. CASE RecoverWrite
  <2>1. PICK j \in act[Boot].rest :
          /\ Write(j, "queued", doc[j].retries)
          /\ Becomes(Boot, [act[Boot] EXCEPT !.rest = @ \ {j}])
    BY <1>2 DEF RecoverWrite
  <2>2. j \in Jobs /\ doc[j].retries \in Nat /\ act[Boot] \in Activity
    BY <1>0, ActivityFields DEF IndexInv, TypeOK
  <2>3. [act[Boot] EXCEPT !.rest = @ \ {j}].job \notin Unclaimed
    <3>1. [act[Boot] EXCEPT !.rest = @ \ {j}].job = act[Boot].job
      BY <2>2 DEF Activity
    <3>2. act[Boot].pc = "requeueing"
      BY <1>2 DEF RecoverWrite, Turn
    <3>3. QED
      BY <1>0, <3>1, <3>2 DEF IndexInv, NeverClaimed, Unclaiming
  <2>4. QED
    BY <1>0, <2>1, <2>2, <2>3, IndexKept DEF Idle, Status
<1>3. CASE Serve \/ Crash
  <2>1. doc' = doc /\ \A a \in Actors : act'[a].job \notin Unclaimed
    BY <1>3, Unencumbered DEF Serve, Crash
  <2>2. QED
    BY <2>1 DEF IndexInv, IndexJobNeverEnds, NeverClaimed
<1>4. QED
  BY <1>1, <1>2, <1>3

(* Indexing never ends the job it was queued for: a job of an index route
   that no worker accepts stays queued until somebody cancels it, with either
   provider, whatever the routes, the time-outs and the restarts do. *)
THEOREM IndexJobNeverEndsTheorem == Spec => []IndexJobNeverEnds
<1>1. Init => IndexInv
  <2> SUFFICES ASSUME Init PROVE IndexInv
    OBVIOUS
  <2>1. \A j \in Unclaimed : j \in Jobs
    BY QueueAssumption DEF QueueAssumption, Unclaimed
  <2>2. QED
    BY <2>1, InitTypes, Unencumbered
    DEF Init, IndexInv, IndexJobNeverEnds, NeverClaimed, Unclaimed
<1>2. IndexInv /\ [Next]_vars => IndexInv'
  <2> SUFFICES ASSUME IndexInv, [Next]_vars PROVE IndexInv'
    OBVIOUS
  <2>1. TypeOK'
    BY NextTypes DEF IndexInv
  <2>2. CASE UNCHANGED vars
    BY <2>1, <2>2 DEF vars, IndexInv, IndexJobNeverEnds, NeverClaimed
  <2>3. CASE Next
    BY <2>1, <2>3, IndexDequeue, IndexOutcome, IndexRoutes, IndexBoot
    DEF Next, Turns, Requests, LoopEvent
  <2>4. QED
    BY <2>2, <2>3
<1>3. IndexInv => IndexJobNeverEnds
  BY DEF IndexInv
<1>4. QED
  BY <1>1, <1>2, <1>3, PTL DEF Spec

-----------------------------------------------------------------------------
(* With a file provider the queue implements JobBoard.  Microtasks make it
   possible: but for the loops of a worker that starts, one actor at a time
   has a storage access pending, so that what it read still holds when it
   writes.  Agrees says what that is, for each place where an actor can
   stand; the loops that start together only read before they take a job, and
   a second write of the same job changes nothing. *)
Dequeuing == {"listing", "picking", "taking"}

OneByOne ==
    /\ \A a \in Actors : act[a].pc \in Pending <=> \E i \in DOMAIN ready : ready[i] = a
    /\ \A i, k \in DOMAIN ready : ready[i] = ready[k] => i = k
    /\ Len(ready) > 1 =>
         \A i \in DOMAIN ready : ready[i] \in Loops /\ act[ready[i]].pc \in Dequeuing

(* The dead letters q are as many as agreed on, and a list shows it. *)
SeenFull(q) == MaxDlqSize <= PageSize /\ Cardinality(q) >= MaxDlqSize

(* What an actor that does x has read, against the documents d and the dead
   letters q. *)
Agrees(x, d, q) ==
    LET status == d[x.job].status
        AsRead == d[x.job].retries = x.seen
    IN  /\ x.pc = "taking" => status \in {"queued", "running"} /\ AsRead
        /\ x.pc \in {"storing", "giving up"} => status = "running" /\ AsRead
        /\ x.pc \in {"burying", "evicting", "interring"} =>
              status = "failed" /\ d[x.job].retries >= MaxRetries
        /\ x.pc = "evicting" => \E j \in q : x.rest = {j} /\ SeenFull(q)
        /\ x.pc = "interring" => ~SeenFull(q)
        /\ x.pc \in {"counting", "inserting"} => status = "absent"
        /\ x.pc = "withdrawing" => status \in {"queued", "running"} /\ AsRead
        /\ x.pc = "requeueing" => \A j \in x.rest : d[j].status = "running"

Agreement == \A a \in Actors : Agrees(act[a], doc, dlq)

FewDead ==
    /\ IsFiniteSet(dlq)
    /\ MaxDlqSize <= PageSize => Cardinality(dlq) <= MaxDlqSize

FileInv == OneByOne /\ Agreement /\ FewDead

(* Whose turn it is, or who handles an event. *)
Mine(a) == ready = <<>> \/ (ready # <<>> /\ Head(ready) = a)

Alone(a) == \A b \in Actors : b # a => act[b].pc \notin Pending

(* The line after a turn: the others move up, and who waits again comes last. *)
LEMMA NextInLine ==
  ASSUME TypeOK, provider = "file", NEW a \in Actors, NEW next \in Activity,
         Becomes(a, next), Mine(a)
  PROVE  LET n == IF ready = <<>> THEN 0 ELSE Len(ready) - 1
         IN  /\ n \in Nat
             /\ Len(ready') = IF next.pc \in Pending THEN n + 1 ELSE n
             /\ \A i \in 1 .. n : ready'[i] = ready[i + 1] /\ i + 1 \in DOMAIN ready
             /\ next.pc \in Pending => ready'[n + 1] = a
             /\ \A i \in DOMAIN ready : i = 1 \/ i - 1 \in 1 .. n
             /\ DOMAIN ready = 1 .. Len(ready) /\ DOMAIN ready' = 1 .. Len(ready')
             /\ Len(ready) \in Nat
             /\ ready # <<>> => 1 \in DOMAIN ready /\ ready[1] = a
<1> DEFINE n == IF ready = <<>> THEN 0 ELSE Len(ready) - 1
           t == IF ready = <<>> THEN <<>> ELSE Tail(ready)
           last == IF next.pc \in Pending THEN <<a>> ELSE <<>>
<1>1. ready \in Seq(Actors)
  BY DEF TypeOK
<1>2. /\ t \in Seq(Actors) /\ Len(t) = n /\ n \in Nat
      /\ \A i \in 1 .. n : t[i] = ready[i + 1] /\ i + 1 \in DOMAIN ready
  <2>1. CASE ready = <<>>
    BY <2>1, EmptySeq
  <2>2. CASE ready # <<>>
    BY <1>1, <2>2, HeadTailProperties
  <2>3. QED
    BY <2>1, <2>2
<1>3. last \in Seq(Actors) /\ Len(last) = IF next.pc \in Pending THEN 1 ELSE 0
  BY EmptySeq
<1>4. ready' = t \o last
  BY DEF Becomes
<1> HIDE DEF t, n
<1>5. /\ Len(ready') = IF next.pc \in Pending THEN n + 1 ELSE n
      /\ \A i \in 1 .. n : ready'[i] = t[i]
      /\ next.pc \in Pending => ready'[n + 1] = a
      /\ DOMAIN ready' = 1 .. Len(ready')
  <2>1. CASE next.pc \in Pending
    BY <1>2, <1>3, <1>4, <2>1
  <2>2. CASE next.pc \notin Pending
    BY <1>2, <1>3, <1>4, <2>2
  <2>3. QED
    BY <2>1, <2>2
<1>6. /\ DOMAIN ready = 1 .. Len(ready) /\ Len(ready) \in Nat
      /\ \A i \in DOMAIN ready : i = 1 \/ i - 1 \in 1 .. n
      /\ ready # <<>> => 1 \in DOMAIN ready /\ ready[1] = a
  BY <1>1, HeadTailProperties DEF n, Mine
<1>7. QED
  BY <1>2, <1>5, <1>6 DEF n

LEMMA OneByOneKept ==
  ASSUME TypeOK, provider = "file", OneByOne, NEW a \in Actors, NEW next \in Activity,
         Becomes(a, next), Mine(a),
         next.pc \in Pending /\ Len(ready) > 1 => a \in Loops /\ next.pc \in Dequeuing
  PROVE  OneByOne'
<1> DEFINE n == IF ready = <<>> THEN 0 ELSE Len(ready) - 1
<1>1. /\ n \in Nat
      /\ Len(ready') = IF next.pc \in Pending THEN n + 1 ELSE n
      /\ \A i \in 1 .. n : ready'[i] = ready[i + 1] /\ i + 1 \in DOMAIN ready
      /\ next.pc \in Pending => ready'[n + 1] = a
      /\ \A i \in DOMAIN ready : i = 1 \/ i - 1 \in 1 .. n
      /\ DOMAIN ready = 1 .. Len(ready) /\ DOMAIN ready' = 1 .. Len(ready')
      /\ Len(ready) \in Nat
      /\ ready # <<>> => 1 \in DOMAIN ready /\ ready[1] = a
  BY NextInLine
<1>2. /\ act'[a] = next
      /\ \A b \in Actors : b # a => act'[b] = act[b]
  BY DEF Becomes, TypeOK
<1>3. ready # <<>> => n = Len(ready) - 1
  OBVIOUS
<1>4. ready = <<>> => n = 0 /\ DOMAIN ready = {}
  OBVIOUS
<1> HIDE DEF n
<1>5. \A i \in 1 .. n : ready'[i] # a
  <2> SUFFICES ASSUME NEW i \in 1 .. n, ready'[i] = a PROVE FALSE
    OBVIOUS
  <2>1. ready[i + 1] = a /\ i + 1 \in DOMAIN ready /\ i + 1 # 1
    BY <1>1
  <2>2. ready # <<>>
    BY <1>1, <1>4
  <2>3. QED
    BY <1>1, <2>1, <2>2 DEF OneByOne
<1>6. \A i \in DOMAIN ready' : i \in 1 .. n \/ (i = n + 1 /\ next.pc \in Pending)
  BY <1>1
<1>7. \A b \in Actors : act'[b].pc \in Pending <=> \E i \in DOMAIN ready' : ready'[i] = b
  <2>1. act'[a].pc \in Pending <=> \E i \in DOMAIN ready' : ready'[i] = a
    BY <1>1, <1>2, <1>5, <1>6
  <2>2. ASSUME NEW b \in Actors, b # a
        PROVE  act'[b].pc \in Pending <=> \E i \in DOMAIN ready' : ready'[i] = b
    <3>1. act'[b].pc \in Pending <=> \E i \in DOMAIN ready : ready[i] = b
      BY <1>2, <2>2 DEF OneByOne
    <3>2. ASSUME NEW i \in DOMAIN ready, ready[i] = b
          PROVE  \E k \in DOMAIN ready' : ready'[k] = b
      <4>1. i # 1
        BY <1>1, <2>2, <3>2, <1>4
      <4>2. i - 1 \in 1 .. n /\ i - 1 \in DOMAIN ready' /\ (i - 1) + 1 = i
        BY <1>1, <4>1
      <4>3. ready'[i - 1] = b
        BY <1>1, <3>2, <4>2
      <4>4. QED
        BY <4>2, <4>3
    <3>3. ASSUME NEW i \in DOMAIN ready', ready'[i] = b
          PROVE  \E k \in DOMAIN ready : ready[k] = b
      BY <1>1, <1>6, <2>2, <3>3
    <3>4. QED
      BY <3>1, <3>2, <3>3
  <2>3. QED
    BY <2>1, <2>2
<1>8. ASSUME NEW i \in DOMAIN ready', NEW k \in DOMAIN ready', ready'[i] = ready'[k]
      PROVE  i = k
  <2>1. CASE i \in 1 .. n /\ k \in 1 .. n
    <3>1. ready[i + 1] = ready[k + 1] /\ i + 1 \in DOMAIN ready /\ k + 1 \in DOMAIN ready
      BY <1>1, <1>8, <2>1
    <3>2. i + 1 = k + 1
      BY <3>1 DEF OneByOne
    <3>3. QED
      BY <1>1, <2>1, <3>2
  <2>2. CASE ~(i \in 1 .. n /\ k \in 1 .. n)
    BY <1>1, <1>5, <1>6, <1>8, <2>2
  <2>3. QED
    BY <2>1, <2>2
<1>9. ASSUME Len(ready') > 1, NEW i \in DOMAIN ready'
      PROVE  ready'[i] \in Loops /\ act'[ready'[i]].pc \in Dequeuing
  <2>1. Len(ready) > 1 /\ ready # <<>>
    <3>1. n \in Nat /\ Len(ready') \in {n, n + 1}
      BY <1>1
    <3>2. n > 0
      BY <3>1, <1>9
    <3>3. ready # <<>>
      BY <3>2, <1>4
    <3>4. QED
      BY <3>1, <3>2, <3>3, <1>3
  <2>2. CASE i \in 1 .. n
    <3>1. ready'[i] = ready[i + 1] /\ i + 1 \in DOMAIN ready /\ ready'[i] # a
      BY <1>1, <1>5, <2>2
    <3>2. ready[i + 1] \in Loops /\ act[ready[i + 1]].pc \in Dequeuing
      BY <2>1, <3>1 DEF OneByOne
    <3>3. QED
      BY <1>2, <3>1, <3>2, ActorTypes
  <2>3. CASE i = n + 1 /\ next.pc \in Pending
    BY <1>1, <1>2, <2>1, <2>3
  <2>4. QED
    BY <1>6, <2>2, <2>3
<1>10. QED
  BY <1>7, <1>8, <1>9 DEF OneByOne

(* Nobody else has an access pending when an event is handled, nor when an
   actor has its turn that is not on the way to take a job. *)
LEMMA AloneAtEvent == ASSUME TypeOK, OneByOne, ready = <<>>, NEW a PROVE Alone(a) /\ Len(ready) = 0
  BY DEF OneByOne, Alone

LEMMA AloneAtTurn ==
  ASSUME TypeOK, OneByOne, NEW a \in Actors, ready # <<>>, Head(ready) = a,
         act[a].pc \notin Dequeuing
  PROVE  Alone(a) /\ Len(ready) = 1
<1>1. ready \in Seq(Actors) /\ 1 \in DOMAIN ready /\ ready[1] = a
  BY DEF TypeOK
<1>0. Len(ready) \in Nat /\ Len(ready) # 0
  BY <1>1, EmptySeq
<1>2. Len(ready) = 1
  <2>1. ASSUME Len(ready) > 1 PROVE act[ready[1]].pc \in Dequeuing
    BY <1>1, <2>1 DEF OneByOne
  <2>2. ~(Len(ready) > 1)
    BY <1>1, <2>1
  <2>3. \A n \in Nat : n = 0 \/ n = 1 \/ n > 1
    OBVIOUS
  <2>4. QED
    BY <1>0, <2>2, <2>3
<1>3. ASSUME NEW b \in Actors, act[b].pc \in Pending PROVE b = a
  <2>1. PICK i \in DOMAIN ready : ready[i] = b
    BY <1>3 DEF OneByOne
  <2>2. i = 1
    BY <1>1, <1>2, <2>1
  <2>3. QED
    BY <1>1, <2>1, <2>2
<1>4. QED
  BY <1>2, <1>3 DEF Alone

-----------------------------------------------------------------------------
(* A step of an actor that changes nothing, or that nobody else is waiting
   behind, if what it has read then still holds. *)
LEMMA FileKept ==
  ASSUME TypeOK, FileInv, TypeOK', provider = "file", NEW a \in Actors, NEW next,
         Becomes(a, next), Mine(a), Agrees(next, doc', dlq'),
         next.pc \in Pending /\ Len(ready) > 1 => a \in Loops /\ next.pc \in Dequeuing,
         (doc' = doc /\ dlq' = dlq) \/ Alone(a),
         dlq' = dlq \/ FewDead'
  PROVE  FileInv'
<1>1. /\ act'[a] = next
      /\ \A b \in Actors : b # a => act'[b] = act[b]
      /\ next \in Activity
  BY DEF Becomes, TypeOK
<1>2. OneByOne'
  BY <1>1, OneByOneKept DEF FileInv
<1>3. ASSUME NEW b \in Actors, b # a PROVE Agrees(act[b], doc', dlq')
  <2>1. CASE doc' = doc /\ dlq' = dlq
    BY <2>1 DEF FileInv, Agreement
  <2>2. CASE Alone(a)
    <3>1. act[b].pc \notin Pending
      BY <1>3, <2>2 DEF Alone
    <3>2. QED
      BY <3>1 DEF Agrees, Pending
  <2>3. QED
    BY <2>1, <2>2
<1>4. Agreement'
  BY <1>1, <1>3 DEF Agreement
<1>5. FewDead'
  BY DEF FileInv, FewDead
<1>6. QED
  BY <1>2, <1>4, <1>5 DEF FileInv

LEMMA EventKept ==
  ASSUME TypeOK, FileInv, TypeOK', provider = "file", NEW a \in Actors, NEW next,
         OnEvent(a, next), doc' = doc, dlq' = dlq, Agrees(next, doc, dlq)
  PROVE  FileInv'
<1>1. ready = <<>> /\ Mine(a) /\ Becomes(a, next)
  BY DEF OnEvent, Mine
<1>2. Len(ready) = 0
  BY <1>1, AloneAtEvent DEF FileInv
<1>3. ~(Len(ready) > 1)
  BY <1>2
<1>4. QED
  BY <1>1, <1>3, FileKept

LEMMA TurnKept ==
  ASSUME TypeOK, FileInv, TypeOK', provider = "file", NEW a \in Actors, NEW next,
         NEW pc, Turn(a, pc), pc \notin Dequeuing, Becomes(a, next),
         Agrees(next, doc', dlq'), dlq' = dlq \/ FewDead'
  PROVE  FileInv'
<1>1. ready # <<>> /\ Head(ready) = a /\ act[a].pc \notin Dequeuing
  BY DEF Turn
<1>2. Mine(a) /\ Alone(a) /\ Len(ready) = 1
  BY <1>1, AloneAtTurn DEF Mine, FileInv
<1>3. ~(Len(ready) > 1)
  BY <1>2
<1>4. QED
  BY <1>2, <1>3, FileKept

(* Where an actor relies on nothing that it has read. *)
Unread == Resting \cup {"listing", "picking", "completing", "failing", "cancelling",
                        "recovering"}

LEMMA NothingRead == \A x, d, q : x.pc \in Unread => Agrees(x, d, q)
<1> SUFFICES ASSUME NEW x, NEW d, NEW q, x.pc \in Unread PROVE Agrees(x, d, q)
  OBVIOUS
<1>1. x.pc \notin {"taking", "storing", "burying", "evicting", "interring", "counting",
                   "inserting", "withdrawing", "requeueing"}
  BY DEF Unread, Resting
<1>2. x.pc # "giving up"
  BY Zenon DEF Unread, Resting
<1>3. QED
  BY <1>1, <1>2, Zenon DEF Agrees

LEMMA FileEvents ==
  ASSUME TypeOK, FileInv, TypeOK', provider = "file",
         \/ Start
         \/ \E j \in Jobs : TimeOut(j) \/ Enqueue(j) \/ Indexed(j) \/ Cancel(j)
         \/ \E l \in Loops : Poll(l) \/ Executed(l)
  PROVE  FileInv'
<1>1. ASSUME NEW a \in Actors, NEW next, next.pc \in Unread, OnEvent(a, next),
             doc' = doc, dlq' = dlq
      PROVE  FileInv'
  BY <1>1, NothingRead, EventKept
<1>2. /\ \A pc : At(pc).pc = pc
      /\ \A pc, j : AtJob(pc, j).pc = pc /\ AtJob(pc, j).job = j
      /\ \A j, t : Failing(j, t).pc = "failing"
  BY FreshJob DEF At
<1>3. CASE Start
  <2>1. OnEvent(Boot, At("recovering")) /\ doc' = doc /\ dlq' = dlq
    BY <1>3 DEF Start
  <2>2. QED
    BY <1>1, <1>2, <2>1, ActorTypes DEF Unread
<1>4. ASSUME NEW l \in Loops, Poll(l) \/ Executed(l) PROVE FileInv'
  <2>1. l \in Actors /\ doc' = doc /\ dlq' = dlq
    BY <1>4, ActorTypes DEF Poll, Executed
  <2>2. \E next : next.pc \in {"listing", "completing", "failing"} /\ OnEvent(l, next)
    BY <1>2, <1>4 DEF Poll, Executed
  <2>3. QED
    BY <1>1, <2>1, <2>2 DEF Unread
<1>5. ASSUME NEW j \in Jobs, TimeOut(j) PROVE FileInv'
  <2>1. OnEvent(Timer, Failing(j, TRUE)) /\ doc' = doc /\ dlq' = dlq
    BY <1>5 DEF TimeOut
  <2>2. QED
    BY <1>1, <1>2, <2>1, ActorTypes DEF Unread
<1>6. ASSUME NEW j \in Jobs, Indexed(j) \/ Cancel(j) PROVE FileInv'
  <2>1. doc' = doc /\ dlq' = dlq
    BY <1>6 DEF Indexed, Cancel
  <2>2. \E next : next.pc \in {"completing", "failing", "cancelling"} /\ OnEvent(Client, next)
    BY <1>2, <1>6 DEF Indexed, Cancel, Request
  <2>3. QED
    BY <1>1, <2>1, <2>2, ActorTypes DEF Unread
<1>7. ASSUME NEW j \in Jobs, Enqueue(j) PROVE FileInv'
  <2> DEFINE next == AtJob("counting", j)
  <2>1. next.pc = "counting" /\ next.job = j
    BY <1>2
  <2>2. doc[j].status = "absent" /\ OnEvent(Client, next) /\ doc' = doc /\ dlq' = dlq
    BY <1>7 DEF Enqueue, Request
  <2> HIDE DEF next
  <2>3. Agrees(next, doc, dlq)
    BY <2>1, <2>2 DEF Agrees
  <2>4. QED
    BY <2>2, <2>3, EventKept, ActorTypes
<1>8. QED
  BY <1>3, <1>4, <1>5, <1>6, <1>7

(* The loops on the way to a job read, and may be several. *)
LEMMA FileDequeue ==
  ASSUME TypeOK, FileInv, TypeOK', provider = "file", NEW l \in Loops,
         DequeueCount(l) \/ DequeuePick(l)
  PROVE  FileInv'
<1>1. /\ l \in Actors /\ Mine(l) /\ doc' = doc /\ dlq' = dlq
  BY ActorTypes DEF DequeueCount, DequeuePick, Turn, Mine
<1>2. ASSUME NEW next, Becomes(l, next), Agrees(next, doc, dlq),
             next.pc \in Pending => next.pc \in Dequeuing
      PROVE  FileInv'
  BY <1>1, <1>2, FileKept
<1>3. CASE DequeueCount(l)
  <2>1. \E next : Becomes(l, next) /\ next.pc \in {"picking", "sleeping"}
    BY <1>3 DEF DequeueCount, At
  <2>2. QED
    BY <1>2, <2>1, NothingRead DEF Unread, Resting, Pending, Dequeuing
<1>4. CASE DequeuePick(l)
  <2>1. \/ Becomes(l, At("sleeping"))
        \/ \E j \in Best : Becomes(l, [AtJob("taking", j) EXCEPT !.seen = doc[j].retries])
    BY <1>4 DEF DequeuePick
  <2>2. CASE Becomes(l, At("sleeping"))
    <3>1. At("sleeping").pc = "sleeping"
      BY DEF At
    <3>2. QED
      BY <1>2, <2>2, <3>1, NothingRead DEF Unread, Resting, Pending
  <2>3. ASSUME NEW j \in Best,
               Becomes(l, [AtJob("taking", j) EXCEPT !.seen = doc[j].retries])
        PROVE  FileInv'
    <3> DEFINE next == [AtJob("taking", j) EXCEPT !.seen = doc[j].retries]
    <3>1. next.pc = "taking" /\ next.job = j /\ next.seen = doc[j].retries
      BY DEF AtJob, At
    <3>2. j \in With("queued")
      BY DEF Best, Page
    <3>3. doc[j].status = "queued"
      BY <3>2 DEF With
    <3>4. Becomes(l, next)
      BY <2>3
    <3> HIDE DEF next
    <3>5. Agrees(next, doc, dlq)
      BY <3>1, <3>3 DEF Agrees
    <3>6. QED
      BY <1>2, <3>1, <3>4, <3>5 DEF Dequeuing
  <2>4. QED
    BY <2>1, <2>2, <2>3
<1>5. QED
  BY <1>3, <1>4

(* A write by the actor whose turn it is, alone, of the job it has at hand. *)
LEMMA Written ==
  TypeOK =>
    \A j \in Jobs : \A s, r :
      Write(j, s, r) =>
        /\ doc'[j].status = s /\ doc'[j].retries = r
        /\ \A k \in Jobs : k # j => doc'[k] = doc[k]
  BY DEF Write, TypeOK

LEMMA AtWork ==
  ASSUME TypeOK, NEW a \in Actors, act[a].pc \notin Free
  PROVE  /\ act[a].job \in Jobs
         /\ \A pc : [act[a] EXCEPT !.pc = pc].pc = pc /\ [act[a] EXCEPT !.pc = pc].job = act[a].job
         /\ \A pc, S : /\ [act[a] EXCEPT !.pc = pc, !.rest = S].pc = pc
                       /\ [act[a] EXCEPT !.pc = pc, !.rest = S].job = act[a].job
                       /\ [act[a] EXCEPT !.pc = pc, !.rest = S].rest = S
         /\ \A pc, r : /\ [act[a] EXCEPT !.pc = pc, !.seen = r].pc = pc
                       /\ [act[a] EXCEPT !.pc = pc, !.seen = r].job = act[a].job
                       /\ [act[a] EXCEPT !.pc = pc, !.seen = r].seen = r
<1>1. act[a] \in Activity
  BY DEF TypeOK
<1>2. QED
  BY <1>1 DEF Activity

LEMMA FileOutcome ==
  ASSUME TypeOK, FileInv, TypeOK', provider = "file", NEW a \in Actors, Complete(a)
  PROVE  FileInv'
<1>1. CASE CompleteRead(a)
  <2>1. /\ Turn(a, "completing") /\ doc' = doc /\ dlq' = dlq
        /\ \/ /\ doc[act[a].job].status = "running"
              /\ Becomes(a, [act[a] EXCEPT !.pc = "storing", !.seen = doc[act[a].job].retries])
           \/ Becomes(a, Failing(act[a].job, FALSE))
    BY <1>1 DEF CompleteRead
  <2>2. act[a].pc \notin Free /\ "completing" \notin Dequeuing
    BY <2>1 DEF Turn, Free, Dequeuing
  <2>3. ASSUME NEW next, Becomes(a, next), Agrees(next, doc, dlq) PROVE FileInv'
    BY <2>1, <2>2, <2>3, TurnKept
  <2>4. CASE /\ doc[act[a].job].status = "running"
             /\ Becomes(a, [act[a] EXCEPT !.pc = "storing", !.seen = doc[act[a].job].retries])
    <3> DEFINE next == [act[a] EXCEPT !.pc = "storing", !.seen = doc[act[a].job].retries]
    <3>1. next.pc = "storing" /\ next.job = act[a].job /\ next.seen = doc[act[a].job].retries
      BY <2>2, AtWork
    <3>2. Becomes(a, next)
      BY <2>4
    <3> HIDE DEF next
    <3>3. Agrees(next, doc, dlq)
      BY <2>4, <3>1 DEF Agrees
    <3>4. QED
      BY <2>3, <3>2, <3>3
  <2>5. CASE Becomes(a, Failing(act[a].job, FALSE))
    <3>1. Failing(act[a].job, FALSE).pc = "failing"
      BY FreshJob
    <3>2. QED
      BY <2>3, <2>5, <3>1, NothingRead DEF Unread
  <2>6. QED
    BY <2>1, <2>4, <2>5
<1>2. CASE CompleteWrite(a)
  <2>1. /\ Turn(a, "storing") /\ Becomes(a, Done(a)) /\ dlq' = dlq /\ "storing" \notin Dequeuing
    BY <1>2 DEF CompleteWrite, Dequeuing
  <2>2. Done(a).pc \in Unread
    BY DEF Done, At, Unread, Resting
  <2>3. QED
    BY <2>1, <2>2, NothingRead, TurnKept
<1>3. QED
  BY <1>1, <1>2 DEF Complete

LEMMA FileFail ==
  ASSUME TypeOK, FileInv, TypeOK', provider = "file", NEW a \in Actors,
         FailRead(a) \/ FailRetry(a) \/ FailFinally(a)
  PROVE  FileInv'
<1>0. Done(a).pc \in Unread /\ Refused(a).pc \in Unread
  BY DEF Done, Refused, At, Unread, Resting
<1>1. CASE FailRead(a)
  <2>1. /\ Turn(a, "failing") /\ doc' = doc /\ dlq' = dlq
        /\ \/ /\ doc[act[a].job].status = "running"
              /\ Becomes(a, [act[a] EXCEPT !.pc = "giving up", !.seen = doc[act[a].job].retries])
           \/ Becomes(a, Refused(a))
    BY <1>1 DEF FailRead
  <2>2. act[a].pc \notin Free /\ "failing" \notin Dequeuing
    BY <2>1 DEF Turn, Free, Dequeuing
  <2>3. ASSUME NEW next, Becomes(a, next), Agrees(next, doc, dlq) PROVE FileInv'
    BY <2>1, <2>2, <2>3, TurnKept
  <2>4. CASE /\ doc[act[a].job].status = "running"
             /\ Becomes(a, [act[a] EXCEPT !.pc = "giving up", !.seen = doc[act[a].job].retries])
    <3> DEFINE next == [act[a] EXCEPT !.pc = "giving up", !.seen = doc[act[a].job].retries]
    <3>1. next.pc = "giving up" /\ next.job = act[a].job /\ next.seen = doc[act[a].job].retries
      BY <2>2, AtWork
    <3>2. Becomes(a, next)
      BY <2>4
    <3> HIDE DEF next
    <3>3. Agrees(next, doc, dlq)
      BY <2>4, <3>1 DEF Agrees
    <3>4. QED
      BY <2>3, <3>2, <3>3
  <2>5. CASE Becomes(a, Refused(a))
    BY <1>0, <2>3, <2>5, NothingRead
  <2>6. QED
    BY <2>1, <2>4, <2>5
<1>2. CASE FailRetry(a)
  <2>1. Turn(a, "giving up") /\ Becomes(a, Done(a)) /\ dlq' = dlq /\ "giving up" \notin Dequeuing
    BY <1>2 DEF FailRetry, Dequeuing
  <2>2. QED
    BY <1>0, <2>1, NothingRead, TurnKept
<1>3. CASE FailFinally(a)
  <2>1. Turn(a, "giving up") /\ dlq' = dlq /\ "giving up" \notin Dequeuing
    BY <1>3 DEF FailFinally, Dequeuing
  <2>0. Write(act[a].job, "failed", act[a].seen)
    BY <1>3 DEF FailFinally
  <2>2. act[a].job \in Jobs
    <3>1. act[a].pc \notin Free
      BY <2>1 DEF Turn, Free
    <3>2. QED
      BY <3>1, AtWork
  <2>3. CASE act[a].seen >= MaxRetries /\ Becomes(a, AtJob("burying", act[a].job))
    <3> DEFINE next == AtJob("burying", act[a].job)
    <3>1. next.pc = "burying" /\ next.job = act[a].job
      BY FreshJob
    <3>2. Becomes(a, next)
      BY <2>3
    <3> HIDE DEF next
    <3>3. doc'[act[a].job].status = "failed" /\ doc'[act[a].job].retries = act[a].seen
      BY <2>0, <2>2, Written
    <3>4. doc'[next.job].status = "failed" /\ doc'[next.job].retries >= MaxRetries
      BY <2>3, <3>1, <3>3
    <3>5. Agrees(next, doc', dlq')
      BY <3>1, <3>4 DEF Agrees
    <3>6. QED
      BY <2>1, <3>2, <3>5, TurnKept
  <2>4. CASE Becomes(a, Done(a))
    BY <1>0, <2>1, <2>4, NothingRead, TurnKept
  <2>5. QED
    BY <1>3, <2>3, <2>4 DEF FailFinally
<1>4. QED
  BY <1>1, <1>2, <1>3

(* The dead letters: what a page of them can tell. *)
LEMMA Letters ==
  ASSUME FewDead
  PROVE  Cardinality(dlq) \in Nat /\ (DlqFull <=> SeenFull(dlq))
<1>1. Cardinality(dlq) \in Nat /\ PageSize \in Nat /\ MaxDlqSize \in Nat
  BY FS_CardinalityType, QueueAssumption DEF FewDead, QueueAssumption
<1>2. QED
  BY <1>1 DEF DlqFull, PageLength, SeenFull

LEMMA FileDeadLetters ==
  ASSUME TypeOK, FileInv, TypeOK', provider = "file", NEW a \in Actors,
         DlqList(a) \/ DlqEvict(a) \/ DlqWrite(a)
  PROVE  FileInv'
<1>1. /\ act[a].pc \in {"burying", "evicting", "interring"} /\ act[a].pc \notin Dequeuing
      /\ Turn(a, act[a].pc) /\ doc' = doc /\ act[a].pc \notin Free
  BY DEF DlqList, DlqEvict, DlqWrite, Turn, Dequeuing, Free
<1>2. ASSUME NEW next, Becomes(a, next), Agrees(next, doc, dlq'), dlq' = dlq \/ FewDead'
      PROVE  FileInv'
  BY <1>1, <1>2, TurnKept
<1>3. Agrees(act[a], doc, dlq) /\ FewDead
  BY DEF FileInv, Agreement
<1>4. doc[act[a].job].status = "failed" /\ doc[act[a].job].retries >= MaxRetries
  BY <1>1, <1>3 DEF Agrees
<1>5. /\ MaxDlqSize \in Nat /\ Cardinality(dlq) \in Nat
      /\ MaxDlqSize <= PageSize => Cardinality(dlq) <= MaxDlqSize
  BY <1>3, Letters, QueueAssumption DEF FewDead, QueueAssumption
<1>6. CASE DlqList(a)
  <2>1. CASE ~DlqFull /\ Becomes(a, [act[a] EXCEPT !.pc = "interring"])
    <3> DEFINE next == [act[a] EXCEPT !.pc = "interring"]
    <3>1. next.pc = "interring" /\ next.job = act[a].job
      BY <1>1, AtWork
    <3>2. Becomes(a, next) /\ dlq' = dlq
      BY <1>6, <2>1 DEF DlqList
    <3> HIDE DEF next
    <3>3. ~SeenFull(dlq)
      BY <1>3, <2>1, Letters
    <3>4. Agrees(next, doc, dlq)
      BY <1>4, <3>1, <3>3 DEF Agrees
    <3>5. QED
      BY <1>2, <3>2, <3>4
  <2>2. ASSUME DlqFull, NEW oldest \in Page(dlq),
               Becomes(a, [act[a] EXCEPT !.pc = "evicting", !.rest = {oldest}])
        PROVE  FileInv'
    <3> DEFINE next == [act[a] EXCEPT !.pc = "evicting", !.rest = {oldest}]
    <3>1. next.pc = "evicting" /\ next.job = act[a].job /\ next.rest = {oldest}
      BY <1>1, AtWork
    <3>2. Becomes(a, next) /\ dlq' = dlq
      BY <1>6, <2>2 DEF DlqList
    <3> HIDE DEF next
    <3>3. SeenFull(dlq) /\ oldest \in dlq
      BY <1>3, <2>2, Letters DEF Page
    <3>4. Agrees(next, doc, dlq)
      BY <1>4, <3>1, <3>3 DEF Agrees
    <3>5. QED
      BY <1>2, <3>2, <3>4
  <2>3. QED
    BY <1>6, <2>1, <2>2 DEF DlqList
<1>7. CASE DlqEvict(a)
  <2> DEFINE next == AtJob("interring", act[a].job)
  <2>1. next.pc = "interring" /\ next.job = act[a].job
    BY FreshJob
  <2>2. Becomes(a, next) /\ dlq' = dlq \ act[a].rest /\ act[a].pc = "evicting"
    BY <1>7 DEF DlqEvict, Turn
  <2> HIDE DEF next
  <2>3. PICK j \in dlq : act[a].rest = {j} /\ SeenFull(dlq)
    BY <1>3, <2>2 DEF Agrees
  <2>4. IsFiniteSet(dlq') /\ Cardinality(dlq') = Cardinality(dlq) - 1
    BY <1>3, <2>2, <2>3, FS_RemoveElement DEF FewDead
  <2>5. Cardinality(dlq') < MaxDlqSize
    BY <1>5, <2>3, <2>4 DEF SeenFull
  <2>6. FewDead' /\ ~SeenFull(dlq')
    BY <1>5, <2>4, <2>5 DEF FewDead, SeenFull
  <2>7. Agrees(next, doc, dlq')
    BY <1>4, <2>1, <2>6 DEF Agrees
  <2>8. QED
    BY <1>2, <2>2, <2>6, <2>7
<1>8. CASE DlqWrite(a)
  <2>1. Becomes(a, Done(a)) /\ dlq' = dlq \cup {act[a].job} /\ act[a].pc = "interring"
    BY <1>8 DEF DlqWrite, Turn
  <2>2. MaxDlqSize <= PageSize => Cardinality(dlq) < MaxDlqSize
    BY <1>3, <1>5, <2>1 DEF Agrees, SeenFull
  <2>3. IsFiniteSet(dlq') /\ Cardinality(dlq') <= Cardinality(dlq) + 1
    <3>1. act[a].job \in dlq => dlq' = dlq
      BY <2>1
    <3>2. act[a].job \notin dlq =>
            IsFiniteSet(dlq') /\ Cardinality(dlq') = Cardinality(dlq) + 1
      BY <1>3, <2>1, FS_AddElement DEF FewDead
    <3>3. IsFiniteSet(dlq)
      BY <1>3 DEF FewDead
    <3>4. CASE act[a].job \in dlq
      BY <1>5, <3>1, <3>3, <3>4
    <3>5. CASE act[a].job \notin dlq
      BY <1>5, <3>2, <3>5
    <3>6. QED
      BY <3>4, <3>5
  <2>4. Cardinality(dlq') \in Nat
    BY <2>3, FS_CardinalityType
  <2>5. MaxDlqSize <= PageSize => Cardinality(dlq') <= MaxDlqSize
    BY <1>5, <2>2, <2>3, <2>4
  <2>6. FewDead'
    BY <2>3, <2>5 DEF FewDead
  <2>7. Done(a).pc \in Unread
    BY DEF Done, At, Unread, Resting
  <2>8. QED
    BY <1>2, <2>1, <2>6, <2>7, NothingRead
<1>9. QED
  BY <1>6, <1>7, <1>8

LEMMA FileRoutes ==
  ASSUME TypeOK, FileInv, TypeOK', provider = "file",
         EnqueueCount \/ EnqueueWrite \/ CancelRead \/ CancelWrite
  PROVE  FileInv'
<1>1. /\ Client \in Actors /\ act[Client].pc \notin Dequeuing /\ act[Client].pc \notin Free
      /\ Turn(Client, act[Client].pc) /\ dlq' = dlq
  BY ActorTypes
  DEF EnqueueCount, EnqueueWrite, CancelRead, CancelWrite, Turn, Dequeuing, Free
<1>2. ASSUME NEW next, Becomes(Client, next), Agrees(next, doc', dlq') PROVE FileInv'
  BY <1>1, <1>2, TurnKept
<1>3. ASSUME Becomes(Client, At("idle")) PROVE FileInv'
  <2>1. At("idle").pc \in Unread
    BY DEF At, Unread, Resting
  <2>2. QED
    BY <1>2, <1>3, <2>1, NothingRead
<1>4. CASE EnqueueWrite \/ CancelWrite
  BY <1>3, <1>4 DEF EnqueueWrite, CancelWrite
<1>5. ASSUME EnqueueCount, Becomes(Client, [act[Client] EXCEPT !.pc = "inserting"])
      PROVE  FileInv'
  <2> DEFINE next == [act[Client] EXCEPT !.pc = "inserting"]
  <2>1. next.pc = "inserting" /\ next.job = act[Client].job
    BY <1>1, AtWork
  <2>2. Becomes(Client, next)
    BY <1>5
  <2> HIDE DEF next
  <2>3. doc' = doc /\ act[Client].pc = "counting"
    BY <1>5 DEF EnqueueCount, Turn
  <2>4. Agrees(act[Client], doc, dlq)
    BY <1>1 DEF FileInv, Agreement
  <2>5. Agrees(next, doc', dlq')
    BY <2>1, <2>3, <2>4 DEF Agrees
  <2>6. QED
    BY <1>2, <2>2, <2>5
<1>6. ASSUME CancelRead, doc[act[Client].job].status \in {"queued", "running"}
      PROVE  FileInv'
  <2> DEFINE next == [act[Client] EXCEPT !.pc = "withdrawing", !.seen = doc[act[Client].job].retries]
  <2>1. next.pc = "withdrawing" /\ next.job = act[Client].job
        /\ next.seen = doc[act[Client].job].retries
    BY <1>1, AtWork
  <2>2. Becomes(Client, next) /\ doc' = doc
    BY <1>6 DEF CancelRead
  <2> HIDE DEF next
  <2>3. Agrees(next, doc', dlq')
    BY <1>6, <2>1, <2>2 DEF Agrees
  <2>4. QED
    BY <1>2, <2>2, <2>3
<1>7. QED
  BY <1>3, <1>4, <1>5, <1>6 DEF EnqueueCount, CancelRead

LEMMA FileBoot ==
  ASSUME TypeOK, FileInv, TypeOK', provider = "file", RecoverList \/ RecoverWrite
  PROVE  FileInv'
<1>1. /\ Boot \in Actors /\ act[Boot].pc \notin Dequeuing /\ dlq' = dlq
      /\ Turn(Boot, act[Boot].pc)
  BY ActorTypes DEF RecoverList, RecoverWrite, Turn, Dequeuing
<1>2. ASSUME NEW next, Becomes(Boot, next), next.pc = "requeueing",
             \A j \in next.rest : doc'[j].status = "running"
      PROVE  FileInv'
  <2>1. Agrees(next, doc', dlq')
    BY <1>2 DEF Agrees
  <2>2. QED
    BY <1>1, <1>2, <2>1, TurnKept
<1>3. CASE RecoverList
  <2> DEFINE next == [At("requeueing") EXCEPT !.rest = Page(With("running"))]
  <2>2. next.pc = "requeueing" /\ next.rest \subseteq With("running")
    BY DEF At, Page
  <2>3. Becomes(Boot, next) /\ doc' = doc
    BY <1>3 DEF RecoverList
  <2> HIDE DEF next
  <2>4. QED
    BY <1>2, <2>2, <2>3 DEF With
<1>4. CASE RecoverWrite
  <2>1. PICK j \in act[Boot].rest :
          /\ Write(j, "queued", doc[j].retries)
          /\ Becomes(Boot, [act[Boot] EXCEPT !.rest = @ \ {j}])
    BY <1>4 DEF RecoverWrite
  <2> DEFINE next == [act[Boot] EXCEPT !.rest = @ \ {j}]
  <2>2. act[Boot] \in Activity /\ act[Boot].pc = "requeueing"
    BY <1>1, <1>4 DEF RecoverWrite, Turn, TypeOK
  <2>3. /\ next.pc = "requeueing" /\ next.rest = act[Boot].rest \ {j}
        /\ act[Boot].rest \subseteq Jobs
    BY <2>2 DEF Activity
  <2>4. Becomes(Boot, next)
    BY <2>1
  <2> HIDE DEF next
  <2>5. \A k \in act[Boot].rest : doc[k].status = "running"
    BY <1>1, <2>2 DEF FileInv, Agreement, Agrees
  <2>6. \A k \in Jobs : k # j => doc'[k] = doc[k]
    BY <2>1, <2>3, Written
  <2>7. QED
    BY <1>2, <2>3, <2>4, <2>5, <2>6
<1>5. QED
  BY <1>3, <1>4

(* The start of the loops, and a crash. *)
LEMMA FileServe == ASSUME TypeOK, FileInv, provider = "file", Serve PROVE FileInv'
<1>1. \A a \in Actors : act'[a] = IF a \in Loops THEN At("listing") ELSE At("idle")
  BY DEF Serve
<1>2. ready' = [i \in Loops |-> i] /\ dlq' = dlq
  BY DEF Serve
<1>3. At("listing").pc = "listing" /\ At("idle").pc = "idle"
  BY DEF At
<1>4. \A a \in Actors : act'[a].pc = IF a \in Loops THEN "listing" ELSE "idle"
  BY <1>1, <1>3
<1>5. \A a \in Actors : act'[a].pc \in Unread
  BY <1>4 DEF Unread, Resting
<1>6. "listing" \in Pending /\ "idle" \notin Pending /\ "listing" \in Dequeuing
  BY DEF Pending, Dequeuing
<1>7. OneByOne'
  <2>1. DOMAIN ready' = Loops /\ \A i \in Loops : ready'[i] = i
    BY <1>2
  <2>2. Loops \subseteq Actors
    BY ActorTypes
  <2>3. \A a \in Actors : act'[a].pc \in Pending <=> a \in Loops
    BY <1>4, <1>6
  <2>4. \A i \in DOMAIN ready' : ready'[i] \in Loops /\ act'[ready'[i]].pc \in Dequeuing
    BY <1>4, <1>6, <2>1, <2>2
  <2>5. \A a \in Actors : act'[a].pc \in Pending <=> \E i \in DOMAIN ready' : ready'[i] = a
    BY <2>1, <2>3
  <2>6. \A i, k \in DOMAIN ready' : ready'[i] = ready'[k] => i = k
    BY <2>1
  <2>7. QED
    BY <2>4, <2>5, <2>6 DEF OneByOne
<1>8. Agreement'
  BY <1>5, NothingRead DEF Agreement
<1>9. FewDead'
  BY <1>2 DEF FileInv, FewDead
<1>10. QED
  BY <1>7, <1>8, <1>9 DEF FileInv

LEMMA FileCrash == ASSUME FileInv, Crash PROVE FileInv'
<1>1. \A a \in Actors : act'[a].pc = "off"
  BY DEF Crash, At
<1>2. ready' = <<>> /\ FewDead'
  BY DEF FileInv, FewDead, Crash
<1>3. DOMAIN ready' = {} /\ ~(Len(ready') > 1)
  <2>1. Len(ready') = 0
    BY <1>2, EmptySeq
  <2>2. QED
    BY <1>2, <2>1
<1>4. OneByOne'
  BY <1>1, <1>3 DEF OneByOne, Pending
<1>5. Agreement'
  BY <1>1, NothingRead DEF Agreement, Unread, Resting
<1>6. QED
  BY <1>2, <1>4, <1>5 DEF FileInv

LEMMA InitFile == Init => FileInv
<1> SUFFICES ASSUME Init PROVE FileInv
  OBVIOUS
<1>1. \A a \in Actors : act[a].pc = "off"
  BY DEF Init, At
<1>2. ready = <<>> /\ FewDead
  BY FS_EmptySet, QueueAssumption DEF Init, FewDead, QueueAssumption
<1>3. DOMAIN ready = {} /\ ~(Len(ready) > 1)
  <2>1. Len(ready) = 0
    BY <1>2, EmptySeq
  <2>2. QED
    BY <1>2, <2>1
<1>4. OneByOne
  BY <1>1, <1>3 DEF OneByOne, Pending
<1>5. Agreement
  BY <1>1, NothingRead DEF Agreement, Unread, Resting
<1>6. QED
  BY <1>2, <1>4, <1>5 DEF FileInv

(* Another loop may be about to take the job that a loop takes: both have
   read the same document. *)
LEMMA FileTake ==
  ASSUME TypeOK, FileInv, TypeOK', provider = "file", NEW l \in Loops, DequeueWrite(l)
  PROVE  FileInv'
<1> DEFINE next == AtJob("executing", act[l].job)
<1>1. /\ l \in Actors /\ Mine(l) /\ ready # <<>> /\ Head(ready) = l /\ dlq' = dlq
      /\ act[l].pc = "taking"
  BY ActorTypes DEF DequeueWrite, Turn, Mine
<1>2. next.pc = "executing" /\ next.pc \notin Pending
  BY DEF AtJob, At, Pending
<1>3. Becomes(l, next) /\ Write(act[l].job, "running", act[l].seen)
  BY DEF DequeueWrite
<1> HIDE DEF next
<1>4. /\ act'[l] = next
      /\ \A b \in Actors : b # l => act'[b] = act[b]
      /\ next \in Activity
  BY <1>1, <1>3 DEF Becomes, TypeOK
<1>5. OneByOne'
  BY <1>1, <1>2, <1>3, <1>4, OneByOneKept DEF FileInv
<1>6. act[l].job \in Jobs
  <2>1. act[l].pc \notin Free
    BY <1>1 DEF Free
  <2>2. QED
    BY <1>1, <2>1, AtWork
<1>7. /\ doc'[act[l].job].status = "running" /\ doc'[act[l].job].retries = act[l].seen
      /\ \A k \in Jobs : k # act[l].job => doc'[k] = doc[k]
  BY <1>3, <1>6, Written
<1>8. doc[act[l].job].retries = act[l].seen
  <2>1. Agrees(act[l], doc, dlq)
    BY <1>1 DEF FileInv, Agreement
  <2>2. QED
    BY <1>1, <2>1 DEF Agrees
<1>9. ASSUME NEW b \in Actors, b # l, act[b].pc \in Pending
      PROVE  act[b].pc \in Dequeuing
  <2>1. PICK i \in DOMAIN ready : ready[i] = b
    BY <1>9 DEF FileInv, OneByOne
  <2>2. ready \in Seq(Actors) /\ ready[1] = l /\ DOMAIN ready = 1 .. Len(ready)
        /\ Len(ready) \in Nat
    BY <1>1 DEF TypeOK
  <2>3. i # 1
    BY <1>9, <2>1, <2>2
  <2>4. Len(ready) > 1
    BY <2>1, <2>2, <2>3
  <2>5. QED
    BY <2>1, <2>4 DEF FileInv, OneByOne
<1>10. ASSUME NEW b \in Actors, b # l
       PROVE  Agrees(act[b], doc', dlq')
  <2>1. Agrees(act[b], doc, dlq)
    BY DEF FileInv, Agreement
  <2>2. CASE act[b].pc = "taking"
    <3>1. act[b].job \in Jobs
      <4>1. act[b].pc \notin Free
        BY <2>2 DEF Free
      <4>2. QED
        BY <4>1, AtWork
    <3>2. doc[act[b].job].status \in {"queued", "running"}
          /\ doc[act[b].job].retries = act[b].seen
      BY <2>1, <2>2 DEF Agrees
    <3>3. doc'[act[b].job].status \in {"queued", "running"}
          /\ doc'[act[b].job].retries = act[b].seen
      BY <1>7, <1>8, <3>1, <3>2
    <3>4. QED
      BY <2>2, <3>3 DEF Agrees
  <2>3. CASE act[b].pc \in {"listing", "picking"}
    BY <2>3, NothingRead DEF Unread
  <2>4. CASE act[b].pc \notin Dequeuing
    <3>1. act[b].pc \notin Pending
      BY <1>9, <1>10, <2>4
    <3>2. QED
      BY <3>1 DEF Agrees, Pending
  <2>5. QED
    BY <2>2, <2>3, <2>4 DEF Dequeuing
<1>11. Agreement'
  <2>1. Agrees(next, doc', dlq')
    BY <1>2, NothingRead DEF Unread, Resting
  <2>2. QED
    BY <1>4, <1>10, <2>1 DEF Agreement
<1>12. FewDead'
  BY <1>1 DEF FileInv, FewDead
<1>13. QED
  BY <1>5, <1>11, <1>12 DEF FileInv

Fresh == \A j \in Jobs : doc[j].status = "absent" => doc[j].retries = 0

LEMMA FreshKept ==
  ASSUME TypeOK, Fresh, [Next]_vars
  PROVE  Fresh'
<1>1. doc' = doc \/ \E j, s, r : s # "absent" /\ Write(j, s, r)
  BY Zenon
  DEF Next, vars, Turns, Requests, LoopEvent, Crash, TimeOut, Poll, Executed, Enqueue,
      Indexed, Cancel, Request, DequeueCount, DequeuePick, DequeueWrite, EnqueueCount,
      EnqueueWrite, CancelRead, CancelWrite, Complete, Fail, CompleteRead, CompleteWrite,
      FailRead, FailRetry, FailFinally, DlqList, DlqEvict, DlqWrite, Start, RecoverList,
      RecoverWrite, Serve
<1>2. ASSUME NEW j, NEW s, NEW r, s # "absent", Write(j, s, r) PROVE Fresh'
  <2>1. \A k \in Jobs : doc'[k] = doc[k] \/ doc'[k].status = s
    BY <1>2 DEF Write, TypeOK
  <2>2. QED
    BY <1>2, <2>1 DEF Fresh
<1>3. QED
  BY <1>1, <1>2 DEF Fresh

BoardInv == IInv /\ Fresh /\ (provider = "file" => FileInv)

LEMMA ProviderStays == [Next]_vars => provider' = provider
  BY DEF Next, vars, Turns, Requests, LoopEvent, Crash, TimeOut, Poll, Executed, Enqueue,
      Indexed, Cancel, Request, DequeueCount, DequeuePick, DequeueWrite, EnqueueCount,
      EnqueueWrite, CancelRead, CancelWrite, Complete, Fail, CompleteRead, CompleteWrite,
      FailRead, FailRetry, FailFinally, DlqList, DlqEvict, DlqWrite, Start, RecoverList,
      RecoverWrite, Serve

LEMMA NextBoardInv ==
  ASSUME WorkerCount <= PageSize, BoardInv, [Next]_vars
  PROVE  BoardInv'
<1>1. IInv' /\ TypeOK /\ TypeOK' /\ Fresh'
  BY NextIInv, FreshKept DEF BoardInv, IInv
<1>2. SUFFICES ASSUME provider' = "file" PROVE FileInv'
  BY <1>1 DEF BoardInv
<1>3. provider' = provider
  BY ProviderStays
<1>4. provider = "file" /\ FileInv
  BY <1>2, <1>3 DEF BoardInv
<1>5. CASE UNCHANGED vars
  BY <1>4, <1>5 DEF vars, FileInv, OneByOne, Agreement, FewDead
<1>6. CASE Next
  BY <1>1, <1>4, <1>6, FileCrash, FileEvents, FileDequeue, FileTake, FileOutcome, FileFail,
     FileDeadLetters, FileRoutes, FileBoot, FileServe
  DEF Next, Turns, Requests, LoopEvent, Fail
<1>7. QED
  BY <1>5, <1>6

-----------------------------------------------------------------------------
(* The board in terms of the documents. *)
Statuses == [j \in Jobs |-> doc[j].status]
Attempts == [j \in Jobs |-> doc[j].retries]
OnBoard == <<Statuses, Attempts, dlq, Up>>

LEMMA BoardStutters ==
  ASSUME provider = "file", provider' = "file", UNCHANGED OnBoard
  PROVE  UNCHANGED Board!boardVars
  BY DEF OnBoard, Statuses, Attempts, Board!boardVars, Filed

LEMMA BoardCardinality == \A S : Board!Cardinality(S) = Cardinality(S)
  BY DEF Board!Cardinality, Cardinality

LEMMA BoardMoves ==
  ASSUME provider = "file", provider' = "file", NEW j \in Jobs, NEW s,
         Statuses' = [Statuses EXCEPT ![j] = s], dlq' = dlq, Up' = Up
  PROVE  /\ /\ s = "queued" /\ doc[j].status = "absent" /\ Up /\ Attempts' = Attempts
            => Board!Enqueue(j)
         /\ /\ s = "running" /\ doc[j].status = "queued" /\ Up /\ Attempts' = Attempts
            /\ Cardinality(With("running")) < Concurrency
            => Board!Dequeue(j)
         /\ /\ s = "completed" /\ doc[j].status = "running" /\ Up /\ Attempts' = Attempts
            => Board!Complete(j)
         /\ /\ s = "queued" /\ doc[j].status = "running" /\ Up
            /\ doc[j].retries < MaxRetries
            /\ Attempts' = [Attempts EXCEPT ![j] = doc[j].retries + 1]
            => Board!Retry(j)
         /\ /\ s = "failed" /\ doc[j].status = "running" /\ Up /\ Attempts' = Attempts
            => Board!Fail(j)
         /\ /\ s = "cancelled" /\ doc[j].status \in {"queued", "running"} /\ Up
            /\ Attempts' = Attempts
            => Board!Cancel(j)
         /\ /\ s = "queued" /\ doc[j].status = "running" /\ ~Up /\ Attempts' = Attempts
            => Board!Recover(j)
<1>1. ASSUME NEW from, doc[j].status \in from PROVE Board!Move(j, from, s)
  BY <1>1 DEF Board!Move, Filed, Statuses
<1>2. ASSUME Attempts' = Attempts
      PROVE  UNCHANGED Filed([k \in Jobs |-> doc[k].retries], [k \in Jobs |-> 0])
  BY <1>2 DEF Filed, Attempts
<1>3. Filed(Up, TRUE) <=> Up
  BY DEF Filed
<1>4. ASSUME s = "queued", doc[j].status = "absent", Up, Attempts' = Attempts
      PROVE  Board!Enqueue(j)
  BY <1>1, <1>2, <1>3, <1>4 DEF Board!Enqueue
<1>5. ASSUME s = "running", doc[j].status = "queued", Up, Attempts' = Attempts,
             Cardinality(With("running")) < Concurrency
      PROVE  Board!Dequeue(j)
  <2>1. Board!Running = With("running")
    BY DEF Board!Running, Filed, With
  <2>2. QED
    BY <1>1, <1>2, <1>3, <1>5, <2>1, BoardCardinality DEF Board!Dequeue
<1>6. ASSUME s = "completed", doc[j].status = "running", Up, Attempts' = Attempts
      PROVE  Board!Complete(j)
  BY <1>1, <1>2, <1>3, <1>6 DEF Board!Complete
<1>7. ASSUME s = "queued", doc[j].status = "running", Up, doc[j].retries < MaxRetries,
             Attempts' = [Attempts EXCEPT ![j] = doc[j].retries + 1]
      PROVE  Board!Retry(j)
  <2>1. Board!Move(j, {"running"}, "queued")
    BY <1>1, <1>7
  <2>2. QED
    BY <1>7, <2>1 DEF Board!Retry, Attempts, Filed
<1>8. ASSUME s = "failed", doc[j].status = "running", Up, Attempts' = Attempts
      PROVE  Board!Fail(j)
  BY <1>1, <1>2, <1>3, <1>8 DEF Board!Fail
<1>9. ASSUME s = "cancelled", doc[j].status \in {"queued", "running"}, Up, Attempts' = Attempts
      PROVE  Board!Cancel(j)
  BY <1>1, <1>2, <1>3, <1>9 DEF Board!Cancel
<1>10. ASSUME s = "queued", doc[j].status = "running", ~Up, Attempts' = Attempts
       PROVE  Board!Recover(j)
  BY <1>1, <1>2, <1>3, <1>10 DEF Board!Recover
<1>11. QED
  BY <1>4, <1>5, <1>6, <1>7, <1>8, <1>9, <1>10

LEMMA BoardWritten ==
  TypeOK =>
    \A j \in Jobs : \A s, r :
      Write(j, s, r) =>
        /\ Statuses' = [Statuses EXCEPT ![j] = s]
        /\ Attempts' = [Attempts EXCEPT ![j] = r]
        /\ doc[j].retries = r => Attempts' = Attempts
<1> SUFFICES ASSUME TypeOK, NEW j \in Jobs, NEW s, NEW r, Write(j, s, r)
             PROVE  /\ Statuses' = [Statuses EXCEPT ![j] = s]
                    /\ Attempts' = [Attempts EXCEPT ![j] = r]
                    /\ doc[j].retries = r => Attempts' = Attempts
  OBVIOUS
<1>1. \A k \in Jobs : /\ doc'[k].status = IF k = j THEN s ELSE doc[k].status
                      /\ doc'[k].retries = IF k = j THEN r ELSE doc[k].retries
  BY Written
<1>2. Statuses' = [Statuses EXCEPT ![j] = s]
  BY <1>1 DEF Statuses
<1>3. Attempts' = [Attempts EXCEPT ![j] = r]
  BY <1>1 DEF Attempts
<1>4. doc[j].retries = r => Attempts' = Attempts
  BY <1>1 DEF Attempts
<1>5. QED
  BY <1>2, <1>3, <1>4

(* Whoever has a job at hand serves, and goes on serving. *)
LEMMA Working ==
  ASSUME IInv, NEW a \in Actors, act[a].pc \notin Free, NEW next, Becomes(a, next)
  PROVE  Up /\ Up' = Up /\ act[a].job \in Jobs
<1>1. a # Boot
  BY DEF IInv, BootStates, Free
<1>2. Up
  BY <1>1 DEF IInv, Quiet, Free
<1>3. act'[Boot] = act[Boot]
  BY <1>1, ActorTypes DEF Becomes, IInv, TypeOK
<1>4. Up' = Up
  BY <1>3 DEF Up
<1>5. act[a].job \in Jobs
  BY AtWork DEF IInv
<1>6. QED
  BY <1>2, <1>4, <1>5

LEMMA BoardOutcome ==
  ASSUME IInv, FileInv, provider = "file", provider' = "file", NEW a \in Actors,
         CompleteWrite(a) \/ FailRetry(a) \/ FailFinally(a)
  PROVE  \E j \in Jobs : Board!Complete(j) \/ Board!Retry(j) \/ Board!Fail(j)
<1> DEFINE j == act[a].job
<1>1. /\ act[a].pc \in {"storing", "giving up"} /\ act[a].pc \notin Free
      /\ dlq' = dlq /\ \E next : Becomes(a, next)
  BY DEF CompleteWrite, FailRetry, FailFinally, Turn, Free
<1>2. doc[j].status = "running" /\ doc[j].retries = act[a].seen
  <2>1. Agrees(act[a], doc, dlq)
    BY DEF FileInv, Agreement
  <2>2. QED
    BY <1>1, <2>1, Zenon DEF Agrees
<1>3. Up /\ Up' = Up /\ j \in Jobs
  <2>1. act[a].pc \notin Free /\ \E next : Becomes(a, next)
    BY <1>1
  <2>2. QED
    BY <2>1, Working
<1>4. dlq' = dlq
  BY <1>1
<1>5. TypeOK
  BY DEF IInv
<1>6. CASE CompleteWrite(a)
  <2>1. Write(j, "completed", act[a].seen)
    BY <1>6 DEF CompleteWrite
  <2>2. Statuses' = [Statuses EXCEPT ![j] = "completed"] /\ Attempts' = Attempts
    BY <1>2, <1>3, <1>5, <2>1, BoardWritten
  <2>3. Board!Complete(j)
    BY <1>2, <1>3, <1>4, <2>2, BoardMoves
  <2>4. QED
    BY <1>3, <2>3
<1>7. CASE FailRetry(a)
  <2>1. Write(j, "queued", act[a].seen + 1) /\ act[a].seen < MaxRetries
    BY <1>7 DEF FailRetry
  <2>2. /\ Statuses' = [Statuses EXCEPT ![j] = "queued"]
        /\ Attempts' = [Attempts EXCEPT ![j] = doc[j].retries + 1]
    BY <1>2, <1>3, <1>5, <2>1, BoardWritten
  <2>3. doc[j].retries < MaxRetries
    BY <1>2, <2>1
  <2>4. Board!Retry(j)
    BY <1>2, <1>3, <1>4, <2>2, <2>3, BoardMoves
  <2>5. QED
    BY <1>3, <2>4
<1>8. CASE FailFinally(a)
  <2>1. Write(j, "failed", act[a].seen)
    BY <1>8 DEF FailFinally
  <2>2. Statuses' = [Statuses EXCEPT ![j] = "failed"] /\ Attempts' = Attempts
    BY <1>2, <1>3, <1>5, <2>1, BoardWritten
  <2>3. Board!Fail(j)
    BY <1>2, <1>3, <1>4, <2>2, BoardMoves
  <2>4. QED
    BY <1>3, <2>3
<1>9. QED
  BY <1>6, <1>7, <1>8

LEMMA BoardLetters ==
  ASSUME IInv, FileInv, provider = "file", provider' = "file", NEW a \in Actors,
         DlqEvict(a) \/ DlqWrite(a)
  PROVE  \E j \in Jobs : Board!Evict(j) \/ Board!Bury(j)
<1> DEFINE j == act[a].job
<1>1. /\ act[a].pc \in {"evicting", "interring"} /\ act[a].pc \notin Free
      /\ doc' = doc /\ \E next : Becomes(a, next)
  BY DEF DlqEvict, DlqWrite, Turn, Free
<1>2. Agrees(act[a], doc, dlq)
  BY DEF FileInv, Agreement
<1>3. Up /\ Up' = Up /\ j \in Jobs
  BY <1>1, Working
<1>4. CASE DlqEvict(a)
  <2>1. dlq' = dlq \ act[a].rest /\ act[a].pc = "evicting"
    BY <1>4 DEF DlqEvict, Turn
  <2>2. PICK o \in dlq : act[a].rest = {o} /\ SeenFull(dlq)
    BY <1>2, <2>1, Zenon DEF Agrees
  <2>3. Board!Full /\ dlq' = dlq \ {o} /\ o \in Jobs
    BY <2>1, <2>2, BoardCardinality DEF IInv, TypeOK, SeenFull, Board!Full, Filed
  <2>4. Board!Evict(o)
    BY <1>1, <1>3, <2>2, <2>3 DEF Board!Evict, Filed
  <2>5. QED
    BY <2>3, <2>4
<1>5. CASE DlqWrite(a)
  <2>1. dlq' = dlq \cup {j} /\ act[a].pc = "interring"
    BY <1>5 DEF DlqWrite, Turn
  <2>2. doc[j].status = "failed" /\ doc[j].retries >= MaxRetries
        /\ ~SeenFull(dlq)
    BY <1>2, <2>1, Zenon DEF Agrees
  <2>3. ~Board!Full
    BY <2>2, BoardCardinality DEF SeenFull, Board!Full, Filed
  <2>4. Board!Bury(j)
    BY <1>1, <1>3, <2>1, <2>2, <2>3 DEF Board!Bury, Filed
  <2>5. QED
    BY <1>3, <2>4
<1>6. QED
  BY <1>4, <1>5

(* A running job is in the hands of another loop than the one that takes a
   job. *)
LEMMA RoomForOne ==
  ASSUME WorkerCount <= Concurrency, IInv, NEW l \in Loops, act[l].pc = "taking"
  PROVE  Cardinality(With("running")) < Concurrency
<1> DEFINE R == With("running")
           f == [j \in R |-> CHOOSE k \in Loops : act[k].job = j /\ act[k].pc \in Holding]
<1>1. Up
  <2>1. l \in Actors /\ l # Boot
    BY ActorTypes
  <2>2. QED
    BY <2>1 DEF IInv, Quiet
<1>2. \A j \in R : f[j] \in Loops /\ act[f[j]].job = j /\ act[f[j]].pc \in Holding
  BY <1>1 DEF IInv, NoOrphans
<1>3. \A j \in R : f[j] \in Loops \ {l}
  <2>1. "taking" \notin Holding
    BY DEF Holding
  <2>2. QED
    BY <1>2, <2>1
<1>4. f \in [R -> Loops \ {l}]
  BY <1>3
<1> HIDE DEF f
<1>5. f \in Injection(R, Loops \ {l})
  BY <1>2, <1>4 DEF Injection, IsInjective
<1>6. IsFiniteSet(Loops) /\ Cardinality(Loops) = WorkerCount
  BY FS_Interval, QueueAssumption DEF Loops, QueueAssumption
<1>7. IsFiniteSet(Loops \ {l}) /\ Cardinality(Loops \ {l}) = WorkerCount - 1
  BY <1>6, FS_RemoveElement
<1>8. Cardinality(R) <= Cardinality(Loops \ {l}) /\ IsFiniteSet(R)
  BY <1>5, <1>7, FS_Injection
<1>9. Cardinality(R) \in Nat /\ WorkerCount \in Nat /\ Concurrency \in Nat
  BY <1>8, FS_CardinalityType, QueueAssumption DEF QueueAssumption
<1>10. QED
  BY <1>7, <1>8, <1>9

LEMMA BoardDequeue ==
  ASSUME WorkerCount <= Concurrency, IInv, FileInv, provider = "file", provider' = "file",
         NEW l \in Loops, DequeueWrite(l)
  PROVE  (\E j \in Jobs : Board!Dequeue(j)) \/ UNCHANGED Board!boardVars
<1> DEFINE j == act[l].job
<1>1. /\ l \in Actors /\ act[l].pc = "taking" /\ act[l].pc \notin Free /\ dlq' = dlq
      /\ Write(j, "running", act[l].seen) /\ \E next : Becomes(l, next)
  BY ActorTypes DEF DequeueWrite, Turn, Free
<1>2. doc[j].status \in {"queued", "running"} /\ doc[j].retries = act[l].seen
  <2>1. Agrees(act[l], doc, dlq)
    BY <1>1 DEF FileInv, Agreement
  <2>2. QED
    BY <1>1, <2>1 DEF Agrees
<1>3. Up /\ Up' = Up /\ j \in Jobs
  BY <1>1, Working
<1>4. Statuses' = [Statuses EXCEPT ![j] = "running"] /\ Attempts' = Attempts
  BY <1>1, <1>2, <1>3, BoardWritten DEF IInv
<1>5. CASE doc[j].status = "queued"
  <2>1. Cardinality(With("running")) < Concurrency
    BY <1>1, RoomForOne
  <2>2. Board!Dequeue(j)
    BY <1>1, <1>3, <1>4, <1>5, <2>1, BoardMoves
  <2>3. QED
    BY <1>3, <2>2
<1>6. CASE doc[j].status = "running"
  <2>1. Statuses' = Statuses
    BY <1>3, <1>4, <1>6 DEF Statuses
  <2>2. QED
    BY <1>1, <1>3, <1>4, <2>1, BoardStutters DEF OnBoard
<1>7. QED
  BY <1>2, <1>5, <1>6

LEMMA BoardRoutes ==
  ASSUME IInv, Fresh, FileInv, provider = "file", provider' = "file",
         EnqueueWrite \/ CancelWrite
  PROVE  \E j \in Jobs : Board!Enqueue(j) \/ Board!Cancel(j)
<1> DEFINE j == act[Client].job
<1>1. /\ Client \in Actors /\ act[Client].pc \notin Free /\ dlq' = dlq
      /\ \E next : Becomes(Client, next)
  BY ActorTypes DEF EnqueueWrite, CancelWrite, Turn, Free
<1>2. Agrees(act[Client], doc, dlq)
  BY <1>1 DEF FileInv, Agreement
<1>3. Up /\ Up' = Up /\ j \in Jobs
  BY <1>1, Working
<1>4. CASE EnqueueWrite
  <2>1. Write(j, "queued", 0) /\ act[Client].pc = "inserting"
    BY <1>4 DEF EnqueueWrite, Turn
  <2>2. doc[j].status = "absent"
    BY <1>2, <2>1 DEF Agrees
  <2>3. doc[j].retries = 0
    BY <1>3, <2>2 DEF Fresh
  <2>4. Statuses' = [Statuses EXCEPT ![j] = "queued"] /\ Attempts' = Attempts
    BY <1>3, <2>1, <2>3, BoardWritten DEF IInv
  <2>5. Board!Enqueue(j)
    BY <1>1, <1>3, <2>2, <2>4, BoardMoves
  <2>6. QED
    BY <1>3, <2>5
<1>5. CASE CancelWrite
  <2>1. Write(j, "cancelled", act[Client].seen) /\ act[Client].pc = "withdrawing"
    BY <1>5 DEF CancelWrite, Turn
  <2>2. doc[j].status \in {"queued", "running"} /\ doc[j].retries = act[Client].seen
    BY <1>2, <2>1 DEF Agrees
  <2>3. Statuses' = [Statuses EXCEPT ![j] = "cancelled"] /\ Attempts' = Attempts
    BY <1>3, <2>1, <2>2, BoardWritten DEF IInv
  <2>4. Board!Cancel(j)
    BY <1>1, <1>3, <2>2, <2>3, BoardMoves
  <2>5. QED
    BY <1>3, <2>4
<1>6. QED
  BY <1>4, <1>5

LEMMA BoardRecover ==
  ASSUME IInv, FileInv, provider = "file", provider' = "file", RecoverWrite
  PROVE  \E j \in Jobs : Board!Recover(j)
<1>1. act[Boot].pc = "requeueing" /\ Boot \in Actors /\ dlq' = dlq
  BY ActorTypes DEF RecoverWrite, Turn
<1>2. PICK j \in act[Boot].rest :
        /\ Write(j, "queued", doc[j].retries)
        /\ Becomes(Boot, [act[Boot] EXCEPT !.rest = @ \ {j}])
  BY DEF RecoverWrite
<1>3. act[Boot] \in Activity
  BY <1>1 DEF IInv, TypeOK
<1>4. j \in Jobs
  BY <1>3 DEF Activity
<1>5. doc[j].status = "running"
  <2>1. Agrees(act[Boot], doc, dlq)
    BY <1>1 DEF FileInv, Agreement
  <2>2. QED
    BY <1>1, <2>1 DEF Agrees
<1>6. ~Up /\ Up' = Up
  <2> DEFINE next == [act[Boot] EXCEPT !.rest = @ \ {j}]
  <2>1. next.pc = "requeueing"
    BY <1>1, <1>3 DEF Activity
  <2>2. act'[Boot] = next
    BY <1>1, <1>2 DEF Becomes, IInv, TypeOK
  <2> HIDE DEF next
  <2>3. QED
    BY <1>1, <2>1, <2>2 DEF Up
<1>7. Statuses' = [Statuses EXCEPT ![j] = "queued"] /\ Attempts' = Attempts
  BY <1>2, <1>4, BoardWritten DEF IInv
<1>8. Board!Recover(j)
  BY <1>1, <1>4, <1>5, <1>6, <1>7, BoardMoves
<1>9. QED
  BY <1>4, <1>8

LEMMA BoardRestarts ==
  ASSUME IInv, provider = "file", provider' = "file", Serve \/ Crash
  PROVE  Board!Restart \/ Board!Crash
<1>1. CASE Serve
  <2>1. With("running") = {} /\ ~Up
    BY <1>1 DEF Serve, Turn, IInv, Listed, Up
  <2>2. Board!Running = {}
    BY <2>1 DEF Board!Running, Filed, With
  <2>3. Up'
    BY <1>1, ActorTypes DEF Serve, At, Up
  <2>4. doc' = doc /\ dlq' = dlq
    BY <1>1 DEF Serve
  <2>5. Board!Restart
    BY <2>1, <2>2, <2>3, <2>4 DEF Board!Restart, Filed
  <2>6. QED
    BY <2>5
<1>2. CASE Crash
  <2>1. Up /\ doc' = doc /\ dlq' = dlq
    BY <1>2 DEF Crash
  <2>2. Up' = FALSE
    BY <1>2, ActorTypes DEF Crash, At, Up
  <2>3. Board!Crash
    BY <2>1, <2>2 DEF Board!Crash, Filed
  <2>4. QED
    BY <2>3
<1>3. QED
  BY <1>1, <1>2

(* Events and reads change nothing on the board. *)
LEMMA BoardRests ==
  ASSUME IInv, provider = "file", provider' = "file",
         \/ Start \/ RecoverList \/ EnqueueCount \/ CancelRead
         \/ \E j \in Jobs : TimeOut(j) \/ Enqueue(j) \/ Indexed(j) \/ Cancel(j)
         \/ \E l \in Loops : Poll(l) \/ Executed(l) \/ DequeueCount(l) \/ DequeuePick(l)
         \/ \E a \in Actors : CompleteRead(a) \/ FailRead(a) \/ DlqList(a)
  PROVE  UNCHANGED Board!boardVars
<1>1. doc' = doc /\ dlq' = dlq
  BY Zenon
  DEF Start, RecoverList, EnqueueCount, CancelRead, TimeOut, Enqueue, Indexed, Cancel, Poll,
      Executed, DequeueCount, DequeuePick, CompleteRead, FailRead, DlqList
<1>2. ASSUME NEW a \in Actors, a # Boot, NEW next, Becomes(a, next) PROVE Up' = Up
  <2>1. act'[Boot] = act[Boot]
    BY <1>2, ActorTypes DEF Becomes, IInv, TypeOK
  <2>2. QED
    BY <2>1 DEF Up
<1>3. Up' = Up
  <2>1. CASE Start
    <3>1. act'[Boot].pc = "recovering" /\ act[Boot].pc = "off"
      BY <2>1, ActorTypes DEF Start, OnEvent, Becomes, IInv, TypeOK, At
    <3>2. QED
      BY <3>1 DEF Up
  <2>2. CASE RecoverList
    <3>1. act'[Boot].pc = "requeueing" /\ act[Boot].pc = "recovering"
      BY <2>2, ActorTypes DEF RecoverList, Turn, Becomes, IInv, TypeOK, At
    <3>2. QED
      BY <3>1 DEF Up
  <2>3. CASE EnqueueCount \/ CancelRead
    BY <1>2, <2>3, ActorTypes DEF EnqueueCount, CancelRead
  <2>4. CASE \E j \in Jobs : TimeOut(j) \/ Enqueue(j) \/ Indexed(j) \/ Cancel(j)
    BY <1>2, <2>4, ActorTypes DEF TimeOut, Enqueue, Indexed, Cancel, Request, OnEvent
  <2>5. CASE \E l \in Loops : Poll(l) \/ Executed(l) \/ DequeueCount(l) \/ DequeuePick(l)
    <3>1. PICK l \in Loops : \E next : Becomes(l, next)
      BY <2>5, Zenon DEF Poll, Executed, DequeueCount, DequeuePick, OnEvent
    <3>2. l \in Actors /\ l # Boot
      BY ActorTypes
    <3>3. QED
      BY <1>2, <3>1, <3>2
  <2>6. CASE \E a \in Actors : CompleteRead(a) \/ FailRead(a) \/ DlqList(a)
    <3>1. PICK a \in Actors :
            /\ act[a].pc \in {"completing", "failing", "burying"}
            /\ \E next : Becomes(a, next)
      BY <2>6, Zenon DEF CompleteRead, FailRead, DlqList, Turn
    <3>2. a # Boot
      BY <3>1 DEF IInv, BootStates
    <3>3. QED
      BY <1>2, <3>1, <3>2
  <2>7. QED
    BY <2>1, <2>2, <2>3, <2>4, <2>5, <2>6
<1>4. QED
  BY <1>1, <1>3, BoardStutters DEF OnBoard, Statuses, Attempts

(* With another provider the board stands still. *)
LEMMA BoardAway ==
  ASSUME provider # "file", provider' = provider
  PROVE  UNCHANGED Board!boardVars
  BY DEF Board!boardVars, Filed

LEMMA NextOnBoard ==
  ASSUME WorkerCount <= Concurrency, BoardInv, [Next]_vars
  PROVE  [Board!Next]_(Board!boardVars)
<1>1. provider' = provider
  BY ProviderStays
<1>2. CASE provider # "file"
  BY <1>1, <1>2, BoardAway
<1>3. CASE provider = "file" /\ UNCHANGED vars
  <2>1. doc' = doc /\ dlq' = dlq /\ Up' = Up
    BY <1>3 DEF vars, Up
  <2>2. QED
    BY <1>1, <1>3, <2>1, BoardStutters DEF OnBoard, Statuses, Attempts
<1>4. CASE provider = "file" /\ Next
  <2>1. provider = "file" /\ provider' = "file" /\ IInv /\ Fresh /\ FileInv
    BY <1>1, <1>4 DEF BoardInv
  <2>2. \/ Serve \/ Crash
        \/ RecoverWrite
        \/ EnqueueWrite \/ CancelWrite
        \/ \E l \in Loops : DequeueWrite(l)
        \/ \E a \in Actors : CompleteWrite(a) \/ FailRetry(a) \/ FailFinally(a)
        \/ \E a \in Actors : DlqEvict(a) \/ DlqWrite(a)
        \/ Start \/ RecoverList \/ EnqueueCount \/ CancelRead
        \/ \E j \in Jobs : TimeOut(j) \/ Enqueue(j) \/ Indexed(j) \/ Cancel(j)
        \/ \E l \in Loops : Poll(l) \/ Executed(l) \/ DequeueCount(l) \/ DequeuePick(l)
        \/ \E a \in Actors : CompleteRead(a) \/ FailRead(a) \/ DlqList(a)
    BY <1>4 DEF Next, Turns, Requests, LoopEvent, Complete, Fail
  <2>3. CASE Serve \/ Crash
    BY <2>1, <2>3, BoardRestarts DEF Board!Next
  <2>4. CASE RecoverWrite
    BY <2>1, <2>4, BoardRecover DEF Board!Next
  <2>5. CASE EnqueueWrite \/ CancelWrite
    BY <2>1, <2>5, BoardRoutes DEF Board!Next
  <2>6. CASE \E l \in Loops : DequeueWrite(l)
    BY <2>1, <2>6, BoardDequeue DEF Board!Next
  <2>7. CASE \E a \in Actors : CompleteWrite(a) \/ FailRetry(a) \/ FailFinally(a)
    BY <2>1, <2>7, BoardOutcome DEF Board!Next
  <2>8. CASE \E a \in Actors : DlqEvict(a) \/ DlqWrite(a)
    BY <2>1, <2>8, BoardLetters DEF Board!Next
  <2>9. CASE \/ Start \/ RecoverList \/ EnqueueCount \/ CancelRead
             \/ \E j \in Jobs : TimeOut(j) \/ Enqueue(j) \/ Indexed(j) \/ Cancel(j)
             \/ \E l \in Loops : Poll(l) \/ Executed(l) \/ DequeueCount(l) \/ DequeuePick(l)
             \/ \E a \in Actors : CompleteRead(a) \/ FailRead(a) \/ DlqList(a)
    BY <2>1, <2>9, BoardRests
  <2>10. QED
    BY <2>2, <2>3, <2>4, <2>5, <2>6, <2>7, <2>8, <2>9
<1>5. QED
  BY <1>2, <1>3, <1>4

LEMMA InitOnBoard == Init => BoardInv /\ Board!Init
<1> SUFFICES ASSUME Init PROVE BoardInv /\ Board!Init
  OBVIOUS
<1>1. BoardInv
  BY InitIInv, InitFile DEF BoardInv, Fresh, Init
<1>2. CASE provider = "file"
  <2>1. Up \in BOOLEAN
    BY DEF Up
  <2>2. QED
    BY <1>1, <1>2, <2>1 DEF Board!Init, Filed, Init
<1>3. CASE provider # "file"
  BY <1>1, <1>3 DEF Board!Init, Filed
<1>4. QED
  BY <1>2, <1>3

(* With a file provider every queue operation, of any jobs and as many loops as
   may run one, behaves like one step of JobBoard: among others the calls that
   interleave when a worker starts never run more jobs than Concurrency, an
   outcome is never overwritten, and of the dead letters no more than MaxDlqSize
   are kept if a page shows that many, while otherwise (by default, with 1000
   and a page of 50) none is ever evicted.  A worker whose loops are more than
   the limit of running jobs is outside the theorem: the run of the model
   checker is about one. *)
THEOREM ImplementsJobBoardTheorem ==
  ASSUME WorkerCount <= PageSize, WorkerCount <= Concurrency
  PROVE  Spec => ImplementsJobBoard
<1>1. Init => BoardInv /\ Board!Init
  BY InitOnBoard
<1>2. BoardInv /\ [Next]_vars => BoardInv'
  BY NextBoardInv
<1>3. BoardInv /\ [Next]_vars => [Board!Next]_(Board!boardVars)
  BY NextOnBoard
<1>4. QED
  BY <1>1, <1>2, <1>3, PTL DEF Spec, ImplementsJobBoard, Board!Spec
=============================================================================
