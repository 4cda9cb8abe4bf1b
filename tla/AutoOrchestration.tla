-------------------------- MODULE AutoOrchestration --------------------------
(***************************************************************************)
(* The auto-orchestration of the server (services/auto-orchestration.ts):  *)
(* two timers over the command queue.  The dispatcher claims the first     *)
(* pending command, posts it (which resets the engine) and posts the first *)
(* advance.  The cycle reads the state of the engine, executes the agents  *)
(* of that state, posts the next advance, and settles the command that is  *)
(* processed when the engine is COMPLETED or in ERROR.                     *)
(*                                                                         *)
(* An action is the code between two awaits, of a timer or of the handler  *)
(* of the route that it posts to.  The handler of POST /advance awaits     *)
(* injected agents when a HYBRID run is about to enter certain states, and *)
(* so is cut in two there.  The engine is abstracted to its state and its  *)
(* transition marker, as status() and a restart show them: module          *)
(* TransitionEngine says how they come about.  The queue is read and       *)
(* written under the lock of module FileLock, in one step.                 *)
(***************************************************************************)
EXTENDS Naturals, Sequences, FiniteSets

CONSTANTS
    Flow,           \* the states of a run, in order
    AgentStates,    \* those in which agents are executed
    Critics,        \* those that are left with a verdict
    Hybrid,         \* those before which a HYBRID run may inject agents
    ReviewGate,     \* the profile holds an advance while approvals are pending
    Strict,         \* AUTO_GATE_MODE is "strict"
    Kind,           \* what each command that arrives may be, in order
    MaxQueue,       \* MAX_QUEUE_SIZE
    MaxNotices,     \* AUTO_STALLED_ESCALATION_NOTICES
    MaxTrouble      \* bound on crashes, throwing writes, pauses and calls of users

Kinds == {"fresh", "continue", "unknown"}
States == {Flow[i] : i \in DOMAIN Flow}
Shown == States \cup {"ERROR"}
Commands == DOMAIN Kind
None == 0
Nowhere == "none"

ASSUME OrchestrationAssumption ==
    /\ Flow \in Seq(STRING) /\ Len(Flow) >= 2
    /\ \A i, j \in DOMAIN Flow : Flow[i] = Flow[j] => i = j
    /\ Flow[1] = "IDLE" /\ Flow[Len(Flow)] = "COMPLETED"
    /\ {"ERROR", Nowhere} \cap States = {}
    /\ AgentStates \subseteq States \ {"IDLE", "COMPLETED"}
    /\ Critics \subseteq States \ {"IDLE", "COMPLETED"}
    /\ Hybrid \subseteq States
    /\ Strict \in BOOLEAN /\ ReviewGate \in BOOLEAN
    /\ Kind \in Seq(SUBSET Kinds)
    /\ MaxQueue \in Nat \ {0} /\ MaxNotices \in Nat \ {0}
    /\ MaxTrouble \in Nat

VARIABLES
    queue,          \* file: the entries, oldest first
    arrived,        \* how many commands have arrived
    engine,         \* the state of the engine
    marker,         \* memory: transitionStatus is IN_PROGRESS
    intent,         \* file: the marker is IN_PROGRESS, or a replaced engine wrote it
    paused,         \* file: an operator has paused the orchestration
    dsp,            \* the dispatcher: pc and the command claimed
    cyc,            \* the cycle: pc and what it knows
    last,           \* _lastAutoExecutedState
    stall,          \* state and number of notices of a stalled transition
    trouble,        \* how often trouble struck
    owner,          \* history: the command that is processed, once its run has begun
    finished,       \* history: commands whose own run was COMPLETED
    ran,            \* history: states whose agents were executed in this run
    overtaken,      \* history: commands settled or moved by what was read before their run
    cutShort        \* history: commands that a caller, crash or fault cut short

engineVars == <<engine, marker, intent, paused>>
ghosts == <<owner, finished, ran, overtaken, cutShort>>
vars == <<queue, arrived, engineVars, dsp, cyc, last, stall, trouble, ghosts>>

(* replaced: the engine that the route holds while it awaits is no longer the one
   the others use.  The rest is history: from, the state in which the command left
   the engine when it was posted; run, the command whose run the cycle read (None
   if that had not begun); early, that the cycle took up its command before the
   dispatcher forgot the state executed last. *)
DspResting == [pc |-> "idle", cmd |-> None, from |-> Nowhere, replaced |-> FALSE]
CycResting == [pc |-> "idle", seen |-> Nowhere, stalled |-> FALSE,
               cmd |-> None, outcome |-> "ERROR", caught |-> FALSE,
               verdict |-> "none", replaced |-> FALSE, run |-> None, early |-> FALSE]
NoStall == [state |-> Nowhere, notices |-> 0]

Entry(c, s) == [cmd |-> c, status |-> s]
Statuses == {"PENDING", "PROCESSING", "DONE", "ERROR"}

TypeOK ==
    /\ queue \in Seq([cmd : Commands, status : Statuses])
    /\ arrived \in 0..Len(Kind)
    /\ engine \in Shown
    /\ marker \in BOOLEAN /\ intent \in BOOLEAN /\ paused \in BOOLEAN
    /\ dsp \in [pc : {"idle", "posting", "starting", "injecting", "noting", "rejecting"},
                cmd : Commands \cup {None}, from : Shown \cup {Nowhere}, replaced : BOOLEAN]
    /\ cyc \in [pc : {"idle", "judging", "executing", "advancing", "injecting", "failed",
                      "settling"},
                seen : Shown \cup {Nowhere}, stalled : BOOLEAN,
                cmd : Commands \cup {None}, outcome : {"DONE", "ERROR"},
                caught : BOOLEAN, verdict : {"none", "APPROVED", "REJECTED"},
                replaced : BOOLEAN, run : Commands \cup {None}, early : BOOLEAN]
    /\ last \in States \cup {Nowhere}
    /\ stall \in [state : Shown \cup {Nowhere}, notices : 0..MaxNotices]
    /\ trouble \in 0..MaxTrouble
    /\ owner \in Commands \cup {None}
    /\ finished \subseteq Commands
    /\ overtaken \subseteq Commands /\ cutShort \subseteq Commands
    /\ ran \subseteq States

Init ==
    /\ queue = <<>> /\ arrived = 0
    /\ engine = "IDLE" /\ marker = FALSE /\ intent = FALSE /\ paused = FALSE
    /\ dsp = DspResting /\ cyc = CycResting
    /\ last = Nowhere /\ stall = NoStall
    /\ trouble = 0
    /\ owner = None /\ finished = {} /\ ran = {}
    /\ overtaken = {} /\ cutShort = {}

Strikes == trouble < MaxTrouble /\ trouble' = trouble + 1

With(s) == {queue[i].cmd : i \in {k \in DOMAIN queue : queue[k].status = s}}
Processing == With("PROCESSING")

Turn(pc) == dsp' = [dsp EXCEPT !.pc = pc]
Goto(pc) == cyc' = [cyc EXCEPT !.pc = pc]
Rest == cyc' = CycResting

-----------------------------------------------------------------------------
(* engine.advance.  verdict is the one the caller sends; without one a critic
   state is left as any other.  The run that moves on is that of command c. *)
NextState(s) ==
    {Flow[i + 1] : i \in {k \in 1..(Len(Flow) - 1) : Flow[k] = s}}

Accepts(verdict) ==
    NextState(engine) # {} /\ ~(engine \in Critics /\ verdict = "REJECTED")

Enters(s, c) ==
    /\ engine' = s
    /\ finished' = IF s = "COMPLETED" THEN finished \cup ({c} \ {None}) ELSE finished

Moves(c) ==
    /\ \E s \in NextState(engine) : Enters(s, c)
    /\ marker' = FALSE /\ intent' = FALSE
    /\ owner' = c

Advanced(verdict, c) ==
    /\ Accepts(verdict) /\ Moves(c)
    /\ UNCHANGED <<paused, trouble>>

(* A rejected gate leaves the machine in ERROR and the marker of the session
   IN_PROGRESS; a finished engine is left alone; a write that throws may do so
   before or after the machine has moved. *)
Refused(verdict) ==
    /\ \/ /\ engine \in Critics /\ verdict = "REJECTED"
          /\ engine' = "ERROR"
          /\ marker' = FALSE /\ intent' = TRUE
          /\ UNCHANGED <<finished, trouble>>
       \/ /\ NextState(engine) = {}
          /\ UNCHANGED <<engine, marker, intent, finished, trouble>>
       \/ /\ Accepts(verdict) /\ Strikes
          /\ \E s \in NextState(engine) \cup {engine} : Enters(s, owner)
          /\ marker' \in {marker, FALSE} /\ intent' \in {intent, TRUE}
    /\ UNCHANGED <<paused, owner>>

(* POST /advance up to that call.  It answers 409 while the orchestration is
   paused or approvals are pending.  In a HYBRID run it then awaits the agents
   injected before the next state, which may fail, and looks at none of this
   again afterwards. *)
EngineUntouched == UNCHANGED <<engineVars, owner, finished, trouble>>

TurnedAway == (paused \/ ReviewGate) /\ EngineUntouched

Awaits == ~paused /\ NextState(engine) \cap Hybrid # {} /\ EngineUntouched

(* The engine that the route held over its await moves in its own memory and
   writes the same files. *)
MovesReplaced ==
    /\ intent' \in {intent, TRUE}
    /\ UNCHANGED <<engine, marker, paused, owner, finished, trouble>>

Reset ==
    /\ engine' = "IDLE"
    /\ ran' = {}
    /\ UNCHANGED intent

(* An engine created anew from the files: under a marker it comes up where the
   transition log leads, and otherwise where the session says, which is another
   place only if a replaced engine wrote it. *)
Created ==
    /\ marker' \in {intent', FALSE}
    /\ engine' \in IF intent' THEN States ELSE {engine}

-----------------------------------------------------------------------------
(* POST /api/command: append, and keep the newest entries. *)
Enqueue ==
    /\ arrived < Len(Kind)
    /\ arrived' = arrived + 1
    /\ LET q == Append(queue, Entry(arrived', "PENDING")) IN
       queue' = IF Len(q) <= MaxQueue THEN q ELSE SubSeq(q, Len(q) - MaxQueue + 1, Len(q))
    /\ cutShort' = cutShort \cup (Processing \ Processing')
    /\ UNCHANGED <<engineVars, dsp, cyc, last, stall, trouble, owner, finished, ran, overtaken>>

First(q, s) == {i \in DOMAIN q : q[i].status = s /\ \A j \in 1..(i - 1) : q[j].status # s}

(* Mutated form: no look for a command that is processed. *)
ClaimAnyway ==
    /\ dsp.pc = "idle"
    /\ \E i \in First(queue, "PENDING") :
        /\ queue' = [queue EXCEPT ![i].status = "PROCESSING"]
        /\ dsp' = [DspResting EXCEPT !.pc = "posting", !.cmd = queue[i].cmd]
    /\ owner' = None /\ cyc' = [cyc EXCEPT !.run = None]
    /\ UNCHANGED <<arrived, engineVars, last, stall, trouble, finished, ran, overtaken, cutShort>>

(* The run of the command that is claimed has not begun, whatever the engine is
   in and the cycle has read. *)
Claim ==
    /\ dsp.pc = "idle"
    /\ Processing = {}
    /\ \E i \in First(queue, "PENDING") :
        /\ queue' = [queue EXCEPT ![i].status = "PROCESSING"]
        /\ dsp' = [DspResting EXCEPT !.pc = "posting", !.cmd = queue[i].cmd]
    /\ owner' = None /\ cyc' = [cyc EXCEPT !.run = None]
    /\ UNCHANGED <<arrived, engineVars, last, stall, trouble, finished, ran, overtaken, cutShort>>

(* POST /command resets the engine, unless the command is CONTINUE.  A mode
   the flow does not know is refused; a reset may throw half way. *)
Posted == dsp' = [dsp EXCEPT !.pc = "starting", !.from = engine']

PostCommand ==
    /\ dsp.pc = "posting"
    /\ \/ /\ "fresh" \in Kind[dsp.cmd] /\ Reset
          /\ Posted
          /\ UNCHANGED trouble
       \/ /\ "continue" \in Kind[dsp.cmd]
          /\ UNCHANGED <<engine, intent, ran, trouble>>
          /\ Posted
       \/ /\ "unknown" \in Kind[dsp.cmd]
          /\ UNCHANGED <<engine, intent, ran, trouble>>
          /\ Turn("rejecting")
       \/ /\ "fresh" \in Kind[dsp.cmd] /\ Strikes
          /\ Reset \/ UNCHANGED <<engine, intent, ran>>
          /\ Turn("rejecting")
    /\ UNCHANGED <<queue, arrived, marker, paused, cyc, last, stall, owner, finished, overtaken,
                   cutShort>>

(* The call that begins the run. *)
Begins ==
    \/ Advanced("none", dsp.cmd) /\ Turn("noting")
    \/ Refused("none") /\ Turn("rejecting")

PostAdvance ==
    /\ dsp.pc = "starting"
    /\ \/ TurnedAway /\ Turn("rejecting")
       \/ Awaits /\ Turn("injecting")
       \/ ~paused /\ Begins
    /\ UNCHANGED <<queue, arrived, cyc, last, stall, ran, overtaken, cutShort>>

FirstInjected ==
    /\ dsp.pc = "injecting"
    /\ \/ EngineUntouched /\ Turn("rejecting")
       \/ ~dsp.replaced /\ Begins
       \/ dsp.replaced /\ MovesReplaced /\ (Turn("noting") \/ Turn("rejecting"))
    /\ UNCHANGED <<queue, arrived, cyc, last, stall, ran, overtaken, cutShort>>

Note ==
    /\ dsp.pc = "noting"
    /\ last' = Nowhere
    /\ dsp' = DspResting
    /\ UNCHANGED <<queue, arrived, engineVars, cyc, stall, trouble, ghosts>>

(* finalizeClaimedCommand: only an entry that is still processed. *)
Finalized(c, outcome) ==
    [i \in DOMAIN queue |->
        IF queue[i] = Entry(c, "PROCESSING") THEN Entry(c, outcome) ELSE queue[i]]

(* Mutated form: the dispatcher only logs that the command failed. *)
RejectSilently ==
    /\ dsp.pc = "rejecting"
    /\ dsp' = DspResting
    /\ UNCHANGED <<queue, arrived, engineVars, cyc, last, stall, trouble, ghosts>>

(* A write that throws is rolled back; the dispatcher gives up. *)
Reject ==
    /\ dsp.pc = "rejecting"
    /\ dsp' = DspResting
    /\ \/ /\ queue' = Finalized(dsp.cmd, "ERROR")
          /\ UNCHANGED <<trouble, cutShort>>
       \/ /\ Strikes
          /\ cutShort' = cutShort \cup {dsp.cmd}
          /\ UNCHANGED queue
    /\ UNCHANGED <<arrived, engineVars, cyc, last, stall, owner, finished, ran, overtaken>>

-----------------------------------------------------------------------------
(* The cycle.  It reads the status; when an operator has paused the
   orchestration it does nothing more. *)
Read ==
    /\ cyc.pc = "idle" /\ ~paused
    /\ cyc' = [CycResting EXCEPT !.pc = "judging", !.seen = engine, !.stalled = marker,
                                 !.run = owner]
    /\ UNCHANGED <<queue, arrived, engineVars, dsp, last, stall, trouble, ghosts>>

(* finalizeProcessingCommandForCycle: whichever command is processed now. *)
Settling(outcome, caught) ==
    \/ Processing = {} /\ Rest
    \/ \E c \in Processing : cyc' = [cyc EXCEPT !.pc = "settling", !.cmd = c,
                                            !.outcome = outcome, !.caught = caught]

Judged(seen) ==
    /\ cyc.pc = "judging" /\ ~cyc.stalled
    /\ cyc.seen \in seen
    /\ stall' = NoStall
    /\ UNCHANGED <<queue, arrived, engineVars, dsp, trouble, owner, finished, ran, cutShort>>

Noticed == [stall EXCEPT !.notices = IF @ < MaxNotices THEN @ + 1 ELSE @]

(* Mutated forms: the notices are never reset; they never settle a command. *)
JudgeStalledUncapped ==
    /\ cyc.pc = "judging" /\ cyc.stalled
    /\ \/ /\ stall.state # cyc.seen
          /\ stall' = [state |-> cyc.seen, notices |-> 0]
          /\ Rest
       \/ /\ stall.state = cyc.seen
          /\ stall' = [stall EXCEPT !.notices = @ + 1]
          /\ IF stall.notices + 1 < MaxNotices THEN Rest ELSE Settling("ERROR", FALSE)
    /\ UNCHANGED <<queue, arrived, engineVars, dsp, last, trouble, ghosts>>

JudgeStalledForever ==
    /\ cyc.pc = "judging" /\ cyc.stalled
    /\ stall' = [state |-> cyc.seen, notices |-> 0]
    /\ Rest
    /\ UNCHANGED <<queue, arrived, engineVars, dsp, last, trouble, ghosts>>

(* The cycle that finds a new stalled state starts the clock; one that crosses
   the next threshold of time sends a notice, with a remediation task, whose write
   may throw.  The last notice settles the command, and only when that is done
   (SettleCommand) does the count start again. *)
JudgeStalled ==
    /\ cyc.pc = "judging" /\ cyc.stalled
    /\ \/ /\ stall.state # cyc.seen
          /\ stall' = [state |-> cyc.seen, notices |-> 0]
          /\ Rest
          /\ UNCHANGED trouble
       \/ /\ stall.state = cyc.seen /\ Strikes
          /\ stall' = Noticed
          /\ Goto("failed")
       \/ /\ stall.state = cyc.seen /\ Noticed.notices < MaxNotices
          /\ stall' = Noticed
          /\ Rest
          /\ UNCHANGED trouble
       \/ /\ stall.state = cyc.seen /\ Noticed.notices = MaxNotices
          /\ stall' = IF Processing = {} THEN NoStall ELSE Noticed
          /\ Settling("ERROR", FALSE)
          /\ UNCHANGED trouble
    /\ UNCHANGED <<queue, arrived, engineVars, dsp, last, ghosts>>

(* What the cycle has read is not the run of the command that is processed. *)
Overtakes == overtaken' = overtaken \cup (Processing \ {cyc.run})

(* Mutated form: the end of a run is its completion. *)
JudgeEndAsDone ==
    /\ Judged({"COMPLETED", "ERROR"})
    /\ last' = Nowhere
    /\ Settling("DONE", FALSE)
    /\ Overtakes

JudgeEnd ==
    /\ Judged({"COMPLETED", "ERROR"})
    /\ last' = Nowhere
    /\ Settling(IF cyc.seen = "COMPLETED" THEN "DONE" ELSE "ERROR", FALSE)
    /\ Overtakes

JudgeIdle ==
    /\ Judged({"IDLE"})
    /\ last' = Nowhere
    /\ Rest
    /\ UNCHANGED overtaken

JudgeAgents ==
    /\ Judged(AgentStates \ {last})
    /\ Goto("executing")
    /\ UNCHANGED <<last, overtaken>>

(* After the agents: advance if a command is processed. *)
Proceed(early) ==
    \/ Processing = {} /\ Rest
    \/ \E c \in Processing :
        cyc' = [cyc EXCEPT !.pc = "advancing", !.cmd = c, !.early = early]

JudgeOther ==
    /\ Judged((States \ {"IDLE", "COMPLETED"}) \ (AgentStates \ {last}))
    /\ Proceed(dsp.pc = "noting")
    /\ UNCHANGED <<last, overtaken>>

(* Mutated form: agents that fail do not stop the cycle. *)
ExecutedAnyway ==
    /\ cyc.pc = "executing"
    /\ last' = cyc.seen
    /\ ran' \in {ran, ran \cup {cyc.seen}}
    /\ Proceed(FALSE)
    /\ UNCHANGED <<queue, arrived, engineVars, dsp, stall, trouble, owner, finished,
                   overtaken, cutShort>>

Executed ==
    /\ cyc.pc = "executing"
    /\ \/ /\ last' = cyc.seen
          /\ ran' = ran \cup {cyc.seen}
          /\ Proceed(FALSE)
       \/ /\ Goto("failed")
          /\ UNCHANGED <<last, ran>>
    /\ UNCHANGED <<queue, arrived, engineVars, dsp, stall, trouble, owner, finished, overtaken, cutShort>>

(* POST /validate-gate.  There is no verdict when the state read is not a
   critic's, when there are no deliverables, or when the request fails; in advisory
   mode a rejection is sent as an approval. *)
Verdicts ==
    IF cyc.seen \in Critics
    THEN {"none", "APPROVED"} \cup (IF Strict THEN {"REJECTED"} ELSE {})
    ELSE {"none"}

(* The call that moves the run on, or the run that the engine is in meanwhile. *)
MovesOn(verdict) ==
    /\ \/ Advanced(verdict, owner) /\ Rest
       \/ Refused(verdict) /\ Goto("failed")
    /\ IF engine' # engine THEN Overtakes ELSE UNCHANGED overtaken

(* A rejection writes a remediation task first, which may throw. *)
Advance ==
    /\ cyc.pc = "advancing"
    /\ \/ /\ cyc.seen \in Critics /\ Strikes
          /\ Goto("failed")
          /\ UNCHANGED <<engineVars, owner, finished, overtaken>>
       \/ TurnedAway /\ Goto("failed") /\ UNCHANGED overtaken
       \/ \E verdict \in Verdicts :
            \/ /\ Awaits
               /\ cyc' = [cyc EXCEPT !.pc = "injecting", !.verdict = verdict]
               /\ UNCHANGED overtaken
            \/ ~paused /\ MovesOn(verdict)
    /\ UNCHANGED <<queue, arrived, dsp, last, stall, ran, cutShort>>

NextInjected ==
    /\ cyc.pc = "injecting"
    /\ \/ EngineUntouched /\ Goto("failed") /\ UNCHANGED overtaken
       \/ ~cyc.replaced /\ MovesOn(cyc.verdict)
       \/ cyc.replaced /\ MovesReplaced /\ (Rest \/ Goto("failed")) /\ UNCHANGED overtaken
    /\ UNCHANGED <<queue, arrived, dsp, last, stall, ran, cutShort>>

(* The catch block. *)
Catch ==
    /\ cyc.pc = "failed"
    /\ Settling("ERROR", TRUE)
    /\ UNCHANGED <<queue, arrived, engineVars, dsp, last, stall, trouble, ghosts>>

(* A write that throws is rolled back and caught, once; the notices of a stalled
   transition are then counted on. *)
SettleCommand ==
    /\ cyc.pc = "settling"
    /\ \/ /\ queue' = Finalized(cyc.cmd, cyc.outcome)
          /\ stall' = IF cyc.stalled /\ ~cyc.caught THEN NoStall ELSE stall
          /\ Rest
          /\ UNCHANGED trouble
       \/ /\ Strikes
          /\ IF cyc.caught THEN Rest ELSE Goto("failed")
          /\ UNCHANGED <<queue, stall>>
    /\ UNCHANGED <<arrived, engineVars, dsp, last, ghosts>>

-----------------------------------------------------------------------------
(* Callers of the API: reset, command, override and activate-command put the
   engine back to IDLE (override also pauses, reset and command may create a
   new engine first), active-pack creates a new engine, advance moves it, error
   and stop end it. *)
Interfered ==
    /\ cutShort' = cutShort \cup Processing \cup ({dsp.cmd, cyc.cmd} \ {None})
    /\ UNCHANGED overtaken

(* A route that awaits goes on with the engine it has got. *)
Replaced ==
    /\ dsp' = [dsp EXCEPT !.replaced = (dsp.pc = "injecting")]
    /\ cyc' = [cyc EXCEPT !.replaced = (cyc.pc = "injecting")]

UserReset ==
    /\ Strikes /\ Interfered
    /\ Reset /\ owner' = None
    /\ \/ UNCHANGED <<marker, dsp, cyc>>
       \/ marker' \in {intent, FALSE} /\ Replaced
    /\ paused' \in {paused, TRUE}
    /\ UNCHANGED <<queue, arrived, last, stall, finished>>

UserSwitchesPack ==
    /\ Strikes /\ Interfered
    /\ UNCHANGED intent /\ Created /\ Replaced
    /\ UNCHANGED <<paused, queue, arrived, last, stall, owner, finished, ran>>

(* The await of this caller is not a step of its own: the pause may have come
   after the look at it. *)
UserAdvance ==
    /\ Strikes /\ Interfered
    /\ paused => Hybrid # {}
    /\ Accepts("none") /\ Moves(owner)
    /\ UNCHANGED <<paused, queue, arrived, dsp, cyc, last, stall, ran>>

UserError ==
    /\ Strikes /\ Interfered
    /\ engine' = "ERROR"
    /\ UNCHANGED <<marker, intent, paused, queue, arrived, dsp, cyc, last, stall,
                   owner, finished, ran>>

(* pauseAtCheckpoint marks the transition of the session COMPLETE. *)
Pause ==
    /\ ~paused /\ Strikes
    /\ paused' = TRUE /\ intent' = FALSE
    /\ UNCHANGED <<queue, arrived, engine, marker, dsp, cyc, last, stall, ghosts>>

Resume ==
    /\ paused /\ paused' = FALSE
    /\ UNCHANGED <<queue, arrived, engine, marker, intent, dsp, cyc, last, stall,
                   trouble, ghosts>>

(* The process ends and starts again.  It may end inside an advance. *)
Crash ==
    /\ Strikes
    /\ \E mid \in IF NextState(engine) # {} THEN BOOLEAN ELSE {FALSE} :
        /\ intent' = (intent \/ mid)
        /\ Created
    /\ dsp' = DspResting /\ cyc' = CycResting
    /\ last' = Nowhere /\ stall' = NoStall
    /\ Interfered
    /\ UNCHANGED <<queue, arrived, paused, owner, finished, ran>>

-----------------------------------------------------------------------------
Dispatch == Claim \/ PostCommand \/ PostAdvance \/ FirstInjected \/ Note \/ Reject
Judge == JudgeStalled \/ JudgeEnd \/ JudgeIdle \/ JudgeAgents \/ JudgeOther
Cycle == Read \/ Judge \/ Executed \/ Advance \/ NextInjected \/ Catch \/ SettleCommand
User == UserReset \/ UserSwitchesPack \/ UserAdvance \/ UserError \/ Pause \/ Resume

Next == Enqueue \/ Dispatch \/ Cycle \/ User \/ Crash

(* The timers run on, requests are answered, agents end. *)
Fairness == WF_vars(Dispatch) /\ WF_vars(Cycle)

Spec == Init /\ [][Next]_vars /\ Fairness

-----------------------------------------------------------------------------
(* Whatever interferes, commands are taken in order, one at a time, and an
   outcome is final. *)
Board == INSTANCE CommandBoard
ImplementsCommandBoard == Board!Spec

(* The page says "Command completed" of a command that is DONE
   (ui/src/hooks/use-sse-events.ts:104).  The run that it began was COMPLETED, but
   for two cases: the cycle judged an end that it had read before that run began
   (overtaken), or a caller or a crash struck while it was at work (cutShort). *)
DoneUnlessInterfered == With("DONE") \subseteq finished \cup overtaken \cup cutShort

(* The first advance of a command leaves the state in which POST /command left the
   engine, unless the cycle moved it in between on what it had read before, or a
   caller or a crash struck.  A pause holds it, but for one that comes while agents
   are injected. *)
FirstAdvanceIsFirst ==
    (PostAdvance \/ FirstInjected) /\ engine' # engine =>
        /\ engine = dsp.from \/ dsp.cmd \in overtaken \cup cutShort
        /\ paused => dsp.pc = "injecting"

(* The cycle, which read the state several awaits earlier, moves the engine only
   out of that state, in the run of the command that is processed and after the
   agents of the state, unless it took up the command before the dispatcher had
   forgotten which state was executed last; all this if it read the state in that
   run, and no caller and no crash struck. *)
CycleMovesWhatItRead ==
    (Advance \/ NextInjected) /\ engine' # engine =>
        /\ \/ /\ engine = cyc.seen /\ owner = cyc.cmd
              /\ engine \in AgentStates => engine \in ran \/ cyc.early
           \/ cyc.run # cyc.cmd
           \/ cyc.cmd \in cutShort
        /\ paused => cyc.pc = "injecting"

(* What the timers have read before an await still holds when they move the engine:
   the two timers, a pause and the await of POST /advance in any order. *)
AdvancesMoveWhatWasRead == [][FirstAdvanceIsFirst /\ CycleMovesWhatItRead]_vars

(* A command that is processed while the engine is IDLE and the dispatcher has
   turned to something else stays so and blocks the queue; the code has no way
   to find it.  That takes a call of a user, a crash or a write that throws
   after the command was claimed. *)
Stranded == Processing \ {dsp.cmd}
OnlyTroubleStrands == engine = "IDLE" => Stranded \subseteq cutShort

(* Every command that waits leaves the queue or gets an outcome some day,
   unless the orchestration is paused or a command is stranded. *)
CommandsSettle ==
    \A c \in Commands :
        c \in With("PENDING") \cup Processing
            ~> \/ c \notin With("PENDING") \cup Processing
               \/ paused
               \/ engine = "IDLE" /\ Stranded # {}
=============================================================================
