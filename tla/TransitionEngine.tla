--------------------------- MODULE TransitionEngine ---------------------------
(***************************************************************************)
(* The orchestrator engine of one process (createEngine in                 *)
(* platform/engine/engine.ts) with its state machine, and the two files it *)
(* survives a crash by: the session (session-state.json) and the           *)
(* transition log (transition-events.json).                                *)
(*                                                                         *)
(* engine.advance is synchronous, so nothing but a crash comes between the *)
(* writes it performs; one action is one write.  A write is atomic (the    *)
(* store writes a temporary file and renames it), but it may throw: before *)
(* the file is replaced, or, for the session, after it, when the durable   *)
(* copy of the session is brought up to date.                              *)
(***************************************************************************)
EXTENDS Integers, Sequences, FiniteSets

CONSTANTS
    FullFlow,       \* the states of the full cycle, in order
    Structural,     \* those that belong to every flow
    PhaseOfCritic,  \* the phase each critic state judges
    PhasesOfMode,   \* the phases each command mode selects
    PhaseChoices,   \* sets of phases a caller may select instead
    DefaultMode,    \* the mode of a session that has none
    Budgets         \* how often each kind of trouble may strike

Modes == DOMAIN PhasesOfMode
Critics == DOMAIN PhaseOfCritic
States == {FullFlow[i] : i \in DOMAIN FullFlow} \cup {"ERROR"}
Trouble == {"crash", "fault", "rejection", "error", "reset"}

ASSUME EngineAssumption ==
    /\ FullFlow \in Seq(STRING) /\ FullFlow # <<>>
    /\ \A i, j \in DOMAIN FullFlow : FullFlow[i] = FullFlow[j] => i = j
    /\ FullFlow[1] = "IDLE" /\ FullFlow[Len(FullFlow)] = "COMPLETED"
    /\ \A i \in DOMAIN FullFlow : FullFlow[i] \notin {"ERROR", "NONE"}
    /\ DefaultMode \in Modes
    /\ Budgets \subseteq [Trouble -> Nat]

VARIABLES
    session,        \* file: status, mode, history and transition marker
    log,            \* file: the transition events
    lease,          \* file: free, or held by this process or an earlier one
    pc,             \* where the process stands
    machine,        \* memory: the state machine
    marker,         \* memory: the marker as loaded when the engine started
    adv,            \* memory: the parameters of the running advance
    replay,         \* memory: the variables of the replay loop
    at,             \* memory: the index of the replay loop
    nextId,         \* randomUUID never repeats: ids are numbered
    budget,         \* the trouble that may still strike
    trail,          \* history: the replay of every prefix of the log
    acceptable,     \* history: the states a restart may lead to
    intact          \* history: the files agreed with the machine, see below

durable == <<session, log, lease>>
memory == <<machine, marker, adv>>
looping == <<replay, at>>
ghosts == <<trail, acceptable, intact>>
vars == <<durable, pc, memory, looping, nextId, budget, ghosts>>

-----------------------------------------------------------------------------
(* buildTransitionMap, as a relation: the flow is FullFlow without the
   states that the phases do not select. *)
Selected(s, phases) ==
    \/ s \in Structural \cup phases
    \/ s \in Critics /\ PhaseOfCritic[s] \in phases

Follows(s, t, phases) ==
    \E i, j \in DOMAIN FullFlow :
        /\ i < j /\ FullFlow[i] = s /\ FullFlow[j] = t
        /\ Selected(s, phases) /\ Selected(t, phases)
        /\ \A k \in i + 1 .. j - 1 : ~Selected(FullFlow[k], phases)

(* StateMachine.recover: the last entry of the history that is not from
   ERROR to ERROR tells where to go. *)
Tells(h, i) ==
    /\ h[i].to # "ERROR" \/ h[i].from # "ERROR"
    /\ \A j \in i + 1 .. Len(h) : h[j].to = "ERROR" /\ h[j].from = "ERROR"

LastGood(h) ==
    IF \E i \in DOMAIN h : Tells(h, i)
    THEN LET last == h[CHOOSE i \in DOMAIN h : Tells(h, i)]
         IN  IF last.to # "ERROR" THEN last.to ELSE last.from
    ELSE "IDLE"

Step(from, to) == [from |-> from, to |-> to]
Moved(m, to) == [m EXCEPT !.state = to,
                          !.history = Append(@, Step(m.state, to))]

Machine(state, mode, phases, h) ==
    [state |-> state, mode |-> mode, phases |-> phases, history |-> h]

(* Mutated form of Saved: the merge keeps the old history. *)
SavedWithoutHistory(m) == [session EXCEPT !.status = m.state, !.mode = m.mode]

(* saveSessionState merges the machine into the file and leaves the
   transition marker alone. *)
Saved(m) == [session EXCEPT !.status = m.state, !.mode = m.mode,
                            !.history = m.history]

NoMarker == [status |-> "NONE", target |-> "NONE", id |-> 0]
InProgress(to, id) == [status |-> "IN_PROGRESS", target |-> to, id |-> id]

(* Mutated forms, which the properties must reject, stand before the
   definition they change.  Here the marker gets the name of the state. *)
CompletedAsState == [NoMarker EXCEPT !.status = "COMPLETED"]
Complete == [NoMarker EXCEPT !.status = "COMPLETE"]

(* loadSessionState: a file without a status counts as no file at all. *)
LoadedMarker == IF session.status = "NONE" THEN NoMarker ELSE session.marker

-----------------------------------------------------------------------------
(* One iteration of replayStateFromTransitionEvents. *)
NothingReplayed == [applied |-> {}, state |-> "IDLE", history |-> <<>>]

(* Mutated form of Replayed: intents count as well. *)
ReplayedIntents(r, e) ==
    IF e.status = "failed" \/ e.id \in r.applied \/ e.from # r.state THEN r
    ELSE [applied |-> r.applied \cup {e.id}, state |-> e.to,
          history |-> Append(r.history, Step(e.from, e.to))]

Replayed(r, e) ==
    IF e.status # "applied" \/ e.id \in r.applied THEN r
    ELSE LET seen == [r EXCEPT !.applied = @ \cup {e.id}]
         IN  IF e.from # r.state THEN seen
             ELSE [seen EXCEPT !.state = e.to,
                               !.history = Append(@, Step(e.from, e.to))]

(* appendTransitionEvent: one event per transition id and status. *)
Event(status) ==
    [id |-> adv.id, from |-> adv.from, to |-> adv.to, status |-> status]

Duplicate(e) == \E i \in DOMAIN log : log[i].id = e.id /\ log[i].status = e.status

AppendEvent(e) ==
    IF Duplicate(e) THEN UNCHANGED <<log, trail>>
    ELSE /\ log' = Append(log, e)
         /\ trail' = Append(trail, Replayed(trail[Len(trail)], e))

-----------------------------------------------------------------------------
(* Bounded trouble, and the outcomes of a write: it succeeds, it throws and
   the file is as before, it throws although the file is written. *)
Spend(kinds) ==
    /\ \A t \in kinds : budget[t] > 0
    /\ budget' = [t \in Trouble |-> IF t \in kinds THEN budget[t] - 1 ELSE budget[t]]

Outcomes == {"ok", "lost", "late"}
Fault(o) == IF o = "ok" THEN {} ELSE {"fault"}
Try(o) == Spend(Fault(o))
Write(o, new) == session' = IF o = "lost" THEN session ELSE new
WriteLog(o, e) == IF o = "ok" THEN AppendEvent(e) ELSE UNCHANGED <<log, trail>>

Goto(label) == pc' = label
ThenGoto(o, label, otherwise) == pc' = IF o = "ok" THEN label ELSE otherwise

(* History: the machine was saved outside an advance.  The next start loads
   what was saved, unless it replays the log. *)
NoteSave(o) ==
    /\ acceptable' = IF o = "lost" THEN acceptable \cup {machine'.state}
                     ELSE {machine'.state}
    /\ intact' = /\ session.marker.status # "IN_PROGRESS"
                 /\ o = "lost" => intact
    /\ UNCHANGED trail

-----------------------------------------------------------------------------
NoAdvance == [from |-> "IDLE", to |-> "IDLE", id |-> 0, gate |-> "NONE"]
Fresh(mode, phases) == Machine("IDLE", mode, phases, <<>>)

Init ==
    /\ session = [status |-> "NONE", mode |-> DefaultMode, history |-> <<>>,
                  marker |-> NoMarker]
    /\ log = <<>>
    /\ lease = "free"
    /\ pc = "down"
    /\ machine = Fresh(DefaultMode, PhasesOfMode[DefaultMode])
    /\ marker = NoMarker
    /\ adv = NoAdvance
    /\ replay = NothingReplayed
    /\ at = 1
    /\ nextId = 1
    /\ budget \in Budgets
    /\ trail = <<NothingReplayed>>
    /\ acceptable = {"IDLE"}
    /\ intact = TRUE

-----------------------------------------------------------------------------
(* createEngine.  It writes nothing: a crash during the start leaves the
   files as they were. *)
LoadSession ==
    /\ pc = "down"
    /\ marker' = LoadedMarker
    /\ Goto(IF LoadedMarker.status = "IN_PROGRESS" THEN "replaying" ELSE "creating")
    /\ UNCHANGED <<durable, machine, adv, looping, nextId, budget, ghosts>>

(* Mutated form of ReplayEvent: a skipped event is looked at forever. *)
ReplayEventStuck ==
    /\ pc = "replaying"
    /\ at <= Len(log)
    /\ replay' = Replayed(replay, log[at])
    /\ at' = IF replay' = replay THEN at ELSE at + 1
    /\ UNCHANGED <<durable, pc, memory, nextId, budget, ghosts>>

ReplayEvent ==
    /\ pc = "replaying"
    /\ at <= Len(log)
    /\ replay' = Replayed(replay, log[at])
    /\ at' = at + 1
    /\ UNCHANGED <<durable, pc, memory, nextId, budget, ghosts>>

ReplayDone ==
    /\ pc = "replaying"
    /\ at > Len(log)
    /\ Goto("creating")
    /\ UNCHANGED <<durable, memory, looping, nextId, budget, ghosts>>

(* The machine comes up in the replayed state if anything was replayed, and
   in the state of the session otherwise.  Phases that a caller chose at the
   last reset are not in the session: the mode's own phases return. *)
CreateMachine ==
    LET replayed == replay.history # <<>>
        state == IF replayed THEN replay.state
                 ELSE IF session.status = "NONE" THEN "IDLE" ELSE session.status
        mode == IF session.status = "NONE" THEN DefaultMode ELSE session.mode
        h == IF replayed THEN replay.history ELSE session.history
    IN  /\ pc = "creating"
        /\ machine' = Machine(state, mode, PhasesOfMode[mode],
                              IF state = "IDLE" THEN <<>> ELSE h)
        /\ replay' = NothingReplayed
        /\ at' = 1
        /\ Goto("idle")
        /\ UNCHANGED <<durable, marker, adv, nextId, budget, ghosts>>

-----------------------------------------------------------------------------
(* engine.advance, from its start to the acquired lease.  A lease that an
   earlier process left behind refuses it until it expires; one of this
   process does not.  An interrupted transition to the same state keeps its
   transition id. *)
StartAdvance(to, gate) ==
    LET from == machine.state
        resumed == marker.status = "IN_PROGRESS" /\ marker.target = to
    IN  /\ pc = "idle"
        /\ Follows(from, to, machine.phases)
        /\ from \notin Critics => gate = "NONE"
        /\ gate = "REJECTED" => budget["rejection"] > 0
        /\ lease # "earlier"
        /\ lease' = "mine"
        /\ adv' = [from |-> from, to |-> to, gate |-> gate,
                   id |-> IF resumed THEN marker.id ELSE nextId]
        /\ nextId' = IF resumed THEN nextId ELSE nextId + 1
        /\ Goto("intent")
        /\ acceptable' = {from, to}
        /\ intact' = /\ trail[Len(trail)].state = from
                     /\ from = IF session.status = "NONE" THEN "IDLE"
                               ELSE session.status
        /\ UNCHANGED <<session, log, machine, marker, looping, budget, trail>>

(* A beforeTransition hook throws: the machine goes to ERROR and the lease
   is not released. *)
HookFails(o) ==
    /\ pc = "intent"
    /\ Spend({"error"} \cup Fault(o))
    /\ machine' = Moved(machine, "ERROR")
    /\ o # "late" /\ Write(o, Saved(machine'))
    /\ NoteSave(o)
    /\ Goto("idle")
    /\ UNCHANGED <<log, lease, marker, adv, looping, nextId>>

(* Mutated form of WriteIntent: the intent is not logged. *)
WriteIntentOnly(o) ==
    /\ pc = "intent"
    /\ Try(o)
    /\ Write(o, [session EXCEPT !.marker = InProgress(adv.to, adv.id)])
    /\ ThenGoto(o, "renew", "idle")
    /\ UNCHANGED <<log, lease, memory, looping, nextId, ghosts>>

(* saveTransitionIntent; it and the next write are outside the try block:
   if they throw the lease is not released. *)
WriteIntent(o) ==
    /\ pc = "intent"
    /\ Try(o)
    /\ Write(o, [session EXCEPT !.marker = InProgress(adv.to, adv.id)])
    /\ ThenGoto(o, "logIntent", "idle")
    /\ UNCHANGED <<log, lease, memory, looping, nextId, ghosts>>

LogIntent(o) ==
    /\ pc = "logIntent"
    /\ o # "late" /\ Try(o)
    /\ WriteLog(o, Event("intent"))
    /\ ThenGoto(o, "renew", "idle")
    /\ UNCHANGED <<session, lease, memory, looping, nextId, acceptable, intact>>

(* The result of renew is ignored; it can throw. *)
Renew(o) ==
    /\ pc = "renew"
    /\ o # "late" /\ Try(o)
    /\ ThenGoto(o, IF adv.gate = "NONE" THEN "move" ELSE "gate", "logFailed")
    /\ UNCHANGED <<durable, memory, looping, nextId, ghosts>>

(* A failed gate saves the unmoved machine and throws. *)
GateFailed(o) ==
    /\ pc = "gate"
    /\ adv.gate = "REJECTED"
    /\ Spend({"rejection"} \cup Fault(o))
    /\ o # "late" /\ Write(o, Saved(machine))
    /\ acceptable' = {adv.from}
    /\ Goto("logFailed")
    /\ UNCHANGED <<log, lease, memory, looping, nextId, trail, intact>>

GatePassed(o) ==
    /\ pc = "gate"
    /\ adv.gate = "APPROVED"
    /\ Try(o)
    /\ Write(o, Saved(machine))
    /\ ThenGoto(o, "move", "logFailed")
    /\ UNCHANGED <<log, lease, memory, looping, nextId, ghosts>>

(* The transition itself, in memory, then in the session. *)
Move(o) ==
    /\ pc = "move"
    /\ Try(o)
    /\ machine' = Moved(machine, adv.to)
    /\ Write(o, Saved(machine'))
    /\ ThenGoto(o, "complete", "logFailed")
    /\ UNCHANGED <<log, lease, marker, adv, looping, nextId, ghosts>>

WriteComplete(o) ==
    /\ pc = "complete"
    /\ Try(o)
    /\ Write(o, [session EXCEPT !.marker = Complete])
    /\ ThenGoto(o, "logApplied", "logFailed")
    /\ UNCHANGED <<log, lease, memory, looping, nextId, ghosts>>

(* Mutated form of LogApplied: the loaded marker is not cleared. *)
LogAppliedMarkerKept(o) ==
    /\ pc = "logApplied"
    /\ o # "late" /\ Try(o)
    /\ WriteLog(o, Event("applied"))
    /\ acceptable' = IF o = "ok" THEN {adv.to} ELSE acceptable
    /\ intact' = (intact \/ o = "ok")
    /\ ThenGoto(o, "release", "logFailed")
    /\ UNCHANGED <<session, lease, memory, looping, nextId>>

LogApplied(o) ==
    /\ pc = "logApplied"
    /\ o # "late" /\ Try(o)
    /\ WriteLog(o, Event("applied"))
    /\ marker' = IF o = "ok" THEN Complete ELSE marker
    /\ acceptable' = IF o = "ok" THEN {adv.to} ELSE acceptable
    /\ intact' = (intact \/ o = "ok")
    /\ ThenGoto(o, "release", "logFailed")
    /\ UNCHANGED <<session, lease, machine, adv, looping, nextId>>

(* The catch block; the marker of the session stays IN_PROGRESS. *)
LogFailed(o) ==
    /\ pc = "logFailed"
    /\ o # "late" /\ Try(o)
    /\ WriteLog(o, Event("failed"))
    /\ Goto("release")
    /\ UNCHANGED <<session, lease, memory, looping, nextId, acceptable, intact>>

(* The finally block. *)
Release(o) ==
    /\ pc = "release"
    /\ o # "late" /\ Try(o)
    /\ lease' = IF o = "ok" THEN "free" ELSE lease
    /\ adv' = NoAdvance
    /\ Goto("idle")
    /\ UNCHANGED <<session, log, machine, marker, looping, nextId, ghosts>>

-----------------------------------------------------------------------------
(* engine.error and engine.stop. *)
Fail(o) ==
    /\ pc = "idle"
    /\ Spend({"error"} \cup Fault(o))
    /\ machine' = Moved(machine, "ERROR")
    /\ o # "late" /\ Write(o, Saved(machine'))
    /\ NoteSave(o)
    /\ UNCHANGED <<log, lease, pc, marker, adv, looping, nextId>>

Recover(o) ==
    /\ pc = "idle"
    /\ machine.state = "ERROR"
    /\ Try(o)
    /\ machine' = [machine EXCEPT !.state = LastGood(machine.history)]
    /\ Write(o, Saved(machine'))
    /\ NoteSave(o)
    /\ UNCHANGED <<log, lease, pc, marker, adv, looping, nextId>>

(* pauseAtCheckpoint: two writes; "late" stands for a throw, or the end of
   the process, between them. *)
Pause(o) ==
    /\ pc = "idle"
    /\ Try(o)
    /\ Write(o, IF o = "ok" THEN [Saved(machine) EXCEPT !.marker = Complete]
                ELSE Saved(machine))
    /\ IF o = "ok"
       THEN /\ acceptable' = {machine.state}
            /\ intact' = TRUE
            /\ UNCHANGED trail
       ELSE UNCHANGED machine /\ NoteSave(o)
    /\ UNCHANGED <<log, lease, pc, memory, looping, nextId>>

(* engine.reset: a new machine, the same log and the same marker.  The reset
   route makes a new engine first, which loads the marker of the session. *)
Reset(mode, phases, newEngine, o) ==
    /\ pc = "idle"
    /\ Spend({"reset"} \cup Fault(o))
    /\ machine' = Fresh(mode, phases)
    /\ o # "late" /\ Write(o, Saved(machine'))
    /\ marker' = IF newEngine THEN LoadedMarker ELSE marker
    /\ NoteSave(o)
    /\ UNCHANGED <<log, lease, pc, adv, looping, nextId>>

-----------------------------------------------------------------------------
(* The lease of a process that is gone runs out. *)
LeaseExpires ==
    /\ lease = "earlier"
    /\ lease' = "free"
    /\ UNCHANGED <<session, log, pc, memory, looping, nextId, budget, ghosts>>

(* The process ends anywhere; what is in memory is lost. *)
Crash ==
    /\ pc # "down"
    /\ Spend({"crash"})
    /\ Goto("down")
    /\ lease' = IF lease = "mine" THEN "earlier" ELSE lease
    /\ adv' = NoAdvance
    /\ replay' = NothingReplayed
    /\ at' = 1
    /\ UNCHANGED <<session, log, machine, marker, nextId, ghosts>>

Boot == LoadSession \/ ReplayEvent \/ ReplayDone \/ CreateMachine

Advance(o) ==
    \/ WriteIntent(o) \/ LogIntent(o) \/ Renew(o)
    \/ GateFailed(o) \/ GatePassed(o) \/ Move(o)
    \/ WriteComplete(o) \/ LogApplied(o) \/ LogFailed(o) \/ Release(o)

Start ==
    \E to \in States, gate \in {"NONE", "APPROVED", "REJECTED"} :
        StartAdvance(to, gate)

Operate(o) ==
    \/ Fail(o) \/ Recover(o) \/ Pause(o)
    \/ \E mode \in Modes, newEngine \in BOOLEAN :
        \E phases \in {PhasesOfMode[mode]} \cup PhaseChoices :
            Reset(mode, phases, newEngine, o)

Next ==
    \/ Boot \/ Start \/ LeaseExpires \/ Crash
    \/ \E o \in Outcomes : Advance(o) \/ HookFails(o) \/ Operate(o)

Spec == Init /\ [][Next]_vars

(* The process is restarted, a call that runs is not abandoned, leases run
   out, and somebody keeps asking for the next transition.  The last is an
   assumption about users: the auto-orchestration timer of the server asks
   too, but not while the marker is IN_PROGRESS (auto-orchestration.ts:730),
   so that after a crash in an advance it takes a call of the API or the CLI. *)
Fairness ==
    /\ WF_vars(Boot)
    /\ WF_vars(\E o \in Outcomes : Advance(o) \/ HookFails(o))
    /\ WF_vars(LeaseExpires)
    /\ WF_vars(Start)

FairSpec == Spec /\ Fairness

-----------------------------------------------------------------------------
Markers == [status : {"NONE", "IN_PROGRESS", "COMPLETE"},
            target : States \cup {"NONE"}, id : Nat]
Steps == [from : States, to : States]
Events == [id : Nat, from : States, to : States,
           status : {"intent", "applied", "failed"}]
Replays == [applied : SUBSET Nat, state : States, history : Seq(Steps)]
PhaseSets == {PhasesOfMode[m] : m \in Modes} \cup PhaseChoices
Machines == [state : States, mode : Modes, phases : PhaseSets,
             history : Seq(Steps)]
Sessions == [status : States \cup {"NONE"}, mode : Modes,
             history : Seq(Steps), marker : Markers]
Advances == [from : States, to : States, id : Nat,
             gate : {"NONE", "APPROVED", "REJECTED"}]
Labels == {"down", "replaying", "creating", "idle", "intent", "logIntent",
           "renew", "gate", "move", "complete", "logApplied", "logFailed",
           "release"}

TypeOK ==
    /\ session \in Sessions
    /\ log \in Seq(Events)
    /\ lease \in {"free", "mine", "earlier"}
    /\ pc \in Labels
    /\ machine \in Machines
    /\ marker \in Markers
    /\ adv \in Advances
    /\ replay \in Replays
    /\ at \in Nat \ {0}
    /\ nextId \in Nat
    /\ budget \in [Trouble -> Nat]
    /\ trail \in Seq(Replays) /\ Len(trail) = Len(log) + 1
    /\ acceptable \subseteq States
    /\ intact \in BOOLEAN

(* If the session and the log agreed with the machine when the last advance
   began, a crash anywhere in it, whatever threw before, leads back to the
   state the transition left or to the one it enters: only to the former
   after a failed gate, only to the latter once the event is logged as
   applied (write-ahead persistence, engine.ts:534). *)
CrashKeepsTransition == intact => machine.state \in acceptable

(* The claim of state-persistence.ts:5, "Provides crash recovery by loading
   the last committed state on startup", without that condition. *)
RecoveryLoadsCommitted == machine.state \in acceptable

(* The trace of the machine, and of the session, is a connected path that
   leads to its state, through every advance, failure, recovery, restart,
   replay and reset: each step starts where the one before it ended or,
   after an error, where recover goes. *)
Connected(h) ==
    \A i \in 1 .. Len(h) - 1 :
        \/ h[i + 1].from = h[i].to
        \/ h[i].to = "ERROR" /\ h[i + 1].from = LastGood(SubSeq(h, 1, i))

LeadsTo(h, state) ==
    /\ Connected(h)
    /\ IF state = "ERROR" THEN h # <<>> /\ h[Len(h)].to = "ERROR"
       ELSE state = LastGood(h)

TraceLeadsToState ==
    /\ LeadsTo(machine.history, machine.state)
    /\ session.status # "NONE" => LeadsTo(session.history, session.status)

(* appendTransitionEvent drops what it takes for a duplicate.  It never takes
   a completed transition for one, although a resumed transition reuses the
   id of an interrupted one, restarts and resets in between notwithstanding. *)
AppliedNeverDropped ==
    [][pc = "logApplied" /\ pc' = "release" => log' # log]_vars

(* The engine stands in a state that is not of its flow, and no transition
   leads out of it: a reset chose phases that its mode does not select, and a
   start of the engine in one of them went back to those of the mode. *)
OffItsFlow == machine.state # "ERROR" /\ ~Selected(machine.state, machine.phases)

(* After its last reset the pipeline always ends in COMPLETED or ERROR: no
   crash, failed write, failed gate or leaked lease leaves it stuck, unless a
   restart forgets its phases (recovery in createEngine, engine.ts). *)
Settled == pc = "idle" /\ machine.state \in {"COMPLETED", "ERROR"}
PipelineSettles ==
    budget["reset"] = 0 ~> Settled \/ OffItsFlow

(* The engine implements the write-ahead specification: the announced states
   are those the log holds an intent for. *)
Announced ==
    {"IDLE"} \cup {e.to : e \in {log[i] : i \in {j \in DOMAIN log :
                                             log[j].status = "intent"}}}
Successors ==
    {p \in States \X States : \E phases \in PhaseSets : Follows(p[1], p[2], phases)}

Ahead == INSTANCE WriteAhead WITH state <- machine.state, announced <- Announced
ImplementsWriteAhead == Ahead!Spec
=============================================================================
