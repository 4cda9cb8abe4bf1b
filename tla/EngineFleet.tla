----------------------------- MODULE EngineFleet -----------------------------
(***************************************************************************)
(* Several processes (the server, the command line, the one that is        *)
(* started after a crash) with an engine each over one session, one log of *)
(* transition events and one lease.  An engine reads the session when it   *)
(* is created (createEngine in platform/engine/engine.ts) and never again: *)
(* what it knows of the pipeline grows stale when others advance it.       *)
(*                                                                         *)
(* The lease is that of TransitionLease, with its time and its races.  The *)
(* session and the log are files that are read and written back as a       *)
(* whole: one action is one access.  All engines follow one flow, whose    *)
(* states are numbered from 1 (IDLE) to Last; gates, errors and writes     *)
(* that throw are those of TransitionEngine and left out here.             *)
(***************************************************************************)
EXTENDS TransitionLease, Sequences

CONSTANT Last       \* the number of states of the flow

ASSUME FleetAssumption == Last \in Nat \ {0}

VARIABLES
    session,        \* file: status (0: none yet), target and id of the marker
    log,            \* file: the transition events
    stage,          \* where each engine stands
    machine,        \* memory: the state of its machine
    marker,         \* memory: the marker as loaded when the engine started
    adv,            \* memory: the transition that it performs
    copy,           \* memory: what it has read of the files and not written back
    nextId,         \* randomUUID never repeats: ids are numbered
    disturbed       \* history: two engines wrote at once, or one left a gap

files == <<session, log>>
engines == <<stage, machine, marker, adv, copy, nextId>>
fleetVars == <<vars, files, engines, disturbed>>

Positions == 1 .. Last
NoMarker == [target |-> 0, id |-> 0]
Marker(to, id) == [target |-> to, id |-> id]

Outside == {"off", "ready", "replaying", "acquiring"}
Saving == {"intent", "move", "complete", "checkpoint", "close"}
Logging == {"logIntent", "logApplied"}
Stages == Outside \cup Saving \cup Logging \cup {"renew", "release"}

Sessions == [status : 0 .. Last, marker : [target : 0 .. Last, id : Nat]]
Events == [id : Nat, from : Positions, status : {"intent", "applied"}]

FleetTypeOK ==
    /\ TypeOK
    /\ session \in Sessions
    /\ log \in Seq(Events)
    /\ stage \in [Workers -> Stages]
    /\ machine \in [Workers -> Positions]
    /\ marker \in [Workers -> [target : 0 .. Last, id : Nat]]
    /\ adv \in [Workers -> [target : 0 .. Last, id : Nat]]
    /\ \A w \in Workers : copy[w] \in Seq(Sessions \X Seq(Events)) /\ Len(copy[w]) < 2
    /\ nextId \in Nat
    /\ disturbed \in BOOLEAN

FleetInit ==
    /\ Init
    /\ session = [status |-> 0, marker |-> NoMarker]
    /\ log = <<>>
    /\ stage = [w \in Workers |-> "off"]
    /\ machine = [w \in Workers |-> 1]
    /\ marker = [w \in Workers |-> NoMarker]
    /\ adv = [w \in Workers |-> NoMarker]
    /\ copy = [w \in Workers |-> <<>>]
    /\ nextId = 1
    /\ disturbed = FALSE

At(w, s) == stage[w] = s
Enters(w, s) == stage' = [stage EXCEPT ![w] = s]
OthersWrite(w) == \E v \in Workers \ {w} : stage[v] \notin Outside

-----------------------------------------------------------------------------
(* replayStateFromTransitionEvents: where the applied events of a log lead. *)
ReplayOf(events) ==
    LET after[n \in 0 .. Len(events)] ==
            IF n = 0 THEN 1
            ELSE IF events[n].status = "applied" /\ events[n].from = after[n - 1]
                 THEN after[n - 1] + 1
                 ELSE after[n - 1]
    IN  after[Len(events)]

(* Mutated form of WithEvent: one event per transition, of either status. *)
WithEventOnce(events, e) ==
    IF \E i \in DOMAIN events : events[i].id = e.id THEN events
    ELSE Append(events, e)

(* appendTransitionEvent: a duplicate is not written. *)
WithEvent(events, e) ==
    IF \E i \in DOMAIN events : events[i].id = e.id /\ events[i].status = e.status
    THEN events
    ELSE Append(events, e)

-----------------------------------------------------------------------------
(* createEngine: the session, then, if a transition was interrupted, or is
   under way in another process, the log. *)
LoadSession(w) ==
    /\ At(w, "off") /\ pc[w] = "idle"
    /\ LET loaded == IF session.status = 0 THEN NoMarker ELSE session.marker
       IN  /\ marker' = [marker EXCEPT ![w] = loaded]
           /\ Enters(w, IF loaded = NoMarker THEN "ready" ELSE "replaying")
    /\ machine' = [machine EXCEPT ![w] = IF session.status = 0 THEN 1 ELSE session.status]
    /\ UNCHANGED <<vars, files, adv, copy, nextId, disturbed>>

ReplayLog(w) ==
    /\ At(w, "replaying")
    /\ machine' = [machine EXCEPT ![w] = IF ReplayOf(log) = 1 THEN @ ELSE ReplayOf(log)]
    /\ Enters(w, "ready")
    /\ UNCHANGED <<vars, files, marker, adv, copy, nextId, disturbed>>

-----------------------------------------------------------------------------
(* engine.advance: the lease, whose refusal makes it throw. *)
StartAdvance(w) ==
    LET to == machine[w] + 1
        resumed == marker[w].target = to
    IN  /\ At(w, "ready")
        /\ to \in Positions
        /\ AcquireRead(w)
        /\ adv' = [adv EXCEPT ![w] = Marker(to, IF resumed THEN marker[w].id ELSE nextId)]
        /\ nextId' = IF resumed THEN nextId ELSE nextId + 1
        /\ Enters(w, "acquiring")
        /\ UNCHANGED <<files, machine, marker, copy, disturbed>>

WriteLease(w) ==
    /\ AcquireWrite(w)
    /\ UNCHANGED <<files, engines, disturbed>>

Acquired(w) ==
    /\ AcquireVerify(w)
    /\ Enters(w, IF pc'[w] = "holding" THEN "intent" ELSE "ready")
    /\ disturbed' = (disturbed \/ (pc'[w] = "holding" /\ OthersWrite(w)))
    /\ UNCHANGED <<files, machine, marker, adv, copy, nextId>>

(* The first half of every change of the session or of the log. *)
ReadFile(w) ==
    /\ stage[w] \in Saving \cup Logging
    /\ copy[w] = <<>>
    /\ copy' = [copy EXCEPT ![w] = <<<<session, log>>>>]
    /\ UNCHANGED <<vars, files, stage, machine, marker, adv, nextId, disturbed>>

(* The second half: what was read is changed and written back. *)
Read(w) == copy[w][1][1]
ReadLog(w) == copy[w][1][2]

Save(w, new) ==
    /\ copy[w] # <<>>
    /\ session' = new
    /\ copy' = [copy EXCEPT ![w] = <<>>]
    /\ UNCHANGED <<vars, log, nextId>>

SaveEvent(w, status) ==
    /\ copy[w] # <<>>
    /\ LET event == [id |-> adv[w].id, from |-> adv[w].target - 1, status |-> status]
           new == WithEvent(ReadLog(w), event)
       IN  log' = IF new = ReadLog(w) THEN log ELSE new
    /\ copy' = [copy EXCEPT ![w] = <<>>]
    /\ UNCHANGED <<vars, session, nextId>>

WriteIntent(w) ==
    /\ At(w, "intent")
    /\ Save(w, [Read(w) EXCEPT !.marker = adv[w]])
    /\ Enters(w, "logIntent")
    /\ UNCHANGED <<machine, marker, adv, disturbed>>

LogIntent(w) ==
    /\ At(w, "logIntent")
    /\ SaveEvent(w, "intent")
    /\ Enters(w, "renew")
    /\ UNCHANGED <<machine, marker, adv, disturbed>>

(* renew, whose result nobody looks at: a lease that has run out, or that
   somebody else has taken, stops nothing. *)
RenewStart(w) ==
    /\ At(w, "renew")
    /\ RenewRead(w)
    /\ UNCHANGED <<files, engines, disturbed>>

Renewed(w) ==
    /\ At(w, "renew")
    /\ RenewWrite(w)
    /\ Enters(w, "move")
    /\ UNCHANGED <<files, machine, marker, adv, copy, nextId, disturbed>>

RenewRefused(w) ==
    /\ At(w, "renew") /\ pc[w] = "holding"
    /\ ~Owns(w) \/ Expired(lease)
    /\ Enters(w, "move")
    /\ UNCHANGED <<vars, files, machine, marker, adv, copy, nextId, disturbed>>

(* machine.advance, and the callback that saves it. *)
Move(w) ==
    /\ At(w, "move")
    /\ machine' = [machine EXCEPT ![w] = adv[w].target]
    /\ Save(w, [Read(w) EXCEPT !.status = adv[w].target])
    /\ Enters(w, "complete")
    /\ UNCHANGED <<marker, adv, disturbed>>

(* Mutated form of WriteComplete: the marker is deleted as a whole. *)
WriteCompleteDeleting(w) ==
    /\ At(w, "complete")
    /\ Save(w, [status |-> Read(w).status])
    /\ Enters(w, "logApplied")
    /\ UNCHANGED <<machine, marker, adv, disturbed>>

WriteComplete(w) ==
    /\ At(w, "complete")
    /\ Save(w, [Read(w) EXCEPT !.marker = NoMarker])
    /\ Enters(w, "logApplied")
    /\ UNCHANGED <<machine, marker, adv, disturbed>>

LogApplied(w) ==
    /\ At(w, "logApplied")
    /\ SaveEvent(w, "applied")
    /\ marker' = [marker EXCEPT ![w] = NoMarker]
    /\ Enters(w, "release")
    /\ UNCHANGED <<machine, adv, disturbed>>

(* The finally block; a lease that is not its own any more is left alone. *)
Released(w) ==
    /\ At(w, "release")
    /\ ReleaseRead(w) \/ ReleaseWrite(w)
    /\ Enters(w, IF pc'[w] = "idle" THEN "ready" ELSE "release")
    /\ adv' = [adv EXCEPT ![w] = IF pc'[w] = "idle" THEN NoMarker ELSE @]
    /\ UNCHANGED <<files, machine, marker, copy, nextId, disturbed>>

-----------------------------------------------------------------------------
(* pauseAtCheckpoint, the command line's _STOP --checkpoint: two changes of
   the session, without the lease. *)
Pause(w) ==
    /\ At(w, "ready")
    /\ Enters(w, "checkpoint")
    /\ disturbed' = (disturbed \/ OthersWrite(w))
    /\ UNCHANGED <<vars, files, machine, marker, adv, copy, nextId>>

SaveCheckpoint(w) ==
    /\ At(w, "checkpoint")
    /\ Save(w, [Read(w) EXCEPT !.status = machine[w]])
    /\ Enters(w, "close")
    /\ UNCHANGED <<machine, marker, adv, disturbed>>

CloseCheckpoint(w) ==
    /\ At(w, "close")
    /\ Save(w, [Read(w) EXCEPT !.marker = NoMarker])
    /\ Enters(w, "ready")
    /\ UNCHANGED <<machine, marker, adv, disturbed>>

(* The process ends.  Between the save of a transition and its event it
   leaves a gap in the log. *)
Die(w) ==
    /\ Crash(w)
    /\ Enters(w, "off")
    /\ machine' = [machine EXCEPT ![w] = 1]
    /\ marker' = [marker EXCEPT ![w] = NoMarker]
    /\ adv' = [adv EXCEPT ![w] = NoMarker]
    /\ copy' = [copy EXCEPT ![w] = <<>>]
    /\ disturbed' = (disturbed \/ stage[w] \in {"complete", "logApplied"})
    /\ UNCHANGED <<files, nextId>>

FleetTick == Tick /\ UNCHANGED <<files, engines, disturbed>>

Engine(w) ==
    \/ LoadSession(w) \/ ReplayLog(w)
    \/ StartAdvance(w) \/ WriteLease(w) \/ Acquired(w)
    \/ ReadFile(w) \/ WriteIntent(w) \/ LogIntent(w)
    \/ RenewStart(w) \/ Renewed(w) \/ RenewRefused(w)
    \/ Move(w) \/ WriteComplete(w) \/ LogApplied(w) \/ Released(w)
    \/ Pause(w) \/ SaveCheckpoint(w) \/ CloseCheckpoint(w)
    \/ Die(w)

FleetNext == FleetTick \/ \E w \in Workers : Engine(w)

FleetSpec == FleetInit /\ [][FleetNext]_fleetVars

-----------------------------------------------------------------------------
(* The transition whose event is yet to be written. *)
Unlogged == IF \E w \in Workers : stage[w] \in {"complete", "logApplied"} THEN 1 ELSE 0

(* However stale the engines are, however often two of them perform the same
   transition and whichever id they give it, the log leads as far as anybody
   has come, so that a recovery finds every transition that was completed: as
   long as no two of them write at once and none of them ends between the two
   writes that complete a transition. *)
LogLeads ==
    ~disturbed => \A w \in Workers : machine[w] <= ReplayOf(log) + Unlogged
=============================================================================
