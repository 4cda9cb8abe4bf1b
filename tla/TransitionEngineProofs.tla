------------------------ MODULE TransitionEngineProofs ------------------------
(***************************************************************************)
(* Theorems about TransitionEngine, for every flow, every set of modes and *)
(* phases and every amount of trouble.                                     *)
(*                                                                         *)
(* Four arguments, each on top of its own invariant:                       *)
(*  - CrashInv: what a start after a crash would come up with (BootsInto); *)
(*  - TraceInv: a history that leads to the state it is kept with leads    *)
(*    there wherever it is copied, cut at an error or replayed;            *)
(*  - IdsInv: one id is one transition, and a transition that is pending   *)
(*    has no applied event yet, so that none is dropped as a duplicate;    *)
(*  - AheadInv: every state that the machine, the session, a replay or an  *)
(*    applied event names is announced by an intent in the log.            *)
(***************************************************************************)
EXTENDS TransitionEngine, TLAPS

LEMMA NamedStates == "IDLE" \in States /\ "ERROR" \in States /\ "NONE" \notin States
  BY EngineAssumption DEF EngineAssumption, States

LEMMA LastGoodType == \A h \in Seq(Steps) : LastGood(h) \in States
<1> SUFFICES ASSUME NEW h \in Seq(Steps) PROVE LastGood(h) \in States
    OBVIOUS
<1>1. CASE \E i \in DOMAIN h : Tells(h, i)
  <2>1. PICK last \in DOMAIN h : last = CHOOSE i \in DOMAIN h : Tells(h, i)
        BY <1>1
  <2>2. h[last] \in Steps
        BY <2>1
  <2> QED BY <1>1, <2>1, <2>2 DEF LastGood, Steps
<1>2. CASE ~ \E i \in DOMAIN h : Tells(h, i)
      BY <1>2, NamedStates DEF LastGood
<1> QED BY <1>1, <1>2

LEMMA MovedType ==
    ASSUME NEW m \in Machines, NEW to \in States
    PROVE  Moved(m, to) \in Machines /\ Moved(m, to).state = to
<1>1. Step(m.state, to) \in Steps
      BY DEF Step, Steps, Machines
<1>2. Append(m.history, Step(m.state, to)) \in Seq(Steps)
      BY <1>1 DEF Machines
<1> QED BY <1>2 DEF Moved, Machines

LEMMA FreshType ==
    ASSUME NEW mode \in Modes, NEW phases \in PhaseSets
    PROVE  Fresh(mode, phases) \in Machines
  BY NamedStates DEF Fresh, Machine, Machines

LEMMA SavedType ==
    ASSUME session \in Sessions, NEW m \in Machines
    PROVE  Saved(m) \in Sessions
  BY DEF Saved, Sessions, Machines

LEMMA MarkerTypes ==
    /\ NoMarker \in Markers
    /\ Complete \in Markers
    /\ \A to \in States, id \in Nat : InProgress(to, id) \in Markers
  BY DEF NoMarker, Complete, InProgress, Markers

LEMMA ReplayedType ==
    ASSUME NEW r \in Replays, NEW e \in Events
    PROVE  Replayed(r, e) \in Replays
<1>1. Step(e.from, e.to) \in Steps
      BY DEF Step, Steps, Events
<1>2. Append(r.history, Step(e.from, e.to)) \in Seq(Steps)
      BY <1>1 DEF Replays
<1>3. r.applied \cup {e.id} \in SUBSET Nat /\ e.to \in States
      BY DEF Replays, Events
<1> QED BY <1>2, <1>3 DEF Replayed, Replays

(* Appending an event, or not, keeps the log and the trail in step. *)
LEMMA AppendType ==
    ASSUME TypeOK, NEW e \in Events, AppendEvent(e)
    PROVE  /\ log' \in Seq(Events)
           /\ trail' \in Seq(Replays) /\ Len(trail') = Len(log') + 1
<1>1. trail[Len(trail)] \in Replays
      BY DEF TypeOK
<1>2. Replayed(trail[Len(trail)], e) \in Replays
      BY <1>1, ReplayedType
<1>3. log \in Seq(Events) /\ trail \in Seq(Replays) /\ Len(trail) = Len(log) + 1
      BY DEF TypeOK
<1>4. CASE Duplicate(e)
      BY <1>3, <1>4 DEF AppendEvent
<1>5. CASE ~Duplicate(e)
  <2>1. log' = Append(log, e)
        BY <1>5 DEF AppendEvent
  <2>2. trail' = Append(trail, Replayed(trail[Len(trail)], e))
        BY <1>5 DEF AppendEvent
  <2> QED BY <1>2, <1>3, <2>1, <2>2
<1> QED BY <1>4, <1>5

LEMMA EventType ==
    ASSUME TypeOK, NEW status \in {"intent", "applied", "failed"}
    PROVE  Event(status) \in Events
  BY DEF Event, Events, TypeOK, Advances

LEMMA SpendType ==
    ASSUME TypeOK, NEW kinds, Spend(kinds)
    PROVE  budget' \in [Trouble -> Nat]
  BY DEF Spend, TypeOK

LEMMA InitType == Init => TypeOK
<1> SUFFICES ASSUME Init PROVE TypeOK
    OBVIOUS
<1>1. DefaultMode \in Modes /\ PhasesOfMode[DefaultMode] \in PhaseSets
      BY EngineAssumption DEF EngineAssumption, PhaseSets
<1>2. machine \in Machines /\ session \in Sessions
      BY <1>1, FreshType, MarkerTypes DEF Init, Sessions
<1>3. NothingReplayed \in Replays /\ NoAdvance \in Advances
      BY NamedStates DEF NothingReplayed, Replays, NoAdvance, Advances
<1>4. Init => budget \in [Trouble -> Nat]
      BY EngineAssumption DEF EngineAssumption, Init
<1> QED BY <1>2, <1>3, <1>4, NamedStates, MarkerTypes DEF Init, TypeOK, Labels
LEMMA WriteType ==
    ASSUME TypeOK, NEW o, NEW new \in Sessions, Write(o, new)
    PROVE  session' \in Sessions
  BY DEF Write, TypeOK

LEMMA WriteLogType ==
    ASSUME TypeOK, NEW o, NEW status \in {"intent", "applied", "failed"},
           WriteLog(o, Event(status))
    PROVE  /\ log' \in Seq(Events)
           /\ trail' \in Seq(Replays) /\ Len(trail') = Len(log') + 1
  BY AppendType, EventType DEF WriteLog, TypeOK

LEMMA NoteSaveType ==
    ASSUME TypeOK, machine' \in Machines, NEW o, NoteSave(o)
    PROVE  /\ acceptable' \subseteq States
           /\ intact' \in BOOLEAN
           /\ trail' = trail
  BY DEF NoteSave, TypeOK, Machines

LEMMA LoadedMarkerType == TypeOK => LoadedMarker \in Markers
  BY MarkerTypes DEF LoadedMarker, TypeOK, Sessions

LEMMA BootType == ASSUME TypeOK, Boot PROVE TypeOK'
<1> USE DEF durable, memory, looping, ghosts
<1>1. CASE LoadSession
      BY <1>1, LoadedMarkerType DEF LoadSession, Goto, TypeOK, Labels
<1>2. CASE ReplayEvent
  <2>1. at \in 1 .. Len(log) /\ log[at] \in Events
        BY <1>2 DEF ReplayEvent, TypeOK
  <2>2. replay' \in Replays
        BY <1>2, <2>1, ReplayedType DEF ReplayEvent, TypeOK
  <2> QED BY <1>2, <2>2 DEF ReplayEvent, TypeOK
<1>3. CASE ReplayDone
      BY <1>3 DEF ReplayDone, Goto, TypeOK, Labels
<1>4. CASE CreateMachine
  <2> DEFINE replayed == replay.history # <<>>
             state == IF replayed THEN replay.state
                      ELSE IF session.status = "NONE" THEN "IDLE" ELSE session.status
             mode == IF session.status = "NONE" THEN DefaultMode ELSE session.mode
             h == IF replayed THEN replay.history ELSE session.history
             kept == IF state = "IDLE" THEN <<>> ELSE h
  <2>1. state \in States
        BY NamedStates DEF TypeOK, Sessions, Replays
  <2>2. mode \in Modes /\ PhasesOfMode[mode] \in PhaseSets
        BY EngineAssumption DEF EngineAssumption, TypeOK, Sessions, PhaseSets
  <2>3. kept \in Seq(Steps)
        BY DEF TypeOK, Sessions, Replays
  <2>4. machine' = Machine(state, mode, PhasesOfMode[mode], kept)
        BY <1>4 DEF CreateMachine
  <2> HIDE DEF state, mode, kept
  <2>5. machine' \in Machines
        BY <2>1, <2>2, <2>3, <2>4 DEF Machine, Machines
  <2>6. replay' \in Replays
        BY <1>4, NamedStates DEF CreateMachine, NothingReplayed, Replays
  <2> QED BY <1>4, <2>5, <2>6 DEF CreateMachine, Goto, TypeOK, Labels
<1> QED BY <1>1, <1>2, <1>3, <1>4 DEF Boot

LEMMA StartType ==
    ASSUME TypeOK, NEW to \in States, NEW gate \in {"NONE", "APPROVED", "REJECTED"},
           StartAdvance(to, gate)
    PROVE  TypeOK'
<1> USE DEF durable, memory, looping, ghosts
<1>1. machine.state \in States /\ marker.id \in Nat /\ nextId \in Nat
      BY DEF TypeOK, Machines, Markers
<1>2. adv' \in Advances /\ nextId' \in Nat
      BY <1>1 DEF StartAdvance, Advances
<1>3. acceptable' \subseteq States /\ intact' \in BOOLEAN /\ lease' = "mine"
      BY <1>1 DEF StartAdvance
<1> QED BY <1>2, <1>3 DEF StartAdvance, Goto, TypeOK, Labels

LEMMA AdvanceType == ASSUME TypeOK, NEW o, Advance(o) PROVE TypeOK'
<1> USE DEF durable, memory, looping, ghosts
<1>1. machine \in Machines /\ session \in Sessions /\ adv \in Advances
      BY DEF TypeOK
<1>2. CASE WriteIntent(o)
  <2>1. session' \in Sessions
        BY <1>1, <1>2, WriteType, MarkerTypes DEF WriteIntent, Sessions, Advances
  <2> QED BY <1>2, <2>1, SpendType DEF WriteIntent, Try, ThenGoto, TypeOK, Labels
<1>3. CASE LogIntent(o)
      BY <1>3, WriteLogType, SpendType DEF LogIntent, Try, ThenGoto, TypeOK, Labels
<1>4. CASE Renew(o)
      BY <1>4, SpendType DEF Renew, Try, ThenGoto, TypeOK, Labels
<1>5. CASE GateFailed(o)
  <2>1. session' \in Sessions /\ acceptable' \subseteq States
        BY <1>1, <1>5, WriteType, SavedType DEF GateFailed, Advances
  <2> QED BY <1>5, <2>1, SpendType DEF GateFailed, Goto, TypeOK, Labels
<1>6. CASE GatePassed(o)
  <2>1. session' \in Sessions
        BY <1>1, <1>6, WriteType, SavedType DEF GatePassed
  <2> QED BY <1>6, <2>1, SpendType DEF GatePassed, Try, ThenGoto, TypeOK, Labels
<1>7. CASE Move(o)
  <2>1. machine' \in Machines
        BY <1>1, <1>7, MovedType DEF Move, Advances
  <2>2. session' \in Sessions
        BY <1>1, <1>7, <2>1, WriteType, SavedType DEF Move
  <2> QED BY <1>7, <2>1, <2>2, SpendType DEF Move, Try, ThenGoto, TypeOK, Labels
<1>8. CASE WriteComplete(o)
  <2>1. session' \in Sessions
        BY <1>1, <1>8, WriteType, MarkerTypes DEF WriteComplete, Sessions
  <2> QED BY <1>8, <2>1, SpendType DEF WriteComplete, Try, ThenGoto, TypeOK, Labels
<1>9. CASE LogApplied(o)
  <2>1. marker' \in Markers /\ acceptable' \subseteq States /\ intact' \in BOOLEAN
        BY <1>1, <1>9, MarkerTypes DEF LogApplied, TypeOK, Advances
  <2> QED BY <1>9, <2>1, WriteLogType, SpendType
          DEF LogApplied, Try, ThenGoto, TypeOK, Labels
<1>10. CASE LogFailed(o)
      BY <1>10, WriteLogType, SpendType DEF LogFailed, Try, Goto, TypeOK, Labels
<1>11. CASE Release(o)
  <2>1. adv' \in Advances /\ lease' \in {"free", "mine", "earlier"}
        BY <1>11, NamedStates DEF Release, NoAdvance, Advances, TypeOK
  <2> QED BY <1>11, <2>1, SpendType DEF Release, Try, Goto, TypeOK, Labels
<1> QED BY <1>2, <1>3, <1>4, <1>5, <1>6, <1>7, <1>8, <1>9, <1>10, <1>11 DEF Advance

LEMMA OperateType ==
    ASSUME TypeOK, NEW o, HookFails(o) \/ Operate(o)
    PROVE  TypeOK'
<1> USE DEF durable, memory, looping, ghosts
<1>1. machine \in Machines /\ session \in Sessions
      BY DEF TypeOK
<1>2. CASE HookFails(o)
  <2>1. machine' \in Machines
        BY <1>1, <1>2, MovedType, NamedStates DEF HookFails
  <2>2. session' \in Sessions
        BY <1>1, <1>2, <2>1, WriteType, SavedType DEF HookFails
  <2> QED BY <1>2, <2>1, <2>2, SpendType, NoteSaveType DEF HookFails, Goto, TypeOK, Labels
<1>3. CASE Fail(o)
  <2>1. machine' \in Machines
        BY <1>1, <1>3, MovedType, NamedStates DEF Fail
  <2>2. session' \in Sessions
        BY <1>1, <1>3, <2>1, WriteType, SavedType DEF Fail
  <2> QED BY <1>3, <2>1, <2>2, SpendType, NoteSaveType DEF Fail, TypeOK
<1>4. CASE Recover(o)
  <2>1. machine' \in Machines
        BY <1>1, <1>4, LastGoodType DEF Recover, Machines
  <2>2. session' \in Sessions
        BY <1>1, <1>4, <2>1, WriteType, SavedType DEF Recover
  <2> QED BY <1>4, <2>1, <2>2, SpendType, NoteSaveType DEF Recover, Try, TypeOK
<1>5. CASE Pause(o)
  <2>1. Saved(machine) \in Sessions /\ [Saved(machine) EXCEPT !.marker = Complete] \in Sessions
        BY <1>1, SavedType, MarkerTypes DEF Sessions
  <2>2. session' \in Sessions
        BY <1>5, <2>1, WriteType DEF Pause
  <2>3. /\ acceptable' \subseteq States /\ intact' \in BOOLEAN /\ trail' = trail
        BY <1>1, <1>5, NoteSaveType DEF Pause, Machines
  <2> QED BY <1>5, <2>2, <2>3, SpendType DEF Pause, Try, TypeOK
<1>6. ASSUME NEW mode \in Modes, NEW newEngine \in BOOLEAN,
             NEW phases \in {PhasesOfMode[mode]} \cup PhaseChoices,
             Reset(mode, phases, newEngine, o)
      PROVE  TypeOK'
  <2>1. phases \in PhaseSets
        BY DEF PhaseSets
  <2>2. machine' \in Machines
        BY <1>6, <2>1, FreshType DEF Reset
  <2>3. session' \in Sessions
        BY <1>1, <1>6, <2>2, WriteType, SavedType DEF Reset
  <2>4. marker' \in Markers
        BY <1>6, LoadedMarkerType DEF Reset, TypeOK
  <2> QED BY <1>6, <2>2, <2>3, <2>4, SpendType, NoteSaveType DEF Reset, TypeOK
<1> QED BY <1>2, <1>3, <1>4, <1>5, <1>6 DEF Operate

LEMMA TypeStep == TypeOK /\ [Next]_vars => TypeOK'
<1> SUFFICES ASSUME TypeOK, [Next]_vars PROVE TypeOK'
    OBVIOUS
<1> USE DEF durable, memory, looping, ghosts
<1>1. CASE Boot
      BY <1>1, BootType
<1>2. CASE Start
      BY <1>2, StartType DEF Start
<1>3. CASE LeaseExpires
      BY <1>3 DEF LeaseExpires, TypeOK
<1>4. CASE Crash
  <2>1. adv' \in Advances /\ replay' \in Replays
        BY <1>4, NamedStates DEF Crash, NoAdvance, Advances, NothingReplayed, Replays
  <2> QED BY <1>4, <2>1, SpendType DEF Crash, Goto, TypeOK, Labels
<1>5. ASSUME NEW o \in Outcomes, Advance(o) \/ HookFails(o) \/ Operate(o)
      PROVE  TypeOK'
      BY <1>5, AdvanceType, OperateType
<1>6. CASE UNCHANGED vars
      BY <1>6 DEF vars, TypeOK
<1> QED BY <1>1, <1>2, <1>3, <1>4, <1>5, <1>6 DEF Next

(* The variables always have their types. *)
THEOREM TypeCorrect == Spec => []TypeOK
  BY InitType, TypeStep, PTL DEF Spec

-----------------------------------------------------------------------------
(* A crash keeps the transition.  The invariant says where a start of the
   engine would lead: BootsInto.  It is the state of the session unless the
   marker there makes the engine replay the log, and then it is where the
   replay of the whole log ends, if that is a transition at all.  The trail
   holds the replay of every prefix of the log, so that the loop, which
   replays one event at a time, is known to end there. *)
Full == trail[Len(trail)]

StatusOnDisk == IF session.status = "NONE" THEN "IDLE" ELSE session.status

WillReplay == LoadedMarker.status = "IN_PROGRESS"

BootsInto == IF WillReplay /\ Full.history # <<>> THEN Full.state ELSE StatusOnDisk

TrailOk ==
    /\ trail[1] = NothingReplayed
    /\ \A i \in 1 .. Len(log) : trail[i + 1] = Replayed(trail[i], log[i])

LoopOk ==
    /\ pc = "replaying" => WillReplay /\ at <= Len(log) + 1 /\ replay = trail[at]
    /\ pc = "creating" => replay = IF WillReplay THEN Full ELSE NothingReplayed
    /\ pc \notin {"replaying", "creating"} => replay = NothingReplayed /\ at = 1

BeforeMove == pc \in {"intent", "logIntent", "renew", "gate", "move"}

AdvanceOk ==
    /\ BeforeMove => machine.state = adv.from
    /\ BeforeMove /\ intact =>
            /\ Full.state = adv.from
            /\ StatusOnDisk = adv.from
            /\ acceptable = {adv.from, adv.to}
    /\ pc \in {"complete", "logApplied"} =>
            session.status = adv.to /\ machine.state = adv.to
    /\ pc = "logApplied" => session.marker = Complete

RecoveryOk == intact => BootsInto \in acceptable /\ machine.state \in acceptable

CrashInv == TypeOK /\ TrailOk /\ LoopOk /\ AdvanceOk /\ RecoveryOk

LEMMA NamesDiffer == NoMarker.status # "IN_PROGRESS" /\ Complete.status # "IN_PROGRESS"
  BY DEF NoMarker, Complete

LEMMA FullType == TypeOK => Full \in Replays /\ Len(trail) \in Nat \ {0}
  BY DEF Full, TypeOK

(* Whatever is not an applied event leaves the replay as it is. *)
LEMMA AppendOk ==
    ASSUME TypeOK, TrailOk, NEW e \in Events, AppendEvent(e)
    PROVE  TrailOk' /\ (e.status # "applied" => Full' = Full)
<1>1. CASE Duplicate(e)
      BY <1>1 DEF AppendEvent, TrailOk, Full
<1>2. CASE ~Duplicate(e)
  <2>1. log' = Append(log, e) /\ trail' = Append(trail, Replayed(trail[Len(trail)], e))
        BY <1>2 DEF AppendEvent
  <2>2. /\ log \in Seq(Events) /\ trail \in Seq(Replays) /\ Len(trail) = Len(log) + 1
        /\ Replayed(trail[Len(trail)], e) \in Replays
        BY FullType, ReplayedType DEF TypeOK, Full
  <2>3. /\ Len(log') = Len(log) + 1 /\ Len(trail') = Len(trail) + 1
        /\ \A i \in 1 .. Len(log) : log'[i] = log[i]
        /\ \A i \in 1 .. Len(trail) : trail'[i] = trail[i]
        /\ log'[Len(log) + 1] = e
        /\ trail'[Len(trail) + 1] = Replayed(trail[Len(trail)], e)
        BY <2>1, <2>2
  <2>4. TrailOk'
    <3>1. trail'[1] = NothingReplayed
          BY <2>2, <2>3 DEF TrailOk
    <3>2. ASSUME NEW i \in 1 .. Len(log')
          PROVE  trail'[i + 1] = Replayed(trail'[i], log'[i])
      <4>1. CASE i \in 1 .. Len(log)
            BY <2>2, <2>3, <4>1 DEF TrailOk
      <4>2. CASE i = Len(log) + 1
            BY <2>2, <2>3, <4>2
      <4> QED BY <2>2, <2>3, <4>1, <4>2
    <3> QED BY <3>1, <3>2 DEF TrailOk
  <2>5. ASSUME e.status # "applied" PROVE Full' = Full
        BY <2>2, <2>3, <2>5 DEF Full, Replayed
  <2> QED BY <2>4, <2>5
<1> QED BY <1>1, <1>2

LEMMA WriteLogOk ==
    ASSUME TypeOK, TrailOk, NEW o, NEW status \in {"intent", "applied", "failed"},
           WriteLog(o, Event(status))
    PROVE  TrailOk' /\ (status # "applied" => Full' = Full)
<1>1. Event(status) \in Events /\ Event(status).status = status
      BY EventType DEF Event
<1>2. CASE AppendEvent(Event(status))
      BY <1>1, <1>2, AppendOk
<1>3. CASE UNCHANGED <<log, trail>>
      BY <1>3 DEF TrailOk, Full
<1> QED BY <1>2, <1>3 DEF WriteLog

(* The machine that a start creates is in the state BootsInto. *)
LEMMA BootOk == ASSUME CrashInv, Boot PROVE CrashInv'
<1> USE DEF durable, memory, looping, ghosts
<1>1. TypeOK' /\ TrailOk' /\ BootsInto' = BootsInto /\ Full' = Full /\ WillReplay' = WillReplay
  <2>1. UNCHANGED <<session, log, trail, acceptable, intact>>
        BY DEF Boot, LoadSession, ReplayEvent, ReplayDone, CreateMachine
  <2>2. TypeOK'
        BY BootType DEF CrashInv
  <2> QED BY <2>1, <2>2 DEF CrashInv, TrailOk, BootsInto, Full, StatusOnDisk,
                             WillReplay, LoadedMarker
<1>2. CASE LoadSession
  <2>1. trail[1] = NothingReplayed /\ Len(log) \in Nat
        BY DEF CrashInv, TrailOk, TypeOK
  <2>2. LoopOk'
        BY <1>2, <2>1 DEF LoadSession, Goto, CrashInv, LoopOk, WillReplay, Full,
                          LoadedMarker
  <2>3. AdvanceOk' /\ RecoveryOk'
        BY <1>1, <1>2 DEF LoadSession, Goto, CrashInv, AdvanceOk, BeforeMove, RecoveryOk
  <2> QED BY <1>1, <2>2, <2>3 DEF CrashInv
<1>3. CASE ReplayEvent
  <2>1. at \in 1 .. Len(log)
        BY <1>3 DEF ReplayEvent, CrashInv, TypeOK
  <2>2. replay' = trail[at + 1]
        BY <1>3, <2>1 DEF ReplayEvent, CrashInv, LoopOk, TrailOk
  <2>3. LoopOk'
        BY <1>1, <1>3, <2>1, <2>2 DEF ReplayEvent, CrashInv, LoopOk, TypeOK
  <2>4. AdvanceOk' /\ RecoveryOk'
        BY <1>1, <1>3 DEF ReplayEvent, CrashInv, AdvanceOk, BeforeMove, RecoveryOk
  <2> QED BY <1>1, <2>3, <2>4 DEF CrashInv
<1>4. CASE ReplayDone
  <2>1. at = Len(trail)
        BY <1>4 DEF ReplayDone, CrashInv, LoopOk, TypeOK
  <2>2. LoopOk'
        BY <1>1, <1>4, <2>1 DEF ReplayDone, Goto, CrashInv, LoopOk, Full
  <2>3. AdvanceOk' /\ RecoveryOk'
        BY <1>1, <1>4 DEF ReplayDone, Goto, CrashInv, AdvanceOk, BeforeMove, RecoveryOk
  <2> QED BY <1>1, <2>2, <2>3 DEF CrashInv
<1>5. CASE CreateMachine
  <2>1. machine'.state = BootsInto
    <3>1. machine'.state = IF replay.history # <<>> THEN replay.state ELSE StatusOnDisk
          BY <1>5 DEF CreateMachine, Machine, StatusOnDisk
    <3>2. replay = IF WillReplay THEN Full ELSE NothingReplayed
          BY <1>5 DEF CreateMachine, CrashInv, LoopOk
    <3>3. NothingReplayed.history = <<>>
          BY DEF NothingReplayed
    <3> QED BY <3>1, <3>2, <3>3 DEF BootsInto
  <2>2. LoopOk' /\ AdvanceOk'
        BY <1>5 DEF CreateMachine, Goto, LoopOk, AdvanceOk, BeforeMove
  <2>3. RecoveryOk'
        BY <1>1, <1>5, <2>1 DEF CreateMachine, CrashInv, RecoveryOk
  <2> QED BY <1>1, <2>2, <2>3 DEF CrashInv
<1> QED BY <1>2, <1>3, <1>4, <1>5 DEF Boot

LEMMA StartOk ==
    ASSUME CrashInv, NEW to \in States, NEW gate \in {"NONE", "APPROVED", "REJECTED"},
           StartAdvance(to, gate)
    PROVE  CrashInv'
<1> USE DEF durable, memory, looping, ghosts
<1>1. TypeOK'
      BY StartType DEF CrashInv
<1>2. UNCHANGED <<session, log, trail, machine, looping>> /\ pc' = "intent"
      BY DEF StartAdvance, Goto
<1>3. TrailOk' /\ LoopOk'
      BY <1>2 DEF StartAdvance, CrashInv, TrailOk, LoopOk
<1>4. /\ adv'.from = machine.state /\ adv'.to = to
      /\ acceptable' = {machine.state, to}
      /\ intact' => Full.state = machine.state /\ StatusOnDisk = machine.state
      BY DEF StartAdvance, Full, StatusOnDisk
<1>5. BootsInto' = BootsInto /\ Full' = Full /\ StatusOnDisk' = StatusOnDisk
      BY <1>2 DEF BootsInto, Full, StatusOnDisk, WillReplay, LoadedMarker
<1>6. AdvanceOk'
      BY <1>2, <1>4, <1>5 DEF AdvanceOk, BeforeMove
<1>7. RecoveryOk'
      BY <1>2, <1>4, <1>5 DEF RecoveryOk, BootsInto
<1> QED BY <1>1, <1>3, <1>6, <1>7 DEF CrashInv

(* Where a start leads depends on the session and the replay alone. *)
LEMMA BootsIntoStable ==
    ASSUME session' = session, Full' = Full
    PROVE  BootsInto' = BootsInto /\ StatusOnDisk' = StatusOnDisk
  BY DEF BootsInto, StatusOnDisk, WillReplay, LoadedMarker

LEMMA NotNone == TypeOK => adv.from # "NONE" /\ adv.to # "NONE" /\ machine.state # "NONE"
  BY NamedStates DEF TypeOK, Advances, Machines

LEMMA AdvanceKeeps == ASSUME CrashInv, NEW o, Advance(o) PROVE CrashInv'
<1> USE DEF durable, memory, looping, ghosts
<1>1. TypeOK /\ TrailOk /\ LoopOk /\ AdvanceOk /\ RecoveryOk /\ TypeOK'
      BY AdvanceType DEF CrashInv
<1>2. LoopOk'
  <2>1. UNCHANGED <<replay, at>> /\ pc \notin {"replaying", "creating"}
           /\ pc' \notin {"replaying", "creating"}
        BY DEF Advance, WriteIntent, LogIntent, Renew, GateFailed, GatePassed, Move,
               WriteComplete, LogApplied, LogFailed, Release, ThenGoto, Goto
  <2> QED BY <1>1, <2>1 DEF LoopOk
<1>3. CASE WriteIntent(o)
  <2>1. TrailOk' /\ Full' = Full
        BY <1>1, <1>3 DEF WriteIntent, TrailOk, Full
  <2>2. /\ pc = "intent" /\ pc' \in {"logIntent", "idle"}
        /\ session'.status = session.status
        /\ UNCHANGED <<machine, adv, acceptable, intact>>
        BY <1>1, <1>3 DEF WriteIntent, Write, ThenGoto, TypeOK, Sessions
  <2>3. StatusOnDisk' = StatusOnDisk
        BY <2>2 DEF StatusOnDisk
  <2>4. AdvanceOk'
        BY <1>1, <2>1, <2>2, <2>3 DEF AdvanceOk, BeforeMove
  <2>5. RecoveryOk'
        BY <1>1, <2>1, <2>2, <2>3 DEF RecoveryOk, AdvanceOk, BeforeMove, BootsInto
  <2> QED BY <1>1, <1>2, <2>1, <2>4, <2>5 DEF CrashInv
<1>4. CASE LogIntent(o)
  <2>1. TrailOk' /\ Full' = Full
        BY <1>1, <1>4, WriteLogOk DEF LogIntent
  <2>2. /\ pc = "logIntent" /\ pc' \in {"renew", "idle"}
        /\ UNCHANGED <<session, machine, adv, acceptable, intact>>
        BY <1>4 DEF LogIntent, ThenGoto
  <2>3. BootsInto' = BootsInto /\ StatusOnDisk' = StatusOnDisk
        BY <2>1, <2>2, BootsIntoStable
  <2> QED BY <1>1, <1>2, <2>1, <2>2, <2>3
          DEF CrashInv, AdvanceOk, BeforeMove, RecoveryOk
<1>5. CASE Renew(o)
  <2>1. TrailOk' /\ Full' = Full
        BY <1>1, <1>5 DEF Renew, TrailOk, Full
  <2>2. /\ pc = "renew" /\ pc' \in {"move", "gate", "logFailed"}
        /\ UNCHANGED <<session, machine, adv, acceptable, intact>>
        BY <1>5 DEF Renew, ThenGoto
  <2>3. BootsInto' = BootsInto /\ StatusOnDisk' = StatusOnDisk
        BY <2>1, <2>2, BootsIntoStable
  <2> QED BY <1>1, <1>2, <2>1, <2>2, <2>3
          DEF CrashInv, AdvanceOk, BeforeMove, RecoveryOk
<1>6. CASE GateFailed(o)
  <2>1. TrailOk' /\ Full' = Full
        BY <1>1, <1>6 DEF GateFailed, TrailOk, Full
  <2>2. /\ pc = "gate" /\ pc' = "logFailed"
        /\ session'.status \in {session.status, machine.state}
        /\ acceptable' = {adv.from} /\ UNCHANGED <<machine, adv, intact>>
        BY <1>1, <1>6 DEF GateFailed, Write, Saved, Goto, TypeOK, Sessions
  <2>3. intact => StatusOnDisk' = adv.from
        BY <1>1, <2>2, NotNone DEF AdvanceOk, BeforeMove, StatusOnDisk
  <2>4. AdvanceOk'
        BY <2>2 DEF AdvanceOk, BeforeMove
  <2>5. RecoveryOk'
        BY <1>1, <2>1, <2>2, <2>3 DEF RecoveryOk, AdvanceOk, BeforeMove, BootsInto
  <2> QED BY <1>1, <1>2, <2>1, <2>4, <2>5 DEF CrashInv
<1>7. CASE GatePassed(o)
  <2>1. TrailOk' /\ Full' = Full
        BY <1>1, <1>7 DEF GatePassed, TrailOk, Full
  <2>2. /\ pc = "gate" /\ pc' \in {"move", "logFailed"}
        /\ session'.status \in {session.status, machine.state}
        /\ UNCHANGED <<machine, adv, acceptable, intact>>
        BY <1>1, <1>7 DEF GatePassed, Write, Saved, ThenGoto, TypeOK, Sessions
  <2>3. intact => StatusOnDisk' = adv.from
        BY <1>1, <2>2, NotNone DEF AdvanceOk, BeforeMove, StatusOnDisk
  <2>4. AdvanceOk'
        BY <1>1, <2>1, <2>2, <2>3 DEF AdvanceOk, BeforeMove
  <2>5. RecoveryOk'
        BY <1>1, <2>1, <2>2, <2>3 DEF RecoveryOk, AdvanceOk, BeforeMove, BootsInto
  <2> QED BY <1>1, <1>2, <2>1, <2>4, <2>5 DEF CrashInv
<1>8. CASE Move(o)
  <2>1. TrailOk' /\ Full' = Full
        BY <1>1, <1>8 DEF Move, TrailOk, Full
  <2>2. machine'.state = adv.to
        BY <1>1, <1>8, MovedType DEF Move, TypeOK, Advances
  <2>3. /\ pc = "move" /\ pc' \in {"complete", "logFailed"}
        /\ session'.status \in {session.status, adv.to}
        /\ pc' = "complete" => session'.status = adv.to
        /\ UNCHANGED <<adv, acceptable, intact>>
        BY <1>1, <1>8, <2>2 DEF Move, Write, Saved, ThenGoto, TypeOK, Sessions
  <2>4. intact => StatusOnDisk' \in {adv.from, adv.to}
        BY <1>1, <2>3, NotNone DEF AdvanceOk, BeforeMove, StatusOnDisk
  <2>5. AdvanceOk'
        BY <2>2, <2>3 DEF AdvanceOk, BeforeMove
  <2>6. RecoveryOk'
        BY <1>1, <2>1, <2>2, <2>3, <2>4 DEF RecoveryOk, AdvanceOk, BeforeMove, BootsInto
  <2> QED BY <1>1, <1>2, <2>1, <2>5, <2>6 DEF CrashInv
<1>9. CASE WriteComplete(o)
  <2>1. TrailOk' /\ Full' = Full
        BY <1>1, <1>9 DEF WriteComplete, TrailOk, Full
  <2>2. /\ pc = "complete" /\ pc' \in {"logApplied", "logFailed"}
        /\ session' = session \/ session'.marker = Complete
        /\ pc' = "logApplied" => session'.marker = Complete
        /\ session'.status = session.status
        /\ UNCHANGED <<machine, adv, acceptable, intact>>
        BY <1>1, <1>9 DEF WriteComplete, Write, ThenGoto, TypeOK, Sessions
  <2>3. BootsInto' \in {BootsInto, adv.to}
    <3>1. CASE session' = session
          BY <2>1, <3>1, BootsIntoStable
    <3>2. CASE session'.marker = Complete
      <4>1. ~WillReplay'
            BY <3>2, NamesDiffer DEF WillReplay, LoadedMarker
      <4> QED BY <1>1, <2>2, <4>1, NotNone DEF BootsInto, StatusOnDisk, AdvanceOk
    <3> QED BY <2>2, <3>1, <3>2
  <2>4. AdvanceOk'
        BY <1>1, <2>2 DEF AdvanceOk, BeforeMove
  <2>5. RecoveryOk'
        BY <1>1, <2>2, <2>3 DEF RecoveryOk, AdvanceOk
  <2> QED BY <1>1, <1>2, <2>1, <2>4, <2>5 DEF CrashInv
<1>10. CASE LogApplied(o)
  <2>1. TrailOk'
        BY <1>1, <1>10, WriteLogOk DEF LogApplied
  <2>2. /\ pc = "logApplied" /\ pc' \in {"release", "logFailed"}
        /\ UNCHANGED <<session, machine, adv>>
        BY <1>10 DEF LogApplied, ThenGoto
  <2>3. BootsInto' = adv.to
    <3>1. ~WillReplay'
          BY <1>1, <2>2, NamesDiffer DEF WillReplay, LoadedMarker, AdvanceOk
    <3> QED BY <1>1, <2>2, <3>1, NotNone DEF BootsInto, StatusOnDisk, AdvanceOk
  <2>4. machine.state = adv.to /\ (intact' => adv.to \in acceptable')
        BY <1>1, <1>10, <2>2 DEF LogApplied, AdvanceOk, RecoveryOk
  <2>5. AdvanceOk' /\ RecoveryOk'
        BY <2>2, <2>3, <2>4 DEF AdvanceOk, BeforeMove, RecoveryOk
  <2> QED BY <1>1, <1>2, <2>1, <2>5 DEF CrashInv
<1>11. CASE LogFailed(o)
  <2>1. TrailOk' /\ Full' = Full
        BY <1>1, <1>11, WriteLogOk DEF LogFailed
  <2>2. /\ pc' = "release" /\ UNCHANGED <<session, machine, adv, acceptable, intact>>
        BY <1>11 DEF LogFailed, Goto
  <2>3. BootsInto' = BootsInto
        BY <2>1, <2>2, BootsIntoStable
  <2> QED BY <1>1, <1>2, <2>1, <2>2, <2>3
          DEF CrashInv, AdvanceOk, BeforeMove, RecoveryOk
<1>12. CASE Release(o)
  <2>1. TrailOk' /\ Full' = Full
        BY <1>1, <1>12 DEF Release, TrailOk, Full
  <2>2. /\ pc' = "idle" /\ UNCHANGED <<session, machine, acceptable, intact>>
        BY <1>12 DEF Release, Goto
  <2>3. BootsInto' = BootsInto
        BY <2>1, <2>2, BootsIntoStable
  <2> QED BY <1>1, <1>2, <2>1, <2>2, <2>3
          DEF CrashInv, AdvanceOk, BeforeMove, RecoveryOk
<1> QED BY <1>3, <1>4, <1>5, <1>6, <1>7, <1>8, <1>9, <1>10, <1>11, <1>12 DEF Advance

(* What is saved outside an advance is what the next start loads, unless the
   marker makes it replay; then the promise is withdrawn. *)
LEMMA NoteSaveOk ==
    ASSUME CrashInv, machine' \in Machines, NEW o, Write(o, Saved(machine')), NoteSave(o),
           UNCHANGED log
    PROVE  TrailOk' /\ RecoveryOk'
<1>1. TypeOK /\ TrailOk /\ RecoveryOk
      BY DEF CrashInv
<1>2. trail' = trail /\ Full' = Full
      BY DEF NoteSave, Full
<1>3. TrailOk'
      BY <1>1, <1>2 DEF TrailOk
<1>4. CASE o = "lost"
  <2>1. session' = session /\ acceptable' = acceptable \cup {machine'.state}
        BY <1>4 DEF Write, NoteSave
  <2>2. intact' => intact
        BY <1>4 DEF NoteSave
  <2>3. BootsInto' = BootsInto
        BY <1>2, <2>1, BootsIntoStable
  <2> QED BY <1>1, <1>3, <2>1, <2>2, <2>3 DEF RecoveryOk
<1>5. CASE o # "lost"
  <2>1. session' = Saved(machine') /\ acceptable' = {machine'.state}
        BY <1>5 DEF Write, NoteSave
  <2>2. session'.status = machine'.state /\ session'.marker = session.marker
        BY <1>1, <2>1 DEF Saved, TypeOK, Sessions
  <2>3. machine'.state # "NONE"
        BY NamedStates DEF Machines
  <2>4. intact' => BootsInto' = machine'.state
        BY <2>2, <2>3 DEF NoteSave, BootsInto, WillReplay, LoadedMarker, StatusOnDisk
  <2> QED BY <1>3, <2>1, <2>4 DEF RecoveryOk
<1> QED BY <1>4, <1>5

LEMMA OperateOk ==
    ASSUME CrashInv, NEW o, HookFails(o) \/ Operate(o)
    PROVE  CrashInv'
<1> USE DEF durable, memory, looping, ghosts
<1>1. TypeOK /\ TypeOK' /\ machine' \in Machines
      BY OperateType DEF CrashInv, TypeOK
<1>2. pc' = "idle" /\ pc \in {"idle", "intent"} /\ UNCHANGED <<log, replay, at>>
      BY DEF Operate, HookFails, Fail, Recover, Pause, Reset, Goto
<1>3. LoopOk' /\ AdvanceOk'
      BY <1>2 DEF CrashInv, LoopOk, AdvanceOk, BeforeMove
<1>4. ASSUME Write(o, Saved(machine')), NoteSave(o)
      PROVE  TrailOk' /\ RecoveryOk'
      BY <1>1, <1>2, <1>4, NoteSaveOk
<1>5. CASE HookFails(o) \/ Fail(o) \/ Recover(o)
      BY <1>1, <1>3, <1>4, <1>5 DEF HookFails, Fail, Recover, CrashInv
<1>6. CASE Pause(o)
  <2>1. CASE o = "ok"
    <3>1. session' = [Saved(machine) EXCEPT !.marker = Complete]
          BY <1>6, <2>1 DEF Pause, Write
    <3>2. /\ acceptable' = {machine.state} /\ UNCHANGED <<trail, machine>>
          BY <1>6, <2>1 DEF Pause
    <3>3. session'.status = machine.state /\ session'.marker = Complete
          BY <1>1, <3>1 DEF Saved, TypeOK, Sessions
    <3>4. BootsInto' = machine.state
          BY <1>1, <3>3, NotNone, NamesDiffer
          DEF BootsInto, WillReplay, LoadedMarker, StatusOnDisk
    <3>5. TrailOk'
          BY <1>2, <3>2 DEF CrashInv, TrailOk
    <3> QED BY <1>1, <1>3, <3>2, <3>4, <3>5 DEF CrashInv, RecoveryOk
  <2>2. CASE o # "ok"
    <3>1. machine' = machine /\ NoteSave(o) /\ Write(o, Saved(machine'))
          BY <1>6, <2>2 DEF Pause
    <3> QED BY <1>1, <1>3, <1>4, <3>1 DEF CrashInv
  <2> QED BY <2>1, <2>2
<1>7. ASSUME NEW mode \in Modes, NEW newEngine \in BOOLEAN,
             NEW phases \in {PhasesOfMode[mode]} \cup PhaseChoices,
             Reset(mode, phases, newEngine, o)
      PROVE  CrashInv'
      BY <1>1, <1>3, <1>4, <1>7 DEF Reset, CrashInv
<1> QED BY <1>5, <1>6, <1>7 DEF Operate

(* A crash leaves what the next start leads to as it was. *)
LEMMA CrashOk == ASSUME CrashInv, Crash PROVE CrashInv'
<1> USE DEF durable, memory, looping, ghosts
<1>1. TypeOK'
      BY TypeStep DEF CrashInv, Next
<1>2. pc' = "down" /\ replay' = NothingReplayed /\ at' = 1
      BY DEF Crash, Goto
<1>3. UNCHANGED <<session, log, trail, machine, acceptable, intact>>
      BY DEF Crash
<1>4. BootsInto' = BootsInto
      BY <1>3, BootsIntoStable DEF Full
<1>5. TrailOk' /\ LoopOk' /\ AdvanceOk' /\ RecoveryOk'
      BY <1>2, <1>3, <1>4
      DEF CrashInv, TrailOk, LoopOk, AdvanceOk, BeforeMove, RecoveryOk
<1> QED BY <1>1, <1>5 DEF CrashInv

LEMMA InitCrash == Init => CrashInv
<1> SUFFICES ASSUME Init PROVE CrashInv
    OBVIOUS
<1>1. /\ TypeOK /\ pc = "down" /\ log = <<>> /\ trail = <<NothingReplayed>>
      /\ replay = NothingReplayed /\ at = 1
      BY InitType DEF Init
<1>2. TrailOk /\ LoopOk /\ AdvanceOk
      BY <1>1 DEF TrailOk, LoopOk, AdvanceOk, BeforeMove
<1>3. BootsInto = "IDLE" /\ machine.state = "IDLE" /\ acceptable = {"IDLE"}
  <2>1. session.status = "NONE"
        BY DEF Init
  <2>2. ~WillReplay
        BY <2>1, NamesDiffer DEF WillReplay, LoadedMarker
  <2> QED BY <2>1, <2>2 DEF Init, BootsInto, StatusOnDisk, Fresh, Machine
<1> QED BY <1>1, <1>2, <1>3 DEF CrashInv, RecoveryOk

LEMMA CrashStep == CrashInv /\ [Next]_vars => CrashInv'
<1> SUFFICES ASSUME CrashInv, [Next]_vars PROVE CrashInv'
    OBVIOUS
<1> USE DEF durable, memory, looping, ghosts
<1>1. TypeOK'
      BY TypeStep DEF CrashInv
<1>2. CASE Boot
      BY <1>2, BootOk
<1>3. CASE Start
      BY <1>3, StartOk DEF Start
<1>4. CASE LeaseExpires \/ UNCHANGED vars
  <2>1. UNCHANGED <<session, log, pc, machine, adv, replay, at, trail, acceptable, intact>>
        BY <1>4 DEF LeaseExpires, vars
  <2>2. BootsInto' = BootsInto /\ StatusOnDisk' = StatusOnDisk /\ Full' = Full
           /\ WillReplay' = WillReplay
        BY <2>1 DEF BootsInto, StatusOnDisk, Full, WillReplay, LoadedMarker
  <2> QED BY <1>1, <2>1, <2>2
          DEF CrashInv, TrailOk, LoopOk, AdvanceOk, BeforeMove, RecoveryOk
<1>5. CASE Crash
      BY <1>5, CrashOk
<1>6. ASSUME NEW o \in Outcomes, Advance(o) \/ HookFails(o) \/ Operate(o)
      PROVE  CrashInv'
      BY <1>6, AdvanceKeeps, OperateOk
<1> QED BY <1>2, <1>3, <1>4, <1>5, <1>6 DEF Next

(* A crash anywhere in an advance that began with the session and the log in
   agreement leads back to the state the transition left or to the one it
   enters, whatever threw before and however long the log. *)
THEOREM CrashKeepsTransitionTheorem == Spec => []CrashKeepsTransition
<1>1. CrashInv => CrashKeepsTransition
      BY DEF CrashInv, RecoveryOk, CrashKeepsTransition
<1> QED BY <1>1, InitCrash, CrashStep, PTL DEF Spec

-----------------------------------------------------------------------------
(* The trace leads to the state.  A trace is a history with the state it
   leads to; the machine, the session and the replay loop each have one, and
   a step makes each of them only from one of the others, from nothing, by
   one move, or by the way out of ERROR. *)
Trace(h, state) == [history |-> h, state |-> state]
OfMachine == Trace(machine.history, machine.state)
OfSession == Trace(session.history, session.status)
OfReplay == Trace(replay.history, replay.state)
EmptyTrace == Trace(<<>>, "IDLE")
Moves(t, to) == Trace(Append(t.history, Step(t.state, to)), to)

LEMMA MachineSource ==
    ASSUME TypeOK, [Next]_vars
    PROVE  \/ OfMachine' \in {OfMachine, OfReplay, EmptyTrace, Moves(OfMachine, "ERROR")}
           \/ session.status # "NONE" /\ OfMachine' = OfSession
           \/ pc = "move" /\ OfMachine' = Moves(OfMachine, adv.to)
           \/ machine.state = "ERROR"
                /\ OfMachine' = Trace(machine.history, LastGood(machine.history))
<1> USE DEF durable, memory, looping, ghosts
<1>1. ASSUME machine' = machine PROVE OfMachine' = OfMachine
      BY <1>1 DEF OfMachine
<1>2. ASSUME NEW to, machine' = Moved(machine, to)
      PROVE  OfMachine' = Moves(OfMachine, to)
      BY <1>2 DEF Moved, Moves, OfMachine, Trace, TypeOK, Machines
<1>3. CASE CreateMachine
  <2>1. machine'.state = IF replay.history # <<>> THEN replay.state
                         ELSE IF session.status = "NONE" THEN "IDLE" ELSE session.status
        BY <1>3 DEF CreateMachine, Machine
  <2>2. machine'.history = IF machine'.state = "IDLE" THEN <<>>
                           ELSE IF replay.history # <<>> THEN replay.history
                                ELSE session.history
        BY <1>3 DEF CreateMachine, Machine
  <2>3. CASE machine'.state = "IDLE"
        BY <2>2, <2>3 DEF OfMachine, EmptyTrace, Trace
  <2>4. CASE machine'.state # "IDLE" /\ replay.history # <<>>
        BY <2>1, <2>2, <2>4 DEF OfMachine, OfReplay, Trace
  <2>5. CASE machine'.state # "IDLE" /\ replay.history = <<>>
        BY <2>1, <2>2, <2>5 DEF OfMachine, OfSession, Trace
  <2> QED BY <2>3, <2>4, <2>5
<1>4. CASE LoadSession \/ ReplayEvent \/ ReplayDone
      BY <1>1, <1>4 DEF LoadSession, ReplayEvent, ReplayDone
<1>5. CASE Start \/ LeaseExpires \/ Crash \/ UNCHANGED vars
      BY <1>1, <1>5 DEF Start, StartAdvance, LeaseExpires, Crash, vars
<1>6. ASSUME NEW o, Advance(o), ~Move(o) PROVE machine' = machine
      BY <1>6 DEF Advance, WriteIntent, LogIntent, Renew, GateFailed, GatePassed,
                  WriteComplete, LogApplied, LogFailed, Release
<1>7. ASSUME NEW o, Move(o) PROVE pc = "move" /\ OfMachine' = Moves(OfMachine, adv.to)
      BY <1>2, <1>7 DEF Move
<1>8. ASSUME NEW o, HookFails(o) \/ Fail(o) PROVE OfMachine' = Moves(OfMachine, "ERROR")
      BY <1>2, <1>8 DEF HookFails, Fail
<1>9. ASSUME NEW o, Recover(o)
      PROVE  machine.state = "ERROR"
               /\ OfMachine' = Trace(machine.history, LastGood(machine.history))
      BY <1>9 DEF Recover, OfMachine, Trace, TypeOK, Machines
<1>10. ASSUME NEW o, Pause(o) PROVE machine' = machine
      BY <1>10 DEF Pause
<1>11. ASSUME NEW mode, NEW phases, NEW newEngine, NEW o, Reset(mode, phases, newEngine, o)
       PROVE  OfMachine' = EmptyTrace
      BY <1>11 DEF Reset, Fresh, Machine, OfMachine, EmptyTrace, Trace
<1> QED BY <1>1, <1>3, <1>4, <1>5, <1>6, <1>7, <1>8, <1>9, <1>10, <1>11
        DEF Next, Boot, Operate

LEMMA SavedTrace ==
    ASSUME TypeOK, NEW m, NEW o, Write(o, Saved(m))
    PROVE  OfSession' \in {OfSession, Trace(m.history, m.state)}
<1>1. /\ Saved(m).history = m.history
      /\ Saved(m).status = m.state
      BY DEF Saved, TypeOK, Sessions
<1> QED BY <1>1 DEF Write, OfSession, Trace

LEMMA SessionSource ==
    ASSUME TypeOK, [Next]_vars
    PROVE  OfSession' \in {OfSession, OfMachine'}
<1> USE DEF durable, memory, looping, ghosts
<1>1. ASSUME session' = session PROVE OfSession' = OfSession
      BY <1>1 DEF OfSession
<1>2. ASSUME NEW o, Write(o, Saved(machine')) PROVE OfSession' \in {OfSession, OfMachine'}
      BY <1>2, SavedTrace DEF OfMachine
<1>3. ASSUME NEW o, NEW m, Write(o, [session EXCEPT !.marker = m])
      PROVE  OfSession' = OfSession
      BY <1>3 DEF Write, OfSession, TypeOK, Sessions
<1>4. CASE Boot \/ Start \/ LeaseExpires \/ Crash \/ UNCHANGED vars
      BY <1>1, <1>4 DEF Boot, LoadSession, ReplayEvent, ReplayDone, CreateMachine,
                        Start, StartAdvance, LeaseExpires, Crash, vars
<1>5. ASSUME NEW o, LogIntent(o) \/ Renew(o) \/ LogApplied(o) \/ LogFailed(o) \/ Release(o)
      PROVE  session' = session
      BY <1>5 DEF LogIntent, Renew, LogApplied, LogFailed, Release
<1>6. ASSUME NEW o, WriteIntent(o) \/ WriteComplete(o) PROVE OfSession' = OfSession
      BY <1>3, <1>6 DEF WriteIntent, WriteComplete
<1>7. ASSUME NEW o, GateFailed(o) \/ GatePassed(o) \/ Move(o) \/ HookFails(o)
                      \/ Fail(o) \/ Recover(o)
      PROVE  Write(o, Saved(machine'))
      BY <1>7 DEF GateFailed, GatePassed, Move, HookFails, Fail, Recover
<1>8. ASSUME NEW mode, NEW phases, NEW newEngine, NEW o, Reset(mode, phases, newEngine, o)
      PROVE  Write(o, Saved(machine'))
      BY <1>8 DEF Reset
<1>9. ASSUME NEW o, Pause(o) PROVE OfSession' \in {OfSession, OfMachine'}
  <2>1. machine' = machine
        BY <1>9 DEF Pause
  <2>2. CASE o = "ok"
    <3>1. session' = [Saved(machine) EXCEPT !.marker = Complete]
          BY <1>9, <2>2 DEF Pause, Write
    <3> QED BY <2>1, <3>1 DEF Saved, OfSession, OfMachine, Trace, TypeOK, Sessions
  <2>3. CASE o # "ok"
        BY <1>2, <1>9, <2>1, <2>3 DEF Pause
  <2> QED BY <2>2, <2>3
<1> QED BY <1>1, <1>2, <1>4, <1>5, <1>6, <1>7, <1>8, <1>9 DEF Next, Advance, Operate

LEMMA ReplaySource ==
    ASSUME TypeOK, [Next]_vars
    PROVE  \/ OfReplay' \in {OfReplay, EmptyTrace}
           \/ \E i \in DOMAIN log :
                 log[i].status = "applied" /\ OfReplay' = Moves(OfReplay, log[i].to)
<1> USE DEF durable, memory, looping, ghosts
<1>1. ASSUME replay' = replay PROVE OfReplay' = OfReplay
      BY <1>1 DEF OfReplay
<1>2. ASSUME replay' = NothingReplayed PROVE OfReplay' = EmptyTrace
      BY <1>2 DEF OfReplay, EmptyTrace, NothingReplayed
<1>3. CASE ReplayEvent
  <2>1. at \in DOMAIN log /\ replay' = Replayed(replay, log[at])
        BY <1>3 DEF ReplayEvent, TypeOK
  <2>2. CASE log[at].status = "applied" /\ log[at].id \notin replay.applied
               /\ log[at].from = replay.state
        BY <2>1, <2>2 DEF Replayed, OfReplay, Moves, Trace, TypeOK, Replays
  <2>3. CASE ~(log[at].status = "applied" /\ log[at].id \notin replay.applied
               /\ log[at].from = replay.state)
    <3>1. replay'.history = replay.history /\ replay'.state = replay.state
          BY <2>1, <2>3 DEF Replayed, TypeOK, Replays
    <3> QED BY <3>1 DEF OfReplay
  <2> QED BY <2>1, <2>2, <2>3
<1>4. CASE LoadSession \/ ReplayDone \/ Start \/ LeaseExpires \/ UNCHANGED vars
      BY <1>1, <1>4 DEF LoadSession, ReplayDone, Start, StartAdvance, LeaseExpires, vars
<1>5. CASE CreateMachine \/ Crash
      BY <1>2, <1>5 DEF CreateMachine, Crash
<1>6. ASSUME NEW o, Advance(o) \/ HookFails(o) PROVE replay' = replay
      BY <1>6 DEF Advance, WriteIntent, LogIntent, Renew, GateFailed, GatePassed, Move,
                  WriteComplete, LogApplied, LogFailed, Release, HookFails
<1>7. ASSUME NEW o, Operate(o) PROVE replay' = replay
      BY <1>7 DEF Operate, Fail, Recover, Pause, Reset
<1> QED BY <1>1, <1>3, <1>4, <1>5, <1>6, <1>7 DEF Next, Boot

(* Only one entry of a history tells where a recovery goes, and never to
   ERROR. *)
LEMMA TellsOnce ==
    ASSUME NEW h \in Seq(Steps), NEW i \in DOMAIN h, NEW j \in DOMAIN h,
           Tells(h, i), Tells(h, j)
    PROVE  i = j
  BY DEF Tells

LEMMA LastGoodOf ==
    ASSUME NEW h \in Seq(Steps), NEW i \in DOMAIN h, Tells(h, i)
    PROVE  LastGood(h) = IF h[i].to # "ERROR" THEN h[i].to ELSE h[i].from
<1>1. i = CHOOSE j \in DOMAIN h : Tells(h, j)
      BY TellsOnce
<1> QED BY <1>1 DEF LastGood

LEMMA LastGoodIsGood == \A h \in Seq(Steps) : LastGood(h) # "ERROR"
<1> SUFFICES ASSUME NEW h \in Seq(Steps) PROVE LastGood(h) # "ERROR"
    OBVIOUS
<1>1. CASE \E i \in DOMAIN h : Tells(h, i)
      BY <1>1, LastGoodOf DEF Tells
<1>2. CASE ~ \E i \in DOMAIN h : Tells(h, i)
      BY <1>2 DEF LastGood
<1> QED BY <1>1, <1>2

Leads(t) == LeadsTo(t.history, t.state)

LEMMA EmptyLeads == Leads(EmptyTrace)
<1>1. LastGood(<<>>) = "IDLE"
      BY DEF LastGood
<1>2. Connected(<<>>)
      BY DEF Connected
<1> QED BY <1>1, <1>2 DEF Leads, LeadsTo, EmptyTrace, Trace

(* A move from where the trace leads extends it, also out of ERROR. *)
LEMMA MovesLead ==
    ASSUME NEW t, t.history \in Seq(Steps), t.state \in States, Leads(t),
           NEW to \in States
    PROVE  Leads(Moves(t, to))
<1> DEFINE h == t.history
           n == Len(h)
           longer == Append(h, Step(t.state, to))
<1>1. /\ h \in Seq(Steps) /\ n \in Nat
      /\ Step(t.state, to) \in Steps
      /\ longer \in Seq(Steps) /\ Len(longer) = n + 1
      /\ \A i \in 1 .. n : longer[i] = h[i]
      /\ longer[n + 1] = Step(t.state, to)
      BY DEF Step, Steps
<1> HIDE DEF h, longer
<1>2. Connected(h) /\ (t.state = "ERROR" => h # <<>> /\ h[n].to = "ERROR")
        /\ (t.state # "ERROR" => t.state = LastGood(h))
      BY DEF Leads, LeadsTo, h
<1>3. \A i \in 1 .. n : SubSeq(longer, 1, i) = SubSeq(h, 1, i)
  <2> SUFFICES ASSUME NEW i \in 1 .. n PROVE SubSeq(longer, 1, i) = SubSeq(h, 1, i)
      OBVIOUS
  <2>1. SubSeq(longer, 1, i) \in Seq(Steps) /\ SubSeq(h, 1, i) \in Seq(Steps)
        BY <1>1
  <2> QED BY <1>1, <2>1
<1>4. SubSeq(h, 1, n) = h
      BY <1>1
<1>5. ASSUME NEW i \in 1 .. n
      PROVE  \/ longer[i + 1].from = longer[i].to
             \/ longer[i].to = "ERROR"
                  /\ longer[i + 1].from = LastGood(SubSeq(longer, 1, i))
  <2>1. CASE i < n
    <3>1. i \in 1 .. n - 1 /\ i + 1 \in 1 .. n
          BY <1>1, <2>1
    <3>2. longer[i] = h[i] /\ longer[i + 1] = h[i + 1]
             /\ SubSeq(longer, 1, i) = SubSeq(h, 1, i)
          BY <1>1, <1>3, <3>1
    <3>3. \/ h[i + 1].from = h[i].to
          \/ h[i].to = "ERROR" /\ h[i + 1].from = LastGood(SubSeq(h, 1, i))
          BY <1>2, <3>1 DEF Connected
    <3> QED BY <3>2, <3>3
  <2>2. CASE i = n
    <3>1. longer[i + 1].from = t.state /\ longer[i] = h[n]
          BY <1>1, <2>2 DEF Step
    <3>2. CASE t.state = "ERROR"
          BY <1>2, <3>1, <3>2
    <3>3. CASE t.state # "ERROR" /\ h[n].to = "ERROR"
          BY <1>2, <1>3, <1>4, <2>2, <3>1, <3>3
    <3>4. CASE t.state # "ERROR" /\ h[n].to # "ERROR"
      <4>1. Tells(h, n) /\ n \in DOMAIN h
            BY <1>1, <2>2, <3>4 DEF Tells
      <4>2. LastGood(h) = h[n].to
            BY <1>1, <3>4, <4>1, LastGoodOf
      <4> QED BY <1>2, <3>1, <3>4, <4>2
    <3> QED BY <3>2, <3>3, <3>4
  <2> QED BY <1>1, <2>1, <2>2
<1>6. Connected(longer)
      BY <1>1, <1>5 DEF Connected
<1>7. to # "ERROR" => LastGood(longer) = to
  <2> SUFFICES ASSUME to # "ERROR" PROVE LastGood(longer) = to
      OBVIOUS
  <2>1. Tells(longer, n + 1) /\ n + 1 \in DOMAIN longer /\ longer[n + 1].to = to
        BY <1>1 DEF Tells, Step
  <2> QED BY <1>1, <2>1, LastGoodOf
<1>8. longer # <<>> /\ longer[Len(longer)].to = to
      BY <1>1 DEF Step
<1> QED BY <1>6, <1>7, <1>8 DEF Leads, LeadsTo, Moves, Trace, longer, h

(* The way out of ERROR. *)
LEMMA RecoveryLeads ==
    ASSUME NEW t, t.history \in Seq(Steps), Leads(t)
    PROVE  Leads(Trace(t.history, LastGood(t.history)))
  BY LastGoodIsGood DEF Leads, LeadsTo, Trace

TraceInv ==
    /\ TypeOK
    /\ Leads(OfMachine)
    /\ session.status # "NONE" => Leads(OfSession)
    /\ Leads(OfReplay)

LEMMA InitTraces == Init => TraceInv
<1> SUFFICES ASSUME Init PROVE TraceInv
    OBVIOUS
<1>1. OfMachine = EmptyTrace /\ OfReplay = EmptyTrace
      BY DEF Init, Fresh, Machine, NothingReplayed, OfMachine, OfReplay, EmptyTrace, Trace
<1>2. session.status = "NONE"
      BY DEF Init
<1> QED BY <1>1, <1>2, InitType, EmptyLeads DEF TraceInv

LEMMA TraceStep == TraceInv /\ [Next]_vars => TraceInv'
<1> SUFFICES ASSUME TraceInv, [Next]_vars PROVE TraceInv'
    OBVIOUS
<1>1. TypeOK /\ TypeOK'
      BY TypeStep DEF TraceInv
<1>2. /\ OfMachine.history \in Seq(Steps) /\ OfMachine.state \in States
      /\ OfReplay.history \in Seq(Steps) /\ OfReplay.state \in States
      BY <1>1 DEF TypeOK, Machines, Replays, OfMachine, OfReplay, Trace
<1>3. Leads(OfMachine')
  <2>1. adv.to \in States
        BY <1>1 DEF TypeOK, Advances
  <2>2. Leads(Moves(OfMachine, "ERROR")) /\ Leads(Moves(OfMachine, adv.to))
        BY <1>2, <2>1, MovesLead, NamedStates DEF TraceInv
  <2>3. Leads(Trace(machine.history, LastGood(machine.history)))
        BY <1>2, RecoveryLeads DEF TraceInv, OfMachine, Trace
  <2> QED BY <1>1, <2>2, <2>3, MachineSource, EmptyLeads DEF TraceInv
<1>4. session'.status # "NONE" => Leads(OfSession')
  <2>1. CASE OfSession' = OfMachine'
        BY <1>3, <2>1
  <2>2. CASE OfSession' = OfSession
    <3>1. session'.status = session.status
          BY <2>2 DEF OfSession, Trace
    <3> QED BY <2>2, <3>1 DEF TraceInv
  <2> QED BY <1>1, <2>1, <2>2, SessionSource
<1>5. Leads(OfReplay')
  <2>1. ASSUME NEW i \in DOMAIN log PROVE Leads(Moves(OfReplay, log[i].to))
    <3>1. log[i] \in Events
          BY <1>1 DEF TypeOK
    <3>2. log[i].to \in States
          BY <3>1 DEF Events
    <3> QED BY <1>2, <3>2, MovesLead DEF TraceInv
  <2> QED BY <1>1, <2>1, ReplaySource, EmptyLeads DEF TraceInv
<1>6. Leads(OfMachine)' /\ Leads(OfReplay)' /\ (session.status # "NONE" => Leads(OfSession))'
      BY <1>3, <1>4, <1>5
<1> QED BY <1>1, <1>6 DEF TraceInv

(* The trace of the machine, and of the session, is a connected path that
   leads to its state, through every advance, failure, recovery, restart,
   replay and reset. *)
THEOREM TraceLeadsToStateTheorem == Spec => []TraceLeadsToState
<1>1. TraceInv => TraceLeadsToState
      BY DEF TraceInv, TraceLeadsToState, Leads, OfMachine, OfSession, Trace
<1> QED BY <1>1, InitTraces, TraceStep, PTL DEF Spec

-----------------------------------------------------------------------------
(* An applied event is never dropped.  A transition id stands for one target,
   in the log, in the markers and in the advance that runs, and one that may
   still be used has not been applied. *)
Underway == pc \in {"intent", "logIntent", "renew", "gate", "move", "complete",
                    "logApplied", "logFailed"}

Bound(m) == IF m.status = "IN_PROGRESS" THEN {<<m.id, m.target>>} ELSE {}
Running == IF Underway THEN {<<adv.id, adv.to>>} ELSE {}
Pending == Bound(session.marker) \cup Bound(marker) \cup Running
Logged == {<<log[i].id, log[i].to>> : i \in DOMAIN log}

OneTarget ==
    \A p, q \in Pending \cup Logged :
        p[1] \in Nat /\ p[1] < nextId /\ (p[1] = q[1] => p[2] = q[2])

Unapplied ==
    \A p \in Pending, i \in DOMAIN log : log[i].status = "applied" => log[i].id # p[1]

IdsInv == CrashInv /\ OneTarget /\ Unapplied

LEMMA BoundMarkers ==
    /\ Bound(NoMarker) = {} /\ Bound(Complete) = {}
    /\ \A to, id : Bound(InProgress(to, id)) = {<<id, to>>}
  BY DEF Bound, NoMarker, Complete, InProgress

LEMMA SessionMarkerSource ==
    ASSUME TypeOK, [Next]_vars
    PROVE  \/ session'.marker \in {session.marker, Complete}
           \/ pc = "intent" /\ session'.marker = InProgress(adv.to, adv.id)
<1> USE DEF durable, memory, looping, ghosts
<1>1. ASSUME NEW o, NEW m, Write(o, Saved(m)) PROVE session'.marker = session.marker
      BY <1>1 DEF Write, Saved, TypeOK, Sessions
<1>2. ASSUME NEW o, NEW m, Write(o, [session EXCEPT !.marker = m])
      PROVE  session'.marker \in {session.marker, m}
      BY <1>2 DEF Write, TypeOK, Sessions
<1>3. CASE Boot \/ Start \/ LeaseExpires \/ Crash \/ UNCHANGED vars
      BY <1>3 DEF Boot, LoadSession, ReplayEvent, ReplayDone, CreateMachine,
                  Start, StartAdvance, LeaseExpires, Crash, vars
<1>4. ASSUME NEW o, LogIntent(o) \/ Renew(o) \/ LogApplied(o) \/ LogFailed(o) \/ Release(o)
      PROVE  session' = session
      BY <1>4 DEF LogIntent, Renew, LogApplied, LogFailed, Release
<1>5. ASSUME NEW o, WriteIntent(o)
      PROVE  pc = "intent" /\ session'.marker \in {session.marker, InProgress(adv.to, adv.id)}
      BY <1>2, <1>5 DEF WriteIntent
<1>6. ASSUME NEW o, WriteComplete(o) PROVE session'.marker \in {session.marker, Complete}
      BY <1>2, <1>6 DEF WriteComplete
<1>7. ASSUME NEW o, GateFailed(o) \/ GatePassed(o) \/ Move(o) \/ HookFails(o)
                      \/ Fail(o) \/ Recover(o)
      PROVE  session'.marker = session.marker
      BY <1>1, <1>7 DEF GateFailed, GatePassed, Move, HookFails, Fail, Recover
<1>8. ASSUME NEW mode, NEW phases, NEW newEngine, NEW o, Reset(mode, phases, newEngine, o)
      PROVE  session'.marker = session.marker
      BY <1>1, <1>8 DEF Reset
<1>9. ASSUME NEW o, Pause(o) PROVE session'.marker \in {session.marker, Complete}
  <2>1. CASE o = "ok"
    <3>1. session' = [Saved(machine) EXCEPT !.marker = Complete]
          BY <1>9, <2>1 DEF Pause, Write
    <3> QED BY <3>1 DEF Saved, TypeOK, Sessions
  <2>2. CASE o # "ok"
        BY <1>1, <1>9, <2>2 DEF Pause
  <2> QED BY <2>1, <2>2
<1> QED BY <1>3, <1>4, <1>5, <1>6, <1>7, <1>8, <1>9 DEF Next, Advance, Operate

LEMMA MarkerSource ==
    ASSUME TypeOK, [Next]_vars
    PROVE  marker' \in {marker, LoadedMarker, Complete}
<1> USE DEF durable, memory, looping, ghosts
<1>1. CASE Boot \/ Start \/ LeaseExpires \/ Crash \/ UNCHANGED vars
      BY <1>1 DEF Boot, LoadSession, ReplayEvent, ReplayDone, CreateMachine,
                  Start, StartAdvance, LeaseExpires, Crash, vars
<1>2. ASSUME NEW o, Advance(o) \/ HookFails(o) PROVE marker' \in {marker, Complete}
      BY <1>2 DEF Advance, WriteIntent, LogIntent, Renew, GateFailed, GatePassed, Move,
                  WriteComplete, LogApplied, LogFailed, Release, HookFails
<1>3. ASSUME NEW o, Operate(o) PROVE marker' \in {marker, LoadedMarker}
      BY <1>3 DEF Operate, Fail, Recover, Pause, Reset
<1> QED BY <1>1, <1>2, <1>3 DEF Next

(* An advance that runs is the one that ran before, or starts now. *)
LEMMA AdvanceSource ==
    ASSUME TypeOK, [Next]_vars
    PROVE  \/ \E to \in States, gate \in {"NONE", "APPROVED", "REJECTED"} :
                StartAdvance(to, gate)
           \/ nextId' = nextId /\ (Underway' => Underway /\ adv' = adv)
<1> USE DEF durable, memory, looping, ghosts
<1>1. CASE Boot \/ LeaseExpires \/ Crash \/ UNCHANGED vars
      BY <1>1 DEF Boot, LoadSession, ReplayEvent, ReplayDone, CreateMachine, Goto,
                  LeaseExpires, Crash, vars, Underway
<1>2. ASSUME NEW o, WriteIntent(o) \/ LogIntent(o) \/ Renew(o) \/ GateFailed(o)
                      \/ GatePassed(o) \/ Move(o) \/ WriteComplete(o) \/ LogApplied(o)
      PROVE  Underway /\ adv' = adv /\ nextId' = nextId
      BY <1>2 DEF WriteIntent, LogIntent, Renew, GateFailed, GatePassed, Move,
                  WriteComplete, LogApplied, Underway
<1>3. ASSUME NEW o, LogFailed(o) \/ Release(o) \/ HookFails(o)
      PROVE  ~Underway' /\ nextId' = nextId
      BY <1>3 DEF LogFailed, Release, HookFails, Goto, Underway
<1>4. ASSUME NEW o, Operate(o)
      PROVE  UNCHANGED <<pc, adv, nextId>>
      BY <1>4 DEF Operate, Fail, Recover, Pause, Reset
<1> QED BY <1>1, <1>2, <1>3, <1>4 DEF Next, Start, Advance, Underway

LEMMA LogSource ==
    ASSUME TypeOK, [Next]_vars
    PROVE  \/ log' = log
           \/ \E status \in {"intent", "applied", "failed"} :
                 /\ log' = Append(log, Event(status))
                 /\ Underway
                 /\ status = "intent" => pc = "logIntent" /\ pc' = "renew"
                                           /\ machine' = machine /\ adv' = adv
                 /\ status = "applied" => pc = "logApplied" /\ pc' = "release"
                                            /\ marker' = Complete /\ session' = session
<1> USE DEF durable, memory, looping, ghosts
<1>1. CASE Boot \/ Start \/ LeaseExpires \/ Crash \/ UNCHANGED vars
      BY <1>1 DEF Boot, LoadSession, ReplayEvent, ReplayDone, CreateMachine,
                  Start, StartAdvance, LeaseExpires, Crash, vars
<1>2. ASSUME NEW o, WriteIntent(o) \/ Renew(o) \/ GateFailed(o) \/ GatePassed(o)
                      \/ Move(o) \/ WriteComplete(o) \/ Release(o) \/ HookFails(o)
      PROVE  log' = log
      BY <1>2 DEF WriteIntent, Renew, GateFailed, GatePassed, Move, WriteComplete,
                  Release, HookFails
<1>3. ASSUME NEW o, Operate(o) PROVE log' = log
      BY <1>3 DEF Operate, Fail, Recover, Pause, Reset
<1>4. ASSUME NEW o, NEW e, WriteLog(o, e), log' # log
      PROVE  o = "ok" /\ log' = Append(log, e)
      BY <1>4 DEF WriteLog, AppendEvent
<1>5. ASSUME NEW o, LogIntent(o), log' # log
      PROVE  /\ log' = Append(log, Event("intent")) /\ Underway
             /\ pc = "logIntent" /\ pc' = "renew" /\ machine' = machine /\ adv' = adv
      BY <1>4, <1>5 DEF LogIntent, ThenGoto, Underway
<1>6. ASSUME NEW o, LogFailed(o), log' # log
      PROVE  log' = Append(log, Event("failed")) /\ Underway
      BY <1>4, <1>6 DEF LogFailed, Underway
<1>7. ASSUME NEW o, LogApplied(o), log' # log
      PROVE  /\ log' = Append(log, Event("applied")) /\ Underway
             /\ pc = "logApplied" /\ pc' = "release" /\ marker' = Complete /\ session' = session
      BY <1>4, <1>7 DEF LogApplied, ThenGoto, Underway
<1> QED BY <1>1, <1>2, <1>3, <1>5, <1>6, <1>7 DEF Next, Advance

LEMMA IdTypes ==
    ASSUME TypeOK
    PROVE  /\ nextId \in Nat /\ adv.id \in Nat /\ adv.to \in States
           /\ \A i \in DOMAIN log : log[i].id \in Nat /\ log[i].to \in States
<1>1. \A i \in DOMAIN log : log[i] \in Events
      BY DEF TypeOK
<1> QED BY <1>1 DEF TypeOK, Advances, Events

(* Where the ids of the next state come from: the ids of this one, and the
   next id if an advance starts. *)
LEMMA IdSource ==
    ASSUME TypeOK, [Next]_vars
    PROVE  \/ Pending' \subseteq Pending /\ nextId' = nextId
           \/ /\ nextId' = nextId + 1 /\ log' = log
              /\ \E to \in States : Pending' \subseteq Pending \cup {<<nextId, to>>}
<1> USE DEF durable, memory, looping, ghosts
<1>1. Bound(session'.marker) \subseteq Bound(session.marker) \cup Running
      BY SessionMarkerSource, BoundMarkers DEF Running, Underway
<1>2. Bound(marker') \subseteq Bound(marker) \cup Bound(session.marker)
  <2>1. Bound(LoadedMarker) \subseteq Bound(session.marker)
        BY BoundMarkers DEF LoadedMarker
  <2> QED BY <2>1, MarkerSource, BoundMarkers
<1>3. ASSUME NEW to \in States, NEW gate, StartAdvance(to, gate)
      PROVE  \/ Pending' \subseteq Pending /\ nextId' = nextId
             \/ /\ nextId' = nextId + 1 /\ log' = log
                /\ Pending' \subseteq Pending \cup {<<nextId, to>>}
  <2>1. UNCHANGED <<session, marker, log>> /\ adv'.to = to
        BY <1>3 DEF StartAdvance
  <2>2. Running' \subseteq {<<adv'.id, to>>}
        BY <2>1 DEF Running
  <2>3. CASE marker.status = "IN_PROGRESS" /\ marker.target = to
    <3>1. adv'.id = marker.id /\ nextId' = nextId
          BY <1>3, <2>3 DEF StartAdvance
    <3>2. <<marker.id, to>> \in Bound(marker)
          BY <2>3 DEF Bound
    <3> QED BY <2>1, <2>2, <3>1, <3>2 DEF Pending
  <2>4. CASE ~(marker.status = "IN_PROGRESS" /\ marker.target = to)
    <3>1. adv'.id = nextId /\ nextId' = nextId + 1
          BY <1>3, <2>4 DEF StartAdvance
    <3> QED BY <2>1, <2>2, <3>1 DEF Pending
  <2> QED BY <2>3, <2>4
<1>4. CASE nextId' = nextId /\ (Underway' => Underway /\ adv' = adv)
  <2>1. Running' \subseteq Running
        BY <1>4 DEF Running
  <2> QED BY <1>1, <1>2, <1>4, <2>1 DEF Pending
<1> QED BY <1>3, <1>4, AdvanceSource

(* The events of an appended log are the one appended and those before. *)
LEMMA AppendedEvents ==
    ASSUME TypeOK, NEW status \in {"intent", "applied", "failed"},
           log' = Append(log, Event(status))
    PROVE  \A i \in DOMAIN log' :
               \/ log'[i] = Event(status)
               \/ i \in DOMAIN log /\ log'[i] = log[i]
<1>1. log \in Seq(Events) /\ Event(status) \in Events
      BY EventType DEF TypeOK
<1> QED BY <1>1

LEMMA LoggedSource ==
    ASSUME TypeOK, [Next]_vars
    PROVE  Logged' \subseteq Logged \cup Pending
<1>1. CASE log' = log
      BY <1>1 DEF Logged
<1>2. ASSUME NEW status \in {"intent", "applied", "failed"},
             log' = Append(log, Event(status)), Underway
      PROVE  Logged' \subseteq Logged \cup Pending
  <2>1. \A i \in DOMAIN log' :
            \/ log'[i] = Event(status)
            \/ i \in DOMAIN log /\ log'[i] = log[i]
        BY <1>2, AppendedEvents
  <2>2. Event(status).id = adv.id /\ Event(status).to = adv.to
        BY DEF Event
  <2>3. <<adv.id, adv.to>> \in Pending
        BY <1>2 DEF Pending, Running
  <2> QED BY <2>1, <2>2, <2>3 DEF Logged
<1> QED BY <1>1, <1>2, LogSource

LEMMA PairTypes ==
    ASSUME TypeOK, NEW p \in Pending \cup Logged
    PROVE  p[1] \in Nat
<1>1. session.marker.id \in Nat /\ marker.id \in Nat
      BY DEF TypeOK, Sessions, Markers
<1> QED BY <1>1, IdTypes DEF Pending, Bound, Running, Logged

LEMMA OneTargetStep ==
    ASSUME TypeOK, OneTarget, [Next]_vars
    PROVE  OneTarget'
<1>1. nextId \in Nat
      BY DEF TypeOK
<1>2. CASE Pending' \subseteq Pending /\ nextId' = nextId
  <2>1. (Pending \cup Logged)' \subseteq Pending \cup Logged
        BY <1>2, LoggedSource
  <2> QED BY <1>2, <2>1 DEF OneTarget
<1>3. ASSUME NEW to \in States, nextId' = nextId + 1, log' = log,
             Pending' \subseteq Pending \cup {<<nextId, to>>}
      PROVE  OneTarget'
  <2>1. \A p \in (Pending \cup Logged)' : p \in Pending \cup Logged \/ p = <<nextId, to>>
        BY <1>3, LoggedSource
  <2>2. \A p \in Pending \cup Logged : p[1] \in Nat /\ p[1] < nextId
        BY DEF OneTarget
  <2>3. ASSUME NEW p \in (Pending \cup Logged)', NEW q \in (Pending \cup Logged)'
        PROVE  p[1] \in Nat /\ p[1] < nextId' /\ (p[1] = q[1] => p[2] = q[2])
    <3>1. CASE p \in Pending \cup Logged /\ q \in Pending \cup Logged
          BY <1>1, <1>3, <3>1 DEF OneTarget
    <3>2. CASE p = <<nextId, to>> /\ q \in Pending \cup Logged
          BY <1>1, <1>3, <2>2, <3>2
    <3>3. CASE q = <<nextId, to>> /\ p \in Pending \cup Logged
          BY <1>1, <1>3, <2>2, <3>3
    <3>4. CASE p = <<nextId, to>> /\ q = <<nextId, to>>
          BY <1>1, <1>3, <3>4
    <3> QED BY <2>1, <3>1, <3>2, <3>3, <3>4
  <2> QED BY <2>3 DEF OneTarget
<1> QED BY <1>2, <1>3, IdSource

LEMMA UnappliedStep ==
    ASSUME IdsInv, [Next]_vars
    PROVE  Unapplied'
<1>1. TypeOK
      BY DEF IdsInv, CrashInv
<1>2. CASE log' = log
  <2>1. ASSUME NEW p \in Pending', NEW i \in DOMAIN log, log[i].status = "applied"
        PROVE  log[i].id # p[1]
    <3>1. CASE p \in Pending
          BY <2>1, <3>1 DEF IdsInv, Unapplied
    <3>2. CASE \E to \in States : p = <<nextId, to>>
      <4>1. <<log[i].id, log[i].to>> \in Logged
            BY DEF Logged
      <4>2. log[i].id \in Nat /\ log[i].id < nextId /\ nextId \in Nat
            BY <1>1, <4>1 DEF IdsInv, OneTarget, TypeOK
      <4> QED BY <3>2, <4>2
    <3> QED BY <1>1, <3>1, <3>2, IdSource
  <2> QED BY <1>2, <2>1 DEF Unapplied
<1>3. ASSUME NEW status \in {"intent", "failed"}, log' = Append(log, Event(status))
      PROVE  Unapplied'
  <2>1. log' # log
        BY <1>1, <1>3 DEF TypeOK
  <2>2. Pending' \subseteq Pending
        BY <1>1, <2>1, IdSource
  <2>3. Event(status).status = status
        BY DEF Event
  <2>4. \A i \in DOMAIN log' : log'[i].status = "applied" =>
            i \in DOMAIN log /\ log'[i] = log[i]
        BY <1>1, <1>3, <2>3, AppendedEvents
  <2> QED BY <2>2, <2>4 DEF IdsInv, Unapplied
<1>4. ASSUME pc = "logApplied", pc' = "release", marker' = Complete, session' = session
      PROVE  Unapplied'
  <2>1. session.marker = Complete
        BY <1>4 DEF IdsInv, CrashInv, AdvanceOk
  <2>2. Pending' = {}
        BY <1>4, <2>1, BoundMarkers DEF Pending, Running, Underway
  <2> QED BY <2>2 DEF Unapplied
<1> QED BY <1>1, <1>2, <1>3, <1>4, LogSource

LEMMA InitIds == Init => IdsInv
<1> SUFFICES ASSUME Init PROVE IdsInv
    OBVIOUS
<1>1. Pending = {} /\ Logged = {}
      BY BoundMarkers DEF Init, Pending, Running, Underway, Logged
<1> QED BY <1>1, InitCrash DEF IdsInv, OneTarget, Unapplied

LEMMA IdsStep == IdsInv /\ [Next]_vars => IdsInv'
  BY CrashStep, OneTargetStep, UnappliedStep DEF IdsInv, CrashInv

LEMMA IdsInvariance == Spec => []IdsInv
  BY InitIds, IdsStep, PTL DEF Spec

(* The event of a completed transition is never dropped as a duplicate,
   although a resumed transition reuses the id of an interrupted one. *)
THEOREM AppliedNeverDroppedTheorem == Spec => AppliedNeverDropped
<1>1. ASSUME IdsInv, [Next]_vars
      PROVE  [pc = "logApplied" /\ pc' = "release" => log' # log]_vars
  <2> USE DEF durable, memory, looping, ghosts
  <2> SUFFICES ASSUME pc = "logApplied", pc' = "release" PROVE log' # log
      OBVIOUS
  <2>1. TypeOK
        BY <1>1 DEF IdsInv, CrashInv
  <2>2. <<adv.id, adv.to>> \in Pending
        BY DEF Pending, Running, Underway
  <2>3. ~Duplicate(Event("applied"))
        BY <1>1, <2>2 DEF IdsInv, Unapplied, Duplicate, Event
  <2>4. PICK o \in Outcomes : LogApplied(o)
        BY <1>1 DEF Next, Boot, LoadSession, ReplayEvent, ReplayDone, CreateMachine,
                    Start, StartAdvance, LeaseExpires, Crash, Goto, Advance, WriteIntent,
                    LogIntent, Renew, GateFailed, GatePassed, Move, WriteComplete,
                    LogFailed, Release, HookFails, Operate, Fail, Recover, Pause, Reset, vars
  <2>5. o = "ok"
        BY <2>4 DEF LogApplied, ThenGoto
  <2>6. log' = Append(log, Event("applied"))
        BY <2>3, <2>4, <2>5 DEF LogApplied, WriteLog, AppendEvent
  <2> QED BY <2>1, <2>6 DEF TypeOK
<1> QED BY <1>1, IdsInvariance, PTL DEF Spec, AppliedNeverDropped

-----------------------------------------------------------------------------
(* The engine implements WriteAhead.  What is known is what was announced,
   and ERROR: every state that a trace or an applied event mentions, and that
   a start, a replay or a recovery may therefore lead back to. *)
Known == Announced \cup {"ERROR"}

KnownIn(K, t) ==
    /\ t.state \in K
    /\ \A i \in DOMAIN t.history : t.history[i].from \in K /\ t.history[i].to \in K

AppliedKnown ==
    \A i \in DOMAIN log :
        log[i].status = "applied" => log[i].from \in Known /\ log[i].to \in Known

Logging == pc \in {"intent", "logIntent"}
Announcing == pc \in {"renew", "gate", "move", "complete", "logApplied"}

AheadOk ==
    /\ KnownIn(Known, OfMachine)
    /\ session.status # "NONE" => KnownIn(Known, OfSession)
    /\ KnownIn(Known, OfReplay)
    /\ AppliedKnown
    /\ Logging => <<adv.from, adv.to>> \in Successors
    /\ Announcing => adv.to \in Announced
    /\ Underway => adv.from \in Known

AheadInv == IdsInv /\ AheadOk

LEMMA AnnouncedIs ==
    \A s : s \in Announced <=>
              \/ s = "IDLE"
              \/ \E i \in DOMAIN log : log[i].status = "intent" /\ log[i].to = s
  BY DEF Announced

LEMMA KnownMoves ==
    ASSUME NEW K, NEW t, t.history \in Seq(Steps), KnownIn(K, t), NEW to \in K,
           t.state \in States, to \in States
    PROVE  KnownIn(K, Moves(t, to))
<1> DEFINE longer == Append(t.history, Step(t.state, to))
<1>1. Step(t.state, to) \in Steps
      BY DEF Step, Steps
<1>2. \A i \in DOMAIN longer :
          \/ i \in DOMAIN t.history /\ longer[i] = t.history[i]
          \/ longer[i] = Step(t.state, to)
      BY <1>1
<1>3. \A i \in DOMAIN longer : longer[i].from \in K /\ longer[i].to \in K
      BY <1>2 DEF KnownIn, Step
<1> QED BY <1>3 DEF KnownIn, Moves, Trace

LEMMA KnownRecovery ==
    ASSUME NEW K, "IDLE" \in K, NEW t, t.history \in Seq(Steps), KnownIn(K, t)
    PROVE  KnownIn(K, Trace(t.history, LastGood(t.history)))
<1>1. LastGood(t.history) \in K
  <2>1. CASE \E i \in DOMAIN t.history : Tells(t.history, i)
        BY <2>1, LastGoodOf DEF KnownIn
  <2>2. CASE ~ \E i \in DOMAIN t.history : Tells(t.history, i)
        BY <2>2 DEF LastGood
  <2> QED BY <2>1, <2>2
<1> QED BY <1>1 DEF KnownIn, Trace

LEMMA KnownMore ==
    ASSUME NEW K, NEW L, K \subseteq L, NEW t, KnownIn(K, t)
    PROVE  KnownIn(L, t)
  BY DEF KnownIn

LEMMA KnownEmpty == ASSUME NEW K, "IDLE" \in K PROVE KnownIn(K, EmptyTrace)
  BY DEF KnownIn, EmptyTrace, Trace

(* Only the logged intent announces a state, the target of the advance. *)
LEMMA AnnouncedSource ==
    ASSUME TypeOK, [Next]_vars
    PROVE  \/ Announced' = Announced
           \/ /\ Announced' = Announced \cup {adv.to}
              /\ pc = "logIntent" /\ pc' = "renew" /\ machine' = machine /\ adv' = adv
<1>1. CASE log' = log
      BY <1>1 DEF Announced
<1>2. ASSUME NEW status \in {"intent", "applied", "failed"},
             log' = Append(log, Event(status))
      PROVE  Announced' = Announced \cup IF status = "intent" THEN {adv.to} ELSE {}
  <2>1. Event(status) \in Events /\ Event(status).status = status
           /\ Event(status).to = adv.to
        BY EventType DEF Event
  <2>2. /\ \A i \in DOMAIN log : i \in DOMAIN log' /\ log'[i] = log[i]
        /\ Len(log) + 1 \in DOMAIN log' /\ log'[Len(log) + 1] = Event(status)
        /\ \A i \in DOMAIN log' : log'[i] = Event(status)
                                  \/ (i \in DOMAIN log /\ log'[i] = log[i])
        BY <1>2, <2>1 DEF TypeOK
  <2>3. ASSUME NEW s
        PROVE  s \in Announced' <=>
                  s \in Announced \cup IF status = "intent" THEN {adv.to} ELSE {}
    <3>1. s \in Announced' <=>
              \/ s = "IDLE"
              \/ \E i \in DOMAIN log' : log'[i].status = "intent" /\ log'[i].to = s
          BY DEF Announced
    <3>2. (\E i \in DOMAIN log' : log'[i].status = "intent" /\ log'[i].to = s)
          <=> \/ \E i \in DOMAIN log : log[i].status = "intent" /\ log[i].to = s
              \/ status = "intent" /\ s = adv.to
          BY <2>1, <2>2
    <3> QED BY <3>1, <3>2, AnnouncedIs
  <2> QED BY <2>3
<1> QED BY <1>1, <1>2, LogSource

(* After the write of the intent the target is announced, also if the event
   was taken for a duplicate: it has the target of the one that is there. *)
LEMMA IntentAnnounces ==
    ASSUME IdsInv, NEW o, LogIntent(o), o = "ok"
    PROVE  adv.to \in Announced'
<1>1. TypeOK /\ pc = "logIntent" /\ (Duplicate(Event("intent")) => log' = log)
        /\ (~Duplicate(Event("intent")) => log' = Append(log, Event("intent")))
      BY DEF LogIntent, WriteLog, AppendEvent, IdsInv, CrashInv
<1>2. Event("intent").id = adv.id /\ Event("intent").to = adv.to
        /\ Event("intent").status = "intent" /\ Event("intent") \in Events
      BY <1>1, EventType DEF Event
<1>3. \E i \in DOMAIN log' : log'[i].status = "intent" /\ log'[i].to = adv.to
  <2>1. CASE Duplicate(Event("intent"))
    <3>1. PICK i \in DOMAIN log : log[i].id = adv.id /\ log[i].status = "intent"
          BY <1>2, <2>1 DEF Duplicate
    <3>2. <<adv.id, adv.to>> \in Pending /\ <<log[i].id, log[i].to>> \in Logged
          BY <1>1 DEF Pending, Running, Underway, Logged
    <3>3. log[i].to = adv.to
          BY <3>1, <3>2 DEF IdsInv, OneTarget
    <3> QED BY <1>1, <2>1, <3>1, <3>3
  <2>2. CASE ~Duplicate(Event("intent"))
    <3>1. Len(log) + 1 \in DOMAIN log' /\ log'[Len(log) + 1] = Event("intent")
          BY <1>1, <1>2, <2>2 DEF TypeOK
    <3> QED BY <1>2, <3>1
  <2> QED BY <2>1, <2>2
<1> QED BY <1>3 DEF Announced

(* Where an advance stands after a step tells where it stood before. *)
LEMMA LabelSource ==
    ASSUME TypeOK, [Next]_vars
    PROVE  /\ Logging' => \/ Logging /\ adv' = adv
                          \/ \E to \in States, gate \in {"NONE", "APPROVED", "REJECTED"} :
                                StartAdvance(to, gate)
           /\ Announcing' => \/ Announcing /\ adv' = adv
                             \/ LogIntent("ok") /\ adv' = adv
<1> USE DEF durable, memory, looping, ghosts
<1>1. CASE Boot \/ LeaseExpires \/ Crash \/ UNCHANGED vars
      BY <1>1 DEF Boot, LoadSession, ReplayEvent, ReplayDone, CreateMachine, Goto,
                  LeaseExpires, Crash, vars, Logging, Announcing
<1>2. CASE Start
      BY <1>2 DEF Start, StartAdvance, Goto, Announcing
<1>3. ASSUME NEW o, WriteIntent(o)
      PROVE  Logging /\ adv' = adv /\ ~Announcing'
      BY <1>3 DEF WriteIntent, ThenGoto, Logging, Announcing
<1>4. ASSUME NEW o, LogIntent(o), o # "ok" PROVE ~Logging' /\ ~Announcing'
      BY <1>4 DEF LogIntent, ThenGoto, Logging, Announcing
<1>5. ASSUME LogIntent("ok") PROVE ~Logging' /\ adv' = adv
      BY <1>5 DEF LogIntent, ThenGoto, Logging
<1>6. ASSUME NEW o, Renew(o) \/ GatePassed(o) \/ Move(o) \/ WriteComplete(o) \/ LogApplied(o)
      PROVE  ~Logging' /\ Announcing /\ adv' = adv
      BY <1>6 DEF Renew, GatePassed, Move, WriteComplete, LogApplied, ThenGoto,
                  Logging, Announcing
<1>7. ASSUME NEW o, GateFailed(o) \/ LogFailed(o) \/ Release(o) \/ HookFails(o)
      PROVE  ~Logging' /\ ~Announcing'
      BY <1>7 DEF GateFailed, LogFailed, Release, HookFails, Goto, Logging, Announcing
<1>8. ASSUME NEW o, Operate(o) PROVE UNCHANGED <<pc, adv>>
      BY <1>8 DEF Operate, Fail, Recover, Pause, Reset
<1> QED BY <1>1, <1>2, <1>3, <1>4, <1>5, <1>6, <1>7, <1>8
        DEF Next, Start, Advance, Logging, Announcing

LEMMA AheadTraces ==
    ASSUME AheadInv, [Next]_vars, Known \subseteq Known'
    PROVE  /\ KnownIn(Known', OfMachine')
           /\ session'.status # "NONE" => KnownIn(Known', OfSession')
           /\ KnownIn(Known', OfReplay')
<1>1. TypeOK /\ TypeOK'
      BY TypeStep DEF AheadInv, IdsInv, CrashInv
<1>2. /\ OfMachine.history \in Seq(Steps) /\ OfMachine.state \in States
      /\ OfReplay.history \in Seq(Steps) /\ OfReplay.state \in States
      BY <1>1 DEF TypeOK, Machines, Replays, OfMachine, OfReplay, Trace
<1>3. "IDLE" \in Known /\ "ERROR" \in Known
      BY DEF Known, Announced
<1>4. KnownIn(Known', OfMachine')
  <2>1. adv.to \in States
        BY <1>1 DEF TypeOK, Advances
  <2>2. KnownIn(Known, Moves(OfMachine, "ERROR"))
        BY <1>2, <1>3, KnownMoves, NamedStates DEF AheadInv, AheadOk
  <2>3. pc = "move" => KnownIn(Known, Moves(OfMachine, adv.to))
    <3>1. pc = "move" => adv.to \in Known
          BY DEF AheadInv, AheadOk, Announcing, Known
    <3> QED BY <1>2, <2>1, <3>1, KnownMoves DEF AheadInv, AheadOk
  <2>4. KnownIn(Known, Trace(machine.history, LastGood(machine.history)))
        BY <1>2, <1>3, KnownRecovery DEF AheadInv, AheadOk, OfMachine, Trace
  <2>5. KnownIn(Known, OfMachine')
        BY <1>1, <1>3, <2>2, <2>3, <2>4, MachineSource, KnownEmpty DEF AheadInv, AheadOk
  <2> QED BY <2>5, KnownMore
<1>5. session'.status # "NONE" => KnownIn(Known', OfSession')
  <2>1. CASE OfSession' = OfMachine'
        BY <1>4, <2>1
  <2>2. CASE OfSession' = OfSession
    <3>1. session'.status = session.status
          BY <2>2 DEF OfSession, Trace
    <3> QED BY <2>2, <3>1, KnownMore DEF AheadInv, AheadOk
  <2> QED BY <1>1, <2>1, <2>2, SessionSource
<1>6. KnownIn(Known', OfReplay')
  <2>1. ASSUME NEW i \in DOMAIN log, log[i].status = "applied"
        PROVE  KnownIn(Known, Moves(OfReplay, log[i].to))
    <3>1. log[i].to \in States /\ log[i].to \in Known
          BY <1>1, <2>1, IdTypes DEF AheadInv, AheadOk, AppliedKnown
    <3> QED BY <1>2, <3>1, KnownMoves DEF AheadInv, AheadOk
  <2>2. KnownIn(Known, OfReplay')
        BY <1>1, <1>3, <2>1, ReplaySource, KnownEmpty DEF AheadInv, AheadOk
  <2> QED BY <2>2, KnownMore
<1> QED BY <1>4, <1>5, <1>6

LEMMA AppliedKnownStep ==
    ASSUME AheadInv, [Next]_vars, Known \subseteq Known'
    PROVE  AppliedKnown'
<1>1. TypeOK /\ AppliedKnown
      BY DEF AheadInv, AheadOk, IdsInv, CrashInv
<1>2. CASE log' = log
      BY <1>1, <1>2 DEF AppliedKnown
<1>3. ASSUME NEW status \in {"intent", "applied", "failed"},
             log' = Append(log, Event(status)), Underway,
             status = "applied" => pc = "logApplied"
      PROVE  AppliedKnown'
  <2>1. Event(status).status = status /\ Event(status).from = adv.from
           /\ Event(status).to = adv.to
        BY DEF Event
  <2>2. status = "applied" => adv.from \in Known /\ adv.to \in Known
        BY <1>3 DEF AheadInv, AheadOk, Underway, Announcing, Known
  <2>3. ASSUME NEW i \in DOMAIN log', log'[i].status = "applied"
        PROVE  log'[i].from \in Known /\ log'[i].to \in Known
    <3>1. CASE log'[i] = Event(status)
          BY <2>1, <2>2, <2>3, <3>1
    <3>2. CASE i \in DOMAIN log /\ log'[i] = log[i]
          BY <1>1, <2>3, <3>2 DEF AppliedKnown
    <3> QED BY <1>1, <1>3, <3>1, <3>2, AppendedEvents
  <2> QED BY <2>3 DEF AppliedKnown
<1> QED BY <1>1, <1>2, <1>3, LogSource

LEMMA AheadStep == AheadInv /\ [Next]_vars => AheadInv'
<1> SUFFICES ASSUME AheadInv, [Next]_vars PROVE AheadInv'
    OBVIOUS
<1>1. IdsInv /\ IdsInv' /\ TypeOK /\ AheadOk
      BY IdsStep DEF AheadInv, IdsInv, CrashInv
<1>2. Announced \subseteq Announced' /\ Known \subseteq Known'
      BY <1>1, AnnouncedSource DEF Known
<1>3. ASSUME NEW to \in States, NEW gate \in {"NONE", "APPROVED", "REJECTED"},
             StartAdvance(to, gate)
      PROVE  /\ <<adv'.from, adv'.to>> \in Successors
             /\ adv'.from \in Known'
  <2>1. adv'.from = machine.state /\ adv'.to = to
           /\ Follows(machine.state, to, machine.phases)
        BY <1>3 DEF StartAdvance
  <2>2. machine.state \in States /\ machine.phases \in PhaseSets
        BY <1>1 DEF TypeOK, Machines
  <2>3. <<machine.state, to>> \in Successors
        BY <2>1, <2>2 DEF Successors
  <2>4. machine.state \in Known
        BY <1>1 DEF AheadOk, KnownIn, OfMachine, Trace
  <2> QED BY <1>2, <2>1, <2>3, <2>4
<1>4. Logging' => <<adv'.from, adv'.to>> \in Successors
      BY <1>1, <1>3, LabelSource DEF AheadOk
<1>5. Announcing' => adv'.to \in Announced'
      BY <1>1, <1>2, LabelSource, IntentAnnounces DEF AheadOk
<1>6. Underway' => adv'.from \in Known'
      BY <1>1, <1>2, <1>3, AdvanceSource DEF AheadOk
<1>7. AheadOk'
      BY <1>2, <1>4, <1>5, <1>6, AheadTraces, AppliedKnownStep DEF AheadOk
<1> QED BY <1>1, <1>7 DEF AheadInv

LEMMA InitAhead == Init => AheadInv
<1> SUFFICES ASSUME Init PROVE AheadInv
    OBVIOUS
<1>1. OfMachine = EmptyTrace /\ OfReplay = EmptyTrace /\ session.status = "NONE"
      BY DEF Init, Fresh, Machine, NothingReplayed, OfMachine, OfReplay, EmptyTrace, Trace
<1>2. "IDLE" \in Known
      BY DEF Known, Announced
<1>3. log = <<>> /\ ~Logging /\ ~Announcing /\ ~Underway
      BY DEF Init, Logging, Announcing, Underway
<1> QED BY <1>1, <1>2, <1>3, InitIds, KnownEmpty DEF AheadInv, AheadOk, AppliedKnown

(* The engine implements WriteAhead: a state is announced in the log before
   the pipeline enters it, only a successor of the present state can be, and
   no crash, retry, recovery, replay or reset leads anywhere else. *)
THEOREM ImplementsWriteAheadTheorem == Spec => ImplementsWriteAhead
<1>1. Init => Ahead!Init
  <2> SUFFICES ASSUME Init PROVE Ahead!Init
      OBVIOUS
  <2>1. machine.state = "IDLE" /\ log = <<>>
        BY DEF Init, Fresh, Machine
  <2>2. Announced = {"IDLE"}
        BY <2>1 DEF Announced
  <2> QED BY <2>1, <2>2 DEF Ahead!Init
<1>2. AheadInv /\ AheadInv' /\ [Next]_vars => [Ahead!Next]_<<machine.state, Announced>>
  <2> SUFFICES ASSUME AheadInv, AheadInv', [Next]_vars
               PROVE  [Ahead!Next]_<<machine.state, Announced>>
      OBVIOUS
  <2>1. TypeOK /\ TypeOK' /\ AdvanceOk
        BY DEF AheadInv, IdsInv, CrashInv
  <2>2. machine'.state \in States /\ adv.to \in States
        BY <2>1 DEF TypeOK, Machines, Advances
  <2>3. CASE Announced' = Announced
    <3>1. machine'.state \in Announced \cup {"ERROR"}
          BY <2>3 DEF AheadInv, AheadOk, KnownIn, OfMachine, Trace, Known
    <3>2. CASE machine'.state = "ERROR"
          BY <2>3, <3>2 DEF Ahead!Next, Ahead!Fail
    <3>3. CASE machine'.state \in Announced
      <4>1. Ahead!Enter(machine'.state)
            BY <2>3, <3>3 DEF Ahead!Enter
      <4> QED BY <2>2, <4>1 DEF Ahead!Next
    <3> QED BY <3>1, <3>2, <3>3
  <2>4. CASE Announced' = Announced \cup {adv.to} /\ pc = "logIntent" /\ machine' = machine
    <3>1. <<machine.state, adv.to>> \in Successors
          BY <2>1, <2>4 DEF AheadInv, AheadOk, AdvanceOk, BeforeMove, Logging
    <3>2. Ahead!Announce(adv.to)
          BY <2>4, <3>1 DEF Ahead!Announce
    <3> QED BY <2>2, <3>2 DEF Ahead!Next
  <2> QED BY <2>1, <2>3, <2>4, AnnouncedSource
<1> QED BY <1>1, <1>2, InitAhead, AheadStep, PTL DEF Spec, ImplementsWriteAhead, Ahead!Spec
=============================================================================
