-------------------------- MODULE EngineFleetProofs --------------------------
(***************************************************************************)
(* Proofs about EngineFleet, for any number of engines, any flow, and any  *)
(* life of the lease.                                                      *)
(*                                                                         *)
(* What an engine knows of the session may be stale, so that its log need  *)
(* not be that of a single run through the flow.  The argument is in three *)
(* layers:                                                                 *)
(*  - the replay: what an event appended to a log does to where the log    *)
(*    leads (LogGrows).  ReplayOf is a recursive function; what it         *)
(*    computes for logs of every length is proved from the least element   *)
(*    of a set of natural numbers (SetInduction);                          *)
(*  - at every time: types, what belongs to an engine at each stage of an  *)
(*    advance (Standing), and one transition per id (OneTarget), which     *)
(*    makes a duplicate of an event a duplicate of its transition;         *)
(*  - undisturbed: one engine writes (Alone), from what the files hold     *)
(*    (Current), and the log leads as far as anybody has come (Lead).      *)
(* An assignment of transitions to ids is not a variable of the program:   *)
(* OneTarget says that there is one.                                       *)
(***************************************************************************)
EXTENDS EngineFleet, TransitionLeaseProofs, SequenceTheorems, WellFoundedInduction

-----------------------------------------------------------------------------
(* Induction, from the least element of a set of natural numbers. *)
LEMMA LeastNatural ==
  ASSUME NEW T \in SUBSET Nat, T # {}
  PROVE  \E x \in T : \A y \in T : x <= y
<1> DEFINE R == {ss \in Nat \X Nat : ss[1] < ss[2]}
<1>1. IsWellFoundedOn(R, Nat)
  BY NatLessThanWellFounded DEF OpToRel
<1>2. \A x, y \in Nat : ~(<<y, x>> \in R) => x <= y
  OBVIOUS
<1> HIDE DEF R
<1>3. PICK x \in T : \A y \in T : ~(<<y, x>> \in R)
  BY <1>1, WFMin
<1>4. QED
  BY <1>2, <1>3

(* Induction over the natural numbers, stated of a set. *)
LEMMA SetInduction ==
  ASSUME NEW S, 0 \in S, \A n \in Nat : n \in S => n + 1 \in S
  PROVE  Nat \subseteq S
<1> DEFINE T == Nat \ S
<1>1. SUFFICES ASSUME T # {} PROVE FALSE
  OBVIOUS
<1>2. PICK x \in T : \A y \in T : x <= y
  BY <1>1, LeastNatural
<1>3. x # 0 /\ x - 1 \in Nat /\ x - 1 \in S
  BY <1>2
<1>4. QED
  BY <1>2, <1>3

-----------------------------------------------------------------------------
(* The replay, one event at a time. *)
After(event, s) == IF event.status = "applied" /\ event.from = s THEN s + 1 ELSE s

Replayed(events, f, n) ==
    f = [k \in 0 .. n |-> IF k = 0 THEN 1 ELSE After(events[k], f[k - 1])]

(* There is such a function for every length. *)
LEMMA ReplayedExists ==
  ASSUME NEW events, NEW n \in Nat
  PROVE  \E f : Replayed(events, f, n)
<1> DEFINE S == {k \in Nat : \E f : Replayed(events, f, k)}
<1>1. 0 \in S
  <2> DEFINE f == [k \in 0 .. 0 |-> 1]
  <2>1. Replayed(events, f, 0)
    BY DEF Replayed
  <2>2. QED
    BY <2>1
<1>2. ASSUME NEW k \in Nat, k \in S PROVE k + 1 \in S
  <2>1. PICK f : Replayed(events, f, k)
    BY <1>2
  <2> DEFINE g == [i \in 0 .. (k + 1) |-> IF i <= k THEN f[i] ELSE After(events[i], f[i - 1])]
  <2>2. \A i \in 0 .. (k + 1) : g[i] = IF i = 0 THEN 1 ELSE After(events[i], g[i - 1])
    <3>1. SUFFICES ASSUME NEW i \in 0 .. (k + 1)
                   PROVE  g[i] = IF i = 0 THEN 1 ELSE After(events[i], g[i - 1])
      OBVIOUS
    <3>2. CASE i = 0
      BY <2>1, <3>2 DEF Replayed
    <3>3. CASE i # 0
      <4>1. i - 1 \in 0 .. k /\ g[i - 1] = f[i - 1]
        BY <3>3
      <4>2. CASE i <= k
        <5>1. f[i] = After(events[i], f[i - 1])
          BY <2>1, <3>3, <4>2 DEF Replayed
        <5>2. QED
          BY <3>3, <4>1, <4>2, <5>1
      <4>3. CASE i = k + 1
        BY <3>3, <4>1, <4>3
      <4>4. QED
        BY <4>2, <4>3
    <3>4. QED
      BY <3>2, <3>3
  <2>3. Replayed(events, g, k + 1)
    BY <2>2 DEF Replayed
  <2>4. QED
    BY <2>3
<1>3. QED
  BY <1>1, <1>2, SetInduction

(* ReplayOf is the last value of one. *)
LEMMA ReplayOfIs ==
  ASSUME NEW events, Len(events) \in Nat
  PROVE  \E f : Replayed(events, f, Len(events)) /\ ReplayOf(events) = f[Len(events)]
<1> DEFINE f == CHOOSE g : Replayed(events, g, Len(events))
<1>1. Replayed(events, f, Len(events))
  BY ReplayedExists
<1>2. ReplayOf(events) = f[Len(events)]
  BY DEF ReplayOf, Replayed, After
<1>3. QED
  BY <1>1, <1>2

(* It leads to a state of the flow, if no event leaves the last state. *)
LEMMA ReplayBounded ==
  ASSUME NEW events, NEW f, NEW n \in Nat, NEW last \in Nat \ {0}, Replayed(events, f, n),
         \A k \in 1 .. n : events[k].from < last
  PROVE  f[n] \in 1 .. last
<1> DEFINE S == {k \in Nat : k <= n => f[k] \in 1 .. last}
<1>1. 0 \in S
  BY DEF Replayed
<1>2. ASSUME NEW k \in Nat, k \in S PROVE k + 1 \in S
  <2>1. SUFFICES ASSUME k + 1 <= n PROVE f[k + 1] \in 1 .. last
    OBVIOUS
  <2>2. /\ k + 1 \in 0 .. n /\ k + 1 \in 1 .. n
        /\ k + 1 # 0 /\ (k + 1) - 1 = k
    BY <2>1
  <2>3. f[k] \in 1 .. last /\ events[k + 1].from < last
    BY <1>2, <2>1, <2>2
  <2>4. f[k + 1] = After(events[k + 1], f[k])
    BY <2>2 DEF Replayed
  <2>5. QED
    BY <2>3, <2>4 DEF After
<1>3. n \in S
  BY <1>1, <1>2, SetInduction
<1>4. QED
  BY <1>3

LEMMA ReplayOfNone == ReplayOf(<<>>) = 1
<1>1. Len(<<>>) = 0
  OBVIOUS
<1>2. PICK f : Replayed(<<>>, f, 0) /\ ReplayOf(<<>>) = f[0]
  BY <1>1, ReplayOfIs
<1>3. QED
  BY <1>2 DEF Replayed

(* One event more is one step more. *)
LEMMA ReplayOfAppend ==
  ASSUME NEW S, NEW events \in Seq(S), NEW event \in S
  PROVE  ReplayOf(Append(events, event)) = After(event, ReplayOf(events))
<1> DEFINE n == Len(events)
           more == Append(events, event)
<1>1. n \in Nat /\ Len(more) = n + 1 /\ more[n + 1] = event
      /\ \A k \in 1 .. n : events[k] = more[k]
  OBVIOUS
<1>2. PICK f : Replayed(events, f, n) /\ ReplayOf(events) = f[n]
  BY <1>1, ReplayOfIs
<1> HIDE DEF n, more
<1>3. PICK g : Replayed(more, g, n + 1) /\ ReplayOf(more) = g[n + 1]
  BY <1>1, ReplayOfIs
<1>4. f[n] = g[n]
  <2> DEFINE T == {k \in Nat : k <= n => f[k] = g[k]}
  <2>1. 0 \in T
    <3>1. 0 \in 0 .. n /\ 0 \in 0 .. (n + 1)
      BY <1>1
    <3>2. f[0] = 1 /\ g[0] = 1
      BY <1>2, <1>3, <3>1 DEF Replayed
    <3>3. QED
      BY <3>2
  <2>2. ASSUME NEW k \in Nat, k \in T PROVE k + 1 \in T
    <3>1. SUFFICES ASSUME k + 1 <= n PROVE f[k + 1] = g[k + 1]
      OBVIOUS
    <3>2. /\ k + 1 \in 0 .. n /\ k + 1 \in 0 .. (n + 1) /\ k + 1 \in 1 .. n
          /\ k + 1 # 0 /\ (k + 1) - 1 = k
      BY <1>1, <3>1
    <3>3. f[k] = g[k] /\ events[k + 1] = more[k + 1]
      BY <1>1, <2>2, <3>1, <3>2
    <3>4. f[k + 1] = After(events[k + 1], f[k])
      BY <1>2, <3>2 DEF Replayed
    <3>5. g[k + 1] = After(more[k + 1], g[k])
      BY <1>3, <3>2 DEF Replayed
    <3>6. QED
      BY <3>3, <3>4, <3>5
  <2>3. n \in T
    BY <1>1, <2>1, <2>2, SetInduction
  <2>4. QED
    BY <1>1, <2>3
<1>5. n + 1 \in 0 .. (n + 1) /\ n + 1 # 0 /\ (n + 1) - 1 = n
  BY <1>1
<1>6. g[n + 1] = After(more[n + 1], g[n])
  BY <1>3, <1>5 DEF Replayed
<1>7. QED
  BY <1>1, <1>2, <1>3, <1>4, <1>6 DEF n, more

Inside(events) == \A i \in DOMAIN events : events[i].from < Last

LEMMA ReplayOfInside ==
  ASSUME NEW events \in Seq(Events), Inside(events)
  PROVE  ReplayOf(events) \in Positions
<1>1. Len(events) \in Nat /\ DOMAIN events = 1 .. Len(events)
  BY LenProperties
<1>2. PICK f : Replayed(events, f, Len(events)) /\ ReplayOf(events) = f[Len(events)]
  BY <1>1, ReplayOfIs
<1>3. QED
  BY <1>1, <1>2, ReplayBounded, FleetAssumption DEF FleetAssumption, Positions, Inside

(* appendTransitionEvent: what the log becomes. *)
LEMMA WithEventCases ==
  ASSUME NEW events, NEW e
  PROVE  \/ /\ WithEvent(events, e) = events
            /\ \E i \in DOMAIN events : events[i].id = e.id /\ events[i].status = e.status
         \/ WithEvent(events, e) = Append(events, e)
  BY DEF WithEvent

LEMMA AppendEach ==
  ASSUME NEW S, NEW s \in Seq(S), NEW e \in S
  PROVE  /\ Append(s, e) \in Seq(S)
         /\ \A i \in DOMAIN Append(s, e) :
               (i \in DOMAIN s /\ Append(s, e)[i] = s[i]) \/ Append(s, e)[i] = e
         /\ \A i \in DOMAIN s : i \in DOMAIN Append(s, e) /\ Append(s, e)[i] = s[i]
  OBVIOUS

-----------------------------------------------------------------------------
(* The types, copies being functions and at most one read at a time. *)
Copies == Sessions \X Seq(Events)
Markers == [target : 0 .. Last, id : Nat]

EngineTypes ==
    /\ session \in Sessions
    /\ log \in Seq(Events)
    /\ stage \in [Workers -> Stages]
    /\ machine \in [Workers -> Positions]
    /\ marker \in [Workers -> Markers]
    /\ adv \in [Workers -> Markers]
    /\ copy \in [Workers -> {<<>>} \cup {<<c>> : c \in Copies}]
    /\ nextId \in Nat \ {0}
    /\ disturbed \in BOOLEAN

(* Where an engine stands in an advance. *)
Ahead == {"acquiring", "intent", "logIntent", "renew", "move"}
Unfinished == {"complete", "logApplied"}

Stands(w) ==
    /\ pc[w] \in {"writing", "verifying"} => At(w, "acquiring")
    /\ stage[w] \in Ahead => adv[w].target = machine[w] + 1
    /\ stage[w] \in Unfinished => adv[w].target = machine[w] /\ adv[w] # NoMarker
    /\ stage[w] \notin Saving \cup Logging => copy[w] = <<>>

Standing == \A w \in Workers : Stands(w)

(* Every id stands for one transition, whose target T tells. *)
Fits(T, p) == p = NoMarker \/ (p.id \in DOMAIN T /\ p.target = T[p.id])

FitsLog(T, events) ==
    \A i \in DOMAIN events :
        events[i].id \in DOMAIN T /\ events[i].from + 1 = T[events[i].id]

AllFit(T) ==
    /\ Fits(T, session.marker) /\ FitsLog(T, log)
    /\ \A w \in Workers :
        /\ Fits(T, adv[w]) /\ Fits(T, marker[w])
        /\ copy[w] # <<>> => Fits(T, Read(w).marker) /\ FitsLog(T, ReadLog(w))

OneTarget == \E T \in [1 .. (nextId - 1) -> 2 .. Last] : AllFit(T)

(* No event of the log leaves the last state. *)
LEMMA LogIsInside == OneTarget /\ EngineTypes => Inside(log)
<1> SUFFICES ASSUME OneTarget, EngineTypes, NEW i \in DOMAIN log PROVE log[i].from < Last
  BY DEF Inside
<1>1. PICK T \in [1 .. (nextId - 1) -> 2 .. Last] : AllFit(T)
  BY DEF OneTarget
<1>2. log[i].id \in DOMAIN T /\ log[i].from + 1 = T[log[i].id]
  BY <1>1 DEF AllFit, FitsLog
<1>3. log[i] \in Events
  BY LenProperties, ElementOfSeq DEF EngineTypes
<1>4. log[i].from \in Nat /\ T[log[i].id] \in 2 .. Last /\ Last \in Nat
  BY <1>1, <1>2, <1>3, FleetAssumption DEF FleetAssumption, Events, Positions
<1>5. QED
  BY <1>2, <1>4

-----------------------------------------------------------------------------
(* The lease sees the calls of TransitionLease and nothing else. *)
LEMMA LeaseSteps ==
  ASSUME [FleetNext]_fleetVars
  PROVE  [Next]_vars
<1>1. ASSUME NEW w \in Workers, Engine(w) PROVE Step(w) \/ UNCHANGED vars
  BY <1>1
  DEF Engine, LoadSession, ReplayLog, StartAdvance, WriteLease, Acquired, ReadFile, WriteIntent,
      LogIntent, RenewStart, Renewed, RenewRefused, Move, WriteComplete, LogApplied, Released,
      Pause, SaveCheckpoint, CloseCheckpoint, Die, Save, SaveEvent, Step
<1>2. QED
  BY <1>1 DEF FleetNext, FleetTick, fleetVars, Next

(* Whoever the engines are, the lease of the fleet is that of the lease manager. *)
THEOREM FleetUsesLease == FleetSpec => Spec
<1>1. FleetInit => Init
  BY DEF FleetInit
<1>2. QED
  BY <1>1, LeaseSteps, PTL DEF FleetSpec, Spec

(* Engine w changes what belongs to w. *)
LEMMA OwnStep ==
  ASSUME NEW w \in Workers, Engine(w), TypeOK, EngineTypes
  PROVE  /\ \A v \in Workers : v # w =>
               /\ stage'[v] = stage[v] /\ machine'[v] = machine[v] /\ marker'[v] = marker[v]
               /\ adv'[v] = adv[v] /\ copy'[v] = copy[v] /\ pc'[v] = pc[v]
         /\ disturbed => disturbed'
<1> USE DEF EngineTypes, TypeOK, Goto, Enters
<1>1. CASE LoadSession(w) \/ ReplayLog(w) \/ StartAdvance(w)
  BY <1>1 DEF LoadSession, ReplayLog, StartAdvance, AcquireRead, vars
<1>2. CASE WriteLease(w) \/ RenewStart(w)
  BY <1>2 DEF WriteLease, RenewStart, AcquireWrite, RenewRead, engines
<1>3. CASE Acquired(w)
  BY <1>3 DEF Acquired, AcquireVerify
<1>4. CASE ReadFile(w)
  BY <1>4 DEF ReadFile, vars
<1>5. CASE WriteIntent(w) \/ Move(w) \/ WriteComplete(w) \/ SaveCheckpoint(w) \/ CloseCheckpoint(w)
  BY <1>5 DEF WriteIntent, Move, WriteComplete, SaveCheckpoint, CloseCheckpoint, Save, vars
<1>6. CASE LogIntent(w) \/ LogApplied(w)
  BY <1>6 DEF LogIntent, LogApplied, SaveEvent, vars
<1>7. CASE Renewed(w) \/ RenewRefused(w) \/ Released(w)
  BY <1>7 DEF Renewed, RenewWrite, RenewRefused, Released, ReleaseRead, ReleaseWrite, vars
<1>8. CASE Pause(w) \/ Die(w)
  BY <1>8 DEF Pause, Die, Crash, vars
<1>9. QED
  BY <1>1, <1>2, <1>3, <1>4, <1>5, <1>6, <1>7, <1>8 DEF Engine

-----------------------------------------------------------------------------
LEMMA FlowFacts ==
    /\ Last \in Nat \ {0} /\ Positions = 1 .. Last /\ 1 \in Positions
    /\ Positions \subseteq 0 .. Last /\ 0 \in 0 .. Last
    /\ NoMarker \in Markers /\ NoMarker = Marker(0, 0)
    /\ \A p : p \in Markers <=> \E to \in 0 .. Last, id \in Nat : p = Marker(to, id)
    /\ \A s \in Sessions : s.status \in 0 .. Last /\ s.marker \in Markers
  BY FleetAssumption DEF FleetAssumption, Positions, NoMarker, Marker, Markers, Sessions

(* What an engine has read. *)
LEMMA ReadTypes ==
  ASSUME EngineTypes, NEW w \in Workers, copy[w] # <<>>
  PROVE  /\ Read(w) \in Sessions /\ ReadLog(w) \in Seq(Events)
         /\ copy[w] = <<<<Read(w), ReadLog(w)>>>>
<1>1. PICK c \in Copies : copy[w] = <<c>>
  BY DEF EngineTypes
<1>2. copy[w][1] = c /\ c = <<c[1], c[2]>> /\ c[1] \in Sessions /\ c[2] \in Seq(Events)
  BY <1>1 DEF Copies
<1>3. QED
  BY <1>1, <1>2 DEF Read, ReadLog

(* What it saves of it. *)
LEMMA SaveTypes ==
  ASSUME EngineTypes, NEW w \in Workers, copy[w] # <<>>
  PROVE  /\ \A m \in Markers : [Read(w) EXCEPT !.marker = m] \in Sessions
         /\ \A s \in 0 .. Last : [Read(w) EXCEPT !.status = s] \in Sessions
         /\ [copy EXCEPT ![w] = <<>>] \in [Workers -> {<<>>} \cup {<<c>> : c \in Copies}]
<1>1. Read(w) \in Sessions
  BY ReadTypes
<1>2. \A m \in Markers : [Read(w) EXCEPT !.marker = m] \in Sessions
  BY <1>1 DEF Sessions, Markers
<1>3. \A s \in 0 .. Last : [Read(w) EXCEPT !.status = s] \in Sessions
  BY <1>1 DEF Sessions
<1>4. QED
  BY <1>2, <1>3 DEF EngineTypes

(* The event of the transition that an engine performs. *)
EventOf(w, status) == [id |-> adv[w].id, from |-> adv[w].target - 1, status |-> status]

(* The event is one that a log may hold. *)
LEMMA EventTypes ==
  ASSUME EngineTypes, OneTarget, NEW w \in Workers, adv[w] # NoMarker,
         NEW status \in {"intent", "applied"}
  PROVE  EventOf(w, status) \in Events /\ adv[w].target \in 2 .. Last
<1>1. PICK T \in [1 .. (nextId - 1) -> 2 .. Last] : AllFit(T)
  BY DEF OneTarget
<1>2. adv[w].id \in DOMAIN T /\ adv[w].target = T[adv[w].id]
  BY <1>1 DEF AllFit, Fits
<1>3. adv[w].target \in 2 .. Last /\ adv[w].id \in Nat /\ Last \in Nat
  BY <1>1, <1>2, FlowFacts DEF EngineTypes, Markers
<1>4. adv[w].target - 1 \in 1 .. Last
  BY <1>3
<1>5. QED
  BY <1>3, <1>4 DEF EventOf, Events, Positions

(* What the log is when the event has been saved. *)
LEMMA SavedLog ==
  ASSUME EngineTypes, OneTarget, NEW w \in Workers, adv[w] # NoMarker,
         NEW status \in {"intent", "applied"}, SaveEvent(w, status)
  PROVE  /\ copy[w] # <<>>
         /\ log' \in {log, WithEvent(ReadLog(w), EventOf(w, status))}
         /\ log' \in Seq(Events)
         /\ copy' \in [Workers -> {<<>>} \cup {<<c>> : c \in Copies}]
         /\ UNCHANGED <<vars, session, nextId>>
<1>1. /\ copy[w] # <<>>
      /\ log' \in {log, WithEvent(ReadLog(w), EventOf(w, status))}
      /\ copy' = [copy EXCEPT ![w] = <<>>]
      /\ UNCHANGED <<vars, session, nextId>>
  BY DEF SaveEvent, EventOf
<1>2. EventOf(w, status) \in Events /\ ReadLog(w) \in Seq(Events)
  BY <1>1, EventTypes, ReadTypes
<1>3. WithEvent(ReadLog(w), EventOf(w, status)) \in Seq(Events)
  BY <1>2, WithEventCases, AppendEach
<1>4. QED
  BY <1>1, <1>3, SaveTypes DEF EngineTypes

(* Every step of an engine keeps the types. *)
LEMMA EngineTypeStep ==
  ASSUME TypeOK, EngineTypes, Standing, OneTarget, NEW w \in Workers, Engine(w)
  PROVE  EngineTypes'
<1> USE FlowFacts
<1>1. CASE LoadSession(w)
  <2>1. marker'[w] \in Markers /\ machine'[w] \in Positions
    BY <1>1 DEF LoadSession, EngineTypes
  <2>2. QED
    BY <1>1, <2>1 DEF LoadSession, Enters, EngineTypes, Stages, Outside, files
<1>2. CASE ReplayLog(w)
  <2>1. ReplayOf(log) \in Positions
    BY LogIsInside, ReplayOfInside DEF EngineTypes
  <2>2. QED
    BY <1>2, <2>1 DEF ReplayLog, Enters, EngineTypes, Stages, Outside, files
<1>3. CASE StartAdvance(w)
  <2> DEFINE to == machine[w] + 1
             m == Marker(to, IF marker[w].target = to THEN marker[w].id ELSE nextId)
  <2>1. /\ adv' = [adv EXCEPT ![w] = m] /\ nextId' \in {nextId, nextId + 1} /\ to \in Positions
        /\ Enters(w, "acquiring") /\ UNCHANGED <<files, machine, marker, copy, disturbed>>
    BY <1>3 DEF StartAdvance
  <2>2. marker[w].id \in Nat /\ nextId \in Nat \ {0}
    BY DEF EngineTypes, Markers
  <2>3. m \in Markers
    BY <2>1, <2>2
  <2>4. nextId' \in Nat \ {0} /\ adv' \in [Workers -> Markers]
    BY <2>1, <2>2, <2>3 DEF EngineTypes
  <2>5. QED
    BY <2>1, <2>4 DEF Enters, EngineTypes, Stages, Outside, files
<1>4. CASE WriteLease(w) \/ RenewStart(w)
  BY <1>4 DEF WriteLease, RenewStart, EngineTypes, files, engines
<1>5. CASE Acquired(w)
  BY <1>5 DEF Acquired, Enters, OthersWrite, EngineTypes, Stages, Outside, Saving, files
<1>6. CASE ReadFile(w)
  <2>1. <<session, log>> \in Copies
    BY DEF EngineTypes, Copies
  <2>2. copy' \in [Workers -> {<<>>} \cup {<<c>> : c \in Copies}]
    BY <1>6, <2>1 DEF ReadFile, EngineTypes
  <2>3. QED
    BY <1>6, <2>2 DEF ReadFile, EngineTypes, files
<1>7. ASSUME NEW new \in Sessions, Save(w, new), NEW s \in Stages, Enters(w, s),
             machine' \in [Workers -> Positions], UNCHANGED <<marker, adv, disturbed>>
      PROVE  EngineTypes'
  <2>1. copy[w] # <<>> /\ session' = new /\ copy' = [copy EXCEPT ![w] = <<>>]
        /\ UNCHANGED <<log, nextId>>
    BY <1>7 DEF Save
  <2>2. copy' \in [Workers -> {<<>>} \cup {<<c>> : c \in Copies}]
    BY <2>1, SaveTypes
  <2>3. QED
    BY <1>7, <2>1, <2>2 DEF Enters, EngineTypes
<1>8. /\ {"logIntent", "complete", "logApplied", "close", "ready"} \subseteq Stages
      /\ machine \in [Workers -> Positions] /\ adv[w] \in Markers
      /\ machine[w] \in 0 .. Last /\ adv[w].target \in 0 .. Last
  BY DEF Stages, Outside, Saving, Logging, EngineTypes, Markers
<1>9. CASE WriteIntent(w)
  <2>1. copy[w] # <<>> /\ [Read(w) EXCEPT !.marker = adv[w]] \in Sessions
    BY <1>8, <1>9, SaveTypes DEF WriteIntent, Save
  <2>2. QED
    BY <1>7, <1>8, <1>9, <2>1 DEF WriteIntent
<1>10. CASE Move(w)
  <2>1. adv[w].target \in Positions
    BY <1>10 DEF Move, At, Standing, Stands, Ahead, EngineTypes, Markers
  <2>2. copy[w] # <<>> /\ [Read(w) EXCEPT !.status = adv[w].target] \in Sessions
    BY <1>8, <1>10, SaveTypes DEF Move, Save
  <2>3. machine' \in [Workers -> Positions]
    BY <1>10, <2>1 DEF Move, EngineTypes
  <2>4. QED
    BY <1>7, <1>8, <1>10, <2>2, <2>3 DEF Move
<1>11. CASE WriteComplete(w)
  <2>1. copy[w] # <<>> /\ [Read(w) EXCEPT !.marker = NoMarker] \in Sessions
    BY <1>8, <1>11, SaveTypes DEF WriteComplete, Save
  <2>2. QED
    BY <1>7, <1>8, <1>11, <2>1 DEF WriteComplete
<1>12. CASE SaveCheckpoint(w)
  <2>1. copy[w] # <<>> /\ [Read(w) EXCEPT !.status = machine[w]] \in Sessions
    BY <1>8, <1>12, SaveTypes DEF SaveCheckpoint, Save
  <2>2. QED
    BY <1>7, <1>8, <1>12, <2>1 DEF SaveCheckpoint
<1>13. CASE CloseCheckpoint(w)
  <2>1. copy[w] # <<>> /\ [Read(w) EXCEPT !.marker = NoMarker] \in Sessions
    BY <1>8, <1>13, SaveTypes DEF CloseCheckpoint, Save
  <2>2. QED
    BY <1>7, <1>8, <1>13, <2>1 DEF CloseCheckpoint
<1>14. CASE LogIntent(w)
  <2>1. adv[w] # NoMarker
    BY <1>14 DEF LogIntent, At, Standing, Stands, Ahead, EngineTypes, NoMarker
  <2>2. SaveEvent(w, "intent")
    BY <1>14 DEF LogIntent
  <2>3. QED
    BY <1>14, <2>1, <2>2, SavedLog DEF LogIntent, Enters, EngineTypes, Stages
<1>15. CASE LogApplied(w)
  <2>1. adv[w] # NoMarker
    BY <1>15 DEF LogApplied, At, Standing, Stands, Unfinished
  <2>2. SaveEvent(w, "applied")
    BY <1>15 DEF LogApplied
  <2>3. QED
    BY <1>15, <2>1, <2>2, SavedLog DEF LogApplied, Enters, EngineTypes, Stages
<1>16. CASE Renewed(w) \/ RenewRefused(w) \/ Released(w)
  BY <1>16 DEF Renewed, RenewRefused, Released, Enters, EngineTypes, Stages, Outside, Saving, files
<1>17. CASE Pause(w)
  BY <1>17 DEF Pause, Enters, OthersWrite, EngineTypes, Stages, Saving, files
<1>18. CASE Die(w)
  BY <1>18 DEF Die, Enters, EngineTypes, Stages, Outside, files
<1>19. QED
  BY <1>1, <1>2, <1>3, <1>4, <1>5, <1>6, <1>9, <1>10, <1>11, <1>12, <1>13, <1>14, <1>15,
     <1>16, <1>17, <1>18 DEF Engine

-----------------------------------------------------------------------------
(* An engine that steps keeps its place in an advance. *)
LEMMA StandingStep ==
  ASSUME TypeOK, EngineTypes, Standing, OneTarget, NEW w \in Workers, Engine(w)
  PROVE  Standing'
<1> USE FlowFacts
<1>1. SUFFICES Stands(w)'
  BY OwnStep DEF Standing, Stands, At
<1>2. /\ Stands(w) /\ pc \in [Workers -> WorkerState]
      /\ stage \in [Workers -> Stages] /\ machine \in [Workers -> Positions]
      /\ adv \in [Workers -> Markers] /\ DOMAIN copy = Workers
  BY DEF Standing, EngineTypes, TypeOK
<1>3. /\ Outside \cap (Saving \cup Logging) = {}
      /\ Unfinished \subseteq Saving \cup Logging
  BY DEF Outside, Saving, Logging, Unfinished
<1>4. CASE LoadSession(w) \/ ReplayLog(w)
  BY <1>2, <1>4
  DEF LoadSession, ReplayLog, Enters, At, Stands, vars, Ahead, Unfinished, Saving, Logging
<1>5. CASE StartAdvance(w)
  <2>1. /\ At(w, "ready") /\ stage'[w] = "acquiring" /\ UNCHANGED <<machine, copy>>
        /\ adv'[w].target = machine[w] + 1
    BY <1>2, <1>5 DEF StartAdvance, Enters, Marker
  <2>2. copy[w] = <<>>
    BY <1>2, <2>1 DEF Stands, At, Saving, Logging
  <2>3. QED
    BY <2>1, <2>2 DEF Stands, At, Ahead, Unfinished, Saving, Logging
<1>6. CASE WriteLease(w) \/ RenewStart(w)
  BY <1>2, <1>6
  DEF WriteLease, RenewStart, AcquireWrite, RenewRead, Goto, At, Stands, engines
<1>7. CASE Acquired(w)
  <2>1. At(w, "acquiring") /\ pc'[w] \in {"holding", "idle"}
    BY <1>2, <1>7 DEF Acquired, AcquireVerify, Goto, Stands
  <2>2. /\ stage'[w] \in {"intent", "ready"} /\ copy[w] = <<>>
        /\ UNCHANGED <<machine, adv, copy>>
    BY <1>2, <1>7, <2>1 DEF Acquired, Enters, At, Stands, Saving, Logging
  <2>3. QED
    BY <1>2, <2>1, <2>2 DEF At, Stands, Ahead, Unfinished
<1>8. CASE ReadFile(w)
  BY <1>2, <1>8 DEF ReadFile, At, Stands, vars
<1>9. CASE WriteIntent(w) \/ WriteComplete(w) \/ SaveCheckpoint(w) \/ CloseCheckpoint(w)
  <2>1. /\ UNCHANGED <<pc, machine, adv>> /\ copy'[w] = <<>>
        /\ \/ At(w, "intent") /\ stage'[w] = "logIntent"
           \/ At(w, "complete") /\ stage'[w] = "logApplied"
           \/ At(w, "checkpoint") /\ stage'[w] = "close"
           \/ At(w, "close") /\ stage'[w] = "ready"
    BY <1>2, <1>9
    DEF WriteIntent, WriteComplete, SaveCheckpoint, CloseCheckpoint, Save, Enters, vars
  <2>2. QED
    BY <1>2, <2>1 DEF At, Stands, Ahead, Unfinished
<1>10. CASE Move(w)
  <2>1. /\ UNCHANGED <<pc, adv>> /\ copy'[w] = <<>> /\ At(w, "move")
        /\ stage'[w] = "complete" /\ machine'[w] = adv[w].target
    BY <1>2, <1>10 DEF Move, Save, Enters, vars
  <2>2. adv[w].target # 0
    BY <1>2, <2>1 DEF At, Stands, Ahead
  <2>3. adv[w] # NoMarker
    BY <2>2 DEF NoMarker
  <2>4. QED
    BY <1>2, <2>1, <2>3 DEF At, Stands, Ahead, Unfinished
<1>11. CASE LogIntent(w) \/ LogApplied(w)
  <2>1. /\ UNCHANGED <<pc, adv, machine>> /\ copy'[w] = <<>>
        /\ \/ At(w, "logIntent") /\ stage'[w] = "renew"
           \/ At(w, "logApplied") /\ stage'[w] = "release"
    BY <1>2, <1>11 DEF LogIntent, LogApplied, SaveEvent, Enters, vars
  <2>2. QED
    BY <1>2, <2>1 DEF At, Stands, Ahead, Unfinished
<1>12. CASE Renewed(w) \/ RenewRefused(w)
  <2>1. /\ UNCHANGED <<adv, machine, copy>> /\ At(w, "renew") /\ stage'[w] = "move"
        /\ pc'[w] = "holding"
    BY <1>2, <1>12 DEF Renewed, RenewRefused, RenewWrite, Goto, Enters, vars
  <2>2. copy[w] = <<>>
    BY <1>2, <2>1 DEF At, Stands, Saving, Logging
  <2>3. QED
    BY <1>2, <2>1, <2>2 DEF At, Stands, Ahead, Unfinished
<1>13. CASE Released(w)
  <2>1. /\ UNCHANGED <<machine, copy>> /\ At(w, "release")
        /\ pc'[w] \in {"releasing", "idle"} /\ stage'[w] \in {"ready", "release"}
    BY <1>2, <1>13 DEF Released, ReleaseRead, ReleaseWrite, Goto, Enters
  <2>2. copy[w] = <<>>
    BY <1>2, <2>1 DEF At, Stands, Saving, Logging
  <2>3. QED
    BY <2>1, <2>2 DEF At, Stands, Ahead, Unfinished
<1>14. CASE Pause(w)
  <2>1. /\ UNCHANGED <<pc, machine, adv, copy>> /\ At(w, "ready") /\ stage'[w] = "checkpoint"
    BY <1>2, <1>14 DEF Pause, Enters, vars
  <2>2. QED
    BY <1>2, <2>1 DEF At, Stands, Ahead, Unfinished, Saving, Logging
<1>15. CASE Die(w)
  <2>1. pc'[w] = "dead" /\ stage'[w] = "off" /\ copy'[w] = <<>>
    BY <1>2, <1>15 DEF Die, Crash, Goto, Enters
  <2>2. QED
    BY <2>1 DEF Stands, Ahead, Unfinished
<1>16. QED
  BY <1>4, <1>5, <1>6, <1>7, <1>8, <1>9, <1>10, <1>11, <1>12, <1>13, <1>14, <1>15 DEF Engine

-----------------------------------------------------------------------------
(* An id keeps its transition; a new one is given to the next. *)
LEMMA TargetsKept ==
  ASSUME OneTarget, nextId' = nextId,
         \A T : AllFit(T) => AllFit(T)'
  PROVE  OneTarget'
<1>1. PICK T \in [1 .. (nextId - 1) -> 2 .. Last] : AllFit(T)
  BY DEF OneTarget
<1>2. QED
  BY <1>1 DEF OneTarget

(* It is enough to look at the files and at what belongs to the engine that steps. *)
LEMMA FitsOwn ==
  ASSUME TypeOK, EngineTypes, NEW w \in Workers, Engine(w), NEW T, AllFit(T),
         Fits(T, session'.marker), FitsLog(T, log'), Fits(T, adv'[w]), Fits(T, marker'[w]),
         copy'[w] \in {<<>>, copy[w], <<<<session, log>>>>}
  PROVE  AllFit(T)'
<1>1. \A v \in Workers : Fits(T, adv'[v]) /\ Fits(T, marker'[v])
  BY OwnStep DEF AllFit
<1>2. \A v \in Workers : copy'[v] \in {<<>>, copy[v], <<<<session, log>>>>}
  BY OwnStep
<1>3. ASSUME NEW v \in Workers, copy'[v] # <<>>
      PROVE  Fits(T, copy'[v][1][1].marker) /\ FitsLog(T, copy'[v][1][2])
  <2>1. CASE copy'[v] = copy[v]
    BY <1>3, <2>1 DEF AllFit, Read, ReadLog
  <2>2. CASE copy'[v] = <<<<session, log>>>>
    BY <2>2 DEF AllFit
  <2>3. QED
    BY <1>2, <1>3, <2>1, <2>2
<1>4. QED
  BY <1>1, <1>3 DEF AllFit, Read, ReadLog

(* An event that fits may be appended to a log that fits. *)
LEMMA FitsAppended ==
  ASSUME NEW T, NEW events \in Seq(Events), NEW e \in Events, FitsLog(T, events),
         e.id \in DOMAIN T, e.from + 1 = T[e.id]
  PROVE  FitsLog(T, WithEvent(events, e))
<1>1. CASE WithEvent(events, e) = events
  BY <1>1
<1>2. CASE WithEvent(events, e) = Append(events, e)
  BY <1>2, AppendEach DEF FitsLog
<1>3. QED
  BY <1>1, <1>2, WithEventCases

(* The log fits when the event of a transition has been saved. *)
LEMMA FitsSaved ==
  ASSUME EngineTypes, OneTarget, NEW w \in Workers, adv[w] # NoMarker, NEW T, AllFit(T),
         NEW status \in {"intent", "applied"}, SaveEvent(w, status)
  PROVE  FitsLog(T, log') /\ copy'[w] = <<>> /\ UNCHANGED session
<1>1. /\ copy[w] # <<>> /\ log' \in {log, WithEvent(ReadLog(w), EventOf(w, status))}
      /\ copy' = [copy EXCEPT ![w] = <<>>] /\ UNCHANGED session
  BY SavedLog DEF SaveEvent
<1>2. FitsLog(T, log) /\ FitsLog(T, ReadLog(w))
  BY <1>1 DEF AllFit
<1>3. ReadLog(w) \in Seq(Events) /\ EventOf(w, status) \in Events /\ adv[w].target \in 2 .. Last
  BY <1>1, ReadTypes, EventTypes
<1>4. adv[w].id \in DOMAIN T /\ adv[w].target = T[adv[w].id]
  BY DEF AllFit, Fits
<1>5. (adv[w].target - 1) + 1 = adv[w].target
  BY <1>3, FlowFacts
<1>6. FitsLog(T, WithEvent(ReadLog(w), EventOf(w, status)))
  BY <1>2, <1>3, <1>4, <1>5, FitsAppended DEF EventOf
<1>7. QED
  BY <1>1, <1>2, <1>6 DEF EngineTypes

(* An advance that is not resumed draws an id that nobody has: T grows by it. *)
LEMMA FreshId ==
  ASSUME TypeOK, EngineTypes, OneTarget, NEW w \in Workers, StartAdvance(w)
  PROVE  OneTarget'
<1> DEFINE to == machine[w] + 1
<1>1. /\ to \in Positions
      /\ UNCHANGED <<session, log, marker, copy>>
      /\ adv' = [adv EXCEPT ![w] = Marker(to, IF marker[w].target = to THEN marker[w].id
                                                                     ELSE nextId)]
      /\ nextId' = IF marker[w].target = to THEN nextId ELSE nextId + 1
  BY DEF StartAdvance, files
<1>2. machine[w] \in 1 .. Last /\ to \in 2 .. Last /\ nextId \in Nat \ {0} /\ marker[w] \in Markers
      /\ Last \in Nat
  BY <1>1, FlowFacts DEF EngineTypes
<1> HIDE DEF to
<1>3. PICK T \in [1 .. (nextId - 1) -> 2 .. Last] : AllFit(T)
  BY DEF OneTarget
<1>4. CASE marker[w].target = to
  <2>1. adv' = [adv EXCEPT ![w] = marker[w]] /\ nextId' = nextId
    BY <1>1, <1>2, <1>4 DEF Marker, Markers
  <2>2. \A v \in Workers : Fits(T, adv'[v])
    BY <1>3, <2>1 DEF AllFit, EngineTypes
  <2>3. AllFit(T)'
    BY <1>1, <1>3, <2>2 DEF AllFit, Read, ReadLog
  <2>4. QED
    BY <1>3, <2>1, <2>3 DEF OneTarget
<1>5. CASE marker[w].target # to
  <2>0. PICK U : U = [i \in 1 .. ((nextId + 1) - 1) |-> IF i < nextId THEN T[i] ELSE to]
    OBVIOUS
  <2>1. \A i \in DOMAIN T : i \in DOMAIN U /\ U[i] = T[i]
    BY <1>2, <1>3, <2>0
  <2>2. nextId \in DOMAIN U /\ U[nextId] = to
    BY <1>2, <2>0
  <2>3. U \in [1 .. ((nextId + 1) - 1) -> 2 .. Last]
    BY <1>2, <1>3, <2>0
  <2>4. \A p : Fits(T, p) => Fits(U, p)
    BY <2>1 DEF Fits
  <2>5. \A events : FitsLog(T, events) => FitsLog(U, events)
    BY <2>1 DEF FitsLog
  <2>6. Fits(U, Marker(to, nextId))
    BY <2>2 DEF Fits, Marker
  <2>7. \A v \in Workers : Fits(U, adv'[v])
    BY <1>1, <1>3, <1>5, <2>4, <2>6 DEF AllFit, EngineTypes
  <2>8. AllFit(U)'
    BY <1>1, <1>3, <2>4, <2>5, <2>7 DEF AllFit, Read, ReadLog
  <2>9. U \in [1 .. (nextId' - 1) -> 2 .. Last]
    BY <1>1, <1>5, <2>3
  <2>10. QED
    BY <2>8, <2>9 DEF OneTarget
<1>6. QED
  BY <1>4, <1>5

LEMMA OneTargetStep ==
  ASSUME TypeOK, EngineTypes, Standing, OneTarget, NEW w \in Workers, Engine(w)
  PROVE  OneTarget'
<1>1. CASE StartAdvance(w)
  BY <1>1, FreshId
<1>2. ASSUME ~StartAdvance(w), NEW T, AllFit(T)
      PROVE  AllFit(T)' /\ nextId' = nextId
  <2>1. /\ Fits(T, session.marker) /\ FitsLog(T, log) /\ Fits(T, adv[w]) /\ Fits(T, marker[w])
        /\ copy[w] # <<>> => Fits(T, Read(w).marker)
        /\ Fits(T, NoMarker)
    BY <1>2 DEF AllFit, Fits
  <2>2. /\ adv \in [Workers -> Markers] /\ marker \in [Workers -> Markers]
        /\ DOMAIN copy = Workers
    BY DEF EngineTypes
  <2>3. CASE LogIntent(w) \/ LogApplied(w)
    <3>1. adv[w] # NoMarker
      BY <2>3, FlowFacts DEF LogIntent, LogApplied, At, Standing, Stands, Ahead, Unfinished,
                             EngineTypes, NoMarker
    <3>2. FitsLog(T, log') /\ copy'[w] = <<>> /\ session' = session /\ nextId' = nextId
      BY <1>2, <2>3, <3>1, FitsSaved DEF LogIntent, LogApplied, SaveEvent
    <3>3. adv'[w] = adv[w] /\ marker'[w] \in {marker[w], NoMarker}
      BY <2>2, <2>3 DEF LogIntent, LogApplied
    <3>4. QED
      BY <1>2, <2>1, <3>2, <3>3, FitsOwn
  <2>4. ASSUME log' = log, nextId' = nextId,
               Fits(T, session'.marker), Fits(T, adv'[w]), Fits(T, marker'[w]),
               copy'[w] \in {<<>>, copy[w], <<<<session, log>>>>}
        PROVE  AllFit(T)' /\ nextId' = nextId
    BY <1>2, <2>1, <2>4, FitsOwn
  <2>5. CASE LoadSession(w) \/ ReplayLog(w)
    BY <2>1, <2>2, <2>4, <2>5 DEF LoadSession, ReplayLog, files
  <2>6. CASE WriteLease(w) \/ RenewStart(w) \/ Acquired(w) \/ ReadFile(w)
    BY <2>1, <2>2, <2>4, <2>6 DEF WriteLease, RenewStart, Acquired, ReadFile, files, engines
  <2>7. CASE Renewed(w) \/ RenewRefused(w) \/ Released(w) \/ Pause(w) \/ Die(w)
    BY <2>1, <2>2, <2>4, <2>7 DEF Renewed, RenewRefused, Released, Pause, Die, files
  <2>8. CASE WriteIntent(w) \/ Move(w) \/ WriteComplete(w) \/ SaveCheckpoint(w)
             \/ CloseCheckpoint(w)
    <3>1. copy[w] # <<>> /\ copy'[w] = <<>> /\ UNCHANGED <<log, nextId, adv, marker>>
      BY <2>2, <2>8 DEF WriteIntent, Move, WriteComplete, SaveCheckpoint, CloseCheckpoint, Save
    <3>2. Read(w) \in Sessions
      BY <3>1, ReadTypes
    <3>3. session'.marker \in {adv[w], Read(w).marker, NoMarker}
      BY <2>8, <3>2
      DEF WriteIntent, Move, WriteComplete, SaveCheckpoint, CloseCheckpoint, Save, Sessions
    <3>4. QED
      BY <2>1, <2>4, <3>1, <3>3
  <2>9. QED
    BY <1>2, <2>3, <2>5, <2>6, <2>7, <2>8 DEF Engine
<1>3. CASE ~StartAdvance(w)
  <2>1. PICK T : AllFit(T)
    BY DEF OneTarget
  <2>2. nextId' = nextId
    BY <1>2, <1>3, <2>1
  <2>3. QED
    BY <1>2, <1>3, <2>2, TargetsKept
<1>4. QED
  BY <1>1, <1>3

-----------------------------------------------------------------------------
(* As long as no two engines have written at once, a single one is at work, what
   it has read is what the files say, and the log leads as far as anybody has
   come or the transition that is about to be logged. *)
Alone ==
    \A v, w \in Workers : stage[v] \notin Outside /\ stage[w] \notin Outside => v = w

Current == \A w \in Workers : copy[w] \in {<<>>, <<<<session, log>>>>}

Reached(n) ==
    n <= ReplayOf(log) \/ \E w \in Workers : stage[w] \in Unfinished /\ n <= machine[w]

Led(events) ==
    \A i \in DOMAIN events : events[i].status = "applied" => events[i].from < ReplayOf(events)

Lead ==
    /\ \A w \in Workers : Reached(machine[w])
    /\ Reached(session.status)
    /\ \A w \in Workers : stage[w] \in Unfinished => machine[w] <= ReplayOf(log) + 1
    /\ Led(log)

Quiet == ~disturbed => Alone /\ Current /\ Lead

(* Whoever starts to write while another does is noticed (disturbed). *)
LEMMA AloneStep ==
  ASSUME TypeOK, EngineTypes, Standing, Alone, NEW w \in Workers, Engine(w), ~disturbed'
  PROVE  Alone'
<1>1. stage[w] \in Outside /\ stage'[w] \notin Outside => ~OthersWrite(w)
  <2> USE DEF EngineTypes, Outside, Enters, At
  <2>1. CASE LoadSession(w) \/ ReplayLog(w) \/ StartAdvance(w)
    BY <2>1 DEF LoadSession, ReplayLog, StartAdvance
  <2>2. CASE WriteLease(w) \/ RenewStart(w) \/ ReadFile(w)
    BY <2>2 DEF WriteLease, RenewStart, ReadFile, engines
  <2>3. CASE Acquired(w)
    BY <2>3 DEF Acquired
  <2>4. CASE WriteIntent(w) \/ Move(w) \/ WriteComplete(w) \/ SaveCheckpoint(w)
             \/ CloseCheckpoint(w) \/ LogIntent(w) \/ LogApplied(w)
    BY <2>4
    DEF WriteIntent, Move, WriteComplete, SaveCheckpoint, CloseCheckpoint, LogIntent, LogApplied
  <2>5. CASE Renewed(w) \/ RenewRefused(w) \/ Released(w)
    BY <2>5 DEF Renewed, RenewRefused, Released
  <2>6. CASE Pause(w) \/ Die(w)
    BY <2>6 DEF Pause, Die
  <2>7. QED
    BY <2>1, <2>2, <2>3, <2>4, <2>5, <2>6 DEF Engine
<1>2. \A v \in Workers : v # w => stage'[v] = stage[v]
  BY OwnStep
<1>3. QED
  BY <1>1, <1>2 DEF Alone, OthersWrite

(* The engine that writes a file is alone, so that nobody else has read one. *)
LEMMA CurrentStep ==
  ASSUME TypeOK, EngineTypes, Standing, Alone, Current, NEW w \in Workers, Engine(w)
  PROVE  Current'
<1>1. \A v \in Workers : v # w => copy'[v] = copy[v]
  BY OwnStep
<1>2. DOMAIN copy = Workers
  BY DEF EngineTypes
<1>3. ASSUME stage[w] \notin Outside, copy'[w] = <<>> PROVE Current'
  <2>1. \A v \in Workers : v # w => stage[v] \in Outside
    BY <1>3 DEF Alone
  <2>2. \A v \in Workers : v # w => copy[v] = <<>>
    BY <2>1 DEF Standing, Stands, Outside, Saving, Logging
  <2>3. QED
    BY <1>1, <1>3, <2>2 DEF Current
<1>4. ASSUME UNCHANGED files, copy'[w] \in {<<>>, copy[w], <<<<session, log>>>>} PROVE Current'
  BY <1>1, <1>4 DEF Current, files
<1>5. CASE LoadSession(w) \/ ReplayLog(w) \/ StartAdvance(w)
  BY <1>4, <1>5 DEF LoadSession, ReplayLog, StartAdvance
<1>6. CASE WriteLease(w) \/ RenewStart(w) \/ Acquired(w) \/ ReadFile(w)
  BY <1>2, <1>4, <1>6 DEF WriteLease, RenewStart, Acquired, ReadFile, engines
<1>7. CASE Renewed(w) \/ RenewRefused(w) \/ Released(w) \/ Pause(w) \/ Die(w)
  BY <1>2, <1>4, <1>7 DEF Renewed, RenewRefused, Released, Pause, Die
<1>8. CASE WriteIntent(w) \/ Move(w) \/ WriteComplete(w) \/ SaveCheckpoint(w)
           \/ CloseCheckpoint(w)
  BY <1>2, <1>3, <1>8
  DEF WriteIntent, Move, WriteComplete, SaveCheckpoint, CloseCheckpoint, Save, At, Outside
<1>9. CASE LogIntent(w) \/ LogApplied(w)
  BY <1>2, <1>3, <1>9 DEF LogIntent, LogApplied, SaveEvent, At, Outside
<1>10. QED
  BY <1>5, <1>6, <1>7, <1>8, <1>9 DEF Engine

(* A log that an event is added to leads as far as before, and as far as the
   event says: if that is not written, it has been. *)
LEMMA LogGrows ==
  ASSUME NEW events \in Seq(Events), NEW e \in Events, ReplayOf(events) \in Nat,
         Led(events), e.from <= ReplayOf(events),
         \A i \in DOMAIN events : events[i].id = e.id => events[i].from = e.from
  PROVE  /\ Led(WithEvent(events, e))
         /\ ReplayOf(WithEvent(events, e)) \in Nat
         /\ ReplayOf(events) <= ReplayOf(WithEvent(events, e))
         /\ e.status = "applied" => e.from < ReplayOf(WithEvent(events, e))
         /\ e.status = "intent" => ReplayOf(WithEvent(events, e)) = ReplayOf(events)
<1> DEFINE more == Append(events, e)
<1>1. CASE /\ WithEvent(events, e) = events
           /\ \E i \in DOMAIN events : events[i].id = e.id /\ events[i].status = e.status
  BY <1>1 DEF Led
<1>2. CASE WithEvent(events, e) = more
  <2>1. ReplayOf(more) = After(e, ReplayOf(events))
    BY ReplayOfAppend
  <2>2. e.from \in Nat /\ e.status \in {"intent", "applied"}
    BY FlowFacts DEF Events
  <2>3. /\ ReplayOf(more) \in Nat /\ ReplayOf(events) <= ReplayOf(more)
        /\ e.status = "applied" => e.from < ReplayOf(more)
        /\ e.status = "intent" => ReplayOf(more) = ReplayOf(events)
    BY <2>1, <2>2 DEF After
  <2>4. \A i \in DOMAIN events : events[i].from \in Nat
    <3>1. \A i \in DOMAIN events : events[i] \in Events
      BY LenProperties, ElementOfSeq
    <3>2. QED
      BY <3>1, FlowFacts DEF Events
  <2>5. Led(more)
    <3>1. SUFFICES ASSUME NEW i \in DOMAIN more, more[i].status = "applied"
                   PROVE  more[i].from < ReplayOf(more)
      BY DEF Led
    <3>2. (i \in DOMAIN events /\ more[i] = events[i]) \/ more[i] = e
      BY AppendEach
    <3> HIDE DEF more
    <3>3. CASE i \in DOMAIN events /\ more[i] = events[i]
      <4>1. events[i].from < ReplayOf(events)
        BY <3>1, <3>3 DEF Led
      <4>2. events[i].from \in Nat
        BY <2>4, <3>3
      <4>3. QED
        BY <2>3, <3>3, <4>1, <4>2
    <3>4. CASE more[i] = e
      BY <2>3, <3>1, <3>4
    <3>5. QED
      BY <3>2, <3>3, <3>4
  <2>6. QED
    BY <1>2, <2>3, <2>5
<1>3. QED
  BY <1>1, <1>2, WithEventCases

(* A step that leaves the log alone: nobody goes back on a transition that is yet
   to be logged, and whoever moves gets where somebody has been, or moves on by one. *)
LEMMA LeadKept ==
  ASSUME TypeOK, EngineTypes, Lead, NEW w \in Workers, Engine(w), log' = log,
         stage[w] \in Unfinished => stage'[w] \in Unfinished /\ machine'[w] = machine[w],
         \/ /\ Reached(machine'[w]) /\ Reached(session'.status)
            /\ stage'[w] \in Unfinished => stage[w] \in Unfinished
         \/ /\ stage'[w] \in Unfinished /\ machine'[w] <= ReplayOf(log) + 1
            /\ machine'[w] \in Nat /\ session'.status = machine'[w]
  PROVE  Lead'
<1> DEFINE Then(n) == \/ n <= ReplayOf(log')
                      \/ \E v \in Workers : stage'[v] \in Unfinished /\ n <= machine'[v]
<1>1. \A v \in Workers : v # w => stage'[v] = stage[v] /\ machine'[v] = machine[v]
  BY OwnStep
<1>2. \A n : Reached(n) => Then(n)
  <2>1. SUFFICES ASSUME NEW n, NEW v \in Workers, stage[v] \in Unfinished, n <= machine[v]
                 PROVE  stage'[v] \in Unfinished /\ n <= machine'[v]
    BY DEF Reached
  <2>2. CASE v = w
    BY <2>1, <2>2
  <2>3. CASE v # w
    BY <1>1, <2>1, <2>3
  <2>4. QED
    BY <2>2, <2>3
<1>3. Then(machine'[w]) /\ Then(session'.status)
  <2>1. CASE Reached(machine'[w]) /\ Reached(session'.status)
    BY <1>2, <2>1
  <2>2. CASE stage'[w] \in Unfinished /\ machine'[w] \in Nat /\ session'.status = machine'[w]
    <3>1. machine'[w] <= machine'[w]
      BY <2>2
    <3>2. QED
      BY <2>2, <3>1
  <2>3. QED
    BY <2>1, <2>2
<1>4. \A v \in Workers : Then(machine'[v])
  <2>1. SUFFICES ASSUME NEW v \in Workers, v # w PROVE Then(machine'[v])
    BY <1>3
  <2>2. Reached(machine[v]) /\ machine'[v] = machine[v]
    BY <1>1, <2>1 DEF Lead
  <2>3. QED
    BY <1>2, <2>2
<1>5. \A v \in Workers : stage'[v] \in Unfinished => machine'[v] <= ReplayOf(log) + 1
  BY <1>1 DEF Lead
<1>6. Reached(session.status)' /\ \A v \in Workers : Reached(machine[v])'
  BY <1>3, <1>4 DEF Reached
<1>7. Led(log)'
  BY DEF Lead, Led
<1>8. QED
  BY <1>5, <1>6, <1>7 DEF Lead

(* What an engine alone at work has read. *)
LEMMA ReadCurrent ==
  ASSUME EngineTypes, Current, NEW w \in Workers, copy[w] # <<>>
  PROVE  Read(w) = session /\ ReadLog(w) = log
<1>1. copy[w] = <<<<session, log>>>>
  BY DEF Current
<1>2. QED
  BY <1>1 DEF Read, ReadLog

LEMMA LeadStepFiles ==
  ASSUME TypeOK, EngineTypes, Standing, OneTarget, Alone, Current, Lead,
         NEW w \in Workers, Engine(w), ~disturbed', ~LogIntent(w), ~LogApplied(w)
  PROVE  Lead'
<1>1. /\ ReplayOf(log) \in 1 .. Last /\ Last \in Nat
  BY LogIsInside, ReplayOfInside, FlowFacts DEF EngineTypes
<1>2. /\ Reached(1) /\ Reached(ReplayOf(log)) /\ Reached(machine[w]) /\ Reached(session.status)
  BY <1>1 DEF Lead, Reached
<1>3. /\ stage \in [Workers -> Stages] /\ machine \in [Workers -> Positions]
      /\ Stands(w)
  BY DEF EngineTypes, Standing
<1>4. CASE LoadSession(w) \/ ReplayLog(w)
  <2>1. /\ log' = log /\ session' = session
        /\ machine'[w] \in {1, session.status, machine[w], ReplayOf(log)}
        /\ stage[w] \notin Unfinished /\ stage'[w] \notin Unfinished
    BY <1>3, <1>4 DEF LoadSession, ReplayLog, Enters, At, Unfinished, files
  <2>2. QED
    BY <1>2, <2>1, LeadKept
<1>5. ASSUME UNCHANGED <<log, session, machine>>,
             stage'[w] = stage[w] \/ (stage[w] \notin Unfinished /\ stage'[w] \notin Unfinished)
      PROVE  Lead'
  BY <1>2, <1>5, LeadKept
<1>6. CASE StartAdvance(w) \/ Pause(w) \/ Renewed(w) \/ RenewRefused(w) \/ Released(w)
  BY <1>3, <1>5, <1>6
  DEF StartAdvance, Pause, Renewed, RenewRefused, Released, Enters, At, Unfinished, files
<1>7. CASE WriteLease(w) \/ RenewStart(w) \/ ReadFile(w)
  BY <1>5, <1>7 DEF WriteLease, RenewStart, ReadFile, files, engines
<1>8. CASE Acquired(w)
  BY <1>3, <1>5, <1>8
  DEF Acquired, AcquireVerify, Stands, Enters, At, Unfinished, files
<1>9. CASE WriteIntent(w) \/ WriteComplete(w) \/ SaveCheckpoint(w) \/ CloseCheckpoint(w)
  <2>1. copy[w] # <<>> /\ UNCHANGED <<log, machine>>
    BY <1>9 DEF WriteIntent, WriteComplete, SaveCheckpoint, CloseCheckpoint, Save
  <2>2. Read(w) = session /\ session \in Sessions
    BY <2>1, ReadCurrent DEF EngineTypes
  <2>3. session'.status \in {session.status, machine[w]}
    BY <1>9, <2>2
    DEF WriteIntent, WriteComplete, SaveCheckpoint, CloseCheckpoint, Save, Sessions
  <2>4. \/ stage[w] \notin Unfinished /\ stage'[w] \notin Unfinished
        \/ stage[w] \in Unfinished /\ stage'[w] \in Unfinished
    BY <1>3, <1>9
    DEF WriteIntent, WriteComplete, SaveCheckpoint, CloseCheckpoint, Enters, At, Unfinished
  <2>5. QED
    BY <1>2, <2>1, <2>3, <2>4, LeadKept
<1>10. CASE Move(w)
  <2>1. /\ copy[w] # <<>> /\ log' = log
        /\ session' = [Read(w) EXCEPT !.status = adv[w].target]
        /\ machine'[w] = adv[w].target
        /\ stage[w] = "move" /\ stage'[w] = "complete"
    BY <1>3, <1>10 DEF Move, Save, Enters, At
  <2>2. Read(w) \in Sessions
    BY <2>1, ReadTypes
  <2>3. session'.status = machine'[w]
    BY <2>1, <2>2 DEF Sessions
  <2>4. \A v \in Workers : stage[v] \notin Unfinished
    BY <2>1 DEF Alone, Outside, Unfinished
  <2>5. machine[w] <= ReplayOf(log) /\ machine'[w] = machine[w] + 1
    BY <1>2, <1>3, <2>1, <2>4 DEF Reached, Stands, Ahead
  <2>6. machine'[w] <= ReplayOf(log) + 1 /\ machine'[w] \in Nat
    BY <1>1, <1>3, <2>5, FlowFacts
  <2>7. stage[w] \notin Unfinished /\ stage'[w] \in Unfinished
    BY <2>1 DEF Unfinished
  <2>8. QED
    BY <2>1, <2>3, <2>6, <2>7, LeadKept
<1>11. CASE Die(w)
  <2>1. /\ UNCHANGED <<log, session>> /\ machine'[w] = 1 /\ stage'[w] \notin Unfinished
        /\ stage[w] \notin Unfinished
    BY <1>3, <1>11 DEF Die, Enters, Unfinished, files
  <2>2. QED
    BY <1>2, <2>1, LeadKept
<1>12. QED
  BY <1>4, <1>6, <1>7, <1>8, <1>9, <1>10, <1>11 DEF Engine

(* The event of a transition is written by the engine that performed it, alone,
   to a log that leads to where the transition began, or further. *)
LEMMA LeadStepLog ==
  ASSUME TypeOK, EngineTypes, Standing, OneTarget, Alone, Current, Lead,
         NEW w \in Workers, NEW status \in {"intent", "applied"}, SaveEvent(w, status),
         UNCHANGED machine, \A v \in Workers : v # w => stage'[v] = stage[v],
         \/ status = "intent" /\ stage[w] = "logIntent"
         \/ status = "applied" /\ stage[w] = "logApplied",
         stage'[w] \notin Unfinished
  PROVE  Lead'
<1>1. /\ ReplayOf(log) \in 1 .. Last /\ Last \in Nat /\ machine[w] \in Nat
      /\ log \in Seq(Events)
  BY LogIsInside, ReplayOfInside, FlowFacts DEF EngineTypes
<1>2. /\ stage[w] = "logIntent" => adv[w].target = machine[w] + 1
      /\ stage[w] = "logApplied" => adv[w].target = machine[w] /\ adv[w] # NoMarker
  BY DEF Standing, Stands, Ahead, Unfinished
<1>3. adv[w] # NoMarker
  BY <1>1, <1>2, FlowFacts DEF NoMarker
<1>4. EventOf(w, status) \in Events /\ adv[w].target \in 2 .. Last
  BY <1>3, EventTypes
<1>5. \A v \in Workers : stage[v] \in Unfinished => v = w
  BY DEF Alone, Outside, Unfinished
<1>6. machine[w] <= ReplayOf(log) + 1
      /\ (stage[w] = "logIntent" => machine[w] <= ReplayOf(log))
  BY <1>1, <1>5 DEF Lead, Reached, Unfinished
<1>7. adv[w].target - 1 <= ReplayOf(log)
  <2>1. ReplayOf(log) \in Nat
    BY <1>1
  <2>2. CASE stage[w] = "logIntent"
    <3>1. adv[w].target = machine[w] + 1 /\ machine[w] <= ReplayOf(log)
      BY <1>2, <1>6, <2>2
    <3>2. QED
      BY <1>1, <2>1, <3>1
  <2>3. CASE stage[w] = "logApplied"
    <3>1. adv[w].target = machine[w] /\ machine[w] <= ReplayOf(log) + 1
      BY <1>2, <1>6, <2>3
    <3>2. QED
      BY <1>1, <2>1, <3>1
  <2>4. QED
    BY <2>2, <2>3
<1>8. \A i \in DOMAIN log : log[i].id = adv[w].id => log[i].from = adv[w].target - 1
  <2>1. PICK T \in [1 .. (nextId - 1) -> 2 .. Last] : AllFit(T)
    BY DEF OneTarget
  <2>2. SUFFICES ASSUME NEW i \in DOMAIN log, log[i].id = adv[w].id
                 PROVE  log[i].from = adv[w].target - 1
    OBVIOUS
  <2>3. log[i].from + 1 = T[log[i].id] /\ adv[w].target = T[adv[w].id]
    BY <1>3, <2>1 DEF AllFit, FitsLog, Fits
  <2>4. log[i] \in Events
    BY <1>1, LenProperties, ElementOfSeq
  <2>5. log[i].from \in Int
    BY <2>4, FlowFacts DEF Events
  <2>6. log[i].from + 1 = adv[w].target
    BY <2>2, <2>3
  <2>7. (log[i].from + 1) - 1 = log[i].from
    BY <2>5
  <2>8. QED
    BY <2>6, <2>7
<1>9. log' = WithEvent(log, EventOf(w, status)) /\ session' = session
  <2>1. copy[w] # <<>>
    BY DEF SaveEvent
  <2>2. ReadLog(w) = log
    BY <2>1, ReadCurrent
  <2>3. QED
    BY <2>2 DEF SaveEvent, EventOf
<1>10. /\ Led(log') /\ ReplayOf(log') \in Nat /\ ReplayOf(log) <= ReplayOf(log')
       /\ status = "applied" => adv[w].target - 1 < ReplayOf(log')
  <2>1. /\ EventOf(w, status).from = adv[w].target - 1 /\ EventOf(w, status).id = adv[w].id
        /\ EventOf(w, status).status = status
    BY DEF EventOf
  <2>2. Led(log) /\ ReplayOf(log) \in Nat
    BY <1>1 DEF Lead
  <2>3. EventOf(w, status).from <= ReplayOf(log)
    BY <1>7, <2>1
  <2>4. \A i \in DOMAIN log : log[i].id = EventOf(w, status).id
                                => log[i].from = EventOf(w, status).from
    BY <1>8, <2>1
  <2>5. /\ Led(WithEvent(log, EventOf(w, status)))
        /\ ReplayOf(WithEvent(log, EventOf(w, status))) \in Nat
        /\ ReplayOf(log) <= ReplayOf(WithEvent(log, EventOf(w, status)))
        /\ EventOf(w, status).status = "applied" =>
              EventOf(w, status).from < ReplayOf(WithEvent(log, EventOf(w, status)))
    BY <1>1, <1>4, <2>2, <2>3, <2>4, LogGrows
  <2>6. QED
    BY <1>9, <2>1, <2>5
<1>11. \A n \in Nat : Reached(n) => n <= ReplayOf(log')
  <2>1. SUFFICES ASSUME NEW n \in Nat, Reached(n) PROVE n <= ReplayOf(log')
    OBVIOUS
  <2>2. CASE n <= ReplayOf(log)
    BY <1>1, <1>10, <2>2
  <2>3. CASE \E v \in Workers : stage[v] \in Unfinished /\ n <= machine[v]
    <3>1. stage[w] \in Unfinished /\ n <= machine[w]
      BY <1>5, <2>3
    <3>2. status = "applied" /\ adv[w].target = machine[w]
      BY <1>2, <3>1 DEF Unfinished
    <3>3. QED
      BY <1>1, <1>10, <3>1, <3>2
  <2>4. QED
    BY <2>1, <2>2, <2>3 DEF Reached
<1>12. \A v \in Workers : machine'[v] <= ReplayOf(log')
  BY <1>11, FlowFacts DEF Lead, EngineTypes
<1>13. session'.status <= ReplayOf(log')
  BY <1>9, <1>11, FlowFacts DEF Lead, EngineTypes
<1>14. \A v \in Workers : stage'[v] \notin Unfinished
  BY <1>5
<1>15. (\A v \in Workers : Reached(machine[v]))' /\ Reached(session.status)'
  BY <1>12, <1>13 DEF Reached
<1>16. QED
  BY <1>10, <1>14, <1>15 DEF Lead

-----------------------------------------------------------------------------
FleetInv == TypeOK /\ EngineTypes /\ Standing /\ OneTarget /\ Quiet

LEMMA FleetTypes == TypeOK /\ EngineTypes => FleetTypeOK
<1> SUFFICES ASSUME TypeOK, EngineTypes PROVE FleetTypeOK
  OBVIOUS
<1>1. ASSUME NEW w \in Workers
      PROVE  copy[w] \in Seq(Sessions \X Seq(Events)) /\ Len(copy[w]) < 2
  <2>1. CASE copy[w] = <<>>
    BY <2>1
  <2>2. ASSUME NEW c \in Copies, copy[w] = <<c>>
        PROVE  copy[w] \in Seq(Sessions \X Seq(Events)) /\ Len(copy[w]) < 2
    <3>1. <<c>> \in Seq(Copies) /\ Len(<<c>>) = 1
      OBVIOUS
    <3>2. QED
      BY <2>2, <3>1 DEF Copies
  <2>3. QED
    BY <2>1, <2>2 DEF EngineTypes
<1>2. QED
  BY <1>1 DEF FleetTypeOK, EngineTypes, Markers

LEMMA FleetInvInit == FleetInit => FleetInv
<1> SUFFICES ASSUME FleetInit PROVE FleetInv
  OBVIOUS
<1> USE FlowFacts
<1>1. TypeOK
  BY InitIInv DEF FleetInit, IInv
<1>2. EngineTypes
  <2>1. session \in Sessions /\ log \in Seq(Events)
    BY DEF FleetInit, Sessions, Markers
  <2>2. /\ stage \in [Workers -> Stages] /\ machine \in [Workers -> Positions]
        /\ marker \in [Workers -> Markers] /\ adv \in [Workers -> Markers]
    BY DEF FleetInit, Stages, Outside
  <2>3. nextId \in Nat \ {0}
    <3>1. nextId = 1
      BY DEF FleetInit
    <3>2. QED
      BY <3>1
  <2>4. disturbed \in BOOLEAN
    BY Zenon DEF FleetInit
  <2>5. copy \in [Workers -> {<<>>} \cup {<<c>> : c \in Copies}]
    <3>1. copy = [w \in Workers |-> <<>>]
      BY DEF FleetInit
    <3>2. <<>> \in {<<>>} \cup {<<c>> : c \in Copies}
      OBVIOUS
    <3>3. QED
      BY <3>1, <3>2, Zenon
  <2>6. QED
    BY <2>1, <2>2, <2>3, <2>4, <2>5, Zenon DEF EngineTypes
<1>3. Standing
  BY DEF FleetInit, Init, Standing, Stands, Ahead, Unfinished
<1>4. OneTarget
  <2>1. PICK T : T = [i \in 1 .. (nextId - 1) |-> 2]
    OBVIOUS
  <2>2. T \in [1 .. (nextId - 1) -> 2 .. Last]
    BY <2>1 DEF FleetInit
  <2>3. AllFit(T)
    BY DEF FleetInit, AllFit, Fits, FitsLog
  <2>4. QED
    BY <2>2, <2>3 DEF OneTarget
<1>5. Alone /\ Current
  BY DEF FleetInit, Alone, Current, Outside
<1>6. Lead
  BY ReplayOfNone DEF FleetInit, Lead, Reached, Led, Unfinished
<1>7. QED
  BY <1>1, <1>2, <1>3, <1>4, <1>5, <1>6 DEF FleetInv, Quiet

LEMMA FleetInvStep == FleetInv /\ [FleetNext]_fleetVars => FleetInv'
<1> SUFFICES ASSUME FleetInv, [FleetNext]_fleetVars PROVE FleetInv'
  OBVIOUS
<1>1. TypeOK /\ EngineTypes /\ Standing /\ OneTarget /\ Quiet
  BY DEF FleetInv
<1>2. TypeOK'
  BY <1>1, LeaseSteps, StepTypes, TickTypes DEF Next, vars, TypeOK
<1>3. ASSUME NEW w \in Workers, Engine(w) PROVE FleetInv'
  <2>1. EngineTypes' /\ Standing' /\ OneTarget'
    BY <1>1, <1>3, EngineTypeStep, StandingStep, OneTargetStep
  <2>2. ASSUME ~disturbed' PROVE (Alone /\ Current /\ Lead)'
    <3>1. Alone /\ Current /\ Lead
      BY <1>1, <1>3, <2>2, OwnStep DEF Quiet
    <3>2. Alone' /\ Current'
      BY <1>1, <1>3, <2>2, <3>1, AloneStep, CurrentStep
    <3>3. ASSUME LogIntent(w) \/ LogApplied(w) PROVE Lead'
      <4>1. /\ UNCHANGED machine /\ stage'[w] \notin Unfinished
            /\ \/ SaveEvent(w, "intent") /\ stage[w] = "logIntent"
               \/ SaveEvent(w, "applied") /\ stage[w] = "logApplied"
        BY <1>1, <3>3 DEF LogIntent, LogApplied, Enters, At, Unfinished, EngineTypes
      <4>2. \A v \in Workers : v # w => stage'[v] = stage[v]
        BY <1>1, <1>3, OwnStep
      <4>3. QED
        BY <1>1, <3>1, <4>1, <4>2, LeadStepLog
    <3>4. ASSUME ~LogIntent(w), ~LogApplied(w) PROVE Lead'
      BY <1>1, <1>3, <2>2, <3>1, <3>4, LeadStepFiles
    <3>5. QED
      BY <3>2, <3>3, <3>4
  <2>3. QED
    BY <1>2, <2>1, <2>2 DEF FleetInv, Quiet
<1>4. ASSUME UNCHANGED <<files, engines, disturbed>>,
             \A w \in Workers : pc'[w] = pc[w]
      PROVE  FleetInv'
  <2>1. EngineTypes'
    BY <1>1, <1>4 DEF EngineTypes, files, engines
  <2>2. Standing'
    BY <1>1, <1>4 DEF Standing, Stands, At, engines
  <2>3. OneTarget'
    BY <1>1, <1>4, TargetsKept DEF AllFit, Read, ReadLog, files, engines
  <2>4. Quiet'
    BY <1>1, <1>4 DEF Quiet, Alone, Current, Lead, Reached, Led, files, engines
  <2>5. QED
    BY <1>2, <2>1, <2>2, <2>3, <2>4 DEF FleetInv
<1>5. CASE FleetTick
  BY <1>4, <1>5 DEF FleetTick, Tick
<1>6. CASE UNCHANGED fleetVars
  BY <1>4, <1>6 DEF fleetVars, vars
<1>7. QED
  BY <1>3, <1>5, <1>6 DEF FleetNext

(* The invariant of the fleet: types, what belongs to an engine at each stage of an
   advance, one transition per id, and, undisturbed, a log that leads. *)
THEOREM FleetInvariance == FleetSpec => []FleetInv
  BY FleetInvInit, FleetInvStep, PTL DEF FleetSpec

(* The variables of the fleet, of its files and of its lease have their types. *)
THEOREM FleetTypeCorrect == FleetSpec => []FleetTypeOK
<1>1. FleetInv => FleetTypeOK
  BY FleetTypes DEF FleetInv
<1>2. QED
  BY <1>1, FleetInvariance, PTL

(* The log of transition events (appendTransitionEvent) leads as far as any engine
   has come (replayStateFromTransitionEvents): for any number of processes, any
   flow, and engines as stale as they may be, as long as no two write at once and
   none of them ends between the two writes that complete a transition. *)
THEOREM LogLeadsTheorem == FleetSpec => []LogLeads
<1>1. FleetInv => LogLeads
  <2>1. SUFFICES ASSUME FleetInv, ~disturbed, NEW w \in Workers
                 PROVE  machine[w] <= ReplayOf(log) + Unlogged
    BY DEF LogLeads
  <2>2. Lead /\ EngineTypes /\ OneTarget
    BY <2>1 DEF FleetInv, Quiet
  <2>3. ReplayOf(log) \in Nat /\ \A v \in Workers : machine[v] \in Nat
    BY <2>2, LogIsInside, ReplayOfInside, FlowFacts DEF EngineTypes
  <2>4. Unlogged = IF \E v \in Workers : stage[v] \in Unfinished THEN 1 ELSE 0
    BY DEF Unlogged, Unfinished
  <2>5. CASE machine[w] <= ReplayOf(log)
    BY <2>3, <2>4, <2>5
  <2>6. ASSUME NEW v \in Workers, stage[v] \in Unfinished, machine[w] <= machine[v]
        PROVE  machine[w] <= ReplayOf(log) + Unlogged
    <3>1. Unlogged = 1 /\ machine[v] <= ReplayOf(log) + 1
      BY <2>2, <2>4, <2>6 DEF Lead
    <3>2. QED
      BY <2>3, <2>6, <3>1
  <2>7. QED
    BY <2>2, <2>5, <2>6 DEF Lead, Reached
<1>2. QED
  BY <1>1, FleetInvariance, PTL
=============================================================================
