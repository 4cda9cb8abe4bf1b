----------------------- MODULE AutoOrchestrationProofs -----------------------
(***************************************************************************)
(* For any flow, any commands and any amount of trouble: the queue does    *)
(* what CommandBoard promises, and only trouble strands a command.         *)
(*                                                                         *)
(* Whatever the dispatcher and the cycle do, the queue sees one of three   *)
(* things: a command arrives, one is claimed, or the entry of one is       *)
(* settled (QueueMoves).  The rest of the invariant says whom a command    *)
(* that is processed belongs to.                                           *)
(*                                                                         *)
(* For a command that nobody has cut short it says more (RunInv): the run  *)
(* of the command has not begun, and the cycle knows nothing of it, or the *)
(* engine is in it (Phases); what the cycle read of that run still holds   *)
(* when it advances (Advancing); the engine is where the command left it   *)
(* until its run begins (Opening); and what is reported as done is         *)
(* finished (Told).                                                        *)
(***************************************************************************)
EXTENDS AutoOrchestration, SequenceTheorems, TLAPS

EntryType == [cmd : Commands, status : Statuses]

OneProcessing ==
    \A i, j \in DOMAIN queue :
        queue[i].status = "PROCESSING" /\ queue[j].status = "PROCESSING" => i = j

(* While the dispatcher is at work, only its own command is processed; when it is
   about to leave, the engine has left IDLE or somebody has reset it. *)
Attended ==
    /\ dsp.pc # "idle" => dsp.cmd \in Commands /\ Processing \subseteq {dsp.cmd}
    /\ dsp.pc = "noting" /\ engine = "IDLE" => Processing \subseteq cutShort
    /\ dsp.replaced => dsp.cmd \in cutShort

(* What the cycle has in hand when it goes on after an await. *)
InHand ==
    /\ cyc.pc = "executing" => cyc.seen \in States
    /\ cyc.pc \in {"advancing", "injecting"} => cyc.cmd \in Commands

Inv == TypeOK /\ InHand /\ OneProcessing /\ Attended /\ OnlyTroubleStrands

-----------------------------------------------------------------------------
(* What is settled is no longer processed; nothing else of the queue changes. *)
Settled(c, outcome) == queue' = Finalized(c, outcome) /\ UNCHANGED arrived

Untouched == UNCHANGED <<queue, arrived>>

LEMMA QueueMoves ==
  ASSUME [Next]_vars
  PROVE  \/ Enqueue
         \/ Claim
         \/ \E c \in {dsp.cmd, cyc.cmd}, outcome \in {"ERROR", cyc.outcome} :
                /\ Settled(c, outcome)
                /\ outcome = "ERROR" \/ (cyc.pc = "settling" /\ c = cyc.cmd)
         \/ Untouched
<1>1. CASE Dispatch
  <2>1. CASE PostCommand \/ PostAdvance \/ FirstInjected \/ Note
    BY <2>1 DEF PostCommand, PostAdvance, FirstInjected, Note, Untouched
  <2>2. CASE Reject
    BY <2>2 DEF Reject, Settled, Untouched
  <2>3. QED
    BY <1>1, <2>1, <2>2 DEF Dispatch
<1>2. CASE Cycle
  <2>1. CASE SettleCommand
    BY <2>1 DEF SettleCommand, Settled, Untouched
  <2>2. CASE Judge
    BY <2>2 DEF Judge, JudgeStalled, JudgeEnd, JudgeIdle, JudgeAgents, JudgeOther, Judged, Untouched
  <2>3. CASE Read \/ Executed \/ Advance \/ NextInjected \/ Catch
    BY <2>3 DEF Read, Executed, Advance, NextInjected, Catch, Untouched
  <2>4. QED
    BY <1>2, <2>1, <2>2, <2>3 DEF Cycle
<1>3. CASE User \/ Crash
  BY <1>3 DEF User, UserReset, UserSwitchesPack, UserAdvance, UserError, Pause, Resume, Crash, Untouched
<1>4. CASE UNCHANGED vars
  BY <1>4 DEF vars, Untouched
<1>5. QED
  BY <1>1, <1>2, <1>3, <1>4 DEF Next

LEMMA FinalizedFacts ==
  ASSUME queue \in Seq(EntryType), OneProcessing, NEW c, NEW s \in {"DONE", "ERROR"},
         Settled(c, s)
  PROVE  /\ queue' \in Seq(EntryType)
         /\ OneProcessing'
         /\ Processing' = Processing \ {c}
         /\ With("DONE")' \subseteq With("DONE") \cup (IF s = "DONE" THEN {c} ELSE {})
         /\ [Board!Settle]_Board!boardVars
<1>1. /\ Len(queue) \in Nat /\ DOMAIN queue = 1..Len(queue)
      /\ \A i \in DOMAIN queue : queue[i] \in EntryType
  BY LenProperties, ElementOfSeq
<1>2. queue' = [i \in 1..Len(queue) |->
                  IF queue[i] = Entry(c, "PROCESSING") THEN Entry(c, s) ELSE queue[i]]
  BY <1>1 DEF Settled, Finalized
<1>3. \A i \in DOMAIN queue :
        queue[i] = Entry(c, "PROCESSING") <=> queue[i].cmd = c /\ queue[i].status = "PROCESSING"
  BY <1>1 DEF EntryType, Entry
<1>4. \A i \in DOMAIN queue' : queue'[i] \in EntryType
  BY <1>1, <1>2, <1>3 DEF EntryType, Entry, Statuses
<1>5. queue' \in Seq(EntryType) /\ DOMAIN queue' = DOMAIN queue
  BY <1>1, <1>2, <1>4, SeqDef
<1>6. \A i \in DOMAIN queue :
        queue'[i].status = "PROCESSING" <=> queue[i].status = "PROCESSING" /\ queue[i].cmd # c
  BY <1>1, <1>2, <1>3 DEF Entry
<1>7. \A i \in DOMAIN queue : queue'[i].cmd = queue[i].cmd
  BY <1>1, <1>2, <1>3 DEF Entry
<1>8. OneProcessing'
  BY <1>5, <1>6 DEF OneProcessing
<1>9. Processing' = Processing \ {c}
  BY <1>5, <1>6, <1>7 DEF Processing, With
<1>10. [Board!Settle]_Board!boardVars
  <2>1. CASE \A i \in DOMAIN queue : queue[i] # Entry(c, "PROCESSING")
    <3>1. queue' = queue
      BY <1>1, <1>2, <2>1
    <3>2. QED
      BY <3>1 DEF Settled, Board!boardVars
  <2>2. ASSUME NEW i \in DOMAIN queue, queue[i] = Entry(c, "PROCESSING")
        PROVE  Board!Settle
    <3>1. queue[i].status = "PROCESSING"
      BY <2>2 DEF Entry
    <3>2. \A j \in DOMAIN queue : j # i => queue[j] # Entry(c, "PROCESSING")
      BY <1>3, <2>2, <3>1 DEF OneProcessing
    <3>3. [queue[i] EXCEPT !.status = s] = Entry(c, s)
      BY <2>2 DEF Entry
    <3>4. queue' = [queue EXCEPT ![i].status = s]
      BY <1>1, <1>2, <2>2, <3>2, <3>3
    <3>5. QED
      BY <2>2, <3>1, <3>4 DEF Board!Settle, Board!Outcomes, Settled
  <2>3. QED
    BY <2>1, <2>2
<1>11. With("DONE")' \subseteq With("DONE") \cup (IF s = "DONE" THEN {c} ELSE {})
  <2>1. \A i \in DOMAIN queue :
          queue'[i] = queue[i] \/ (queue'[i].cmd = c /\ queue'[i].status = s)
    BY <1>1, <1>2 DEF Entry
  <2>2. QED
    BY <1>5, <2>1 DEF With
<1>12. QED
  BY <1>5, <1>8, <1>9, <1>10, <1>11

LEMMA NewestFacts ==
  ASSUME NEW S, NEW q \in Seq(S), NEW m \in Nat \ {0}, Len(q) > m
  PROVE  /\ SubSeq(q, Len(q) - m + 1, Len(q)) \in Seq(S)
         /\ Len(SubSeq(q, Len(q) - m + 1, Len(q))) = m
         /\ \A i \in 1..m : SubSeq(q, Len(q) - m + 1, Len(q))[i] = q[i + (Len(q) - m)]
<1> DEFINE a == Len(q) - m + 1
           n == Len(q)
<1>1. n \in Nat /\ a \in 1..n
  BY LenProperties
<1>2. \A i \in a..n : q[i] \in S
  BY <1>1, ElementOfSeq
<1>3. n - a + 1 = m /\ \A i \in 1..m : a + i - 1 = i + (n - m)
  BY <1>1
<1>4. a \in Int /\ n \in Int
  BY <1>1
<1> HIDE DEF a, n
<1>5. /\ SubSeq(q, a, n) \in Seq(S)
      /\ Len(SubSeq(q, a, n)) = IF a <= n THEN n - a + 1 ELSE 0
      /\ \A i \in 1..(n - a + 1) : SubSeq(q, a, n)[i] = q[a + i - 1]
  BY <1>2, <1>4, SubSeqProperties
<1>6. /\ SubSeq(q, a, n) \in Seq(S)
      /\ Len(SubSeq(q, a, n)) = m
      /\ \A i \in 1..m : SubSeq(q, a, n)[i] = q[i + (n - m)]
  BY <1>1, <1>3, <1>5
<1>7. QED
  BY <1>6 DEF a, n

LEMMA EnqueueFacts ==
  ASSUME queue \in Seq(EntryType), OneProcessing, arrived \in 0..Len(Kind), Enqueue
  PROVE  /\ queue' \in Seq(EntryType)
         /\ arrived' \in 0..Len(Kind)
         /\ OneProcessing'
         /\ Processing' \subseteq Processing
         /\ With("DONE")' \subseteq With("DONE")
         /\ Board!Arrive
<1> DEFINE e == Entry(arrived + 1, "PENDING")
           q == Append(queue, e)
           cut == IF Len(q) <= MaxQueue THEN 0 ELSE Len(q) - MaxQueue
<1>1. /\ Len(queue) \in Nat /\ DOMAIN queue = 1..Len(queue)
      /\ \A i \in DOMAIN queue : queue[i] \in EntryType
      /\ Len(Kind) \in Nat /\ Commands = 1..Len(Kind) /\ MaxQueue \in Nat \ {0}
  BY LenProperties, ElementOfSeq, OrchestrationAssumption DEF OrchestrationAssumption, Commands
<1>2. /\ arrived < Len(Kind) /\ arrived' = arrived + 1
      /\ queue' = IF Len(q) <= MaxQueue THEN q ELSE SubSeq(q, Len(q) - MaxQueue + 1, Len(q))
  BY DEF Enqueue
<1>3. arrived' \in 0..Len(Kind) /\ e \in EntryType
  BY <1>1, <1>2 DEF EntryType, Entry, Statuses
<1>4. /\ q \in Seq(EntryType) /\ Len(q) = Len(queue) + 1
      /\ \A i \in 1..Len(queue) : q[i] = queue[i]
      /\ q[Len(queue) + 1] = e
  BY <1>1, <1>3
<1>p. Board!Arrive
  BY <1>2 DEF Board!Arrive, Board!Newest, Board!Entry, Entry
<1>r. e.status = "PENDING"
  BY DEF Entry
<1> HIDE DEF e, q
<1>5. /\ queue' \in Seq(EntryType) /\ cut \in Nat
      /\ Len(queue') = Len(q) - cut
      /\ \A i \in 1..Len(queue') : queue'[i] = q[i + cut]
  <2>1. CASE Len(q) <= MaxQueue
    <3>1. cut = 0 /\ queue' = q
      BY <1>2, <2>1
    <3>2. \A i \in 1..Len(q) : i + 0 = i
      OBVIOUS
    <3>3. QED
      BY <1>1, <1>4, <3>1, <3>2
  <2>2. CASE Len(q) > MaxQueue
    <3>1. cut = Len(q) - MaxQueue /\ queue' = SubSeq(q, Len(q) - MaxQueue + 1, Len(q))
      BY <1>1, <1>2, <1>4, <2>2
    <3>2. /\ queue' \in Seq(EntryType) /\ Len(queue') = MaxQueue
          /\ \A i \in 1..MaxQueue : queue'[i] = q[i + cut]
      BY <1>1, <1>4, <2>2, <3>1, NewestFacts
    <3>3. cut \in Nat /\ Len(q) - cut = MaxQueue
      BY <1>1, <1>4, <2>2, <3>1
    <3> HIDE DEF cut
    <3>4. QED
      BY <3>2, <3>3
  <2>3. QED
    BY <1>1, <1>4, <2>1, <2>2
<1> HIDE DEF cut
<1>6. DOMAIN queue' = 1..Len(queue')
  BY <1>5, LenProperties
<1>7. \A i \in DOMAIN queue' : queue'[i].status # "PENDING"
        => i + cut \in DOMAIN queue /\ queue'[i] = queue[i + cut]
  <2>1. SUFFICES ASSUME NEW i \in DOMAIN queue', queue'[i].status # "PENDING"
                 PROVE  i + cut \in DOMAIN queue /\ queue'[i] = queue[i + cut]
    OBVIOUS
  <2>2. i + cut \in 1..(Len(queue) + 1) /\ queue'[i] = q[i + cut]
    BY <1>1, <1>4, <1>5, <1>6
  <2>3. i + cut # Len(queue) + 1
    BY <1>4, <1>r, <2>1, <2>2
  <2>4. QED
    BY <1>1, <1>4, <2>2, <2>3
<1>8. OneProcessing'
  <2>1. SUFFICES ASSUME NEW i \in DOMAIN queue', NEW j \in DOMAIN queue',
                        queue'[i].status = "PROCESSING", queue'[j].status = "PROCESSING"
                 PROVE  i = j
    BY DEF OneProcessing
  <2>2. i + cut = j + cut
    BY <1>7, <2>1 DEF OneProcessing
  <2>3. QED
    BY <1>5, <1>6, <2>1, <2>2
<1>9. Processing' \subseteq Processing
  BY <1>6, <1>7 DEF Processing, With
<1>10. With("DONE")' \subseteq With("DONE")
  BY <1>6, <1>7 DEF With
<1>11. QED
  BY <1>3, <1>5, <1>8, <1>9, <1>10, <1>p

LEMMA ClaimFacts ==
  ASSUME queue \in Seq(EntryType), Claim
  PROVE  /\ queue' \in Seq(EntryType)
         /\ OneProcessing'
         /\ dsp' = [DspResting EXCEPT !.pc = "posting", !.cmd = dsp'.cmd]
         /\ dsp'.pc = "posting" /\ dsp'.cmd \in Commands /\ ~dsp'.replaced
         /\ Processing' = {dsp'.cmd}
         /\ With("DONE")' \subseteq With("DONE")
         /\ Board!Take
<1>1. PICK i \in First(queue, "PENDING") :
        /\ queue' = [queue EXCEPT ![i].status = "PROCESSING"]
        /\ dsp' = [DspResting EXCEPT !.pc = "posting", !.cmd = queue[i].cmd]
  BY DEF Claim
<1>2. /\ Len(queue) \in Nat /\ DOMAIN queue = 1..Len(queue)
      /\ \A j \in DOMAIN queue : queue[j] \in EntryType
  BY LenProperties, ElementOfSeq
<1>3. \A j \in DOMAIN queue : queue[j].status # "PROCESSING"
  <2>1. SUFFICES ASSUME NEW j \in DOMAIN queue, queue[j].status = "PROCESSING" PROVE FALSE
    OBVIOUS
  <2>2. queue[j].cmd \in Processing
    BY <2>1 DEF Processing, With
  <2>3. QED
    BY <2>2 DEF Claim
<1>4. /\ i \in DOMAIN queue /\ queue[i].status = "PENDING"
      /\ \A j \in 1..(i - 1) : queue[j].status # "PENDING"
  BY DEF First
<1>5. [queue[i] EXCEPT !.status = "PROCESSING"] \in EntryType
  BY <1>2, <1>4 DEF EntryType, Statuses
<1>6. /\ queue' \in Seq(EntryType) /\ DOMAIN queue' = DOMAIN queue
      /\ \A j \in DOMAIN queue : j # i => queue'[j] = queue[j]
      /\ queue'[i].status = "PROCESSING" /\ queue'[i].cmd = queue[i].cmd
  BY <1>1, <1>2, <1>4, <1>5, ExceptSeq DEF EntryType
<1>7. OneProcessing'
  BY <1>3, <1>6 DEF OneProcessing
<1>8. Processing' = {queue[i].cmd}
  BY <1>3, <1>4, <1>6 DEF Processing, With
<1>9. \A j \in 1..(i - 1) : queue[j].status \in Board!Outcomes
  <2>1. \A j \in 1..(i - 1) : j \in DOMAIN queue
    BY <1>2, <1>4
  <2>2. QED
    BY <1>2, <1>3, <1>4, <2>1 DEF EntryType, Statuses, Board!Outcomes
<1>10. arrived' = arrived
  BY DEF Claim
<1>11. Board!Take
  BY <1>1, <1>3, <1>4, <1>9, <1>10 DEF Board!Take
<1>12. With("DONE")' \subseteq With("DONE")
  BY <1>4, <1>6 DEF With
<1>13. /\ dsp' = [DspResting EXCEPT !.pc = "posting", !.cmd = dsp'.cmd]
       /\ dsp'.pc = "posting" /\ dsp'.cmd = queue[i].cmd /\ ~dsp'.replaced
  BY <1>1 DEF DspResting
<1>14. queue[i].cmd \in Commands
  BY <1>2, <1>4 DEF EntryType
<1>15. QED
  BY <1>6, <1>7, <1>8, <1>11, <1>12, <1>13, <1>14

-----------------------------------------------------------------------------
LEMMA FlowFacts ==
    /\ "IDLE" \in States /\ "ERROR" \notin States
    /\ \A s : NextState(s) \subseteq States \ {"IDLE"}
    /\ Commands = 1..Len(Kind) /\ Len(Kind) \in Nat /\ None \notin Commands
    /\ Critics \subseteq States /\ AgentStates \subseteq States
<1>1. Len(Flow) \in Nat /\ DOMAIN Flow = 1..Len(Flow) /\ 1 \in DOMAIN Flow
  BY OrchestrationAssumption, LenProperties DEF OrchestrationAssumption
<1>2. \A i \in 1..(Len(Flow) - 1) : i + 1 \in DOMAIN Flow /\ i + 1 # 1
  BY <1>1
<1>3. \A i \in 1..(Len(Flow) - 1) : Flow[i + 1] # "IDLE"
  BY <1>1, <1>2, OrchestrationAssumption DEF OrchestrationAssumption
<1>4. \A s : NextState(s) \subseteq States \ {"IDLE"}
  BY <1>2, <1>3 DEF NextState, States
<1>5. QED
  BY <1>1, <1>4, OrchestrationAssumption, LenProperties
  DEF OrchestrationAssumption, States, Commands, None

(* What the routes do to the engine, as far as the queue is concerned. *)
EngineType ==
    /\ engine \in Shown
    /\ marker \in BOOLEAN /\ intent \in BOOLEAN /\ paused \in BOOLEAN
    /\ owner \in Commands \cup {None}
    /\ finished \subseteq Commands
    /\ trouble \in 0..MaxTrouble

LEMMA TroubleCounted ==
  ASSUME trouble \in 0..MaxTrouble, Strikes
  PROVE  trouble' \in 0..MaxTrouble
  BY OrchestrationAssumption DEF OrchestrationAssumption, Strikes

LEMMA AdvancedFacts ==
  ASSUME EngineType, NEW verdict, NEW c \in Commands \cup {None}, Advanced(verdict, c)
  PROVE  EngineType' /\ engine' # "IDLE"
  BY FlowFacts DEF EngineType, Advanced, Moves, Enters, Shown

LEMMA RefusedFacts ==
  ASSUME EngineType, NEW verdict, Refused(verdict)
  PROVE  EngineType' /\ (engine' = "IDLE" => engine = "IDLE")
  BY FlowFacts, TroubleCounted DEF EngineType, Refused, Enters, Shown

LEMMA UntouchedFacts ==
  ASSUME EngineType, EngineUntouched \/ MovesReplaced
  PROVE  EngineType' /\ UNCHANGED <<engine, paused, owner, finished, trouble>>
  BY DEF EngineType, EngineUntouched, MovesReplaced, engineVars

(* What POST /advance and the handlers that call it come to, with or without its
   await. *)
LEMMA StartForms ==
  ASSUME PostAdvance \/ FirstInjected
  PROVE  /\ dsp.pc \in {"starting", "injecting"}
         /\ UNCHANGED <<queue, arrived, cyc, last, stall, ran, overtaken, cutShort>>
         /\ \/ EngineUntouched /\ (Turn("rejecting") \/ Turn("injecting"))
            \/ Begins
            \/ dsp.replaced /\ MovesReplaced /\ (Turn("noting") \/ Turn("rejecting"))
  BY DEF PostAdvance, FirstInjected, TurnedAway, Awaits

LEMMA AdvanceForms ==
  ASSUME Advance \/ NextInjected
  PROVE  /\ cyc.pc \in {"advancing", "injecting"}
         /\ UNCHANGED <<queue, arrived, dsp, last, stall, ran, cutShort>>
         /\ \/ /\ UNCHANGED <<engineVars, owner, finished, overtaken>>
               /\ Strikes \/ trouble' = trouble
               /\ \/ Goto("failed")
                  \/ \E verdict \in {"none", "APPROVED", "REJECTED"} :
                        cyc' = [cyc EXCEPT !.pc = "injecting", !.verdict = verdict]
            \/ \E verdict : MovesOn(verdict)
            \/ MovesReplaced /\ (Rest \/ Goto("failed")) /\ UNCHANGED overtaken
<1>1. Verdicts \subseteq {"none", "APPROVED", "REJECTED"}
  BY DEF Verdicts
<1>2. CASE Advance
  BY <1>1, <1>2 DEF Advance, TurnedAway, Awaits, EngineUntouched
<1>3. CASE NextInjected
  BY <1>3 DEF NextInjected, EngineUntouched
<1>4. QED
  BY <1>2, <1>3

DispatcherType ==
    [pc : {"idle", "posting", "starting", "injecting", "noting", "rejecting"},
     cmd : Commands \cup {None}, from : Shown \cup {Nowhere}, replaced : BOOLEAN]

CycleType ==
    [pc : {"idle", "judging", "executing", "advancing", "injecting", "failed", "settling"},
     seen : Shown \cup {Nowhere}, stalled : BOOLEAN,
     cmd : Commands \cup {None}, outcome : {"DONE", "ERROR"},
     caught : BOOLEAN, verdict : {"none", "APPROVED", "REJECTED"},
     replaced : BOOLEAN, run : Commands \cup {None}, early : BOOLEAN]

StallType == [state : Shown \cup {Nowhere}, notices : 0..MaxNotices]

(* Everything but the queue. *)
Others ==
    /\ EngineType
    /\ dsp \in DispatcherType
    /\ cyc \in CycleType
    /\ last \in States \cup {Nowhere}
    /\ stall \in StallType
    /\ overtaken \subseteq Commands /\ cutShort \subseteq Commands
    /\ ran \subseteq States

LEMMA TypeParts ==
  TypeOK <=> Others /\ queue \in Seq(EntryType) /\ arrived \in 0..Len(Kind)
  BY DEF TypeOK, Others, EngineType, EntryType, DispatcherType, CycleType, StallType

LEMMA ProcessingCommands ==
  ASSUME queue \in Seq(EntryType) PROVE Processing \subseteq Commands
<1>1. \A i \in DOMAIN queue : queue[i] \in EntryType
  BY LenProperties, ElementOfSeq
<1>2. \A i \in DOMAIN queue : queue[i].cmd \in Commands
  BY <1>1 DEF EntryType
<1>3. QED
  BY <1>2 DEF Processing, With

LEMMA CycleRests ==
  ASSUME cyc' = CycResting
  PROVE  cyc' \in CycleType /\ InHand'
  BY DEF CycResting, CycleType, InHand

LEMMA CycleGoes ==
  ASSUME cyc \in CycleType, NEW pc \in {"failed", "executing"}, Goto(pc),
         pc = "executing" => cyc.seen \in States
  PROVE  cyc' \in CycleType /\ InHand'
  BY DEF Goto, CycleType, InHand

LEMMA SettlingTypes ==
  ASSUME cyc \in CycleType, Processing \subseteq Commands,
         NEW outcome \in {"DONE", "ERROR"}, NEW caught \in BOOLEAN, Settling(outcome, caught)
  PROVE  cyc' \in CycleType /\ InHand'
<1>1. CASE Rest
  BY <1>1, CycleRests DEF Rest
<1>2. ASSUME NEW c \in Processing,
             cyc' = [cyc EXCEPT !.pc = "settling", !.cmd = c, !.outcome = outcome, !.caught = caught]
      PROVE  cyc' \in CycleType /\ InHand'
  BY <1>2 DEF CycleType, InHand
<1>3. QED
  BY <1>1, <1>2 DEF Settling

LEMMA ProceedTypes ==
  ASSUME cyc \in CycleType, Processing \subseteq Commands, NEW early \in BOOLEAN, Proceed(early)
  PROVE  cyc' \in CycleType /\ InHand'
<1>1. CASE Rest
  BY <1>1, CycleRests DEF Rest
<1>2. ASSUME NEW c \in Processing,
             cyc' = [cyc EXCEPT !.pc = "advancing", !.cmd = c, !.early = early]
      PROVE  cyc' \in CycleType /\ InHand'
  BY <1>2 DEF CycleType, InHand
<1>3. QED
  BY <1>1, <1>2 DEF Proceed

LEMMA TurnTypes ==
  ASSUME dsp \in DispatcherType, NEW pc \in {"noting", "rejecting", "injecting"}, Turn(pc)
  PROVE  dsp' \in DispatcherType
  BY DEF Turn, DispatcherType

LEMMA DispatcherTypes ==
  ASSUME Others, InHand, Attended, Dispatch, queue \in Seq(EntryType)
  PROVE  Others' /\ InHand'
<1>1. CASE Claim
  <2>1. dsp' = [DspResting EXCEPT !.pc = "posting", !.cmd = dsp'.cmd] /\ dsp'.cmd \in Commands
    BY <1>1, ClaimFacts
  <2>2. dsp' \in DispatcherType
    BY <2>1 DEF DspResting, DispatcherType
  <2>3. cyc' \in CycleType /\ InHand'
    BY <1>1 DEF Claim, Others, CycleType, InHand
  <2>4. EngineType' /\ UNCHANGED <<last, stall, ran, overtaken, cutShort>>
    BY <1>1 DEF Claim, Others, EngineType, engineVars
  <2>5. QED
    BY <2>2, <2>3, <2>4 DEF Others
<1>2. CASE PostCommand
  <2>1. EngineType' /\ ran' \subseteq States
    BY <1>2, FlowFacts, TroubleCounted DEF PostCommand, Reset, Others, EngineType, Shown
  <2>2. dsp \in DispatcherType /\ engine' \in Shown
    BY <2>1 DEF Others, EngineType
  <2>3. dsp' \in DispatcherType
    <3>1. CASE Posted
      BY <2>2, <3>1 DEF Posted, DispatcherType
    <3>2. CASE Turn("rejecting")
      BY <2>2, <3>2, TurnTypes
    <3>3. QED
      BY <1>2, <3>1, <3>2 DEF PostCommand
  <2>4. QED
    BY <1>2, <2>1, <2>3 DEF PostCommand, Others, InHand
<1>3. CASE PostAdvance \/ FirstInjected
  <2>1. dsp.cmd \in Commands \cup {None} /\ EngineType /\ dsp \in DispatcherType
    BY DEF Others, DispatcherType
  <2>2. EngineType'
    BY <1>3, <2>1, StartForms, AdvancedFacts, RefusedFacts, UntouchedFacts DEF Begins
  <2>3. dsp' \in DispatcherType
    BY <1>3, <2>1, StartForms, TurnTypes DEF Begins
  <2>4. QED
    BY <1>3, <2>2, <2>3, StartForms DEF Others, InHand
<1>4. CASE Note
  <2>1. dsp' \in DispatcherType
    BY <1>4 DEF Note, DspResting, DispatcherType
  <2>2. QED
    BY <1>4, <2>1 DEF Note, ghosts, engineVars, Others, InHand, EngineType
<1>5. CASE Reject
  <2>1. dsp' \in DispatcherType /\ dsp.cmd \in Commands
    BY <1>5 DEF Reject, DspResting, DispatcherType, Attended
  <2>2. EngineType' /\ UNCHANGED <<cyc, last, stall, ran, overtaken>>
    BY <1>5, TroubleCounted DEF Reject, engineVars, Others, EngineType
  <2>3. cutShort' \subseteq Commands
    BY <1>5, <2>1 DEF Reject, Others
  <2>4. QED
    BY <2>1, <2>2, <2>3 DEF Others, InHand
<1>6. QED
  BY <1>1, <1>2, <1>3, <1>4, <1>5 DEF Dispatch

LEMMA StallTypes ==
    /\ NoStall \in StallType
    /\ \A s \in Shown \cup {Nowhere} : [state |-> s, notices |-> 0] \in StallType
    /\ stall \in StallType => Noticed \in StallType
<1>1. MaxNotices \in Nat \ {0} /\ 0 \in 0..MaxNotices
  BY OrchestrationAssumption DEF OrchestrationAssumption
<1>2. ASSUME stall \in StallType PROVE Noticed \in StallType
  <2>1. \A n \in 0..MaxNotices : (IF n < MaxNotices THEN n + 1 ELSE n) \in 0..MaxNotices
    BY <1>1
  <2>2. stall.notices \in 0..MaxNotices
    BY <1>2 DEF StallType
  <2>3. (IF stall.notices < MaxNotices THEN stall.notices + 1 ELSE stall.notices) \in 0..MaxNotices
    BY <2>1, <2>2
  <2>4. QED
    BY <1>2, <2>3 DEF Noticed, StallType
<1>3. QED
  BY <1>1, <1>2 DEF NoStall, StallType

LEMMA OvertakesTypes ==
  ASSUME overtaken \subseteq Commands, Processing \subseteq Commands,
         Overtakes \/ UNCHANGED overtaken
  PROVE  overtaken' \subseteq Commands
  BY DEF Overtakes

LEMMA JudgeTypes ==
  ASSUME Others, InHand, Attended, Judge, queue \in Seq(EntryType)
  PROVE  Others' /\ InHand'
<1>1. Processing \subseteq Commands /\ cyc \in CycleType /\ cyc.seen \in Shown \cup {Nowhere}
  BY ProcessingCommands DEF Others, CycleType
<1>2. CASE JudgeStalled
  <2>1. /\ UNCHANGED <<queue, arrived, engineVars, dsp, last, ghosts>>
        /\ Strikes \/ UNCHANGED trouble
    BY <1>2 DEF JudgeStalled
  <2>2. stall' \in StallType
    BY <1>1, <1>2, StallTypes DEF JudgeStalled, Others
  <2>3. Rest \/ Settling("ERROR", FALSE) \/ Goto("failed")
    BY <1>2 DEF JudgeStalled
  <2>4. cyc' \in CycleType /\ InHand'
    BY <1>1, <2>3, CycleRests, SettlingTypes, CycleGoes DEF Rest
  <2>5. EngineType'
    BY <2>1, TroubleCounted DEF Others, EngineType, engineVars, ghosts
  <2>6. QED
    BY <2>1, <2>2, <2>4, <2>5 DEF Others, ghosts
<1>3. ASSUME NEW seen, Judged(seen)
      PROVE  stall' \in StallType /\ EngineType' /\ UNCHANGED <<dsp, ran, cutShort>>
  BY <1>3, StallTypes DEF Judged, Others, EngineType, engineVars
<1>4. CASE JudgeEnd
  <2>1. Settling("DONE", FALSE) \/ Settling("ERROR", FALSE)
    BY <1>4 DEF JudgeEnd
  <2>2. overtaken' \subseteq Commands
    BY <1>1, <1>4, OvertakesTypes DEF JudgeEnd, Others
  <2>3. QED
    BY <1>1, <1>3, <1>4, <2>1, <2>2, SettlingTypes DEF JudgeEnd, Others
<1>5. CASE JudgeIdle
  BY <1>3, <1>5, CycleRests DEF JudgeIdle, Rest, Others
<1>6. CASE JudgeAgents
  <2>1. cyc.seen \in States
    BY <1>6, FlowFacts DEF JudgeAgents, Judged
  <2>2. QED
    BY <1>1, <1>3, <1>6, <2>1, CycleGoes DEF JudgeAgents, Others
<1>7. CASE JudgeOther
  <2>1. (dsp.pc = "noting") \in BOOLEAN
    OBVIOUS
  <2>2. QED
    BY <1>1, <1>3, <1>7, <2>1, ProceedTypes DEF JudgeOther, Others
<1>8. QED
  BY <1>2, <1>4, <1>5, <1>6, <1>7 DEF Judge

LEMMA CycleTypes ==
  ASSUME Others, InHand, Attended, Cycle, queue \in Seq(EntryType)
  PROVE  Others' /\ InHand'
<1>1. Processing \subseteq Commands /\ cyc \in CycleType /\ EngineType
  BY ProcessingCommands DEF Others
<1>2. CASE Read
  <2>1. cyc' \in CycleType /\ InHand'
    BY <1>2 DEF Read, CycResting, Others, CycleType, InHand, EngineType
  <2>2. QED
    BY <1>2, <2>1 DEF Read, Others, EngineType, engineVars, ghosts
<1>3. CASE Executed
  <2>1. cyc.seen \in States
    BY <1>3 DEF Executed, InHand
  <2>2. EngineType' /\ UNCHANGED <<dsp, stall, overtaken, cutShort>>
    BY <1>3 DEF Executed, Others, EngineType, engineVars
  <2>3. CASE Proceed(FALSE) /\ last' = cyc.seen /\ ran' = ran \cup {cyc.seen}
    BY <1>1, <2>1, <2>2, <2>3, ProceedTypes DEF Others
  <2>4. CASE Goto("failed") /\ UNCHANGED <<last, ran>>
    BY <1>1, <2>2, <2>4, CycleGoes DEF Others
  <2>5. QED
    BY <1>3, <2>3, <2>4 DEF Executed
<1>4. CASE Advance \/ NextInjected
  <2>1. owner \in Commands \cup {None} /\ overtaken \subseteq Commands
    BY DEF Others, EngineType
  <2>2. UNCHANGED <<dsp, last, stall, ran, cutShort>>
    BY <1>4, AdvanceForms
  <2>3. ASSUME UNCHANGED <<engineVars, owner, finished, overtaken>>, Strikes \/ trouble' = trouble
        PROVE  EngineType' /\ overtaken' \subseteq Commands
    BY <1>1, <2>1, <2>3, TroubleCounted DEF EngineType, engineVars
  <2>4. ASSUME NEW verdict, MovesOn(verdict)
        PROVE  /\ EngineType' /\ overtaken' \subseteq Commands
               /\ Rest \/ Goto("failed")
    BY <1>1, <2>1, <2>4, AdvancedFacts, RefusedFacts, OvertakesTypes DEF MovesOn
  <2>5. EngineType' /\ overtaken' \subseteq Commands
    BY <1>1, <1>4, <2>1, <2>3, <2>4, AdvanceForms, UntouchedFacts
  <2>6. ASSUME NEW verdict \in {"none", "APPROVED", "REJECTED"},
               cyc' = [cyc EXCEPT !.pc = "injecting", !.verdict = verdict]
        PROVE  cyc' \in CycleType /\ InHand'
    <3>1. cyc.cmd \in Commands
      BY <1>4, AdvanceForms DEF InHand
    <3>2. QED
      BY <1>1, <2>6, <3>1 DEF CycleType, InHand
  <2>7. cyc' \in CycleType /\ InHand'
    BY <1>1, <1>4, <2>4, <2>6, AdvanceForms, CycleRests, CycleGoes DEF Rest
  <2>8. QED
    BY <2>2, <2>5, <2>7 DEF Others
<1>5. CASE Catch
  BY <1>1, <1>5, SettlingTypes DEF Catch, Others, EngineType, engineVars, ghosts
<1>6. CASE SettleCommand
  <2>1. cyc' \in CycleType /\ InHand'
    BY <1>1, <1>6, CycleRests, CycleGoes DEF SettleCommand, Rest
  <2>2. stall' \in StallType
    BY <1>6, StallTypes DEF SettleCommand, Others
  <2>3. EngineType' /\ UNCHANGED <<dsp, last, ghosts>>
    BY <1>1, <1>6, TroubleCounted DEF SettleCommand, EngineType, engineVars, ghosts
  <2>4. QED
    BY <2>1, <2>2, <2>3 DEF Others, ghosts
<1>7. QED
  BY <1>2, <1>3, <1>4, <1>5, <1>6, JudgeTypes DEF Cycle

LEMMA InterferedTypes ==
  ASSUME Others, queue \in Seq(EntryType), Interfered
  PROVE  cutShort' \subseteq Commands /\ overtaken' \subseteq Commands
  BY ProcessingCommands DEF Interfered, Others, DispatcherType, CycleType

LEMMA CreatedTypes ==
  ASSUME EngineType, intent' \in BOOLEAN, Created
  PROVE  engine' \in Shown /\ marker' \in BOOLEAN
  BY DEF Created, EngineType, Shown

LEMMA ReplacedTypes ==
  ASSUME dsp \in DispatcherType, cyc \in CycleType, InHand, Replaced
  PROVE  dsp' \in DispatcherType /\ cyc' \in CycleType /\ InHand'
<1>1. PICK a \in BOOLEAN : a = (dsp.pc = "injecting")
  OBVIOUS
<1>2. PICK b \in BOOLEAN : b = (cyc.pc = "injecting")
  OBVIOUS
<1>3. dsp' = [dsp EXCEPT !.replaced = a] /\ cyc' = [cyc EXCEPT !.replaced = b]
  BY <1>1, <1>2 DEF Replaced
<1>4. QED
  BY <1>3 DEF DispatcherType, CycleType, InHand

LEMMA TimersUntouched ==
  ASSUME Others, InHand, EngineType', ran' \subseteq States,
         cutShort' \subseteq Commands, overtaken' \subseteq Commands,
         UNCHANGED <<last, stall>>, Replaced \/ UNCHANGED <<dsp, cyc>>
  PROVE  Others' /\ InHand'
<1>1. dsp' \in DispatcherType /\ cyc' \in CycleType /\ InHand'
  BY ReplacedTypes DEF Others, InHand
<1>2. QED
  BY <1>1 DEF Others

LEMMA UserTypes ==
  ASSUME Others, InHand, User, queue \in Seq(EntryType)
  PROVE  Others' /\ InHand'
<1>1. EngineType /\ ran \subseteq States
      /\ cutShort \subseteq Commands /\ overtaken \subseteq Commands
  BY DEF Others
<1>2. CASE UserReset
  <2>1. cutShort' \subseteq Commands /\ overtaken' \subseteq Commands
    BY <1>2, InterferedTypes DEF UserReset
  <2>2. trouble' \in 0..MaxTrouble
    BY <1>1, <1>2, TroubleCounted DEF UserReset, EngineType
  <2>3. EngineType'
    BY <1>1, <1>2, <2>2, FlowFacts DEF UserReset, Reset, EngineType, Shown
  <2>4. /\ ran' \subseteq States /\ UNCHANGED <<last, stall>>
        /\ Replaced \/ UNCHANGED <<dsp, cyc>>
    BY <1>2 DEF UserReset, Reset
  <2>5. QED
    BY <2>1, <2>3, <2>4, TimersUntouched
<1>3. CASE UserSwitchesPack
  <2>1. cutShort' \subseteq Commands /\ overtaken' \subseteq Commands
    BY <1>3, InterferedTypes DEF UserSwitchesPack
  <2>2. trouble' \in 0..MaxTrouble
    BY <1>1, <1>3, TroubleCounted DEF UserSwitchesPack, EngineType
  <2>3. EngineType'
    BY <1>1, <1>3, <2>2, CreatedTypes DEF UserSwitchesPack, EngineType
  <2>4. QED
    BY <1>1, <1>3, <2>1, <2>3, TimersUntouched DEF UserSwitchesPack
<1>4. CASE UserAdvance
  <2>1. cutShort' \subseteq Commands /\ overtaken' \subseteq Commands
    BY <1>4, InterferedTypes DEF UserAdvance
  <2>2. trouble' \in 0..MaxTrouble
    BY <1>1, <1>4, TroubleCounted DEF UserAdvance, EngineType
  <2>3. EngineType'
    BY <1>1, <1>4, <2>2, FlowFacts DEF UserAdvance, Moves, Enters, EngineType, Shown
  <2>4. QED
    BY <1>1, <1>4, <2>1, <2>3, TimersUntouched DEF UserAdvance
<1>5. CASE UserError
  <2>1. cutShort' \subseteq Commands /\ overtaken' \subseteq Commands
    BY <1>5, InterferedTypes DEF UserError
  <2>2. trouble' \in 0..MaxTrouble
    BY <1>1, <1>5, TroubleCounted DEF UserError, EngineType
  <2>3. EngineType'
    BY <1>1, <1>5, <2>2 DEF UserError, EngineType, Shown
  <2>4. QED
    BY <1>1, <1>5, <2>1, <2>3, TimersUntouched DEF UserError
<1>6. CASE Pause \/ Resume
  <2>1. EngineType'
    BY <1>1, <1>6, TroubleCounted DEF Pause, Resume, EngineType, ghosts
  <2>2. QED
    BY <1>1, <1>6, <2>1, TimersUntouched DEF Pause, Resume, ghosts
<1>7. QED
  BY <1>2, <1>3, <1>4, <1>5, <1>6 DEF User

LEMMA CrashTypes ==
  ASSUME Others, InHand, Crash, queue \in Seq(EntryType)
  PROVE  Others' /\ InHand'
<1>1. cutShort' \subseteq Commands /\ overtaken' \subseteq Commands /\ trouble' \in 0..MaxTrouble
  BY InterferedTypes, TroubleCounted DEF Crash, Others, EngineType
<1>2. intent' \in BOOLEAN /\ Created
  BY DEF Crash, Others, EngineType
<1>3. engine' \in Shown /\ marker' \in BOOLEAN
  BY <1>2, CreatedTypes DEF Others
<1>4. stall' \in StallType /\ dsp' \in DispatcherType /\ cyc' \in CycleType /\ InHand'
  BY StallTypes, CycleRests DEF Crash, DspResting, DispatcherType
<1>5. QED
  BY <1>1, <1>2, <1>3, <1>4 DEF Crash, Others, EngineType

-----------------------------------------------------------------------------
LEMMA QueueSteps ==
  ASSUME Inv, [Next]_vars
  PROVE  /\ queue' \in Seq(EntryType) /\ arrived' \in 0..Len(Kind)
         /\ OneProcessing'
         /\ Claim \/ Processing' \subseteq Processing
         /\ [Board!Next]_Board!boardVars
<1>1. queue \in Seq(EntryType) /\ arrived \in 0..Len(Kind) /\ OneProcessing
      /\ cyc.outcome \in {"DONE", "ERROR"}
  BY TypeParts DEF Inv, Others, CycleType
<1>2. CASE Enqueue
  BY <1>1, <1>2, EnqueueFacts DEF Board!Next
<1>3. CASE Claim
  BY <1>1, <1>3, ClaimFacts DEF Board!Next, Claim
<1>4. ASSUME NEW c, NEW outcome \in {"ERROR", cyc.outcome}, Settled(c, outcome)
      PROVE  /\ queue' \in Seq(EntryType) /\ arrived' \in 0..Len(Kind)
             /\ OneProcessing'
             /\ Processing' \subseteq Processing
             /\ [Board!Next]_Board!boardVars
  BY <1>1, <1>4, FinalizedFacts DEF Board!Next, Settled
<1>5. CASE Untouched
  BY <1>1, <1>5 DEF Untouched, OneProcessing, Processing, With, Board!boardVars
<1>6. QED
  BY <1>2, <1>3, <1>4, <1>5, QueueMoves

LEMMA TypeStep ==
  ASSUME Inv, [Next]_vars
  PROVE  TypeOK' /\ InHand'
<1>1. Others /\ InHand /\ Attended /\ queue \in Seq(EntryType)
  BY TypeParts DEF Inv
<1>2. ASSUME Enqueue PROVE Others' /\ InHand'
  BY <1>1, <1>2, ProcessingCommands DEF Enqueue, engineVars, Others, EngineType, InHand
<1>3. ASSUME UNCHANGED vars PROVE Others' /\ InHand'
  BY <1>1, <1>3 DEF vars, engineVars, ghosts, Others, EngineType, InHand
<1>4. Others' /\ InHand'
  BY <1>1, <1>2, <1>3, DispatcherTypes, CycleTypes, UserTypes, CrashTypes DEF Next
<1>5. (queue \in Seq(EntryType))' /\ (arrived \in 0..Len(Kind))'
  BY QueueSteps
<1>6. QED
  BY <1>4, <1>5, TypeParts DEF TypeOK, Others, EngineType, EntryType, DispatcherType, CycleType, StallType

(* Who a command that is processed belongs to. *)
Belongs == Attended /\ OnlyTroubleStrands

LEMMA DispatcherBelongs ==
  ASSUME Inv, Dispatch
  PROVE  Belongs'
<1>1. queue \in Seq(EntryType) /\ OneProcessing /\ EngineType /\ Belongs
  BY TypeParts DEF Inv, Others, Belongs
<1>2. CASE Claim
  <2>1. /\ Processing' = {dsp'.cmd} /\ dsp'.cmd \in Commands
        /\ dsp'.pc = "posting" /\ ~dsp'.replaced
    BY <1>1, <1>2, ClaimFacts
  <2>2. QED
    BY <2>1 DEF Belongs, Attended, OnlyTroubleStrands, Stranded
<1>3. ASSUME dsp.pc # "idle", UNCHANGED <<queue, cutShort>>, dsp'.cmd = dsp.cmd,
             dsp'.replaced = dsp.replaced,
             \/ dsp'.pc \in {"starting", "injecting", "rejecting"}
             \/ engine' # "IDLE"
             \/ dsp.replaced
      PROVE  Belongs'
  <2>1. dsp.cmd \in Commands /\ Processing' \subseteq {dsp'.cmd}
    BY <1>1, <1>3 DEF Belongs, Attended, Processing, With
  <2>2. dsp.replaced => dsp.cmd \in cutShort
    BY <1>1 DEF Belongs, Attended
  <2>3. QED
    BY <1>3, <2>1, <2>2 DEF Belongs, Attended, OnlyTroubleStrands, Stranded
<1>t. dsp \in DispatcherType
  BY TypeParts DEF Inv, Others
<1>4. CASE PostCommand
  <2>1. /\ dsp'.cmd = dsp.cmd /\ dsp'.replaced = dsp.replaced
        /\ dsp'.pc \in {"starting", "rejecting"}
    BY <1>4, <1>t DEF PostCommand, Posted, Turn, DispatcherType
  <2>2. QED
    BY <1>3, <1>4, <2>1 DEF PostCommand
<1>5. CASE PostAdvance \/ FirstInjected
  <2>1. /\ dsp'.cmd = dsp.cmd /\ dsp'.replaced = dsp.replaced
        /\ \/ dsp'.pc \in {"injecting", "rejecting"}
           \/ \E c \in Commands \cup {None} : Advanced("none", c)
           \/ dsp.replaced
    <3>1. \A pc : Turn(pc) => dsp'.cmd = dsp.cmd /\ dsp'.replaced = dsp.replaced /\ dsp'.pc = pc
      BY <1>t DEF Turn, DispatcherType
    <3>2. dsp.cmd \in Commands \cup {None}
      BY <1>t DEF DispatcherType
    <3>3. QED
      BY <1>5, <3>1, <3>2, StartForms DEF Begins
  <2>2. QED
    BY <1>1, <1>3, <1>5, <2>1, AdvancedFacts, StartForms
<1>6. CASE Note
  <2>1. Processing' = Processing /\ engine' = engine /\ cutShort' = cutShort
    BY <1>6 DEF Note, Processing, With, engineVars, ghosts
  <2>2. engine = "IDLE" => Processing \subseteq cutShort
    BY <1>1, <1>6 DEF Note, Belongs, Attended
  <2>3. QED
    BY <1>6, <2>1, <2>2 DEF Note, DspResting, Belongs, Attended, OnlyTroubleStrands, Stranded
<1>7. CASE Reject
  <2>1. Processing \subseteq {dsp.cmd} /\ dsp'.pc = "idle" /\ ~dsp'.replaced
    BY <1>1, <1>7 DEF Reject, Belongs, Attended, DspResting
  <2>2. CASE queue' = Finalized(dsp.cmd, "ERROR")
    <3>1. Settled(dsp.cmd, "ERROR")
      BY <1>7, <2>2 DEF Reject, Settled
    <3>2. Processing' = {}
      BY <1>1, <2>1, <3>1, FinalizedFacts
    <3>3. QED
      BY <2>1, <3>2 DEF Belongs, Attended, OnlyTroubleStrands, Stranded
  <2>3. CASE UNCHANGED queue /\ cutShort' = cutShort \cup {dsp.cmd}
    <3>1. Processing' \subseteq cutShort'
      BY <2>1, <2>3 DEF Processing, With
    <3>2. QED
      BY <2>1, <3>1 DEF Belongs, Attended, OnlyTroubleStrands, Stranded
  <2>4. QED
    BY <1>7, <2>2, <2>3 DEF Reject
<1>8. QED
  BY <1>2, <1>4, <1>5, <1>6, <1>7 DEF Dispatch

(* The others leave the dispatcher alone; the engine is put back to IDLE and
   replaced only by callers, at the expense of the commands at work. *)
LEMMA LeftAlone ==
  ASSUME Belongs, Processing' \subseteq Processing, cutShort \subseteq cutShort',
         dsp' = dsp \/ (Replaced /\ dsp \in DispatcherType /\ {dsp.cmd} \ {None} \subseteq cutShort'),
         \/ engine' = "IDLE" => engine = "IDLE"
         \/ Processing \subseteq cutShort'
  PROVE  Belongs'
<1>1. dsp'.pc = dsp.pc /\ dsp'.cmd = dsp.cmd
  BY DEF Replaced, DispatcherType
<1>2. engine' = "IDLE" => Stranded' \subseteq cutShort'
  BY <1>1 DEF Belongs, OnlyTroubleStrands, Stranded
<1>3. dsp.pc = "noting" /\ engine' = "IDLE" => Processing' \subseteq cutShort'
  BY DEF Belongs, Attended
<1>4. dsp'.replaced => dsp'.cmd \in cutShort'
  <2>1. CASE dsp' = dsp
    BY <2>1 DEF Belongs, Attended
  <2>2. CASE Replaced /\ dsp \in DispatcherType /\ {dsp.cmd} \ {None} \subseteq cutShort'
    <3>1. dsp'.replaced => dsp.pc = "injecting"
      BY <2>2 DEF Replaced, DispatcherType
    <3>2. dsp.pc = "injecting" => dsp.cmd \in Commands
      BY DEF Belongs, Attended
    <3>3. QED
      BY <1>1, <2>2, <3>1, <3>2, FlowFacts
  <2>3. QED
    BY <2>1, <2>2
<1>5. dsp'.pc # "idle" => dsp'.cmd \in Commands /\ Processing' \subseteq {dsp'.cmd}
  BY <1>1 DEF Belongs, Attended
<1>6. QED
  BY <1>1, <1>2, <1>3, <1>4, <1>5 DEF Belongs, Attended, OnlyTroubleStrands

LEMMA MovesOnFacts ==
  ASSUME EngineType, NEW verdict, MovesOn(verdict)
  PROVE  engine' = "IDLE" => engine = "IDLE"
<1>1. owner \in Commands \cup {None}
  BY DEF EngineType
<1>2. QED
  BY <1>1, AdvancedFacts, RefusedFacts DEF MovesOn

LEMMA OthersBelong ==
  ASSUME Inv, [Next]_vars, ~Dispatch
  PROVE  Belongs'
<1>1. Belongs /\ EngineType /\ Processing' \subseteq Processing /\ dsp \in DispatcherType
  BY QueueSteps, TypeParts DEF Inv, Others, Belongs, Dispatch
<1>2. CASE Enqueue
  BY <1>1, <1>2, LeftAlone DEF Enqueue, engineVars
<1>3. CASE Cycle
  <2>1. CASE Advance \/ NextInjected
    <3>1. UNCHANGED <<dsp, cutShort>>
      BY <2>1, AdvanceForms
    <3>2. engine' = "IDLE" => engine = "IDLE"
      BY <1>1, <2>1, AdvanceForms, MovesOnFacts, UntouchedFacts DEF engineVars
    <3>3. QED
      BY <1>1, <3>1, <3>2, LeftAlone
  <2>2. CASE Judge
    BY <1>1, <2>2, LeftAlone
    DEF Judge, JudgeStalled, JudgeEnd, JudgeIdle, JudgeAgents, JudgeOther, Judged,
        engineVars, ghosts
  <2>3. CASE Read \/ Executed \/ Catch \/ SettleCommand
    BY <1>1, <2>3, LeftAlone DEF Read, Executed, Catch, SettleCommand, engineVars, ghosts
  <2>4. QED
    BY <1>3, <2>1, <2>2, <2>3 DEF Cycle
<1>4. ASSUME Interfered
      PROVE  Processing \cup cutShort \subseteq cutShort' /\ {dsp.cmd} \ {None} \subseteq cutShort'
  BY <1>4 DEF Interfered
<1>5. CASE User
  <2>1. CASE UserReset \/ UserSwitchesPack \/ UserAdvance \/ UserError
    BY <1>1, <1>4, <2>1, LeftAlone DEF UserReset, UserSwitchesPack, UserAdvance, UserError
  <2>2. CASE Pause \/ Resume
    BY <1>1, <2>2, LeftAlone DEF Pause, Resume, ghosts
  <2>3. QED
    BY <1>5, <2>1, <2>2 DEF User
<1>6. CASE Crash
  <2>1. dsp' = DspResting /\ Processing' \subseteq cutShort'
    BY <1>1, <1>4, <1>6 DEF Crash
  <2>2. QED
    BY <2>1 DEF DspResting, Belongs, Attended, OnlyTroubleStrands, Stranded
<1>7. CASE UNCHANGED vars
  BY <1>1, <1>7, LeftAlone DEF vars, engineVars, ghosts
<1>8. QED
  BY <1>2, <1>3, <1>5, <1>6, <1>7 DEF Next

-----------------------------------------------------------------------------
(* The invariant of the dispatcher, the cycle and their queue (auto-orchestration
   .ts): types, at most one command that is processed, and whom it belongs to. *)
THEOREM Invariance == Spec => []Inv
<1>1. Init => Inv
  <2>1. SUFFICES ASSUME Init PROVE Inv
    OBVIOUS
  <2>2. queue = <<>> /\ DOMAIN queue = {} /\ Processing = {}
    BY <2>1 DEF Init, Processing, With
  <2>3. 0 \in 0..MaxTrouble /\ 0 \in 0..MaxNotices /\ 0 \in 0..Len(Kind)
    BY FlowFacts, OrchestrationAssumption DEF OrchestrationAssumption
  <2>4. queue \in Seq(EntryType) /\ arrived \in 0..Len(Kind)
    BY <2>1, <2>2, <2>3, EmptySeq DEF Init
  <2>5. EngineType /\ cyc \in CycleType /\ InHand
    BY <2>1, <2>3, FlowFacts DEF Init, EngineType, CycleType, CycResting, InHand, Shown
  <2>6. Others
    BY <2>1, <2>5, StallTypes DEF Init, Others, DspResting, DispatcherType
  <2>7. OneProcessing /\ Attended /\ OnlyTroubleStrands
    BY <2>1, <2>2 DEF Init, DspResting, OneProcessing, Attended, OnlyTroubleStrands, Stranded
  <2>8. QED
    BY <2>4, <2>5, <2>6, <2>7, TypeParts DEF Inv
<1>2. Inv /\ [Next]_vars => Inv'
  <2>1. SUFFICES ASSUME Inv, [Next]_vars PROVE Inv'
    OBVIOUS
  <2>2. Belongs'
    BY <2>1, DispatcherBelongs, OthersBelong
  <2>3. QED
    BY <2>1, <2>2, TypeStep, QueueSteps DEF Inv, Belongs
<1>3. QED
  BY <1>1, <1>2, PTL DEF Spec

(* The variables of the auto-orchestration have their types. *)
THEOREM TypeCorrect == Spec => []TypeOK
<1>1. Inv => TypeOK
  BY DEF Inv
<1>2. QED
  BY <1>1, Invariance, PTL

(* A command is stranded under an engine at IDLE only by a caller of the API, a
   crash or a write that throws: the two timers alone, in whatever order their
   steps come, never lose one. *)
THEOREM NoStrandingOfItsOwn == Spec => []OnlyTroubleStrands
<1>1. Inv => OnlyTroubleStrands
  BY DEF Inv
<1>2. QED
  BY <1>1, Invariance, PTL

(* The queue is a CommandBoard, whatever users, crashes and failing writes do:
   commands are taken in order and one at a time, and an outcome is final. *)
THEOREM Implementation == Spec => ImplementsCommandBoard
<1>1. Init => Board!Init
  BY DEF Init, Board!Init
<1>2. Inv /\ [Next]_vars => [Board!Next]_Board!boardVars
  BY QueueSteps
<1>3. QED
  BY <1>1, <1>2, Invariance, PTL DEF Spec, ImplementsCommandBoard, Board!Spec
-----------------------------------------------------------------------------
(* Whose run the engine is in.  The run of a command that is processed has not
   begun, and the cycle knows nothing of it; or the engine is in it, and what the
   cycle has read of it still holds when it judges and when it advances: nobody
   else moves the engine. *)
Excused == overtaken \cup cutShort
Amidst == {"advancing", "injecting"}
InRun == {"judging", "executing"} \cup Amidst

Starting(c) ==
    /\ dsp.pc \in {"posting", "starting", "injecting", "rejecting"}
    /\ owner # c /\ cyc.run # c

Running(c) ==
    /\ dsp.pc \in {"idle", "noting"} /\ owner = c
    /\ engine = "COMPLETED" => c \in finished
    /\ cyc.pc \in InRun /\ cyc.run = c => engine = cyc.seen
    /\ dsp.pc = "idle" /\ last # Nowhere => last \in ran

Phases == \A c \in Processing \ cutShort : Starting(c) \/ Running(c)

Advancing ==
    cyc.pc \in Amidst /\ cyc.run = cyc.cmd /\ cyc.cmd \notin cutShort =>
        /\ cyc.cmd \in Processing
        /\ cyc.seen \in AgentStates => cyc.seen \in ran \/ cyc.early

(* While the dispatcher begins a run, the cycle that is about to move the engine
   still finds the command processed, and so will mark it. *)
Opening ==
    dsp.pc \in {"posting", "starting", "injecting"} =>
        /\ owner # dsp.cmd /\ cyc.run # dsp.cmd
        /\ cyc.pc \in Amidst => dsp.cmd \in Processing \cup cutShort
        /\ dsp.pc # "posting" /\ dsp.cmd \notin Excused => engine = dsp.from

Told ==
    cyc.pc = "settling" /\ cyc.outcome = "DONE" => cyc.cmd \in finished \cup Excused

RunParts == Phases /\ Advancing /\ Opening /\ Told
RunInv == Inv /\ RunParts /\ DoneUnlessInterfered

(* The histories only grow. *)
LEMMA Remembered ==
  ASSUME [Next]_vars
  PROVE  finished \subseteq finished' /\ overtaken \subseteq overtaken' /\ cutShort \subseteq cutShort'
<1>1. CASE Enqueue
  BY <1>1 DEF Enqueue
<1>2. CASE Dispatch
  <2>1. CASE PostAdvance \/ FirstInjected
    BY <2>1, StartForms DEF Begins, Advanced, Refused, Moves, Enters, EngineUntouched, MovesReplaced
  <2>2. CASE Claim \/ PostCommand \/ Note \/ Reject
    BY <2>2 DEF Claim, PostCommand, Note, Reject, ghosts
  <2>3. QED
    BY <1>2, <2>1, <2>2 DEF Dispatch
<1>3. CASE Cycle
  <2>1. CASE Judge
    BY <2>1 DEF Judge, JudgeStalled, JudgeEnd, JudgeIdle, JudgeAgents, JudgeOther, Judged,
                Overtakes, ghosts
  <2>2. CASE Advance \/ NextInjected
    BY <2>2, AdvanceForms DEF MovesOn, Advanced, Refused, Moves, Enters, Overtakes, MovesReplaced
  <2>3. CASE Read \/ Executed \/ Catch \/ SettleCommand
    BY <2>3 DEF Read, Executed, Catch, SettleCommand, ghosts
  <2>4. QED
    BY <1>3, <2>1, <2>2, <2>3 DEF Cycle
<1>4. CASE User
  BY <1>4 DEF User, UserReset, UserSwitchesPack, UserAdvance, UserError, Pause, Resume, Moves,
              Enters, Interfered, ghosts
<1>5. CASE Crash
  BY <1>5 DEF Crash, Interfered
<1>6. CASE UNCHANGED vars
  BY <1>6 DEF vars, ghosts
<1>7. QED
  BY <1>1, <1>2, <1>3, <1>4, <1>5, <1>6 DEF Next

LEMMA DoneKept ==
  ASSUME RunInv, [Next]_vars
  PROVE  DoneUnlessInterfered'
<1>1. queue \in Seq(EntryType) /\ arrived \in 0..Len(Kind) /\ OneProcessing
      /\ cyc.outcome \in {"DONE", "ERROR"}
  BY TypeParts DEF RunInv, Inv, Others, CycleType
<1>2. With("DONE") \subseteq finished \cup Excused
  BY DEF RunInv, DoneUnlessInterfered, Excused
<1>3. With("DONE")' \subseteq With("DONE") \cup finished \cup Excused
  <2>1. CASE Enqueue
    BY <1>1, <2>1, EnqueueFacts
  <2>2. CASE Claim
    BY <1>1, <2>2, ClaimFacts
  <2>3. ASSUME NEW c, NEW outcome \in {"ERROR", cyc.outcome}, Settled(c, outcome),
               outcome = "ERROR" \/ (cyc.pc = "settling" /\ c = cyc.cmd)
        PROVE  With("DONE")' \subseteq With("DONE") \cup finished \cup Excused
    <3>1. With("DONE")' \subseteq With("DONE") \cup (IF outcome = "DONE" THEN {c} ELSE {})
      BY <1>1, <2>3, FinalizedFacts
    <3>2. outcome = "DONE" => c \in finished \cup Excused
      BY <2>3 DEF RunInv, RunParts, Told
    <3>3. QED
      BY <3>1, <3>2
  <2>4. CASE Untouched
    BY <2>4 DEF Untouched, With
  <2>5. QED
    BY <2>1, <2>2, <2>3, <2>4, QueueMoves
<1>4. QED
  BY <1>2, <1>3, Remembered DEF DoneUnlessInterfered, Excused

-----------------------------------------------------------------------------
(* What every step of the run needs of the invariant. *)
LEMMA RunFacts ==
  ASSUME RunInv
  PROVE  /\ queue \in Seq(EntryType) /\ OneProcessing /\ EngineType /\ Attended
         /\ Processing \subseteq Commands /\ None \notin Commands
         /\ dsp \in DispatcherType /\ cyc \in CycleType /\ InHand
         /\ Phases /\ Advancing /\ Opening /\ Told
<1>1. Inv /\ RunParts
  BY DEF RunInv
<1>2. Others /\ queue \in Seq(EntryType)
  BY <1>1, TypeParts DEF Inv
<1>3. QED
  BY <1>1, <1>2, ProcessingCommands, FlowFacts DEF Inv, Others, RunParts

(* Nothing that a run consists of has changed. *)
LEMMA RunUntouched ==
  ASSUME RunInv, [Next]_vars, UNCHANGED <<engine, owner, ran, last, dsp, cyc>>,
         Processing' \subseteq Processing, Processing \ Processing' \subseteq cutShort'
  PROVE  RunParts'
<1>1. finished \subseteq finished' /\ overtaken \subseteq overtaken' /\ cutShort \subseteq cutShort'
  BY Remembered
<1>2. \A c : (Starting(c) => Starting(c)') /\ (Running(c) => Running(c)')
  BY <1>1 DEF Starting, Running
<1>3. Phases'
  BY <1>1, <1>2, RunFacts DEF Phases
<1>4. Advancing'
  BY <1>1, RunFacts DEF Advancing
<1>5. Opening'
  BY <1>1, RunFacts DEF Opening, Excused
<1>6. Told'
  BY <1>1, RunFacts DEF Told, Excused
<1>7. QED
  BY <1>3, <1>4, <1>5, <1>6 DEF RunParts

(* The run of the command that is claimed has not begun. *)
LEMMA ClaimRun ==
  ASSUME RunInv, Claim
  PROVE  RunParts'
<1>1. /\ finished' = finished /\ overtaken' = overtaken /\ cutShort' = cutShort
      /\ owner' = None /\ cyc' = [cyc EXCEPT !.run = None]
  BY DEF Claim
<1>2. Processing' = {dsp'.cmd} /\ dsp'.pc = "posting" /\ dsp'.cmd \in Commands
  BY RunFacts, ClaimFacts
<1>3. /\ cyc'.run = None /\ cyc'.pc = cyc.pc /\ cyc'.cmd = cyc.cmd
      /\ cyc'.outcome = cyc.outcome
  BY <1>1, RunFacts DEF CycleType
<1>4. Phases' /\ Opening'
  BY <1>1, <1>2, <1>3, RunFacts DEF Phases, Starting, Opening
<1>5. Advancing'
  BY <1>3, RunFacts DEF Advancing, InHand, Amidst
<1>6. Told'
  BY <1>1, <1>3, RunFacts DEF Told, Excused
<1>7. QED
  BY <1>4, <1>5, <1>6 DEF RunParts

(* While the dispatcher begins a run, the cycle is in no run of that command. *)
LEMMA BeginRun ==
  ASSUME RunInv, [Next]_vars, dsp.pc \in {"posting", "starting", "injecting", "rejecting"},
         UNCHANGED cyc, Phases', Opening'
  PROVE  RunParts'
<1>1. finished \subseteq finished' /\ overtaken \subseteq overtaken' /\ cutShort \subseteq cutShort'
  BY Remembered
<1>2. \A c \in Processing \ cutShort : cyc.run # c
  BY RunFacts DEF Phases, Starting, Running
<1>3. Advancing'
  BY <1>1, <1>2, RunFacts DEF Advancing
<1>4. Told'
  BY <1>1, RunFacts DEF Told, Excused
<1>5. QED
  BY <1>3, <1>4 DEF RunParts

LEMMA PostCommandRun ==
  ASSUME RunInv, PostCommand
  PROVE  RunParts'
<1>1. /\ dsp.pc = "posting" /\ UNCHANGED <<queue, cyc, owner, overtaken, cutShort>>
      /\ dsp'.cmd = dsp.cmd
      /\ \/ dsp'.pc = "starting" /\ dsp'.from = engine'
         \/ dsp'.pc = "rejecting"
  <2>1. dsp \in DispatcherType
    BY RunFacts
  <2>2. Posted => dsp'.cmd = dsp.cmd /\ dsp'.pc = "starting" /\ dsp'.from = engine'
    BY <2>1 DEF Posted, DispatcherType
  <2>3. Turn("rejecting") => dsp'.cmd = dsp.cmd /\ dsp'.pc = "rejecting"
    BY <2>1 DEF Turn, DispatcherType
  <2>4. QED
    BY <2>2, <2>3 DEF PostCommand
<1>2. Processing' = Processing
  BY <1>1 DEF Processing, With
<1>3. Phases'
  BY <1>1, <1>2, RunFacts DEF Phases, Starting, Running
<1>4. Opening'
  BY <1>1, <1>2, RunFacts DEF Opening
<1>5. QED
  BY <1>1, <1>3, <1>4, BeginRun DEF Next, Dispatch

(* What a route does to the end of a run. *)
LEMMA EndOfRun ==
  ASSUME NEW verdict, Advanced(verdict, owner) \/ Refused(verdict)
  PROVE  /\ owner' = owner
         /\ \/ engine' = engine /\ finished' = finished
            \/ engine' = "ERROR" /\ finished' = finished
            \/ Enters(engine', owner)
  BY DEF Advanced, Refused, Moves, Enters

LEMMA PostAdvanceRun ==
  ASSUME RunInv, PostAdvance \/ FirstInjected
  PROVE  RunParts'
<1>1. /\ dsp.pc \in {"starting", "injecting"} /\ dsp.cmd \in Commands
      /\ dsp.replaced => dsp.cmd \in cutShort
      /\ Processing \subseteq {dsp.cmd}
      /\ UNCHANGED <<queue, cyc, last, ran, overtaken, cutShort>>
  BY StartForms, RunFacts DEF Attended
<1>2. Processing' = Processing
  BY <1>1 DEF Processing, With
<1>3. \A pc : Turn(pc) => dsp'.cmd = dsp.cmd /\ dsp'.pc = pc /\ dsp'.from = dsp.from
  BY RunFacts DEF Turn, DispatcherType
<1>4. \A c \in Processing \ cutShort : c = dsp.cmd /\ owner # c /\ cyc.run # c
  BY <1>1, RunFacts DEF Phases, Starting, Running
<1>5. CASE EngineUntouched /\ (Turn("rejecting") \/ Turn("injecting"))
  <2>1. UNCHANGED <<engine, owner>> /\ dsp'.pc \in {"rejecting", "injecting"}
        /\ dsp'.cmd = dsp.cmd /\ dsp'.from = dsp.from
    BY <1>3, <1>5 DEF EngineUntouched, engineVars
  <2>2. Phases'
    BY <1>1, <1>2, <1>4, <2>1 DEF Phases, Starting
  <2>3. Opening'
    BY <1>1, <1>2, <2>1, RunFacts DEF Opening, Excused
  <2>4. QED
    BY <1>1, <2>2, <2>3, BeginRun DEF Next, Dispatch
<1>6. CASE Advanced("none", dsp.cmd) /\ Turn("noting")
  <2>1. /\ dsp'.pc = "noting" /\ owner' = dsp.cmd
        /\ engine' = "COMPLETED" => dsp.cmd \in finished'
    BY <1>1, <1>3, <1>6, RunFacts DEF Advanced, Moves, Enters
  <2>2. Phases'
    BY <1>1, <1>2, <1>4, <2>1 DEF Phases, Running
  <2>3. Opening'
    BY <2>1 DEF Opening
  <2>4. QED
    BY <1>1, <2>2, <2>3, BeginRun DEF Next, Dispatch
<1>7. CASE Refused("none") /\ Turn("rejecting")
  <2>1. dsp'.pc = "rejecting" /\ owner' = owner
    BY <1>3, <1>7 DEF Refused
  <2>2. Phases' /\ Opening'
    BY <1>1, <1>2, <1>4, <2>1 DEF Phases, Starting, Opening
  <2>3. QED
    BY <1>1, <2>2, BeginRun DEF Next, Dispatch
<1>8. CASE dsp.replaced /\ (Turn("noting") \/ Turn("rejecting"))
  <2>1. Processing \ cutShort = {} /\ dsp'.pc \in {"noting", "rejecting"}
    BY <1>1, <1>3, <1>8
  <2>2. Phases' /\ Opening'
    BY <1>1, <1>2, <2>1 DEF Phases, Opening
  <2>3. QED
    BY <1>1, <2>2, BeginRun DEF Next, Dispatch
<1>9. QED
  BY <1>5, <1>6, <1>7, <1>8, StartForms DEF Begins

LEMMA NoteRun ==
  ASSUME RunInv, Note
  PROVE  RunParts'
<1>1. /\ dsp.pc = "noting" /\ dsp'.pc = "idle" /\ last' = Nowhere
      /\ UNCHANGED <<queue, engine, cyc, owner, finished, ran, overtaken, cutShort>>
  BY DEF Note, DspResting, engineVars, ghosts
<1>2. Processing' = Processing
  BY <1>1 DEF Processing, With
<1>3. \A c : Starting(c) \/ Running(c) => Running(c)'
  BY <1>1 DEF Starting, Running
<1>4. Phases'
  BY <1>1, <1>2, <1>3, RunFacts DEF Phases
<1>5. Advancing' /\ Told'
  BY <1>1, <1>2, RunFacts DEF Advancing, Told, Excused
<1>6. Opening'
  BY <1>1 DEF Opening
<1>7. QED
  BY <1>4, <1>5, <1>6 DEF RunParts

LEMMA RejectRun ==
  ASSUME RunInv, Reject
  PROVE  RunParts'
<1>1. dsp.pc = "rejecting" /\ dsp'.pc = "idle" /\ UNCHANGED cyc
  BY DEF Reject, DspResting
<1>2. Processing \subseteq {dsp.cmd}
  BY <1>1, RunFacts DEF Attended
<1>3. Processing' \subseteq cutShort'
  <2>1. CASE Settled(dsp.cmd, "ERROR")
    BY <1>2, <2>1, RunFacts, FinalizedFacts
  <2>2. CASE UNCHANGED queue /\ cutShort' = cutShort \cup {dsp.cmd}
    <3>1. Processing' = Processing
      BY <2>2 DEF Processing, With
    <3>2. QED
      BY <1>2, <2>2, <3>1
  <2>3. QED
    BY <2>1, <2>2 DEF Reject, Settled
<1>4. Phases' /\ Opening'
  BY <1>1, <1>3 DEF Phases, Opening
<1>5. QED
  BY <1>1, <1>4, BeginRun DEF Next, Dispatch
-----------------------------------------------------------------------------
(* A step of the cycle that leaves the engine alone: it reads the engine anew,
   forgets what it read, or keeps it, and it turns to an advance only when a
   command is processed. *)
Turned ==
    /\ UNCHANGED <<engine, owner, finished, dsp, cutShort>>
    /\ Processing' \subseteq Processing
    /\ cyc'.run \in {cyc.run, None, owner}
    /\ cyc'.pc \in InRun =>
          \/ cyc'.seen = engine /\ cyc'.run = owner
          \/ cyc'.seen = cyc.seen /\ cyc'.run = cyc.run /\ cyc.pc \in InRun
    /\ cyc'.pc \in Amidst =>
          Processing' = Processing /\ (cyc.pc \in Amidst \/ Processing # {})
    /\ last' = Nowhere \/ last' \in ran' \/ (last' = last /\ ran' = ran)

LEMMA TurnedRun ==
  ASSUME RunInv, Turned, overtaken \subseteq overtaken'
  PROVE  Phases' /\ Opening'
<1>1. ASSUME NEW c \in Processing', c \notin cutShort'
      PROVE  Starting(c)' \/ Running(c)'
  <2>1. (Starting(c) \/ Running(c)) /\ c # None
    BY <1>1, RunFacts DEF Turned, Phases
  <2>2. CASE Starting(c)
    BY <2>1, <2>2 DEF Turned, Starting
  <2>3. CASE Running(c)
    <3>1. cyc'.pc \in InRun /\ cyc'.run = c => engine' = cyc'.seen
      BY <2>3 DEF Turned, Running
    <3>2. dsp'.pc = "idle" /\ last' # Nowhere => last' \in ran'
      BY <2>3 DEF Turned, Running
    <3>3. QED
      BY <2>3, <3>1, <3>2 DEF Turned, Running
  <2>4. QED
    BY <2>1, <2>2, <2>3
<1>2. Phases'
  BY <1>1 DEF Phases
<1>3. Opening'
  <2>1. SUFFICES ASSUME dsp.pc \in {"posting", "starting", "injecting"}, UNCHANGED dsp
                 PROVE  Opening'
    BY DEF Turned, Opening
  <2>2. /\ dsp.cmd \in Commands /\ Processing \subseteq {dsp.cmd}
        /\ owner # dsp.cmd /\ cyc.run # dsp.cmd
        /\ cyc.pc \in Amidst => dsp.cmd \in Processing \cup cutShort
        /\ dsp.pc # "posting" /\ dsp.cmd \notin Excused => engine = dsp.from
    BY <2>1, RunFacts DEF Opening, Attended
  <2>3. cyc'.run # dsp.cmd
    BY <2>2, RunFacts DEF Turned
  <2>4. cyc'.pc \in Amidst => dsp.cmd \in Processing' \cup cutShort'
    BY <2>2 DEF Turned
  <2>5. Excused \subseteq Excused'
    BY DEF Excused, Turned
  <2>6. QED
    BY <2>1, <2>2, <2>3, <2>4, <2>5 DEF Turned, Opening
<1>4. QED
  BY <1>2, <1>3

LEMMA GotoForms ==
  ASSUME cyc \in CycleType, NEW pc, Goto(pc)
  PROVE  cyc'.pc = pc /\ cyc'.seen = cyc.seen /\ cyc'.run = cyc.run
  BY DEF Goto, CycleType

LEMMA RestForms ==
  ASSUME Rest
  PROVE  cyc'.pc = "idle" /\ cyc'.run = None
  BY DEF Rest, CycResting

LEMMA SettlingForms ==
  ASSUME cyc \in CycleType, NEW outcome, NEW caught, Settling(outcome, caught)
  PROVE  \/ cyc'.pc = "idle" /\ cyc'.run = None
         \/ /\ cyc'.pc = "settling" /\ cyc'.seen = cyc.seen /\ cyc'.run = cyc.run
            /\ cyc'.outcome = outcome
            /\ cyc'.cmd \in Processing
<1>1. CASE Rest
  BY <1>1, RestForms
<1>2. ASSUME NEW c \in Processing,
             cyc' = [cyc EXCEPT !.pc = "settling", !.cmd = c, !.outcome = outcome, !.caught = caught]
      PROVE  /\ cyc'.pc = "settling" /\ cyc'.seen = cyc.seen /\ cyc'.run = cyc.run
             /\ cyc'.outcome = outcome
             /\ cyc'.cmd \in Processing
  BY <1>2 DEF CycleType
<1>3. QED
  BY <1>1, <1>2 DEF Settling

LEMMA ProceedForms ==
  ASSUME cyc \in CycleType, NEW early, Proceed(early)
  PROVE  \/ cyc'.pc = "idle" /\ cyc'.run = None
         \/ /\ cyc'.pc = "advancing" /\ cyc'.seen = cyc.seen /\ cyc'.run = cyc.run
            /\ cyc'.early = early
            /\ cyc'.cmd \in Processing
<1>1. CASE Rest
  BY <1>1, RestForms
<1>2. ASSUME NEW c \in Processing,
             cyc' = [cyc EXCEPT !.pc = "advancing", !.cmd = c, !.early = early]
      PROVE  /\ cyc'.pc = "advancing" /\ cyc'.seen = cyc.seen /\ cyc'.run = cyc.run
             /\ cyc'.early = early
             /\ cyc'.cmd \in Processing
  BY <1>2 DEF CycleType
<1>3. QED
  BY <1>1, <1>2 DEF Proceed

LEMMA FlowEnds ==
    /\ Nowhere \notin Shown /\ Nowhere # "COMPLETED"
    /\ AgentStates \subseteq States \ {"IDLE", "COMPLETED"}
  BY OrchestrationAssumption DEF OrchestrationAssumption, Shown, Nowhere

(* A command that the cycle takes up after it has read its run is in that run,
   in the state that the cycle has read. *)
LEMMA TakenUp ==
  ASSUME RunInv, NEW c \in Processing, c \notin cutShort, cyc.pc \in InRun, cyc.run = c
  PROVE  Running(c) /\ engine = cyc.seen
  BY RunFacts DEF Phases, Starting, Running

LEMMA ReadRun ==
  ASSUME RunInv, Read
  PROVE  RunParts'
<1>1. /\ UNCHANGED <<engine, owner, finished, dsp, overtaken, cutShort, queue, last, ran>>
      /\ cyc'.pc = "judging" /\ cyc'.seen = engine /\ cyc'.run = owner
  BY DEF Read, CycResting, engineVars, ghosts
<1>2. Turned
  BY <1>1 DEF Turned, Processing, With, Amidst
<1>3. QED
  BY <1>1, <1>2, TurnedRun DEF RunParts, Advancing, Told, Amidst

LEMMA JudgeStalledRun ==
  ASSUME RunInv, JudgeStalled
  PROVE  RunParts'
<1>1. /\ UNCHANGED <<engine, owner, finished, dsp, overtaken, cutShort, queue, last, ran>>
      /\ Rest \/ Settling("ERROR", FALSE) \/ Goto("failed")
  BY DEF JudgeStalled, engineVars, ghosts
<1>2. \/ cyc'.pc = "idle" /\ cyc'.run = None
      \/ cyc'.pc = "settling" /\ cyc'.run = cyc.run /\ cyc'.outcome = "ERROR"
      \/ cyc'.pc = "failed" /\ cyc'.run = cyc.run
  <2>1. CASE Settling("ERROR", FALSE)
    BY <2>1, RunFacts, SettlingForms
  <2>2. CASE Rest \/ Goto("failed")
    BY <2>2, RunFacts, GotoForms, RestForms
  <2>3. QED
    BY <1>1, <2>1, <2>2
<1>3. Turned
  BY <1>1, <1>2 DEF Turned, Processing, With, InRun, Amidst
<1>4. QED
  BY <1>1, <1>2, <1>3, TurnedRun DEF RunParts, Advancing, Told, Amidst

(* The end of a run that the cycle did not read in the run of the command overtakes
   that command. *)
LEMMA JudgeEndRun ==
  ASSUME RunInv, JudgeEnd
  PROVE  RunParts'
<1>1. /\ UNCHANGED <<engine, owner, finished, dsp, cutShort, queue, ran>>
      /\ cyc.pc = "judging" /\ last' = Nowhere
      /\ overtaken' = overtaken \cup (Processing \ {cyc.run})
  BY DEF JudgeEnd, Judged, Overtakes, engineVars
<1>o. PICK outcome \in {"DONE", "ERROR"} :
        /\ outcome = "DONE" => cyc.seen = "COMPLETED"
        /\ Settling(outcome, FALSE)
  BY DEF JudgeEnd
<1>2. \/ cyc'.pc = "idle" /\ cyc'.run = None
      \/ /\ cyc'.pc = "settling" /\ cyc'.run = cyc.run /\ cyc'.cmd \in Processing
         /\ cyc'.outcome = "DONE" => cyc.seen = "COMPLETED"
  BY <1>o, RunFacts, SettlingForms
<1>3. Turned
  BY <1>1, <1>2 DEF Turned, Processing, With, InRun, Amidst
<1>4. Phases' /\ Opening'
  BY <1>1, <1>3, TurnedRun
<1>5. Advancing'
  BY <1>2 DEF Advancing, Amidst
<1>6. Told'
  <2>1. SUFFICES ASSUME cyc'.pc = "settling", cyc'.outcome = "DONE", cyc'.cmd \notin Excused'
                 PROVE  cyc'.cmd \in finished'
    BY DEF Told
  <2>2. /\ cyc'.cmd \in Processing /\ cyc'.cmd \notin cutShort
        /\ cyc'.cmd = cyc.run /\ cyc.seen = "COMPLETED"
    BY <1>1, <1>2, <2>1 DEF Excused
  <2>3. Running(cyc'.cmd) /\ engine = "COMPLETED"
    BY <1>1, <2>2, TakenUp DEF InRun
  <2>4. QED
    BY <1>1, <2>3 DEF Running
<1>7. QED
  BY <1>4, <1>5, <1>6 DEF RunParts

LEMMA JudgeOtherRun ==
  ASSUME RunInv, JudgeOther
  PROVE  RunParts'
<1>1. /\ UNCHANGED <<engine, owner, finished, dsp, cutShort, overtaken, queue, last, ran>>
      /\ cyc.pc = "judging" /\ cyc.seen \notin AgentStates \ {last}
      /\ Proceed(dsp.pc = "noting")
  BY DEF JudgeOther, Judged, engineVars
<1>2. \/ cyc'.pc = "idle" /\ cyc'.run = None
      \/ /\ cyc'.pc = "advancing" /\ cyc'.seen = cyc.seen /\ cyc'.run = cyc.run
         /\ cyc'.early = (dsp.pc = "noting")
         /\ cyc'.cmd \in Processing
  BY <1>1, RunFacts, ProceedForms
<1>3. Processing' = Processing
  BY <1>1 DEF Processing, With
<1>4. Turned
  BY <1>1, <1>2, <1>3 DEF Turned, InRun, Amidst
<1>5. Phases' /\ Opening'
  BY <1>1, <1>4, TurnedRun
<1>6. Advancing'
  <2>1. SUFFICES ASSUME cyc'.pc = "advancing", cyc'.run = cyc'.cmd, cyc'.cmd \notin cutShort'
                 PROVE  /\ cyc'.cmd \in Processing'
                        /\ cyc'.seen \in AgentStates => cyc'.seen \in ran' \/ cyc'.early
    BY <1>2 DEF Advancing, Amidst
  <2>2. /\ cyc'.cmd \in Processing /\ cyc'.cmd \notin cutShort /\ cyc.run = cyc'.cmd
        /\ cyc'.seen = cyc.seen /\ cyc'.early = (dsp.pc = "noting")
    BY <1>1, <1>2, <2>1
  <2>3. Running(cyc'.cmd)
    BY <1>1, <2>2, TakenUp DEF InRun
  <2>4. ASSUME cyc.seen \in AgentStates, ~cyc'.early PROVE cyc.seen \in ran
    <3>1. last = cyc.seen /\ last # Nowhere
      BY <1>1, <2>4, FlowEnds DEF Shown
    <3>2. dsp.pc = "idle"
      BY <2>2, <2>3, <2>4 DEF Running
    <3>3. QED
      BY <2>3, <3>1, <3>2 DEF Running
  <2>5. QED
    BY <1>1, <1>3, <2>2, <2>4
<1>7. Told'
  BY <1>2 DEF Told
<1>8. QED
  BY <1>5, <1>6, <1>7 DEF RunParts

LEMMA JudgeRun ==
  ASSUME RunInv, Judge
  PROVE  RunParts'
<1>1. CASE JudgeIdle \/ JudgeAgents
  <2>1. /\ UNCHANGED <<engine, owner, finished, dsp, cutShort, overtaken, queue, ran>>
        /\ cyc.pc = "judging" /\ last' \in {last, Nowhere}
        /\ Rest \/ Goto("executing")
    BY <1>1 DEF JudgeIdle, JudgeAgents, Judged, engineVars
  <2>2. \/ cyc'.pc = "idle" /\ cyc'.run = None
        \/ cyc'.pc = "executing" /\ cyc'.seen = cyc.seen /\ cyc'.run = cyc.run
    BY <2>1, RunFacts, RestForms, GotoForms
  <2>3. Turned
    BY <2>1, <2>2 DEF Turned, Processing, With, InRun, Amidst
  <2>4. QED
    BY <2>1, <2>2, <2>3, TurnedRun DEF RunParts, Advancing, Told, Amidst
<1>2. QED
  BY <1>1, JudgeStalledRun, JudgeEndRun, JudgeOtherRun DEF Judge

LEMMA ExecutedRun ==
  ASSUME RunInv, Executed
  PROVE  RunParts'
<1>1. /\ UNCHANGED <<engine, owner, finished, dsp, overtaken, cutShort, queue>>
      /\ cyc.pc = "executing"
      /\ \/ last' = cyc.seen /\ ran' = ran \cup {cyc.seen} /\ Proceed(FALSE)
         \/ Goto("failed") /\ UNCHANGED <<last, ran>>
  BY DEF Executed, engineVars
<1>2. \/ cyc'.pc = "idle" /\ cyc'.run = None
      \/ cyc'.pc = "failed" /\ cyc'.run = cyc.run
      \/ /\ cyc'.pc = "advancing" /\ cyc'.seen = cyc.seen /\ cyc'.run = cyc.run
         /\ cyc'.cmd \in Processing
         /\ cyc.seen \in ran'
  BY <1>1, RunFacts, ProceedForms, GotoForms
<1>3. Processing' = Processing
  BY <1>1 DEF Processing, With
<1>4. last' \in ran' \/ (last' = last /\ ran' = ran)
  BY <1>1
<1>5. Turned
  BY <1>1, <1>2, <1>3, <1>4 DEF Turned, InRun, Amidst
<1>6. Advancing' /\ Told'
  BY <1>2, <1>3 DEF Advancing, Told, Amidst
<1>7. QED
  BY <1>1, <1>5, <1>6, TurnedRun DEF RunParts

LEMMA CatchRun ==
  ASSUME RunInv, Catch
  PROVE  RunParts'
<1>1. /\ UNCHANGED <<engine, owner, finished, dsp, overtaken, cutShort, queue, last, ran>>
      /\ Settling("ERROR", TRUE)
  BY DEF Catch, engineVars, ghosts
<1>2. \/ cyc'.pc = "idle" /\ cyc'.run = None
      \/ cyc'.pc = "settling" /\ cyc'.run = cyc.run /\ cyc'.outcome = "ERROR"
  BY <1>1, RunFacts, SettlingForms
<1>3. Turned
  BY <1>1, <1>2 DEF Turned, Processing, With, InRun, Amidst
<1>4. QED
  BY <1>1, <1>2, <1>3, TurnedRun DEF RunParts, Advancing, Told, Amidst

LEMMA SettleRun ==
  ASSUME RunInv, SettleCommand
  PROVE  RunParts'
<1>1. /\ UNCHANGED <<engine, owner, finished, dsp, overtaken, cutShort, last, ran>>
      /\ Settled(cyc.cmd, cyc.outcome) \/ UNCHANGED queue
      /\ Rest \/ Goto("failed")
  BY DEF SettleCommand, Settled, engineVars, ghosts
<1>2. Processing' \subseteq Processing
  <2>1. CASE Settled(cyc.cmd, cyc.outcome)
    BY <1>1, <2>1, RunFacts, FinalizedFacts DEF CycleType
  <2>2. CASE UNCHANGED queue
    BY <2>2 DEF Processing, With
  <2>3. QED
    BY <1>1, <2>1, <2>2
<1>3. \/ cyc'.pc = "idle" /\ cyc'.run = None
      \/ cyc'.pc = "failed" /\ cyc'.run = cyc.run
  BY <1>1, RunFacts, RestForms, GotoForms
<1>4. Turned
  BY <1>1, <1>2, <1>3 DEF Turned, InRun, Amidst
<1>5. QED
  BY <1>1, <1>3, <1>4, TurnedRun DEF RunParts, Advancing, Told, Amidst

(* The call that moves the engine: the run that it completes is the run the engine
   is in, and a command whose run has not begun is overtaken. *)
LEMMA MovesOnRun ==
  ASSUME RunInv, [Next]_vars, NEW verdict, MovesOn(verdict), cyc.pc \in Amidst,
         UNCHANGED <<queue, dsp, last, ran, cutShort>>
  PROVE  RunParts'
<1>1. /\ owner' = owner
      /\ \/ engine' = engine /\ finished' = finished
         \/ engine' = "ERROR" /\ finished' = finished
         \/ Enters(engine', owner)
      /\ Rest \/ Goto("failed")
      /\ engine' = engine \/ overtaken' = overtaken \cup (Processing \ {cyc.run})
  BY EndOfRun DEF MovesOn, Overtakes
<1>2. \/ cyc'.pc = "idle" /\ cyc'.run = None
      \/ cyc'.pc = "failed" /\ cyc'.run = cyc.run
  BY <1>1, RunFacts, RestForms, GotoForms
<1>3. Processing' = Processing /\ overtaken \subseteq overtaken'
  BY Remembered DEF Processing, With
<1>4. ASSUME NEW c \in Processing, c \notin cutShort
      PROVE  Starting(c)' \/ Running(c)'
  <2>1. (Starting(c) \/ Running(c)) /\ c # None
    BY <1>4, RunFacts DEF Phases
  <2>2. CASE Starting(c)
    BY <1>1, <1>2, <2>1, <2>2 DEF Starting
  <2>3. CASE Running(c)
    <3>1. engine' = "COMPLETED" => c \in finished'
      BY <1>1, <2>1, <2>3 DEF Running, Enters
    <3>2. cyc'.pc \notin InRun
      BY <1>2 DEF InRun, Amidst
    <3>3. QED
      BY <1>1, <2>3, <3>1, <3>2 DEF Running
  <2>4. QED
    BY <2>1, <2>2, <2>3
<1>5. Phases'
  BY <1>3, <1>4 DEF Phases
<1>6. Opening'
  <2>1. SUFFICES ASSUME dsp.pc \in {"posting", "starting", "injecting"} PROVE Opening'
    BY DEF Opening
  <2>2. /\ owner # dsp.cmd /\ cyc.run # dsp.cmd /\ dsp.cmd \in Commands
        /\ dsp.cmd \in Processing \cup cutShort
        /\ dsp.pc # "posting" /\ dsp.cmd \notin Excused => engine = dsp.from
    BY <2>1, RunFacts DEF Opening, Attended
  <2>3. engine' = engine \/ dsp.cmd \in Excused'
    BY <1>1, <2>2 DEF Excused
  <2>4. Excused \subseteq Excused'
    BY <1>3 DEF Excused
  <2>5. cyc'.run # dsp.cmd /\ cyc'.pc \notin Amidst
    BY <1>2, <2>2, RunFacts DEF Amidst
  <2>6. QED
    BY <1>1, <2>2, <2>3, <2>4, <2>5 DEF Opening
<1>7. Advancing' /\ Told'
  BY <1>2 DEF Advancing, Told, Amidst
<1>8. QED
  BY <1>5, <1>6, <1>7 DEF RunParts

LEMMA AdvanceRun ==
  ASSUME RunInv, Advance \/ NextInjected
  PROVE  RunParts'
<1>1. /\ cyc.pc \in Amidst
      /\ UNCHANGED <<queue, dsp, last, ran, cutShort>>
  BY AdvanceForms DEF Amidst
<1>2. ASSUME NEW verdict, MovesOn(verdict) PROVE RunParts'
  BY <1>1, <1>2, MovesOnRun DEF Next, Cycle
<1>3. Processing' = Processing
  BY <1>1 DEF Processing, With
<1>4. CASE /\ UNCHANGED <<engine, owner, finished, overtaken>>
           /\ Rest \/ Goto("failed")
  <2>1. \/ cyc'.pc = "idle" /\ cyc'.run = None
        \/ cyc'.pc = "failed" /\ cyc'.run = cyc.run
    BY <1>4, RunFacts, RestForms, GotoForms
  <2>2. Turned
    BY <1>1, <1>3, <1>4, <2>1 DEF Turned, InRun, Amidst
  <2>3. QED
    BY <1>4, <2>1, <2>2, TurnedRun DEF RunParts, Advancing, Told, Amidst
<1>5. ASSUME UNCHANGED <<engine, owner, finished, overtaken>>,
             NEW verdict, cyc' = [cyc EXCEPT !.pc = "injecting", !.verdict = verdict]
      PROVE  RunParts'
  <2>1. /\ cyc'.pc = "injecting" /\ cyc'.seen = cyc.seen /\ cyc'.run = cyc.run
        /\ cyc'.cmd = cyc.cmd /\ cyc'.early = cyc.early
    BY <1>5, RunFacts DEF CycleType
  <2>2. Turned
    BY <1>1, <1>3, <1>5, <2>1 DEF Turned, InRun, Amidst
  <2>3. Advancing' /\ Told'
    BY <1>1, <1>3, <2>1, RunFacts DEF Advancing, Told, Amidst
  <2>4. QED
    BY <1>5, <2>2, <2>3, TurnedRun DEF RunParts
<1>6. QED
  BY <1>2, <1>4, <1>5, AdvanceForms DEF MovesReplaced, engineVars

-----------------------------------------------------------------------------
(* Callers and crashes: every command at work is cut short, whatever they do to
   the engine. *)
LEMMA InterferedRun ==
  ASSUME RunInv, [Next]_vars, Interfered, UNCHANGED queue, owner' \in {owner, None},
         \/ UNCHANGED <<dsp, cyc>>
         \/ Replaced
         \/ dsp' = DspResting /\ cyc' = CycResting
  PROVE  RunParts'
<1>1. finished \subseteq finished' /\ Excused \subseteq Excused' /\ cutShort' \subseteq Excused'
  BY Remembered DEF Excused
<1>2. Processing' = Processing
  BY DEF Processing, With
<1>3. Processing \subseteq cutShort' /\ {dsp.cmd, cyc.cmd} \subseteq cutShort' \cup {None}
  BY DEF Interfered
<1>4. Phases'
  BY <1>2, <1>3 DEF Phases
<1>5. CASE dsp' = DspResting /\ cyc' = CycResting
  BY <1>4, <1>5 DEF RunParts, DspResting, CycResting, Advancing, Opening, Told, Amidst
<1>6. CASE UNCHANGED <<dsp, cyc>> \/ Replaced
  <2>1. /\ dsp'.pc = dsp.pc /\ dsp'.cmd = dsp.cmd
        /\ cyc'.pc = cyc.pc /\ cyc'.cmd = cyc.cmd /\ cyc'.run = cyc.run
        /\ cyc'.outcome = cyc.outcome
    BY <1>6, RunFacts DEF Replaced, DispatcherType, CycleType
  <2>2. Advancing'
    <3>1. cyc.pc \in Amidst => cyc.cmd \in cutShort'
      BY <1>3, RunFacts DEF InHand, Amidst
    <3>2. QED
      BY <2>1, <3>1 DEF Advancing
  <2>3. Opening'
    <3>1. SUFFICES ASSUME dsp.pc \in {"posting", "starting", "injecting"} PROVE Opening'
      BY <2>1 DEF Opening
    <3>2. /\ owner # dsp.cmd /\ cyc.run # dsp.cmd
          /\ dsp.cmd \in Commands
      BY <3>1, RunFacts DEF Opening, Attended
    <3>3. dsp.cmd \in cutShort' /\ dsp.cmd # None
      BY <1>3, <3>2, RunFacts
    <3>4. QED
      BY <1>1, <2>1, <3>2, <3>3 DEF Opening
  <2>4. Told'
    BY <1>1, <2>1, RunFacts DEF Told
  <2>5. QED
    BY <1>4, <2>2, <2>3, <2>4 DEF RunParts
<1>7. QED
  BY <1>5, <1>6

LEMMA RunStep ==
  ASSUME RunInv, [Next]_vars
  PROVE  RunParts'
<1>1. CASE Enqueue
  <2>1. Processing' \subseteq Processing /\ Processing \ Processing' \subseteq cutShort'
    BY <1>1, EnqueueFacts, TypeParts DEF RunInv, Inv, Enqueue
  <2>2. QED
    BY <1>1, <2>1, RunUntouched DEF Enqueue, engineVars
<1>2. CASE Dispatch
  BY <1>2, ClaimRun, PostCommandRun, PostAdvanceRun, NoteRun, RejectRun DEF Dispatch
<1>3. CASE Cycle
  BY <1>3, ReadRun, JudgeRun, ExecutedRun, AdvanceRun, CatchRun, SettleRun DEF Cycle
<1>4. ASSUME UNCHANGED <<queue, engine, owner, ran, last, dsp, cyc>> PROVE RunParts'
  <2>1. Processing' = Processing
    BY <1>4 DEF Processing, With
  <2>2. QED
    BY <1>4, <2>1, RunUntouched
<1>5. CASE User
  <2>1. CASE Pause \/ Resume
    BY <1>4, <2>1 DEF Pause, Resume, ghosts
  <2>2. CASE UserReset \/ UserSwitchesPack \/ UserAdvance \/ UserError
    BY <2>2, InterferedRun DEF UserReset, UserSwitchesPack, UserAdvance, Moves, UserError
  <2>3. QED
    BY <1>5, <2>1, <2>2 DEF User
<1>6. CASE Crash
  BY <1>6, InterferedRun DEF Crash
<1>7. CASE UNCHANGED vars
  BY <1>4, <1>7 DEF vars, engineVars, ghosts
<1>8. QED
  BY <1>1, <1>2, <1>3, <1>5, <1>6, <1>7 DEF Next

LEMMA RunInvariance == Spec => []RunInv
<1>1. Init => RunParts /\ DoneUnlessInterfered
  <2>1. SUFFICES ASSUME Init PROVE RunParts /\ DoneUnlessInterfered
    OBVIOUS
  <2>2. /\ Processing = {} /\ With("DONE") = {}
        /\ cyc.pc = "idle" /\ dsp.pc = "idle"
    BY <2>1 DEF Init, Processing, With, CycResting, DspResting
  <2>3. QED
    BY <2>2 DEF RunParts, Phases, Advancing, Opening, Told, Amidst, DoneUnlessInterfered
<1>2. Inv /\ Inv' /\ RunParts /\ DoneUnlessInterfered /\ [Next]_vars
        => RunParts' /\ DoneUnlessInterfered'
  BY RunStep, DoneKept DEF RunInv
<1>3. Inv /\ RunParts /\ DoneUnlessInterfered => RunInv
  BY DEF RunInv
<1>4. QED
  BY <1>1, <1>2, <1>3, Invariance, PTL DEF Spec

(* A command is only told to be DONE (finalizeProcessingCommandForCycle) when the
   run that it began was COMPLETED: for any flow and any commands, unless the
   cycle judged an end that it had not read in that run, or a caller or a crash
   struck while the command was at work. *)
THEOREM DoneUnlessInterferedTheorem == Spec => []DoneUnlessInterfered
<1>1. RunInv => DoneUnlessInterfered
  BY DEF RunInv
<1>2. QED
  BY <1>1, RunInvariance, PTL

(* The dispatcher (dispatchNextCommand) and the cycle (runAutoOrchestrationCycle)
   move the engine, over all their awaits and that of POST /advance, only out of
   the state they have read, in the run of their command and after the agents of
   that state; what is excepted, FirstAdvanceIsFirst and CycleMovesWhatItRead name. *)
THEOREM AdvancesMoveWhatWasReadTheorem == Spec => AdvancesMoveWhatWasRead
<1>1. ASSUME RunInv PROVE FirstAdvanceIsFirst
  <2>1. SUFFICES ASSUME PostAdvance \/ FirstInjected, engine' # engine
                 PROVE  /\ engine = dsp.from \/ dsp.cmd \in Excused
                        /\ paused => dsp.pc = "injecting"
    BY DEF FirstAdvanceIsFirst, Excused
  <2>2. engine = dsp.from \/ dsp.cmd \in Excused
    BY <1>1, <2>1, StartForms, RunFacts DEF Opening
  <2>3. paused => dsp.pc = "injecting"
    BY <2>1 DEF PostAdvance, FirstInjected, TurnedAway, Awaits, EngineUntouched, engineVars
  <2>4. QED
    BY <2>2, <2>3
<1>2. ASSUME RunInv PROVE CycleMovesWhatItRead
  <2>1. SUFFICES ASSUME Advance \/ NextInjected, engine' # engine
                 PROVE  /\ \/ /\ engine = cyc.seen /\ owner = cyc.cmd
                              /\ engine \in AgentStates => engine \in ran \/ cyc.early
                           \/ cyc.run # cyc.cmd
                           \/ cyc.cmd \in cutShort
                        /\ paused => cyc.pc = "injecting"
    BY DEF CycleMovesWhatItRead
  <2>2. ASSUME cyc.run = cyc.cmd, cyc.cmd \notin cutShort
        PROVE  /\ engine = cyc.seen /\ owner = cyc.cmd
               /\ engine \in AgentStates => engine \in ran \/ cyc.early
    <3>1. cyc.pc \in Amidst
      BY <2>1, AdvanceForms DEF Amidst
    <3>2. /\ cyc.cmd \in Processing
          /\ cyc.seen \in AgentStates => cyc.seen \in ran \/ cyc.early
      BY <1>2, <2>2, <3>1, RunFacts DEF Advancing
    <3>3. Running(cyc.cmd) /\ engine = cyc.seen
      BY <1>2, <2>2, <3>1, <3>2, TakenUp DEF InRun
    <3>4. QED
      BY <3>2, <3>3 DEF Running
  <2>3. paused => cyc.pc = "injecting"
    BY <2>1 DEF Advance, NextInjected, TurnedAway, Awaits, EngineUntouched, engineVars
  <2>4. QED
    BY <2>2, <2>3
<1>3. RunInv /\ [Next]_vars => [FirstAdvanceIsFirst /\ CycleMovesWhatItRead]_vars
  BY <1>1, <1>2
<1>4. QED
  BY <1>3, RunInvariance, PTL DEF Spec, AdvancesMoveWhatWasRead
=============================================================================
