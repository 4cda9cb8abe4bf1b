--------------------------- MODULE FileLockProofs ---------------------------
(***************************************************************************)
(* Mutual exclusion of withFileLock, for any set of calls and processes.   *)
(*                                                                         *)
(* A call is Active when it runs or when nothing keeps it from running.    *)
(* The invariant says that each process has one active call at most, and   *)
(* what makes the next active call unique: the map entry is absent only    *)
(* when nobody is in the chain, it is never a settled promise, and nobody  *)
(* awaits the promise that is the tail, except behind a timed out call.    *)
(* That the entry may be deleted when its owner finishes needs the order   *)
(* of the calls: the tail is the last call made, its predecessor the last  *)
(* one before it, and nobody overtakes a call that waits.                  *)
(***************************************************************************)
EXTENDS FileLock, TLAPS

Active(c) == pc[c] \in {"waiting", "running"} /\ PrevSettled(c)

OneActive ==
    \A c, d \in Calls : Active(c) /\ Active(d) /\ ProcOf[c] = ProcOf[d] => c = d

SettledIsDone == \A c \in Calls : c \in settled <=> pc[c] = "done"

RunningIsActive == \A c \in Calls : pc[c] = "running" => PrevSettled(c)

(* An idle call is not part of any chain; a chain stays in its process. *)
ChainOk ==
    \A c \in Calls :
        prev[c] # NoCall =>
            /\ pc[prev[c]] # "idle"
            /\ pc[c] # "idle"
            /\ ProcOf[prev[c]] = ProcOf[c]

TailOk ==
    \A p \in Procs :
        IF tail[p] = NoCall
        THEN \A c \in Calls : ProcOf[c] = p => pc[c] \notin {"waiting", "running"}
        ELSE /\ ProcOf[tail[p]] = p
             /\ pc[tail[p]] \in {"waiting", "running", "timedOut"}
             /\ pc[tail[p]] # "timedOut" =>
                    \A c \in Calls : prev[c] # tail[p]

NoOvertaking ==
    \A c, d \in Calls :
        <<d, c>> \in before /\ pc[d] = "waiting"
            => pc[c] \in {"waiting", "timedOut"} /\ ~PrevSettled(c)

TailIsLast ==
    \A p \in Procs :
        tail[p] # NoCall /\ pc[tail[p]] # "timedOut" =>
            \A d \in Calls :
                ProcOf[d] = p /\ pc[d] # "idle" /\ d # tail[p]
                    => <<d, tail[p]>> \in before

PrevIsLastBefore ==
    \A c, d \in Calls :
        /\ prev[c] # NoCall /\ pc[prev[c]] # "timedOut"
        /\ <<d, c>> \in before /\ d # prev[c]
        => <<d, prev[c]>> \in before

OrderOk ==
    /\ \A c, d \in Calls : <<d, c>> \in before => pc[c] # "idle" /\ pc[d] # "idle"
    /\ NoOvertaking
    /\ TailIsLast
    /\ PrevIsLastBefore

IInv ==
    /\ TypeOK
    /\ OrderOk
    /\ OneActive
    /\ SettledIsDone
    /\ RunningIsActive
    /\ ChainOk
    /\ TailOk
    /\ ForksOnlyBehindTimeOut

LEMMA InitIInv == Init => IInv
  BY FileLockAssumption
  DEF Init, IInv, TypeOK, OneActive, Active, SettledIsDone, RunningIsActive,
      ChainOk, TailOk, ForksOnlyBehindTimeOut, CallState, OrderOk,
      NoOvertaking, TailIsLast, PrevIsLastBefore

LEMMA TypePreserved == ASSUME TypeOK, [Next]_vars PROVE TypeOK'
  BY FileLockAssumption
  DEF TypeOK, CallState, Next, Call, CalledBefore, Enter, TimeOut, Finish,
      vars

LEMMA CallPreserves == ASSUME IInv, NEW c \in Calls, Call(c) PROVE IInv'
<1> USE FileLockAssumption DEF FileLockAssumption
<1> DEFINE p == ProcOf[c]
<1>1. TypeOK /\ TypeOK'
  BY TypePreserved DEF IInv, Next
<1>2. p \in Procs /\ c # NoCall /\ pc[c] = "idle"
  BY DEF Call
<1>3. /\ \A d \in Calls : pc'[d] = IF d = c THEN "waiting" ELSE pc[d]
      /\ \A d \in Calls : prev'[d] = IF d = c THEN tail[p] ELSE prev[d]
      /\ \A q \in Procs : tail'[q] = IF q = p THEN c ELSE tail[q]
      /\ settled' = settled
      /\ before' = before \cup CalledBefore(c)
  BY <1>1 DEF Call, TypeOK
<1>4. /\ prev[c] = NoCall
      /\ \A d \in Calls : prev[d] # c
      /\ \A q \in Procs : tail[q] # c
  BY <1>1, <1>2 DEF IInv, ChainOk, TailOk, TypeOK
<1> HIDE DEF p
<1>5. SettledIsDone'
  BY <1>2, <1>3 DEF IInv, SettledIsDone
<1>6. RunningIsActive'
  BY <1>2, <1>3 DEF IInv, RunningIsActive, PrevSettled
<1>7. tail[p] # NoCall =>
          /\ tail[p] \in Calls
          /\ ProcOf[tail[p]] = p
          /\ pc[tail[p]] \in {"waiting", "running", "timedOut"}
          /\ tail[p] \notin settled
  BY <1>1, <1>2 DEF IInv, TailOk, TypeOK, SettledIsDone
<1>8. ChainOk'
  <2> SUFFICES ASSUME NEW d \in Calls, prev'[d] # NoCall
               PROVE  /\ pc'[prev'[d]] # "idle"
                      /\ pc'[d] # "idle"
                      /\ ProcOf[prev'[d]] = ProcOf[d]
    BY DEF ChainOk
  <2>1. CASE d = c
    BY <2>1, <1>2, <1>3, <1>7 DEF p
  <2>2. CASE d # c
    BY <2>2, <1>1, <1>2, <1>3 DEF IInv, ChainOk, TypeOK
  <2>3. QED
    BY <2>1, <2>2
<1>9. TailOk'
  <2> SUFFICES ASSUME NEW q \in Procs
               PROVE  IF tail'[q] = NoCall
                      THEN \A d \in Calls : ProcOf[d] = q => pc'[d] \notin {"waiting", "running"}
                      ELSE /\ ProcOf[tail'[q]] = q
                           /\ pc'[tail'[q]] \in {"waiting", "running", "timedOut"}
                           /\ pc'[tail'[q]] # "timedOut" =>
                                  \A d \in Calls : prev'[d] # tail'[q]
    BY DEF TailOk
  <2>1. CASE q = p
    BY <2>1, <1>2, <1>3, <1>4 DEF p
  <2>2. CASE q # p
    <3>1. tail'[q] = tail[q]
      BY <2>2, <1>3
    <3>2. CASE tail[q] = NoCall
      BY <3>1, <3>2, <2>2, <1>2, <1>3 DEF IInv, TailOk, p
    <3>3. CASE tail[q] # NoCall
      BY <3>1, <3>3, <2>2, <1>1, <1>2, <1>3, <1>4, <1>7 DEF IInv, TailOk, TypeOK
    <3>4. QED
      BY <3>2, <3>3
  <2>3. QED
    BY <2>1, <2>2
<1>10. OneActive'
  <2>1. Active(c)' =>
            \A d \in Calls : ProcOf[d] = p => pc[d] \notin {"waiting", "running"}
    BY <1>2, <1>3, <1>7 DEF Active, PrevSettled, IInv, TailOk
  <2>2. \A d \in Calls : d # c => (Active(d)' <=> Active(d))
    BY <1>2, <1>3 DEF Active, PrevSettled
  <2>3. \A d \in Calls : Active(d) /\ ProcOf[d] = p => ~Active(c)'
    BY <2>1 DEF Active
  <2>4. QED
    BY <2>2, <2>3 DEF IInv, OneActive, p
<1>11. ForksOnlyBehindTimeOut'
  <2> SUFFICES ASSUME NEW d \in Calls, NEW e \in Calls,
                      pc'[d] = "waiting", pc'[e] = "waiting", d # e,
                      ProcOf[d] = ProcOf[e], prev'[d] = prev'[e]
               PROVE  prev'[d] # NoCall /\ pc'[prev'[d]] = "timedOut"
    BY DEF ForksOnlyBehindTimeOut
  <2>1. CASE d # c /\ e # c
    BY <2>1, <1>1, <1>2, <1>3 DEF IInv, ForksOnlyBehindTimeOut, TypeOK
  <2>2. ASSUME NEW x \in Calls, x # c, ProcOf[x] = p, pc[x] = "waiting",
               prev[x] = tail[p]
        PROVE  tail[p] # NoCall /\ pc[tail[p]] = "timedOut"
    <3>1. tail[p] # NoCall
      BY <2>2, <1>2 DEF IInv, TailOk
    <3>2. QED
      BY <3>1, <2>2, <1>1, <1>2 DEF IInv, TailOk, TypeOK
  <2>3. QED
    BY <2>1, <2>2, <1>2, <1>3, <1>7 DEF p
<1>12. OrderOk'
  <2>1. \A d \in Calls : <<d, c>> \notin before /\ <<c, d>> \notin before
    BY <1>2 DEF IInv, OrderOk
  <2>2. \A d, e \in Calls :
            <<d, e>> \in before' <=>
                \/ <<d, e>> \in before
                \/ e = c /\ ProcOf[d] = p /\ pc[d] # "idle"
    BY <1>3 DEF CalledBefore, p
  <2>3. \A d, e \in Calls : <<d, e>> \in before' => pc'[e] # "idle" /\ pc'[d] # "idle"
    BY <2>2, <1>2, <1>3 DEF IInv, OrderOk
  <2>4. NoOvertaking'
    <3> SUFFICES ASSUME NEW e \in Calls, NEW d \in Calls,
                        <<d, e>> \in before', pc'[d] = "waiting"
                 PROVE  pc'[e] \in {"waiting", "timedOut"} /\ ~PrevSettled(e)'
      BY DEF NoOvertaking
    <3>1. CASE e = c
      <4>1. ProcOf[d] = p /\ pc[d] = "waiting"
        BY <3>1, <2>1, <2>2, <1>2, <1>3
      <4>2. tail[p] # NoCall
        BY <4>1, <1>2 DEF IInv, TailOk
      <4>3. QED
        BY <3>1, <4>2, <1>3, <1>7 DEF PrevSettled
    <3>2. CASE e # c
      <4>1. d # c /\ <<d, e>> \in before
        BY <3>2, <2>1, <2>2
      <4>2. pc[d] = "waiting"
        BY <4>1, <1>3
      <4>3. pc[e] \in {"waiting", "timedOut"} /\ ~PrevSettled(e)
        BY <4>1, <4>2 DEF IInv, OrderOk, NoOvertaking
      <4>4. pc'[e] = pc[e] /\ prev'[e] = prev[e] /\ settled' = settled
        BY <3>2, <1>3
      <4>5. QED
        BY <4>3, <4>4 DEF PrevSettled
    <3>3. QED
      BY <3>1, <3>2
  <2>5. TailIsLast'
    <3> SUFFICES ASSUME NEW q \in Procs, tail'[q] # NoCall,
                        pc'[tail'[q]] # "timedOut",
                        NEW d \in Calls, ProcOf[d] = q, pc'[d] # "idle",
                        d # tail'[q]
                 PROVE  <<d, tail'[q]>> \in before'
      BY DEF TailIsLast
    <3>1. CASE q = p
      BY <3>1, <2>2, <1>3
    <3>2. CASE q # p
      <4>1. tail'[q] = tail[q] /\ tail[q] \in Calls /\ d # c
        BY <3>2, <1>1, <1>3 DEF TypeOK, p
      <4>2. QED
        BY <4>1, <2>2, <1>3, <1>4 DEF IInv, OrderOk, TailIsLast
    <3>3. QED
      BY <3>1, <3>2
  <2>6. PrevIsLastBefore'
    <3> SUFFICES ASSUME NEW e \in Calls, NEW d \in Calls,
                        prev'[e] # NoCall, pc'[prev'[e]] # "timedOut",
                        <<d, e>> \in before', d # prev'[e]
                 PROVE  <<d, prev'[e]>> \in before'
      BY DEF PrevIsLastBefore
    <3>1. CASE e = c
      <4>1. prev'[e] = tail[p] /\ pc[tail[p]] # "timedOut"
        BY <3>1, <1>3, <1>4, <1>7
      <4>2. ProcOf[d] = p /\ pc[d] # "idle"
        BY <3>1, <2>1, <2>2
      <4>3. <<d, tail[p]>> \in before
        BY <4>1, <4>2, <1>2 DEF IInv, OrderOk, TailIsLast
      <4>4. QED
        BY <4>1, <4>3, <1>3
    <3>2. CASE e # c
      <4>1. prev'[e] = prev[e] /\ <<d, e>> \in before /\ prev[e] \in Calls
        BY <3>2, <2>2, <1>1, <1>3 DEF TypeOK
      <4>2. pc[prev[e]] # "timedOut"
        BY <4>1, <1>3, <1>4
      <4>3. QED
        BY <4>1, <4>2, <1>3 DEF IInv, OrderOk, PrevIsLastBefore
    <3>3. QED
      BY <3>1, <3>2
  <2>7. QED
    BY <2>3, <2>4, <2>5, <2>6 DEF OrderOk
<1>13. QED
  BY <1>1, <1>5, <1>6, <1>8, <1>9, <1>10, <1>11, <1>12 DEF IInv

LEMMA EnterPreserves == ASSUME IInv, NEW c \in Calls, Enter(c) PROVE IInv'
<1> USE FileLockAssumption DEF FileLockAssumption
<1>1. TypeOK'
  BY TypePreserved DEF IInv, Next
<1>2. SettledIsDone' /\ RunningIsActive'
  BY DEF IInv, Enter, TypeOK, CallState, SettledIsDone, RunningIsActive,
         PrevSettled
<1>6. ChainOk'
  BY DEF IInv, Enter, TypeOK, CallState, ChainOk, TailOk, PrevSettled
<1>7. TailOk'
  BY DEF IInv, Enter, TypeOK, CallState, ChainOk, TailOk, PrevSettled
<1>3. OneActive'
  BY DEF IInv, Enter, TypeOK, CallState, OneActive, Active, PrevSettled
<1>4. ForksOnlyBehindTimeOut'
  BY DEF IInv, Enter, TypeOK, CallState, ForksOnlyBehindTimeOut
<1>8. OrderOk'
  BY DEF IInv, Enter, TypeOK, CallState, OrderOk, NoOvertaking, TailIsLast,
         PrevIsLastBefore, PrevSettled, TailOk
<1>5. QED
  BY <1>1, <1>2, <1>3, <1>4, <1>6, <1>7, <1>8 DEF IInv

LEMMA TimeOutPreserves == ASSUME IInv, NEW c \in Calls, TimeOut(c) PROVE IInv'
<1> USE FileLockAssumption DEF FileLockAssumption
<1>1. TypeOK'
  BY TypePreserved DEF IInv, Next
<1>2. SettledIsDone' /\ RunningIsActive'
  BY DEF IInv, TimeOut, TypeOK, CallState, SettledIsDone, RunningIsActive,
         PrevSettled
<1>6. ChainOk'
  BY DEF IInv, TimeOut, TypeOK, CallState, ChainOk, TailOk, PrevSettled
<1>7. TailOk'
  BY DEF IInv, TimeOut, TypeOK, CallState, ChainOk, TailOk, PrevSettled
<1>3. OneActive'
  BY DEF IInv, TimeOut, TypeOK, CallState, OneActive, Active, PrevSettled
<1>4. ForksOnlyBehindTimeOut'
  BY DEF IInv, TimeOut, TypeOK, CallState, ForksOnlyBehindTimeOut
<1>8. OrderOk'
  BY DEF IInv, TimeOut, TypeOK, CallState, OrderOk, NoOvertaking, TailIsLast,
         PrevIsLastBefore, PrevSettled, TailOk
<1>5. QED
  BY <1>1, <1>2, <1>3, <1>4, <1>6, <1>7, <1>8 DEF IInv

(* The call that finishes was the only active one of its process, and at most
   one call waits for its promise. *)
LEMMA FinishPreserves == ASSUME IInv, NEW c \in Calls, Finish(c) PROVE IInv'
<1> USE FileLockAssumption DEF FileLockAssumption
<1>1. TypeOK'
  BY TypePreserved DEF IInv, Next
<1>2. SettledIsDone' /\ RunningIsActive' /\ ChainOk'
  BY DEF IInv, Finish, TypeOK, CallState, SettledIsDone, RunningIsActive,
         ChainOk, PrevSettled
<1>3. TailOk'
  <2> DEFINE p == ProcOf[c]
  <2>0. pc[c] = "running"
    BY DEF Finish
  <2>1. /\ c # NoCall /\ p \in Procs /\ Active(c)
        /\ pc' = [pc EXCEPT ![c] = "done"] /\ prev' = prev
        /\ \A q \in Procs : q # p => tail'[q] = tail[q]
        /\ tail'[p] = IF tail[p] = c THEN NoCall ELSE tail[p]
    BY DEF Finish, IInv, TypeOK, Active, RunningIsActive
  <2>2. \A d \in Calls : pc'[d] = IF d = c THEN "done" ELSE pc[d]
    BY <2>1 DEF IInv, TypeOK
  <2>3. ASSUME tail[p] = c, NEW d \in Calls, ProcOf[d] = p, d # c
        PROVE  pc[d] \notin {"waiting", "running"}
    <3>1. pc[d] # "idle" => <<d, c>> \in before
      BY <2>3, <2>1, <2>0 DEF IInv, OrderOk, TailIsLast
    <3>2. pc[d] # "waiting"
      BY <3>1, <2>0 DEF IInv, OrderOk, NoOvertaking
    <3>3. pc[d] # "running"
      BY <2>3, <2>1, <2>0 DEF IInv, OneActive, Active, RunningIsActive
    <3>4. QED
      BY <3>2, <3>3
  <2> SUFFICES ASSUME NEW q \in Procs
               PROVE  IF tail'[q] = NoCall
                      THEN \A d \in Calls : ProcOf[d] = q => pc'[d] \notin {"waiting", "running"}
                      ELSE /\ ProcOf[tail'[q]] = q
                           /\ pc'[tail'[q]] \in {"waiting", "running", "timedOut"}
                           /\ pc'[tail'[q]] # "timedOut" =>
                                  \A d \in Calls : prev'[d] # tail'[q]
    BY DEF TailOk
  <2>4. CASE q = p /\ tail[p] = c
    BY <2>4, <2>1, <2>2, <2>3
  <2>5. CASE ~(q = p /\ tail[p] = c)
    BY <2>5, <2>1, <2>2 DEF IInv, TailOk, TypeOK
  <2>6. QED
    BY <2>4, <2>5
<1>4. OneActive'
  BY DEF IInv, Finish, TypeOK, CallState, OneActive, Active, PrevSettled,
         ForksOnlyBehindTimeOut, ChainOk, RunningIsActive
<1>5. ForksOnlyBehindTimeOut'
  BY DEF IInv, Finish, TypeOK, CallState, ForksOnlyBehindTimeOut
<1>7. NoOvertaking'
  <2> SUFFICES ASSUME NEW e \in Calls, NEW d \in Calls,
                      <<d, e>> \in before, pc'[d] = "waiting"
               PROVE  pc'[e] \in {"waiting", "timedOut"} /\ ~PrevSettled(e)'
    BY DEF NoOvertaking, Finish
  <2>1. /\ pc[c] = "running" /\ pc[d] = "waiting" /\ prev' = prev
        /\ settled' = settled \cup {c}
        /\ pc'[e] = IF e = c THEN "done" ELSE pc[e]
    BY DEF Finish, IInv, TypeOK, CallState
  <2>2. pc[e] \in {"waiting", "timedOut"} /\ ~PrevSettled(e)
    BY <2>1 DEF IInv, OrderOk, NoOvertaking
  <2>3. prev[e] # c
    <3>1. SUFFICES ASSUME prev[e] = c PROVE FALSE
      OBVIOUS
    <3>2. <<d, c>> \in before
      BY <3>1, <2>1 DEF IInv, OrderOk, PrevIsLastBefore
    <3>3. QED
      BY <3>2, <2>1 DEF IInv, OrderOk, NoOvertaking
  <2>4. QED
    BY <2>1, <2>2, <2>3 DEF PrevSettled
<1>8. OrderOk'
  BY <1>7 DEF IInv, Finish, TypeOK, CallState, OrderOk, TailIsLast,
              PrevIsLastBefore
<1>6. QED
  BY <1>1, <1>2, <1>3, <1>4, <1>5, <1>8 DEF IInv

LEMMA StepPreserves == IInv /\ [Next]_vars => IInv'
<1> SUFFICES ASSUME IInv, [Next]_vars PROVE IInv'
  OBVIOUS
<1>1. CASE UNCHANGED vars
  BY <1>1
  DEF vars, IInv, TypeOK, OneActive, Active, SettledIsDone, RunningIsActive,
      ChainOk, TailOk, ForksOnlyBehindTimeOut, PrevSettled, OrderOk,
      NoOvertaking, TailIsLast, PrevIsLastBefore
<1>2. CASE Next
  BY <1>2, CallPreserves, EnterPreserves, TimeOutPreserves, FinishPreserves
  DEF Next
<1>3. QED
  BY <1>1, <1>2

(* The inductive invariant of withFileLock: what the map, the chain of waiters
   and the settled promises have to do with each other. *)
THEOREM Invariance == Spec => []IInv
  BY InitIInv, StepPreserves, PTL DEF Spec

(* The variables always have their types: the map holds calls of its process,
   and a call waits for one that was made. *)
THEOREM TypeCorrect == Spec => []TypeOK
<1>1. IInv => TypeOK
  BY DEF IInv
<1>2. QED
  BY Invariance, <1>1, PTL

(* withFileLock never runs two functions of one process at a time on a path,
   for any number of calls, processes and timeouts. *)
THEOREM MutualExclusionTheorem == Spec => []MutualExclusion
<1>1. IInv => MutualExclusion
  BY DEF IInv, OneActive, Active, RunningIsActive, MutualExclusion, Running
<1>2. QED
  BY Invariance, <1>1, PTL

(* Nobody overtakes a call that waits, whatever times out around it. *)
THEOREM FirstComeFirstServedTheorem == Spec => []FirstComeFirstServed
<1>1. IInv => FirstComeFirstServed
  BY DEF IInv, OrderOk, NoOvertaking, FirstComeFirstServed
<1>2. QED
  BY Invariance, <1>1, PTL

(* The chain of promises forks only at the promise of a timed out call. *)
THEOREM ForksTheorem == Spec => []ForksOnlyBehindTimeOut
<1>1. IInv => ForksOnlyBehindTimeOut
  BY DEF IInv
<1>2. QED
  BY Invariance, <1>1, PTL
=============================================================================
