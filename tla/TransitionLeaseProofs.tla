------------------------ MODULE TransitionLeaseProofs ------------------------
(***************************************************************************)
(* The transition lease excludes, for any number of workers, any TTL and   *)
(* any length of time, as long as the calls of the lease manager do not    *)
(* overlap (SerialSpec).                                                   *)
(*                                                                         *)
(* The invariant: what a worker in the middle of a call has read is still  *)
(* what the file says, and an unexpired holder finds itself in the file.   *)
(***************************************************************************)
EXTENDS TransitionLease, TLAPS

Serial == \A v, w \in Workers : InCall(v) /\ InCall(w) => v = w

CallsUpToDate ==
    \A w \in Workers :
        /\ pc[w] \in {"writing", "renewing"} => asOf[w] = clock
        /\ pc[w] = "writing" => Available(w)
        /\ pc[w] = "verifying" => Owns(w)
        /\ pc[w] \in {"renewing", "releasing"} => Owns(w) /\ seen[w] = lease

HoldersInFile ==
    \A w \in Workers : Holds(w) => Owns(w) /\ lease.expires = until[w]

IInv ==
    /\ TypeOK
    /\ Serial
    /\ CallsUpToDate
    /\ HoldersInFile
    /\ BlocksAtMostTTL

LEMMA InitIInv == Init => IInv
  BY LeaseAssumption
  DEF LeaseAssumption, Init, NoLease, IInv, TypeOK, Record, WorkerState, Serial,
      InCall, CallsUpToDate, HoldersInFile, Holds, BlocksAtMostTTL

LEMMA StepTypes == ASSUME TypeOK, NEW w \in Workers, Step(w) PROVE TypeOK'
<1> USE LeaseAssumption DEF LeaseAssumption, TypeOK, Record, WorkerState, Goto
<1>1. CASE AcquireRead(w) \/ AcquireVerify(w)
  BY <1>1 DEF AcquireRead, AcquireVerify
<1>2. CASE RenewRead(w) \/ ReleaseRead(w)
  <2>1. lease \in Record /\ seen' \in [Workers -> Record]
    BY <1>2 DEF RenewRead, ReleaseRead
  <2>2. QED
    BY <1>2, <2>1 DEF RenewRead, ReleaseRead
<1>3. CASE AcquireWrite(w) \/ RenewWrite(w) \/ ReleaseWrite(w)
  BY <1>3 DEF AcquireWrite, RenewWrite, ReleaseWrite
<1>4. CASE Abandon(w) \/ Crash(w)
  BY <1>4 DEF Abandon, Crash
<1>5. QED
  BY <1>1, <1>2, <1>3, <1>4 DEF Step

LEMMA TickTypes == ASSUME TypeOK, Tick PROVE TypeOK'
  BY clock + 1 \in Nat DEF Tick, TypeOK

LEMMA TypePreserved == ASSUME TypeOK, [SerialNext]_vars PROVE TypeOK'
<1>1. CASE SerialNext
  BY <1>1, StepTypes, TickTypes DEF SerialNext
<1>2. CASE UNCHANGED vars
  BY <1>2 DEF vars, TypeOK
<1>3. QED
  BY <1>1, <1>2

(* Time passes between calls only. *)
LEMMA TickPreserves ==
    ASSUME IInv, Tick, \A w \in Workers : ~InCall(w) PROVE IInv'
<1>1. TypeOK'
  BY TypePreserved DEF IInv, SerialNext
<1>2. QED
  BY <1>1, LeaseAssumption
  DEF LeaseAssumption, IInv, TypeOK, Record, Tick, InCall, Serial, CallsUpToDate,
      HoldersInFile, Holds, Owns, BlocksAtMostTTL

(* The one proof obligation that is about the protocol: the worker that writes
   its record found the file available, so nobody else holds the lease. *)
LEMMA WriterAlone ==
    ASSUME IInv, NEW w \in Workers, pc[w] = "writing",
           NEW v \in Workers, v # w
    PROVE  ~Holds(v)
  BY LeaseAssumption
  DEF LeaseAssumption, IInv, TypeOK, Record, CallsUpToDate, HoldersInFile, Holds,
      Owns, Available, Expired

LEMMA StepPreserves ==
    ASSUME IInv, NEW w \in Workers, Step(w),
           \A v \in Workers : InCall(v) => v = w
    PROVE  IInv'
<1> USE LeaseAssumption DEF LeaseAssumption
<1>1. TypeOK /\ TypeOK'
  BY TypePreserved DEF IInv, SerialNext
<1>2. clock' = clock
  BY DEF Step, AcquireRead, AcquireWrite, AcquireVerify, RenewRead, RenewWrite,
         ReleaseRead, ReleaseWrite, Abandon, Crash
<1>3. \A v \in Workers : v # w =>
          /\ pc'[v] = pc[v] /\ token'[v] = token[v] /\ until'[v] = until[v]
          /\ asOf'[v] = asOf[v] /\ seen'[v] = seen[v]
          /\ pc[v] \in {"idle", "holding", "dead"}
  BY <1>1
  DEF Step, AcquireRead, AcquireWrite, AcquireVerify, RenewRead, RenewWrite,
      ReleaseRead, ReleaseWrite, Abandon, Crash, Goto, TypeOK, InCall, WorkerState
<1>4. Serial'
  BY <1>3 DEF Serial, InCall
<1>5. \A v \in Workers : v # w => (Holds(v)' <=> Holds(v))
  BY <1>2, <1>3 DEF Holds
<1>6. \A v \in Workers : v # w => ~(Owns(v) /\ Owns(w))
  BY DEF Owns
<1>7. ASSUME lease' = lease,
             pc'[w] \in {"writing", "renewing"} => asOf'[w] = clock,
             pc'[w] = "writing" => Available(w),
             pc'[w] = "verifying" => Owns(w)',
             pc'[w] \in {"renewing", "releasing"} => Owns(w)' /\ seen'[w] = lease,
             Holds(w)' => Owns(w)' /\ lease.expires = until'[w]
      PROVE  IInv'
  <2>1. CallsUpToDate'
    BY <1>2, <1>3, <1>7 DEF CallsUpToDate, Available, Expired
  <2>2. HoldersInFile'
    BY <1>3, <1>5, <1>7 DEF IInv, HoldersInFile, Owns
  <2>3. BlocksAtMostTTL'
    BY <1>2, <1>7 DEF IInv, BlocksAtMostTTL
  <2>4. QED
    BY <1>1, <1>4, <2>1, <2>2, <2>3 DEF IInv
<1>8. ASSUME lease'.expires <= clock + TTL,
             \A v \in Workers : v # w => ~Holds(v),
             pc'[w] \in {"verifying", "holding", "idle"},
             pc'[w] = "verifying" => Owns(w)',
             Holds(w)' => Owns(w)' /\ lease'.expires = until'[w]
      PROVE  IInv'
  <2>1. CallsUpToDate'
    BY <1>3, <1>8 DEF CallsUpToDate
  <2>2. HoldersInFile'
    BY <1>5, <1>8 DEF HoldersInFile
  <2>3. BlocksAtMostTTL'
    BY <1>2, <1>8 DEF BlocksAtMostTTL
  <2>4. QED
    BY <1>1, <1>4, <2>1, <2>2, <2>3 DEF IInv
<1>9. ASSUME Owns(w), NEW v \in Workers, v # w PROVE ~Holds(v)
  BY <1>6, <1>9 DEF IInv, HoldersInFile
<1>10. CASE AcquireRead(w)
  BY <1>1, <1>7, <1>10 DEF AcquireRead, Goto, TypeOK, Holds
<1>11. CASE AcquireWrite(w)
  <2>1. /\ pc[w] = "writing" /\ asOf[w] = clock
        /\ \A v \in Workers : v # w => ~Holds(v)
    BY <1>11, WriterAlone DEF AcquireWrite, IInv, CallsUpToDate
  <2>2. /\ pc'[w] = "verifying" /\ Owns(w)'
        /\ lease'.expires = clock + TTL
    BY <1>1, <1>11, <2>1 DEF AcquireWrite, Goto, TypeOK, Owns
  <2>3. QED
    BY <1>1, <1>8, <2>1, <2>2 DEF Holds, TypeOK
<1>12. CASE AcquireVerify(w)
  BY <1>1, <1>7, <1>12 DEF AcquireVerify, Goto, TypeOK, Holds, Owns
<1>13. CASE RenewRead(w)
  <2>1. /\ lease' = lease /\ Owns(w) /\ Owns(w)' /\ pc[w] = "holding"
        /\ pc'[w] = "renewing" /\ seen'[w] = lease /\ asOf'[w] = clock
        /\ until' = until
    BY <1>1, <1>13 DEF RenewRead, Goto, TypeOK, Owns
  <2>2. Holds(w)' => Holds(w)
    BY <1>2, <2>1 DEF Holds
  <2>3. QED
    BY <1>7, <2>1, <2>2 DEF IInv, HoldersInFile
<1>14. CASE RenewWrite(w)
  <2>1. Owns(w) /\ seen[w] = lease /\ asOf[w] = clock
    BY <1>14 DEF RenewWrite, IInv, CallsUpToDate
  <2>2. /\ pc'[w] = "holding" /\ Owns(w)'
        /\ lease'.expires = clock + TTL /\ until'[w] = clock + TTL
    BY <1>1, <1>14, <2>1 DEF RenewWrite, Goto, TypeOK, Record, Owns
  <2>3. QED
    BY <1>1, <1>8, <1>9, <2>1, <2>2 DEF TypeOK
<1>15. CASE ReleaseRead(w)
  <2>1. /\ lease' = lease /\ pc[w] = "holding" /\ until' = until
        /\ pc'[w] = "releasing" => Owns(w) /\ Owns(w)' /\ seen'[w] = lease
        /\ pc'[w] \in {"releasing", "idle"}
    BY <1>1, <1>15 DEF ReleaseRead, Goto, TypeOK, Owns
  <2>2. Holds(w)' => Holds(w) /\ pc'[w] = "releasing"
    BY <1>2, <2>1 DEF Holds
  <2>3. QED
    BY <1>7, <2>1, <2>2 DEF IInv, HoldersInFile
<1>16. CASE ReleaseWrite(w)
  <2>1. Owns(w) /\ seen[w] = lease
    BY <1>16 DEF ReleaseWrite, IInv, CallsUpToDate
  <2>2. pc'[w] = "idle" /\ lease'.expires = 0
    BY <1>1, <1>16, <2>1 DEF ReleaseWrite, Goto, TypeOK, Record
  <2>3. QED
    BY <1>1, <1>8, <1>9, <2>1, <2>2 DEF TypeOK, Holds
<1>17. CASE Abandon(w) \/ Crash(w)
  BY <1>1, <1>7, <1>17 DEF Abandon, Crash, Goto, TypeOK, Holds
<1>18. QED
  BY <1>10, <1>11, <1>12, <1>13, <1>14, <1>15, <1>16, <1>17 DEF Step

LEMMA NextPreserves == IInv /\ [SerialNext]_vars => IInv'
<1> SUFFICES ASSUME IInv, [SerialNext]_vars PROVE IInv'
  OBVIOUS
<1>1. CASE UNCHANGED vars
  BY <1>1
  DEF vars, IInv, TypeOK, Serial, InCall, CallsUpToDate, Available, Expired,
      Owns, HoldersInFile, Holds, BlocksAtMostTTL
<1>2. CASE SerialNext
  BY <1>2, TickPreserves, StepPreserves DEF SerialNext
<1>3. QED
  BY <1>1, <1>2

(* The inductive invariant of the lease manager: what a worker knows of its
   lease agrees with the file, or the lease has run out. *)
THEOREM Invariance == SerialSpec => []IInv
  BY InitIInv, NextPreserves, PTL DEF SerialSpec

(* The variables have their types however the calls of the workers overlap. *)
THEOREM TypeCorrect == Spec => []TypeOK
<1>1. Init => TypeOK
  BY InitIInv DEF IInv
<1>2. TypeOK /\ [Next]_vars => TypeOK'
  BY StepTypes, TickTypes DEF Next, vars, TypeOK
<1>3. QED
  BY <1>1, <1>2, PTL DEF Spec

(* They do where the calls do not overlap, too. *)
THEOREM SerialTypeCorrect == SerialSpec => []TypeOK
<1>1. IInv => TypeOK
  BY DEF IInv
<1>2. QED
  BY Invariance, <1>1, PTL

LEMMA Exclusion == IInv => NoSplitBrain
  BY DEF IInv, HoldersInFile, Owns, NoSplitBrain

(* Calls that do not overlap never make two workers believe that they hold an
   unexpired lease, however long any of them takes and whoever crashes. *)
THEOREM NoSplitBrainTheorem == SerialSpec => []NoSplitBrain
  BY Invariance, Exclusion, PTL

(* An unexpired holder's record is in the file, with its own expiry. *)
THEOREM HolderOwnsFileTheorem == SerialSpec => []HolderOwnsFile
<1>1. IInv => HolderOwnsFile
  BY DEF IInv, HoldersInFile, Holds, HolderOwnsFile
<1>2. QED
  BY Invariance, <1>1, PTL

(* A lease that is never released keeps the others out for one TTL at most. *)
THEOREM BlocksAtMostTTLTheorem == SerialSpec => []BlocksAtMostTTL
<1>1. IInv => BlocksAtMostTTL
  BY DEF IInv
<1>2. QED
  BY Invariance, <1>1, PTL

(* The holder of the abstract specification is well defined. *)
LEMMA HolderIsTheHolder ==
    NoSplitBrain => /\ \A w \in Workers : Holds(w) => Holder = w
                    /\ Holder # Nobody => Holder \in Workers
                    /\ \A w \in Workers : Holder = w => Holds(w)
<1> SUFFICES ASSUME NoSplitBrain
             PROVE  /\ \A w \in Workers : Holds(w) => Holder = w
                    /\ Holder # Nobody => Holder \in Workers
                    /\ \A w \in Workers : Holder = w => Holds(w)
  OBVIOUS
<1>1. CASE \E w \in Workers : Holds(w)
  <2>1. PICK w \in Workers : Holds(w)
    BY <1>1
  <2>2. Holder \in Workers /\ Holds(Holder)
    BY <2>1 DEF Holder
  <2>3. QED
    BY <2>2 DEF NoSplitBrain
<1>2. CASE ~ \E w \in Workers : Holds(w)
  BY <1>2, LeaseAssumption DEF LeaseAssumption, Holder
<1>3. QED
  BY <1>1, <1>2

(* A step does not replace one holder by another. *)
LEMMA NoDirectHandover ==
    ASSUME IInv, IInv', [SerialNext]_vars,
           NEW v \in Workers, NEW w \in Workers, Holds(v), Holds(w)'
    PROVE  v = w
<1> USE Exclusion DEF NoSplitBrain
<1>1. NoSplitBrain /\ NoSplitBrain'
  <2>1. (IInv => NoSplitBrain)'
    BY Exclusion, PTL
  <2>2. QED
    BY <2>1
<1>2. CASE Tick
  BY <1>1, <1>2, LeaseAssumption DEF LeaseAssumption, Tick, Holds, IInv, TypeOK
<1>3. ASSUME NEW u \in Workers, Step(u),
             \A x \in Workers : InCall(x) => x = u
      PROVE  v = w
  <2>1. \A x \in Workers : x # u => (Holds(x)' <=> Holds(x))
    BY <1>3
    DEF Step, AcquireRead, AcquireWrite, AcquireVerify, RenewRead, RenewWrite,
        ReleaseRead, ReleaseWrite, Abandon, Crash, Goto, Holds, IInv, TypeOK
  <2>2. QED
    BY <1>1, <2>1
<1>4. CASE UNCHANGED vars
  BY <1>1, <1>4 DEF vars, Holds
<1>5. QED
  BY <1>2, <1>3, <1>4 DEF SerialNext

(* The file based lease implements the exclusive holder when its calls do not
   overlap: the holder changes only from nobody to a worker and back. *)
THEOREM Implementation == SerialSpec => ImplementsExclusiveHolder
<1>1. Init => Exclusive!Init
  BY LeaseAssumption DEF LeaseAssumption, Init, Exclusive!Init, Holder, Holds
<1>2. ASSUME IInv, IInv', [SerialNext]_vars PROVE [Exclusive!Next]_Holder
  <2>1. NoSplitBrain /\ NoSplitBrain'
    <3>1. (IInv => NoSplitBrain)'
      BY Exclusion, PTL
    <3>2. QED
      BY <1>2, <3>1, Exclusion
  <2>2. Holder # Nobody => Holder \in Workers /\ Holds(Holder)
    BY <2>1, HolderIsTheHolder
  <2>3. /\ Holder' # Nobody => Holder' \in Workers
        /\ \A w \in Workers : Holder' = w => Holds(w)'
    <3>1. (NoSplitBrain => /\ \A w \in Workers : Holds(w) => Holder = w
                           /\ Holder # Nobody => Holder \in Workers
                           /\ \A w \in Workers : Holder = w => Holds(w))'
      BY HolderIsTheHolder, PTL
    <3>2. QED
      BY <2>1, <3>1
  <2>4. Holder # Nobody /\ Holder' # Nobody => Holder' = Holder
    BY <1>2, <2>2, <2>3, NoDirectHandover
  <2>5. QED
    BY <2>3, <2>4 DEF Exclusive!Next, Exclusive!Lapse, Exclusive!Grant
<1>3. QED
  BY Invariance, <1>1, <1>2, PTL
  DEF SerialSpec, ImplementsExclusiveHolder, Exclusive!Spec
=============================================================================
