--------------------------- MODULE TransitionLease ---------------------------
(***************************************************************************)
(* TransitionLeaseManager (platform/engine/transition-lease.ts) as the     *)
(* workers of several processes use it around engine.advance: a JSON file  *)
(* that names the worker allowed to perform a transition, until a time.    *)
(*                                                                         *)
(* acquire, renew and release are sequences of synchronous reads and       *)
(* writes of the file.  One action is one access to the file, so that the  *)
(* accesses of two operating system processes interleave.  SerialSpec is   *)
(* the same system when the calls do not overlap, which is what the event  *)
(* loop gives to managers that live in one process.                        *)
(***************************************************************************)
EXTENDS Naturals

CONSTANTS
    Workers,        \* owner ids
    Nobody,         \* no owner: the file does not exist
    TTL,            \* transitionLeaseTtlMs
    MaxClock,       \* bound on time
    MaxToken        \* bound on the number of leases written

ASSUME LeaseAssumption ==
    /\ Nobody \notin Workers
    /\ TTL \in Nat \ {0}
    /\ MaxClock \in Nat /\ MaxToken \in Nat

VARIABLES
    lease,          \* the file
    clock,          \* Date.now()
    lastToken,      \* randomUUID never repeats: tokens are numbered
    pc,             \* where each worker stands in its calls
    token,          \* the token each worker received last
    until,          \* the expiry of the lease as far as its holder knows
    asOf,           \* "now" as evaluated at the start of the pending call
    seen            \* the record read by the pending renew or release

vars == <<lease, clock, lastToken, pc, token, until, asOf, seen>>

Record == [owner : Workers \cup {Nobody}, token : Nat, expires : Nat]
NoLease == [owner |-> Nobody, token |-> 0, expires |-> 0]

WorkerState == {"idle", "writing", "verifying", "holding",
                "renewing", "releasing", "dead"}

TypeOK ==
    /\ lease \in Record
    /\ clock \in Nat
    /\ lastToken \in Nat
    /\ pc \in [Workers -> WorkerState]
    /\ token \in [Workers -> Nat]
    /\ until \in [Workers -> Nat]
    /\ asOf \in [Workers -> Nat]
    /\ seen \in [Workers -> Record]

Init ==
    /\ lease = NoLease
    /\ clock = 1
    /\ lastToken = 0
    /\ pc = [w \in Workers |-> "idle"]
    /\ token = [w \in Workers |-> 0]
    /\ until = [w \in Workers |-> 0]
    /\ asOf = [w \in Workers |-> 0]
    /\ seen = [w \in Workers |-> NoLease]

Goto(w, state) == pc' = [pc EXCEPT ![w] = state]

Expired(record) == record.expires <= clock
Owns(w) == lease.owner = w /\ lease.token = token[w]

-----------------------------------------------------------------------------
(* Mutated forms of definitions below, which the properties must reject:
   a lease given away one instant before it ends, a renewal that
   counts from the old expiry, a release that writes an incomplete record. *)
AvailableTooEarly(w) == lease.expires <= clock + 1 \/ lease.owner = w

RenewWriteFromExpiry(w) ==
    /\ pc[w] = "renewing"
    /\ lease' = [seen[w] EXCEPT !.expires = @ + TTL]
    /\ until' = [until EXCEPT ![w] = seen[w].expires + TTL]
    /\ Goto(w, "holding")
    /\ UNCHANGED <<clock, lastToken, token, asOf, seen>>

ReleaseWriteIncomplete(w) ==
    /\ pc[w] = "releasing"
    /\ lease' = [owner |-> w, expires |-> 0]
    /\ Goto(w, "idle")
    /\ UNCHANGED <<clock, lastToken, token, until, asOf, seen>>

(* A live lease of another owner is refused; the owner of a live lease is
   not.  A missing file is an expired lease of nobody. *)
Available(w) == Expired(lease) \/ lease.owner = w

-----------------------------------------------------------------------------
(* acquire: the refusal leaves everything as it is. *)
AcquireRead(w) ==
    /\ pc[w] = "idle"
    /\ Available(w)
    /\ lastToken < MaxToken
    /\ asOf' = [asOf EXCEPT ![w] = clock]
    /\ Goto(w, "writing")
    /\ UNCHANGED <<lease, clock, lastToken, token, until, seen>>

AcquireWrite(w) ==
    /\ pc[w] = "writing"
    /\ lastToken' = lastToken + 1
    /\ token' = [token EXCEPT ![w] = lastToken + 1]
    /\ lease' = [owner |-> w, token |-> lastToken + 1, expires |-> asOf[w] + TTL]
    /\ Goto(w, "verifying")
    /\ UNCHANGED <<clock, until, asOf, seen>>

(* The re-read that detects a lost race. *)
AcquireVerify(w) ==
    /\ pc[w] = "verifying"
    /\ IF Owns(w)
       THEN /\ until' = [until EXCEPT ![w] = lease.expires]
            /\ Goto(w, "holding")
       ELSE /\ Goto(w, "idle")
            /\ UNCHANGED until
    /\ UNCHANGED <<lease, clock, lastToken, token, asOf, seen>>

(* renew: a refusal is not noticed by the engine, which drops the result. *)
RenewRead(w) ==
    /\ pc[w] = "holding"
    /\ Owns(w) /\ ~Expired(lease)
    /\ seen' = [seen EXCEPT ![w] = lease]
    /\ asOf' = [asOf EXCEPT ![w] = clock]
    /\ Goto(w, "renewing")
    /\ UNCHANGED <<lease, clock, lastToken, token, until>>

RenewWrite(w) ==
    /\ pc[w] = "renewing"
    /\ lease' = [seen[w] EXCEPT !.expires = asOf[w] + TTL]
    /\ until' = [until EXCEPT ![w] = asOf[w] + TTL]
    /\ Goto(w, "holding")
    /\ UNCHANGED <<clock, lastToken, token, asOf, seen>>

(* release, in the finally block of advance. *)
ReleaseRead(w) ==
    /\ pc[w] = "holding"
    /\ IF Owns(w)
       THEN /\ seen' = [seen EXCEPT ![w] = lease]
            /\ Goto(w, "releasing")
       ELSE /\ Goto(w, "idle")
            /\ UNCHANGED seen
    /\ UNCHANGED <<lease, clock, lastToken, token, until, asOf>>

ReleaseWrite(w) ==
    /\ pc[w] = "releasing"
    /\ lease' = [seen[w] EXCEPT !.expires = 0]
    /\ Goto(w, "idle")
    /\ UNCHANGED <<clock, lastToken, token, until, asOf, seen>>

(* advance throws before its try block: the lease is not released. *)
Abandon(w) ==
    /\ pc[w] = "holding"
    /\ Goto(w, "idle")
    /\ UNCHANGED <<lease, clock, lastToken, token, until, asOf, seen>>

(* The process dies; a restarted one has a new owner id. *)
Crash(w) ==
    /\ pc[w] # "dead"
    /\ Goto(w, "dead")
    /\ UNCHANGED <<lease, clock, lastToken, token, until, asOf, seen>>

Tick ==
    /\ clock < MaxClock
    /\ clock' = clock + 1
    /\ UNCHANGED <<lease, lastToken, pc, token, until, asOf, seen>>

Step(w) ==
    \/ AcquireRead(w) \/ AcquireWrite(w) \/ AcquireVerify(w)
    \/ RenewRead(w) \/ RenewWrite(w)
    \/ ReleaseRead(w) \/ ReleaseWrite(w)
    \/ Abandon(w) \/ Crash(w)

Next == Tick \/ \E w \in Workers : Step(w)

Spec == Init /\ [][Next]_vars

InCall(w) == pc[w] \in {"writing", "verifying", "renewing", "releasing"}

(* A call runs to its end before another one starts, within one instant. *)
SerialNext ==
    \/ Tick /\ \A w \in Workers : ~InCall(w)
    \/ \E w \in Workers : Step(w) /\ \A v \in Workers : InCall(v) => v = w

SerialSpec == Init /\ [][SerialNext]_vars

-----------------------------------------------------------------------------
(* w has been told that it holds the lease, and not for longer than agreed. *)
Holds(w) == pc[w] \in {"holding", "renewing", "releasing"} /\ clock < until[w]

(* transition-lease.test.js:40, "prevents split-brain while lease is
   active": no two workers hold an unexpired lease. *)
NoSplitBrain == \A v, w \in Workers : Holds(v) /\ Holds(w) => v = w

(* A holder's unexpired lease is what the file says: nobody renewed,
   released or replaced it behind the holder's back. *)
HolderOwnsFile ==
    \A w \in Workers : pc[w] = "holding" /\ clock < until[w]
        => Owns(w) /\ lease.expires = until[w]

(* A worker that dies, or throws without releasing, blocks the others for
   the agreed time at most. *)
BlocksAtMostTTL == lease.expires <= clock + TTL

(* SerialSpec implements the exclusive holder, the holder being the worker
   whose lease has not expired. *)
Holder == IF \E w \in Workers : Holds(w)
          THEN CHOOSE w \in Workers : Holds(w)
          ELSE Nobody

Exclusive == INSTANCE ExclusiveHolder WITH holder <- Holder
ImplementsExclusiveHolder == Exclusive!Spec
=============================================================================
