------------------------------ MODULE WriteAhead ------------------------------
(***************************************************************************)
(* What the transition engine promises of the pipeline it drives.  A state *)
(* is announced durably before the pipeline enters it, only a successor of *)
(* the present state can be announced, and the pipeline is never anywhere  *)
(* but in an announced state or in ERROR.  Hence no crash, retry,          *)
(* recovery, replay or reset makes it skip a state of the flow.  There is  *)
(* no code for this module: TransitionEngine is shown to implement it.     *)
(***************************************************************************)
CONSTANTS
    States,             \* the states of the pipeline
    Successors          \* <<s, t>>: t comes after s in some flow

VARIABLES
    state,              \* where the pipeline is
    announced           \* the states it may be in

Init == state = "IDLE" /\ announced = {"IDLE"}

Announce(s) ==
    /\ <<state, s>> \in Successors
    /\ announced' = announced \cup {s}
    /\ UNCHANGED state

(* Forward, or back: to resume, to start over, to come up after a crash. *)
Enter(s) == s \in announced /\ state' = s /\ UNCHANGED announced

Fail == state' = "ERROR" /\ UNCHANGED announced

Next == Fail \/ \E s \in States : Announce(s) \/ Enter(s)

Spec == Init /\ [][Next]_<<state, announced>>
=============================================================================
