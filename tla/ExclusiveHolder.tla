--------------------------- MODULE ExclusiveHolder ---------------------------
(***************************************************************************)
(* What a transition lease promises: at any time one worker at most holds  *)
(* it, and it never passes from one worker to another without having been  *)
(* free in between.  There is no code for this module: it is the           *)
(* specification that TransitionLease is shown to implement.               *)
(***************************************************************************)
CONSTANTS Workers, Nobody

VARIABLE holder

Init == holder = Nobody

Grant(w) == holder = Nobody /\ holder' = w
Lapse == holder # Nobody /\ holder' = Nobody

Next == Lapse \/ \E w \in Workers : Grant(w)

Spec == Init /\ [][Next]_holder
=============================================================================
