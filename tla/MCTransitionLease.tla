------------------------- MODULE MCTransitionLease -------------------------
(* TransitionLease with three workers, and time and tokens enough for a     *)
(* lease to be taken, renewed, lost by expiry and taken twice again.        *)
EXTENDS TransitionLease

CONSTANTS w1, w2, w3
MCWorkers == {w1, w2, w3}
=============================================================================
