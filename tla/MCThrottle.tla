----------------------------- MODULE MCThrottle -----------------------------
(* Two threads for TLC, which run the same code. *)
EXTENDS Throttle, TLC

CONSTANTS t1, t2

MCThread == {t1, t2}
Symmetry == Permutations(MCThread)
=============================================================================
