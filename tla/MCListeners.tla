----------------------------- MODULE MCListeners -----------------------------
(***************************************************************************)
(* A small instance of Listeners.  A unit of time is 12.5 s.               *)
(***************************************************************************)
EXTENDS Listeners, TLC

Symmetry == Permutations(Keys)

BehindOrAhead == {-1, 0, 1}
=============================================================================
