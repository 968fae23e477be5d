------------------------------- MODULE MCClubs -------------------------------
(***************************************************************************)
(* A small instance of Clubs.                                              *)
(***************************************************************************)
EXTENDS Clubs, TLC

\* The first club is the oldest; the others were created in the same second.
Stamps == [c \in Ids |-> IF c = First THEN 1 ELSE 2]

Symmetry == Permutations(Ids \ {First}) \cup Permutations(Conns)
=============================================================================
