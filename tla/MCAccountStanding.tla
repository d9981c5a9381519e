------------------------- MODULE MCAccountStanding -------------------------
(* Two requests in flight and two challenges, interchangeable.             *)
EXTENDS AccountStanding, TLC

Symmetry == Permutations(Requests) \cup Permutations(Resets)
=============================================================================
