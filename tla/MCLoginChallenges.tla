------------------------- MODULE MCLoginChallenges -------------------------
(* Interchangeable logins and challenges.                                  *)
EXTENDS LoginChallenges, TLC

Symmetry == Permutations(Requests) \cup Permutations(Challenges)
=============================================================================
