---------------------------- MODULE MCUploadIntake ----------------------------
EXTENDS UploadIntake, TLC
CONSTANTS f1, f2, good, bad
MCDeclared == (f1 :> good) @@ (f2 :> good)
Symmetry == Permutations(Requests) \cup Permutations(Keys) \cup Permutations(Files)
=============================================================================
