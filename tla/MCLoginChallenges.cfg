CONSTANTS
  Requests = {r1, r2}
  Challenges = {c1, c2}
  MaxFailures = 2
  MaxAttempts = 1
  MaxWrong = 3
  MaxGuesses = 4
  None = None
SYMMETRY Symmetry
SPECIFICATION LoginSpec
INVARIANTS
  LoginTypeOK
  LimitsHold
  ProofAdmitsOnce
