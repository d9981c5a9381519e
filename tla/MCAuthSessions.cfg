CONSTANTS
  Requests = {r1, r2}
  MaxConcurrent = 1
  InactivityTimeout = 2
  AbsoluteLifetime = 3
  MaxTime = 2
  MaxIds = 3
SPECIFICATION SessionSpec
SYMMETRY Symmetry
INVARIANTS
  SessionTypeOK
  TokensAreSpentOnce
  UnlapsedWithinLimit
PROPERTIES
  SessionsMoveForward
