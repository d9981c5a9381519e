CONSTANTS
  Requests = {r1, r2}
  Resets = {c1, c2}
  MaxAttempts = 1
  MaxMisses = 2
  MaxSessions = 3
  None = None
SYMMETRY Symmetry
SPECIFICATION AccountSpec
INVARIANTS
  AccountTypeOK
  ChangesStand
  SessionsFollowAccount
CHECK_DEADLOCK FALSE
