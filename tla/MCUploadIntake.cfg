CONSTANTS
  None = None
  f1 = f1
  f2 = f2
  good = good
  bad = bad
  Files = {f1, f2}
  Contents = {good, bad}
  Declared <- MCDeclared
  Keys = {k1, k2}
  Requests = {r1, r2}
  TimeToLive = 1
  MaxTime = 2
SPECIFICATION IntakeSpec
SYMMETRY Symmetry
INVARIANTS
  IntakeTypeOK
  ConfirmationsAreOne
  RegisteredBytesWereVerified
  AnswersAreTrue
