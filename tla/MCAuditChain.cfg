CONSTANTS
  Transactions = {r1, r2}
  Keys = {k1, k2, k3}
  Payloads = {p1, p2}
  EventChain = EventChain
  Skew = 0
  MaxTime = 1
  MaxEvents = 3
SPECIFICATION AuditSpec
SYMMETRY Symmetry
INVARIANTS
  AuditTypeOK
  ForksNeedOverlap
  AuditIsComplete
