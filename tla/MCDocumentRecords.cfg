CONSTANTS
  Documents = {d1}
  Clients = {c1, c2}
  Startup = startup
  Grants = {g1}
  NoGrant = NoGrant
  Command = "mark"
  Scope <- MCScope
  EvidenceInserts = TRUE
  MaxOperations = 2
SPECIFICATION DocumentSpec
SYMMETRY Symmetry
INVARIANTS
  DocumentTypeOK
  PurgeIsThorough
  LockedDocumentNeedsGrant
PROPERTIES
  IllegalChangeIsStale
CHECK_DEADLOCK FALSE
