CONSTANTS
  None = None
  s1 = s1
  Requests = {r1, r2}
  Keys = {k1, k2}
  Payloads = {document, url}
  DocumentPayloads = {document}
  Actors = {a1, a2}
  Texts <- MCTexts
  Titles = {t1, t2}
  MaxJobs = 2
  ApprovedIsAllowed = TRUE
SPECIFICATION CatalogueSpec
SYMMETRY Symmetry
INVARIANTS
  CatalogueTypeOK
  IngestionsAreOne
  PublicationIsGrounded
  LatestIsPublished
CHECK_DEADLOCK FALSE
