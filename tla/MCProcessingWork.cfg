CONSTANTS
  Items = {i1}
  Workers = {w1, w2}
  NoItem = NoItem
  MaxAttempts = 3
  LeaseTicks = 2
  MaxDelay = 1
  MaxElapsed = 4
  BatchLimit = 1
  MaxCheckpoint = 2
  MaxManualRecoveries = 1
  FailureRowUnpacks = TRUE
SPECIFICATION FairSpec
INVARIANTS
  TypeOK
  LeasesExclude
  TablesAgree
PROPERTIES
  StaleLeaseIsHarmless
  LeasesEnd
