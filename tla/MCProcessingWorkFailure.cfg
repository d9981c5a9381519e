CONSTANTS
  Items = {i1}
  Workers = {w1, w2}
  NoItem = NoItem
  MaxAttempts = 2
  LeaseTicks = 1
  MaxDelay = 1
  MaxElapsed = 4
  BatchLimit = 1
  MaxCheckpoint = 0
  MaxManualRecoveries = 0
  FailureRowUnpacks = FALSE
SPECIFICATION Spec
PROPERTIES
  FailureHasDisposition
