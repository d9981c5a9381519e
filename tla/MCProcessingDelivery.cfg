CONSTANTS
  Items = {i1}
  Workers = {w1}
  NoItem = NoItem
  NoMessage = NoMessage
  NoRecord = NoRecord
  MaxAttempts = 2
  LeaseTicks = 1
  MaxDelay = 1
  MaxElapsed = 1
  BatchLimit = 1
  MaxCheckpoint = 0
  MaxManualRecoveries = 0
  FailureRowUnpacks = TRUE
  Relays = {k1}
  PublishLimit = 1
  MaxPublishAttempts = 1
SPECIFICATION FairDeliverySpec
INVARIANTS
  DeliveryTypeOK
  WakeUpIsLostOnlyByAcknowledgement
PROPERTIES
  OfferedWorkSettles
