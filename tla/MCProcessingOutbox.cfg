CONSTANTS
  Rows = {r1}
  Relays = {k1, k2}
  NoRecord = NoRecord
  PublishLimit = 1
  MaxPublishAttempts = 3
  AttemptNumberUnique = FALSE
SPECIFICATION FairOutboxSpec
INVARIANTS
  OutboxTypeOK
PROPERTIES
  KeepsHandoffPromise
  LateRelayIsHarmless
  IntentsAreDisposedOf
