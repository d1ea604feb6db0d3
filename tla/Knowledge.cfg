CONSTANTS
  MaxAttempts = 2
  Records = {1, 2}
  Earlier <- MCEarlier
  Signature <- OneGroup
SPECIFICATION FairSpec
INVARIANTS
  OneWorker
  HeardIsKept
  FoundUnlessRaced
  RevokedStaysOut
PROPERTIES
  EveryCaseFound
