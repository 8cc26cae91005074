SPECIFICATION Spec
CONSTANTS
  Initiator = initiator
  Responder = responder
  None = none
  MAX_SKIP = 1
  MAX_SKIPPED_STORE = 1
  EPOCHS_KEPT = 2
  U64_MAX = 4
  MaxSent = 4
  MaxReplies = 3
  LastEpoch = 2
INVARIANTS
  KeepsPace
  GenuineDecrypts
  ForgetsUsed
  ReaderAgreesOnSparse
