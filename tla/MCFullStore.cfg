SPECIFICATION Spec
CONSTANTS
  Initiator = initiator
  Responder = responder
  None = none
  MAX_SKIP = 2
  MAX_SKIPPED_STORE = 4
  MAX_SKIPPED_AGE = 4
  MaxSent = 8
  MaxReplies = 1
  U32_MAX = 5
INVARIANTS
  Restorable
  UsedOnce
  GenuineDecrypts
  ForwardSecrecy
  ReaderAgreesOnRatchet
PROPERTIES
  EvictionIsExact
