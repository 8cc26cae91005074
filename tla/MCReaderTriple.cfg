SPECIFICATION Spec
CONSTANTS
  Initiator = initiator
  Responder = responder
  None = none
  LowOrder = low
  MAX_SKIP = 1
  MAX_SKIPPED_STORE = 2
  MAX_SKIPPED_AGE = 5
  U32_MAX = 20
  EPOCHS_KEPT = 2
  U64_MAX = 20
  Trigger = 3
  InitiatorSends = 6
  ResponderSends = 1
  MaxUnsaved = 1
  MaxCrashes = 1
CHECK_DEADLOCK FALSE
INVARIANTS
  UsedOnce
  GenuineDecrypts
PROPERTIES
  EvictionIsExact
