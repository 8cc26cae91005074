SPECIFICATION Spec
CONSTANTS
  Initiator = initiator
  Responder = responder
  None = none
  Needed <- MCNeeded
  HdrChunks = 1
  EkChunks = 2
  Ct1Chunks = 2
  Ct2Chunks = 1
  MAX_CODEWORDS = 3
  U64_MAX = 100
  MaxEpoch = 1
  MaxInFlight = 1
  MaxLost = 0
  MaxLead = 3
INVARIANTS
  AckAlwaysHasAChunk
CHECK_DEADLOCK FALSE
