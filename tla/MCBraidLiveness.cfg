SPECIFICATION FairSpec
CONSTANTS
  Initiator = initiator
  Responder = responder
  None = none
  Needed <- MCNeeded
  HdrChunks = 2
  EkChunks = 2
  Ct1Chunks = 2
  Ct2Chunks = 2
  MAX_CODEWORDS = 10
  U64_MAX = 100
  MaxEpoch = 2
  MaxInFlight = 1
  MaxLost = 1
  MaxLead = 2
PROPERTIES
  EpochsComplete
CHECK_DEADLOCK FALSE
