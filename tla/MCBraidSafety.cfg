SPECIFICATION Spec
CONSTANTS
  Initiator = initiator
  Responder = responder
  None = none
  Needed <- MCNeeded
  HdrChunks = 1
  EkChunks = 2
  Ct1Chunks = 2
  Ct2Chunks = 1
  MAX_CODEWORDS = 3
  U64_MAX = 3
  MaxEpoch = 2
  MaxInFlight = 2
  MaxLost = 1
  MaxLead = 2
INVARIANTS
  ViewsAgree
  StaysUsable
  ReaderAgreesOnBraid
PROPERTIES
  ImplementsAgreement
CHECK_DEADLOCK FALSE
