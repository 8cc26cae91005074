SPECIFICATION MCSpec
CONSTANTS
  Initiator = initiator
  Responder = responder
  Owner = owner
  Stranger = stranger
  LowOrder = low
  None = none
  ChunkCount <- MCChunkCount
  HdrChunks = 1
  EkChunks = 1
  Ct1Chunks = 1
  Ct2Chunks = 1
  MAX_CODEWORDS = 2
  U64_MAX = 3
  EPOCHS_KEPT = 2
  MaxEpoch = 1
  MaxLead = 2
  MaxFaults = 1
  Handshakes = {h1, h2}
  MAX_LAST_RESORT_SEEN = 1
  U32_MAX = 9
SYMMETRY Peers
CHECK_DEADLOCK FALSE
INVARIANTS
  StoredSessionIsAccepted
  StoredSessionRefusals
  StoredSessionGoesOn
  
  
