SPECIFICATION Spec
CONSTANTS
  U32_MAX = 9
  MAX_LAST_RESORT_SEEN = 1
  Owner = owner
  Stranger = stranger
  None = none
  Handshakes = {h1, h2}
  Old = h0
  OneTimeCount = 1
  ReplenishCount = 1
  MaxMessages = 1
  MaxCrashes = 0
SYMMETRY Peers
INVARIANTS
  ExactlyOneSession
  StoreIsSound
