SPECIFICATION Spec
CONSTANTS
  U32_MAX = 7
  MAX_LAST_RESORT_SEEN = 2
  Owner = owner
  Stranger = stranger
  None = none
  Handshakes = {h1, h2}
  Old = h0
  OneTimeCount = 1
  ReplenishCount = 1
  MaxMessages = 2
  MaxCrashes = 1
SYMMETRY Peers
INVARIANTS
  ExactlyOneSession
  SurvivesRestart
