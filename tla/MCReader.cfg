SPECIFICATION MCSpec
CONSTANTS
  Nil = nil
  Offered <- MCOffered
  MAX_ACCOUNT_BYTES = 3
  MAX_ACTIVE_BINDINGS = 4
  MAX_RECENT_REVOCATIONS = 4
  IdentityKeys <- MCIdentityKeys
  BadByte = 98
  Keys <- MCKeys
  NonCanonical = {"P", "K255", "K+P", "KD255"}
  CurveIdentityKeys = {"K", "KP", "KPP", "KOLD", "KD"}
  CurveLowOrder = {"U0", "U1", "PM1", "O8A", "O8B"}
  Cases <- MCCases
  t1 = t1
  t2 = t2
  P = 3
  AG_TYPES = {1, 2}
  EK_LEN = 2
  Cells = {0, 1, 2, 3, 5}
  Sent <- MCSent
  MaxChanges = 2
  Base = 4
  TagBase = 3
  PB_MAX_VARINT_BYTES = 3
  PB_MAX_U32 = 31
  PB_MAX_FIELD_NUMBER = 2
  PB_MAX_MESSAGE_LEN = 5
  PB_MAX_FIELDS = 3
  MaxRegion = 6
  Handshakes = {1, 2}
  Spellings = 3
  Texts = 2
  MAX_LAST_RESORT_SEEN = 2
  MaxId = 6
  U32_MAX = 9
  Owner = owner
  Stranger = stranger
  Hs = {h1, h2}
  Numbers = {1, 2}
  FirstCounts = {0, 3}
  MaxSent = 1
  ReadAgain = FALSE
  CrossCeiling = FALSE
CHECK_DEADLOCK FALSE
INVARIANTS
  InventoryVectorsHold
  IdentityVectorsHold
  VerifiersHold
  BytesAreTheValue
  HandshakesHold
  
