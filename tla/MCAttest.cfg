SPECIFICATION MCSpec
CONSTANTS
  None = none
  Followed <- MCFollowed
  MaxEdits <- MCMaxEdits
  MaxCommits = 2
  Zones <- MCZones
  MaxHandEdits = 2
  MaxLength = 4
  MaxCommentLength = 7
CHECK_DEADLOCK FALSE
INVARIANTS
  FloorsHold
  TranslationHolds
  ReadAlike
