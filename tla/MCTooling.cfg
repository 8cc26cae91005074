SPECIFICATION MCSpec
CONSTANTS
  Nil = nil
  Chosen <- MCAllScripts
  MaxEdits <- MCMaxEdits
  HeldToPlace <- MCHeldToPlace
  SharedFiles = {"md", "sh"}
  Names = {1, 2}
  Branches = {b1, b2}
  MaxCommits = 2
  t1 = t1
  t2 = t2
  p1 = p1
  p2 = p2
  p3 = p3
CHECK_DEADLOCK FALSE
INVARIANTS
  NegativesHold
  MergesHold
  
  DivisionHolds
