SPECIFICATION Spec
CONSTANTS
  Runs = {r1}
  Id <- OneId
  NumLines = 2
  Keys = {1, 2}
  Key <- PerLine
  MaxAttempts = 2
  Workers = {w1, w2}
  MaxCrashes = 1
  Untagged = Untagged
  None = None
INVARIANTS
  StrayIsNextLine
  BatchInv
PROPERTIES
  RunsMoveOn
  EveryRunCloses
  SlotComesFree
CHECK_DEADLOCK FALSE
