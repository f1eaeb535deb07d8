SPECIFICATION Spec
CONSTANTS
  Runs = {r1}
  Id <- OneId
  NumLines = 1
  Keys = {1}
  Key <- PerLine
  MaxAttempts = 2
  Workers = {w1, w2}
  MaxCrashes = 1
  Untagged = Untagged
  None = None
INVARIANT
  ClipDescribesObject
CHECK_DEADLOCK FALSE
