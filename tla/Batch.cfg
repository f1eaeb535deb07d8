SPECIFICATION Spec
CONSTANTS
  Runs = {r1, r2}
  Id <- OneId
  NumLines = 1
  Keys = {1}
  Key <- PerLine
  MaxAttempts = 2
  Workers = {w1, w2}
  MaxCrashes = 1
  Untagged = Untagged
  None = None
SYMMETRY Symmetry
INVARIANTS
  ClipsAreOwn
  CollisionNamesHolder
PROPERTIES
  ImplementsClipStore
CHECK_DEADLOCK FALSE
