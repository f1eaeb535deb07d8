SPECIFICATION Spec
CONSTANTS
  Commands = {a, b, c}
  MaxRuns = 2
  None = None
INVARIANT
  IdHelpHalfRight
