SPECIFICATION E2eSpec
CONSTANTS
  c1 = c1
  l1 = l1
  A = A
  None = None
  Callers = {c1}
  Loaders = {l1}
  Reapers = {}
  Models = {A}
  IdleTimeout = 0
CHECK_DEADLOCK FALSE
INVARIANT AbortMeansRaised
