CONSTANTS
  c1 = c1
  l1 = l1
  r1 = r1
  r2 = r2
  A = A
  None = None
  Callers = {c1}
  Loaders = {l1}
  Reapers = {r1, r2}
  Models = {A}
  IdleTimeout = 1
SPECIFICATION ShutdownSpec
INVARIANTS
  PoolClosedAtExit
PROPERTIES
  ShutdownReturns
  StoppedForGood
  ReaperEnds
