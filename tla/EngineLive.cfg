CONSTANTS
  c1 = c1
  l1 = l1
  r1 = r1
  r2 = r2
  A = A
  B = B
  None = None
  Callers = {c1}
  Loaders = {l1}
  Reapers = {r1, r2}
  Models = {A, B}
  IdleTimeout = 2
SPECIFICATION Spec
PROPERTIES
  EvictsOnlyIdle
  LoadingEnds
  ShutdownCompletes
  IdleModelEvicted
  ImplementsSlot
