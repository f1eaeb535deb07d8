CONSTANTS
  c1 = c1
  c2 = c2
  l1 = l1
  l2 = l2
  r1 = r1
  r2 = r2
  A = A
  B = B
  None = None
  Callers = {c1, c2}
  Loaders = {l1, l2}
  Reapers = {r1, r2}
  Models = {A, B}
  IdleTimeout = 1
SPECIFICATION Spec
SYMMETRY Symmetry
INVARIANTS
  GenerateHoldsItsModel
  SlotWhole
  OneModelOnDevice
  OneReaper
  ResidentIsWatched
  IInv
