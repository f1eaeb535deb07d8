SPECIFICATION Spec
CONSTANTS
  Names = {alice, bob}
  Uploads = {u1, u2}
  Readers = {r1}
  MaxCrashes = 1
  Dropped = Dropped
  None = None
INVARIANTS
  VInv
  OnlyValidated
  HeardWhole
  ResolvedStays
  CloneHearsOwn
  OneIsFirst
  ClobberIsTold
  ImmediatelyUsable
PROPERTIES
  EveryRequestEnds
  ImplementsVoiceBook
  AcknowledgedIsSafe
