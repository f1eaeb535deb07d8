SPECIFICATION Spec
CONSTANTS
  Names = {alice, bob}
  Uploads = {u1, u2}
  Readers = {r1}
  MaxCrashes = 1
  Dropped = Dropped
  None = None
INVARIANT
  NoClobber
