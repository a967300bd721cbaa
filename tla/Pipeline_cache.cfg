SPECIFICATION Spec
CONSTANTS
  Keys = {k1, k2, k3}
  Runs = {r1, r2, r3, r4}
  Clears = {c1}
  MaxSize = 2
  DiskErrors = FALSE
  Nobody = Nobody
  MaxRestarts = 1
CHECK_DEADLOCK FALSE
SYMMETRY Symmetry
INVARIANTS
  TypeOK
  CacheIsGenuine
  ReplaysAreProved
  CacheIsBounded
  RestartLosesNothing
  ReturnedRunsCounted
