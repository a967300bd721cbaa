SPECIFICATION Spec
CONSTANTS
  Keys = {k1, k2}
  Runs = {r1, r2}
  Clears = {}
  MaxSize = 2
  DiskErrors = FALSE
  Nobody = Nobody
  MaxRestarts = 1
CHECK_DEADLOCK FALSE
PROPERTY PersistsAcrossRestarts
