SPECIFICATION LiveSpec
CONSTANTS
  Keys = {k1, k2}
  Runs = {r1, r2}
  Clears = {c1}
  MaxSize = 2
  DiskErrors = TRUE
  Nobody = Nobody
  MaxRestarts = 1
CHECK_DEADLOCK FALSE
INVARIANT MetricsAddUp
PROPERTY RunsEnd
