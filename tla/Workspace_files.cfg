SPECIFICATION Spec
CONSTANTS
  Verifies = {v1, v2}
  Compiles = {e1}
  Sessions = {s1, s2}
  Outside = {v2, s1}
  Named = {e1}
  Nobody = Nobody
  MaxSeconds = 1
  MaxCrashes = 1
CHECK_DEADLOCK FALSE
INVARIANTS
  TypeOK
  ServedKeepFiles
  OrphansGone
  OutputsPaired
