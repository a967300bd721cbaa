SPECIFICATION Spec
CONSTANTS
  Plans = {p1}
  NoPlan = NoPlan
  SearchLimit = 1
  Threads = {f1, f2}
  Claims = {c1}
  PlanOf <- OnePlan
CHECK_DEADLOCK FALSE
INVARIANT TheoremPassed
