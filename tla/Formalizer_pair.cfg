SPECIFICATION LiveSpec
CONSTANTS
  Plans = {p1}
  NoPlan = NoPlan
  SearchLimit = 1
  Threads = {f1, f2}
  Claims = {c1}
  PlanOf <- OnePlan
CHECK_DEADLOCK FALSE
INVARIANTS
  TypeOK
  SoundUnlessOverwritten
  CacheIsGenuine
PROPERTIES
  GivenUpForGood
  FormalizationsEnd
