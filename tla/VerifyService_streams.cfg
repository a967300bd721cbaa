SPECIFICATION Spec
CONSTANTS
  Jobs = {j1}
  Streams = {s1, s2}
  Pollers = {}
  Stages = {prove}
  QueueSize = 2
  MaxLog = 2
  Nobody = Nobody
CHECK_DEADLOCK FALSE
SYMMETRY Symmetry
INVARIANTS
  TypeOK
  ToldTheTruth
  InOrder
  NoLeakedSubscriber
