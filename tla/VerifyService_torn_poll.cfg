SPECIFICATION Spec
CONSTANTS
  Jobs = {j1}
  Streams = {s1}
  Pollers = {p1}
  Stages = {prove}
  QueueSize = 1
  MaxLog = 0
  Nobody = Nobody
INVARIANT CompletedHasResult
