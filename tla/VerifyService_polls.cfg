SPECIFICATION LiveSpec
CONSTANTS
  Jobs = {j1}
  Streams = {s1}
  Pollers = {p1}
  Stages = {prove}
  QueueSize = 1
  MaxLog = 2
  Nobody = Nobody
CHECK_DEADLOCK FALSE
INVARIANTS
  ResultOnlyIfCompleted
  RecordsWhole
PROPERTIES
  AnswersAdvance
  KeepsPromises
  StreamEnds
