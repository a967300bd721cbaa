SPECIFICATION LiveSpec
CONSTANTS
  Jobs = {j1}
  Streams = {s1}
  Pollers = {}
  Stages = {prove}
  QueueSize = 1
  MaxLog = 1
  Nobody = Nobody
CHECK_DEADLOCK FALSE
PROPERTIES
  StreamClosesAfterJob
