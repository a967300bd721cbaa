SPECIFICATION LiveSpec
CONSTANTS
  Suite <- TwoCases
  Repetitions = 2
CHECK_DEADLOCK FALSE
INVARIANTS
  FailuresExplained
  CallsCharged
  ReplaysEarned
  SnapshotAddsUp
PROPERTY BenchmarkEnds
