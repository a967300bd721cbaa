SPECIFICATION LiveSpec
CONSTANTS
  Tactics = {t1}
  Sorry = Sorry
  Blank = Blank
  Garbled = Garbled
  Queries = {q1}
  NoCall = NoCall
  NoAnswer = NoAnswer
  MaxTotal = 5
  MaxSearch = 1
  MaxReadOnly = 2
  MaxUnchecked = 2
  FastAttempts = 1
  MaxAppend = 2
  Retries = 1
  BatchSize = 2
CHECK_DEADLOCK FALSE
INVARIANTS
  TypeOK
  BudgetsKept
  ChecksKeepUp
  ReadingEnds
  SearchesEarned
  AttemptsJudged
  AnswersAreTrue
  NoLeftover
PROPERTY KeepsPromises
