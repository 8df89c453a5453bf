SPECIFICATION JournalSpec
CONSTANTS
  Keys = {k1}
  Failures = {f1, f2}
  NoFailure = NoFailure
  MaxAttempts = 3
  BreakerThreshold = 2
  MaxDecisions = 4
  Ids = {i1, i2}
  NoId = NoId
  MaxEntries = 3
  Page = 1
  MaxRestarts = 1
SYMMETRY Symmetry
INVARIANTS
  RetryBudget
  IdenticalFailuresTrip
  
  ReadersMissNothing
CHECK_DEADLOCK FALSE
