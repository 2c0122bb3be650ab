SPECIFICATION Spec
CONSTANTS
  N = 4
  BatchSize = 2
  Calls <- MCAllCalls
INVARIANTS
  SentUpToFailure
  StopsAtSecondFailure
CHECK_DEADLOCK FALSE
