SPECIFICATION MCSpec
CONSTANTS
  Resent = {r1}
  Plain = {p1}
  ToolTxs = {t1}
  LossyWebsocket = TRUE
INVARIANTS
  RejectedByWaitFailed
  VerdictTruthful
PROPERTIES
  NothingLandsBehindAnswer
  ExecutedIsAnswered
  ImplementsPromise
CHECK_DEADLOCK FALSE
