SPECIFICATION RetrySpec
CONSTANTS
  Length = 4
  Callers = {"sendTransactionsWithManualRetry", "createAuctionManager", "candyMachineUi"}
INVARIANTS
  PrefixResolved
  RestartsAtRejected
  BoundedTurns
CHECK_DEADLOCK FALSE
