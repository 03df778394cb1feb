SPECIFICATION NodeSpec
CONSTANTS
  Operators = 3
  Threshold = 2
  Live = {0, 1}
  Faulty = {}
  Requests = {q1}
  MaxParkedRequests = 1
  MaxSettledMemory = 1
  RebroadcastAttempts = 1
  SendRetries = 1
  Lookback = 3
  MaxLosses = 1
  MaxRefusals = 1
  MaxRestarts = 1
  MaxFaultyPosts = 0
INVARIANTS
  ResentOnlyAfterError
PROPERTIES
  EveryRequestCloses
CHECK_DEADLOCK FALSE
