SPECIFICATION NodeSpec
CONSTANTS
  Operators = 3
  Threshold = 2
  Live = {0, 1}
  Faulty = {}
  Requests = {q1}
  MaxParkedRequests = 1
  MaxSettledMemory = 1
  RebroadcastAttempts = 0
  SendRetries = 0
  Lookback = 3
  MaxLosses = 0
  MaxRefusals = 0
  MaxRestarts = 0
  MaxFaultyPosts = 1
INVARIANTS
  NeverAccused
CHECK_DEADLOCK FALSE
