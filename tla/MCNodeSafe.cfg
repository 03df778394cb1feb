SPECIFICATION NodeSpec
CONSTANTS
  Operators = 3
  Threshold = 2
  Live = {0}
  Faulty = {1, 2}
  Requests = {q1, q2}
  MaxParkedRequests = 1
  MaxSettledMemory = 1
  RebroadcastAttempts = 0
  SendRetries = 0
  Lookback = 1
  MaxLosses = 0
  MaxRefusals = 1
  MaxRestarts = 1
  MaxFaultyPosts = 2
SYMMETRY RequestSymmetry
INVARIANTS
  NodeTypeOK
  QuorumBehindEveryTx
  ParkedExact
  SettledExact
  OneVerificationEach
  AccusedOnlyIfForged
CHECK_DEADLOCK FALSE
