SPECIFICATION CoordSpec
CONSTANTS
  a1 = a1
  a2 = a2
  Addresses = {a1, a2}
  NoAddr = NoAddr
  Managers = {a1}
  Offers = {}
  Successors = {}
  Publishers = {a2}
  MaxSubId = 1
  MaxCount = 3
  MaxUint96 = 3
  Deposits = {3}
  Amounts = {1}
  FEE_TIMELOCK_BLOCKS = 1
  maxFees <- CapTwo
  InitialFees <- FreeTier
  FeeChoices <- NoFeeChange
  MaxBlock = 3
  MAX_WORDS = 1
  maxCallbackGasLimit = 100
  POST_CALLBACK_GAS = 30
  TIMEOUT_BLOCKS = 1
  WordCounts = {1}
  GasLimits = {100}
  MaxNonce = 1
  IdOf <- HashOne
  MaxBatch = 2
  CallbackOps = {"refund"}
INVARIANTS
  ClosedOnce
CHECK_DEADLOCK FALSE
