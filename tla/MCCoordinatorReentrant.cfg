SPECIFICATION CoordSpec
CONSTANTS
  a1 = a1
  a2 = a2
  Addresses = {a1, a2}
  NoAddr = NoAddr
  Managers = {a1}
  Offers = {}
  Successors = {a1}
  Publishers = {a2}
  MaxSubId = 1
  MaxCount = 4
  MaxUint96 = 2
  Deposits = {1}
  Amounts = {1}
  FEE_TIMELOCK_BLOCKS = 1
  maxFees <- CapTwo
  InitialFees <- FeeOne
  FeeChoices <- TwoAndAbove
  MaxBlock = 3
  MAX_WORDS = 1
  maxCallbackGasLimit = 100
  POST_CALLBACK_GAS = 30
  TIMEOUT_BLOCKS = 1
  WordCounts = {1}
  GasLimits = {10, 100}
  MaxNonce = 1
  IdOf <- HashOne
  MaxBatch = 1
  CallbackOps = {"request", "fulfill", "batch", "retry", "refund", "account", "admin"}
INVARIANTS
  TypeOK
  FeeInv
  ClosedOnce
  DeliveredOnce
  BudgetsShrink
  OpenHasAccount
  ReservedBacksOpen
  PendingCountsOpen
PROPERTIES
  QuoteIsFinal
  NoticeGiven
  RenouncedForGood
CHECK_DEADLOCK FALSE
