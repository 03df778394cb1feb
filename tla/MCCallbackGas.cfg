SPECIFICATION GasSpec
CONSTANTS
  POST_CALLBACK_GAS = 30000
  FulfilOverhead = 240000
  DefaultGasLimit = 750000
  EntryCost = 23000
  VerifyCost = 157295
  SettleCost <- Cold
  CreditCosts <- SteadyOrWithdrawn
  RecordCost = 2906
  GasLimits <- Budgets
  WordCounts <- Words
  GasSettings <- Generous
INVARIANTS
  WholeBudget
  NeverShort
CHECK_DEADLOCK FALSE
