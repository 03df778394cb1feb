SPECIFICATION WalletSpec
CONSTANTS
  Publishers = {p1}
  Poll = poll
  Nobody = nobody
  Floor = 3
  ClaimMargin = 3
  ClaimCost = 1
  FulfilCost = 1
  FulfilCover = 2
  Fee = 4
  Funds = 3
  MaxFulfils = 2
  MaxRefusals = 1
INVARIANTS
  WalletTypeOK
  NonceIsNext
  FreshIsRecent
PROPERTIES
  ClaimsPay
  EarningsReachWallet
