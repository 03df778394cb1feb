SPECIFICATION SubSpec
CONSTANTS
  Addresses = {a1, a2}
  NoAddr = NoAddr
  Managers = {a1, a2}
  Offers = {a1, a2, NoAddr}
  MaxSubId = 2
  MaxCount = 1
  MaxUint96 = 2
  Deposits = {1, 3}
  Amounts = {0, 1}
INVARIANTS
  SubInv
  ActiveIdsExact
  ConsumerListExact
  Solvent
PROPERTIES
  ClosedForGood
CHECK_DEADLOCK FALSE
