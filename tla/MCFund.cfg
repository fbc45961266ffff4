\* One redeemer; an emission of at most two GBX.
CONSTANTS
  SetupAuthority = SetupAuthority
  MineAddr = MineAddr
  honest = honest
  alias = alias
  facade = facade
  taxed = taxed
  ledger1 = ledger1
  ledger2 = ledger2
  Tokens <- MCTokens
  Ledgers <- MCLedgers
  Reports <- MCReports
  AlsoDebits <- MCAlsoDebits
  Fee <- MCFee
  Selections <- MCSelections
  NumGBXHolders = 2
  NumAccounts = 1
  FundHolder = 1
  InitialGBX = 4
  InitialBacking = 5
  RedeemAmounts = {1, 2}
  BurnAmounts = {1}
  DepositAmounts = {2}
  MaxBacking = 7
  MaxPending = 2
  MaxMinted = 6
SPECIFICATION Spec
INVARIANTS
  HonestTokensRedeem
PROPERTIES
  RedemptionDoesNotDilute
CHECK_DEADLOCK FALSE
