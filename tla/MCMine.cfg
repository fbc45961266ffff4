\* Two slots, two users, who also donate USDG to the Mine and burn GBX, a halving at 2.
CONSTANTS
  SetupAuthority = SetupAuthority
  MineAddr = MineAddr
  NoAddress = NoAddress
  NumGBXHolders = 3
  Routers = {router1, router2}
  InitialRouter = router1
  Pair = 2
  NumAccounts = 2
  InitialUSDG = 4
  SLOT_COUNT = 2
  PRICE_DECAY_PERIOD = 2
  HALVING_PERIOD = 2
  BPS = 10
  PREVIOUS_MINER_BPS = 8
  PRICE_MULTIPLIER = 2
  MIN_INITIAL_PRICE = 3
  MAX_INITIAL_PRICE = 4
  INITIAL_TPS = 4
  TAIL_TPS = 2
  GENESIS_LIQUIDITY_GBX = 1
  MaxTime = 4
  MaxEpoch = 2
  Deadlines = {4}
  MaximumPayments = {4}
  Amounts = {3}
SPECIFICATION Spec
INVARIANTS
  TypeOK
  AggregateRateIsSum
  PendingIsSum
  IssuanceBounded
  ClaimsBacked
  IssuanceReconciles
PROPERTIES
  ImplementsIssuance
CHECK_DEADLOCK FALSE
