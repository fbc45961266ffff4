\* One Strategy, many epochs; nothing funds its Bribe directly.
CONSTANTS
  NoToken = NoToken
  Tokens = {token1}
  PaymentTokens = {token1}
  NumAccounts = 1
  NumStrategies = 1
  MAX_REWARD_TOKENS = 1
  REWARD_DURATION = 2
  REWARD_PRECISION = 2
  WORD_MAX = 13
  BPS = 4
  DEFAULT_BRIBE_BPS = 1
  MAX_BRIBE_BPS = 2
  MaxTime = 5
  SignalAmounts = {1}
  MaxSignal = 2
  RevenueAmounts = {2}
  MaxRevenue = 6
  RewardAmounts = {}
  BpsChoices = {2}
  ConfigInitialPrice = 5
  EPOCH_DURATION = 2
  PRICE_MULTIPLIER = 3
  PRICE_SCALE = 2
  MINIMUM_PRICE = 4
  ABSOLUTE_MAXIMUM_PRICE = 6
  MaxEpoch = 2
  Deadlines = {2, 5}
  MaximumPayments = {4, 6}
SPECIFICATION StrategySpec
INVARIANTS
  RevenueConserved
  PaymentsReachRecipients
  RewardsRoutable
CHECK_DEADLOCK FALSE
