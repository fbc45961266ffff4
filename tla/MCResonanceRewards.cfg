\* Rewards: the Bribe of one strategy, two accounts, one token, no revenue.
CONSTANTS
  NoToken = NoToken
  Tokens = {token1}
  PaymentTokens = {token1}
  NumAccounts = 2
  NumStrategies = 1
  MAX_REWARD_TOKENS = 2
  REWARD_DURATION = 2
  REWARD_PRECISION = 3
  WORD_MAX = 19
  BPS = 10
  DEFAULT_BRIBE_BPS = 1
  MAX_BRIBE_BPS = 2
  MaxTime = 4
  SignalAmounts = {1, 2}
  MaxSignal = 2
  RevenueAmounts = {}
  MaxRevenue = 0
  RewardAmounts = {3}
  BpsChoices = {}
SPECIFICATION Spec
INVARIANTS
  RewardsBacked
PROPERTIES
  RewardsOnlyPaid
CHECK_DEADLOCK FALSE
