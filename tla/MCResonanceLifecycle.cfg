\* Lifecycle: three strategies, two accounts, two tokens; nothing is funded.
CONSTANTS
  NoToken = NoToken
  Tokens = {token1, token2}
  PaymentTokens = {token1}
  NumAccounts = 2
  NumStrategies = 3
  MAX_REWARD_TOKENS = 2
  REWARD_DURATION = 2
  REWARD_PRECISION = 1
  WORD_MAX = 2
  BPS = 10
  DEFAULT_BRIBE_BPS = 1
  MAX_BRIBE_BPS = 2
  MaxTime = 0
  SignalAmounts = {1}
  MaxSignal = 2
  RevenueAmounts = {}
  MaxRevenue = 0
  RewardAmounts = {}
  BpsChoices = {2, 3}
SPECIFICATION Spec
INVARIANTS
  SignalTotals
CHECK_DEADLOCK FALSE
