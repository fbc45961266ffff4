\* Exits: one account, two strategies, revenue and rewards up to the lifetime caps.
CONSTANTS
  NoToken = NoToken
  NoDelegate = NoDelegate
  Tokens = {token1}
  PaymentTokens = {token1}
  NumAccounts = 1
  NumStrategies = 2
  MAX_REWARD_TOKENS = 1
  REWARD_DURATION = 1
  REWARD_PRECISION = 2
  WORD_MAX = 9
  BPS = 10
  DEFAULT_BRIBE_BPS = 1
  MAX_BRIBE_BPS = 2
  MaxTime = 1
  SignalAmounts = {1}
  MaxSignal = 0
  InitialGBX = 2
  RevenueAmounts = {2}
  MaxRevenue = 4
  RewardAmounts = {4}
  BpsChoices = {}
SPECIFICATION SignalSpec
INVARIANTS
  ExitsStayOpen
CHECK_DEADLOCK FALSE
