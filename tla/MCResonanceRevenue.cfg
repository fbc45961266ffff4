\* Revenue: two strategies, one account, no rewards, with the fairness of the Router.
CONSTANTS
  NoToken = NoToken
  Tokens = {token1}
  PaymentTokens = {token1}
  NumAccounts = 1
  NumStrategies = 2
  MAX_REWARD_TOKENS = 1
  REWARD_DURATION = 2
  REWARD_PRECISION = 3
  WORD_MAX = 18
  BPS = 10
  DEFAULT_BRIBE_BPS = 1
  MAX_BRIBE_BPS = 2
  MaxTime = 3
  SignalAmounts = {1}
  MaxSignal = 2
  RevenueAmounts = {1, 3}
  MaxRevenue = 6
  RewardAmounts = {}
  BpsChoices = {}
SPECIFICATION HeldSpec
INVARIANTS
  RevenueBacked
  RoutedStreamsPay
PROPERTIES
  HeldRevenueIsRouted
  EarnedOnlyPaid
  DeadStrategiesEarnNothing
CHECK_DEADLOCK FALSE
