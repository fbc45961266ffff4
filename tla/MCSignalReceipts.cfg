\* Receipts and votes: two accounts, three strategies, nothing streams.
CONSTANTS
  NoToken = NoToken
  NoDelegate = NoDelegate
  Tokens = {token1}
  PaymentTokens = {token1}
  NumAccounts = 2
  NumStrategies = 3
  MAX_REWARD_TOKENS = 1
  REWARD_DURATION = 2
  REWARD_PRECISION = 1
  WORD_MAX = 2
  BPS = 10
  DEFAULT_BRIBE_BPS = 1
  MAX_BRIBE_BPS = 2
  MaxTime = 0
  SignalAmounts = {1}
  MaxSignal = 0
  InitialGBX = 2
  RevenueAmounts = {}
  MaxRevenue = 0
  RewardAmounts = {}
  BpsChoices = {2}
SPECIFICATION SignalSpec
INVARIANTS
  ReceiptsAreSignal
  VotesAreDelegated
CHECK_DEADLOCK FALSE
