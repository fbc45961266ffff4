-------------------------------- MODULE Bribe --------------------------------
(***************************************************************************)
(* The Bribes (core/Bribe.sol), one per strategy: the signal weights of    *)
(* the accounts that signal the strategy and one reward stream per         *)
(* registered ERC-20.  Weights change only on calls of Resonance; anyone   *)
(* may fund a registered token; an account claims for itself, or Resonance *)
(* claims for it.                                                          *)
(*                                                                         *)
(* A Bribe is identified with its strategy, which is bound to it forever.  *)
(***************************************************************************)
EXTENDS Sums, RewardStream, FiniteSets

CONSTANTS
  NumAccounts,        \* accounts that signal, numbered from 0
  NumStrategies,      \* strategies that may ever be added, numbered from 0
  Tokens,             \* ERC-20 tokens that may become rewards (never sGBX)
  MAX_REWARD_TOKENS,
  MaxTime             \* bound: last block timestamp

Accounts == 0 .. NumAccounts - 1
Strategies == 0 .. NumStrategies - 1
Times == 0 .. MaxTime

ASSUME BribeConstants ==
  /\ NumAccounts \in Nat \ {0}
  /\ NumStrategies \in Nat \ {0}
  /\ MAX_REWARD_TOKENS \in Nat \ {0}
  /\ MaxTime \in Nat

VARIABLES
  now,             \* block.timestamp
  weightOf,        \* signalWeightOf of each Bribe
  bribeWeight,     \* totalSignalWeight of each Bribe
  rewardTokens,    \* the registered tokens of each Bribe
  reward,          \* rewardData, rewards, paid indexes and lifetime per token
  bribeBalance     \* what each Bribe holds of each token

bribeVars == <<weightOf, bribeWeight, rewardTokens, reward, bribeBalance>>

BribeTypeOK ==
  /\ now \in Times
  /\ weightOf \in [Strategies -> [Accounts -> Nat]]
  /\ bribeWeight \in [Strategies -> Nat]
  /\ rewardTokens \in [Strategies -> SUBSET Tokens]
  /\ reward \in [Strategies -> [Tokens -> Stream(Accounts)]]
  /\ bribeBalance \in [Strategies -> [Tokens -> Nat]]

BribeInit ==
  /\ now = 0
  /\ weightOf = [s \in Strategies |-> [a \in Accounts |-> 0]]
  /\ bribeWeight = [s \in Strategies |-> 0]
  /\ rewardTokens = [s \in Strategies |-> {}]
  /\ reward = [s \in Strategies |-> [t \in Tokens |-> NewStream(Accounts)]]
  /\ bribeBalance = [s \in Strategies |-> [t \in Tokens |-> 0]]

-----------------------------------------------------------------------------
BribeIndexFits(s, t) == IndexFits(reward[s][t], now, bribeWeight[s])

RewardEarned(s, t, a) == Earned(reward[s][t], now, bribeWeight[s], weightOf[s], a)

RewardSettled(s, t, a) == Settled(reward[s][t], now, bribeWeight[s], weightOf[s], {a})

(* _updateAllRewards. *)
AllRewardsSettled(s, a) ==
  [t \in Tokens |-> IF t \in rewardTokens[s] THEN RewardSettled(s, t, a) ELSE reward[s][t]]

(* What an update of all registered tokens of these Bribes may not exceed.  *)
UpdateFits(bribes) == \A s \in bribes : \A t \in rewardTokens[s] : BribeIndexFits(s, t)

Touched(allocation) == {s \in Strategies : allocation[s] # 0}

Bug_WeightChangedFirst(account, bribes) == reward

RewardsSettledFor(account, bribes) ==
  [s \in Strategies |-> IF s \in bribes THEN AllRewardsSettled(s, account) ELSE reward[s]]

(* addSignalWeight, once for each strategy that allocation gives something. *)
(* Settling twice at one timestamp changes nothing more, so the calls of    *)
(* one transaction may be taken together.                                   *)
AddSignalWeight(account, allocation) ==
  /\ UpdateFits(Touched(allocation))
  /\ reward' = RewardsSettledFor(account, Touched(allocation))
  /\ bribeWeight' = [s \in Strategies |-> bribeWeight[s] + allocation[s]]
  /\ weightOf' = [s \in Strategies |-> [weightOf[s] EXCEPT ![account] = @ + allocation[s]]]
  /\ UNCHANGED <<rewardTokens, bribeBalance>>

RemoveSignalWeight(account, allocation) ==
  /\ UpdateFits(Touched(allocation))
  /\ \A s \in Strategies : allocation[s] <= weightOf[s][account] /\ allocation[s] <= bribeWeight[s]
  /\ reward' = RewardsSettledFor(account, Touched(allocation))
  /\ bribeWeight' = [s \in Strategies |-> bribeWeight[s] - allocation[s]]
  /\ weightOf' = [s \in Strategies |-> [weightOf[s] EXCEPT ![account] = @ - allocation[s]]]
  /\ UNCHANGED <<rewardTokens, bribeBalance>>

AddRewardToken(s, t) ==
  /\ t \notin rewardTokens[s]
  /\ Cardinality(rewardTokens[s]) # MAX_REWARD_TOKENS
  /\ rewardTokens' = [rewardTokens EXCEPT ![s] = @ \cup {t}]
  /\ UNCHANGED <<weightOf, bribeWeight, reward, bribeBalance>>

(* notifyReward, which anyone may call; the caller transfers amount.        *)
NotifyReward(s, t, amount) ==
  /\ t \in rewardTokens[s]
  /\ amount >= REWARD_DURATION
  /\ WithinLifetime(reward[s][t], amount)
  /\ Rollover(reward[s][t], now, amount)
  /\ BribeIndexFits(s, t)
  /\ reward' = [reward EXCEPT ![s][t] = Notified(@, now, bribeWeight[s], weightOf[s], amount)]
  /\ bribeBalance' = [bribeBalance EXCEPT ![s][t] = @ + amount]
  /\ UNCHANGED <<weightOf, bribeWeight, rewardTokens>>

(* claimReward and claimRewards settle the tokens of claims[s] in the Bribe *)
(* of each s and pay the account all it is owed of them; a token the Bribe  *)
(* does not hold enough of reverts everything.                              *)
Claim(account, claims) ==
  /\ \A s \in Strategies : \A t \in claims[s] :
       /\ BribeIndexFits(s, t)
       /\ RewardEarned(s, t, account) <= bribeBalance[s][t]
  /\ reward' = [s \in Strategies |-> [t \in Tokens |->
                  IF t \in claims[s] THEN Paid(RewardSettled(s, t, account), account)
                  ELSE reward[s][t]]]
  /\ bribeBalance' = [s \in Strategies |-> [t \in Tokens |->
                  IF t \in claims[s] THEN bribeBalance[s][t] - RewardEarned(s, t, account)
                  ELSE bribeBalance[s][t]]]
  /\ UNCHANGED <<weightOf, bribeWeight, rewardTokens>>

(* claimReward by the account itself. *)
ClaimReward(account, s, t) ==
  /\ t \in rewardTokens[s]
  /\ Claim(account, [z \in Strategies |-> IF z = s THEN {t} ELSE {}])

(* claimRewards of the Bribes of the strategies in bribes. *)
ClaimRewards(account, bribes) ==
  Claim(account, [s \in Strategies |-> IF s \in bribes THEN rewardTokens[s] ELSE {}])

-----------------------------------------------------------------------------
(* Correctness. *)

(* Every Bribe holds, of every reward token, at least what it would have to *)
(* pay if every account claimed now and what it still has to stream:        *)
(* rounding, claims in any order, weight changes and rollovers included.    *)
RewardsBacked ==
  \A s \in Strategies, t \in Tokens :
    PartialSum([a \in Accounts |-> RewardEarned(s, t, a)], NumAccounts)
      + Remaining(reward[s][t], now) <= bribeBalance[s][t]

(* The weight a Bribe divides its rewards by is the sum of the weights it   *)
(* shares them out by.                                                      *)
BribeWeightIsSum ==
  \A s \in Strategies : bribeWeight[s] = PartialSum(weightOf[s], NumAccounts)
=============================================================================
