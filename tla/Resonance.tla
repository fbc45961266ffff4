------------------------------ MODULE Resonance ------------------------------
(***************************************************************************)
(* Resonance (core/Resonance.sol) with its ResonanceRouter                 *)
(* (core/ResonanceRouter.sol) and the Bribes of its strategies.  Accounts  *)
(* signal for strategies through SignalGBX; USDG that the Router has       *)
(* collected is streamed to the live strategies in proportion to their     *)
(* signal; the owner adds and kills strategies.  A strategy's Bribe and    *)
(* BribeRouter are created with it and share its number.                   *)
(*                                                                         *)
(* One action is one transaction; Tick moves to a later block.             *)
(***************************************************************************)
EXTENDS Bribe

CONSTANTS
  PaymentTokens,     \* tokens a strategy may be paid in (never sGBX)
  SignalAmounts,     \* bound: amounts signalled or withdrawn in one call
  RevenueAmounts,    \* bound: amounts the Router receives at once
  RewardAmounts,     \* bound: amounts funded into a Bribe at once
  MaxSignal,         \* bound: GBX an account has to signal with
  MaxRevenue,        \* bound: USDG the Router receives altogether
  BpsChoices,        \* bound: bribe shares the owner may set
  BPS, DEFAULT_BRIBE_BPS, MAX_BRIBE_BPS,
  NoToken            \* payment token of a strategy that does not exist yet

ASSUME ResonanceConstants ==
  /\ PaymentTokens \subseteq Tokens
  /\ SignalAmounts \subseteq Nat
  /\ RevenueAmounts \subseteq Nat
  /\ RewardAmounts \subseteq Nat
  /\ MaxSignal \in Nat
  /\ MaxRevenue \in Nat
  /\ BpsChoices \subseteq Nat
  /\ BPS \in Nat \ {0}
  /\ MAX_BRIBE_BPS \in 0 .. BPS
  /\ DEFAULT_BRIBE_BPS \in 0 .. MAX_BRIBE_BPS
  /\ NoToken \notin Tokens

VARIABLES
  revenue,             \* revenueData, strategyRevenue, paid indexes, lifetime
  totalSignalWeight,
  registered,          \* isStrategyRegistered
  live,                \* isStrategyLive
  liveStrategyCount,
  paymentToken,        \* each strategy's immutable payment token
  routerBound,         \* whether resonanceRouter is the Router
  bribeBps,
  resonanceUSDG,       \* USDG held by Resonance
  routerUSDG,          \* USDG held by the ResonanceRouter
  strategyUSDG         \* USDG held by each strategy

lifecycleVars == <<registered, live, liveStrategyCount, paymentToken>>
configVars == <<routerBound, bribeBps>>
usdgVars == <<resonanceUSDG, routerUSDG, strategyUSDG>>
resonanceVars == <<revenue, totalSignalWeight, lifecycleVars, configVars, usdgVars>>
vars == <<now, bribeVars, resonanceVars>>

TypeOK ==
  /\ BribeTypeOK
  /\ revenue \in Stream(Strategies)
  /\ totalSignalWeight \in Nat
  /\ registered \subseteq Strategies
  /\ live \subseteq registered
  /\ liveStrategyCount \in Nat
  /\ paymentToken \in [Strategies -> PaymentTokens \cup {NoToken}]
  /\ routerBound \in BOOLEAN
  /\ bribeBps \in 0 .. MAX_BRIBE_BPS
  /\ resonanceUSDG \in Nat
  /\ routerUSDG \in Nat
  /\ strategyUSDG \in [Strategies -> Nat]

Init ==
  /\ BribeInit
  /\ revenue = NewStream(Strategies)
  /\ totalSignalWeight = 0
  /\ registered = {}
  /\ live = {}
  /\ liveStrategyCount = 0
  /\ paymentToken = [s \in Strategies |-> NoToken]
  /\ routerBound = FALSE
  /\ bribeBps = DEFAULT_BRIBE_BPS
  /\ resonanceUSDG = 0
  /\ routerUSDG = 0
  /\ strategyUSDG = [s \in Strategies |-> 0]

-----------------------------------------------------------------------------
Bug_DeadStrategiesWeigh == bribeWeight

(* The weight _updateRevenue credits a strategy with. *)
ActiveWeights == [s \in Strategies |-> IF s \in live THEN bribeWeight[s] ELSE 0]

RevenueEarned(s) == Earned(revenue, now, totalSignalWeight, ActiveWeights, s)

RevenueIndexFits == IndexFits(revenue, now, totalSignalWeight)

(* _updateRevenue for each of these strategies; settling several at one     *)
(* timestamp is settling them one after the other.                          *)
RevenueSettled(strategies) == Settled(revenue, now, totalSignalWeight, ActiveWeights, strategies)

Bug_DeadAmountToo(allocation) == PartialSum(allocation, NumStrategies)

(* What an allocation moves totalSignalWeight by. *)
LiveAmount(allocation) ==
  PartialSum([s \in Strategies |-> IF s \in live THEN allocation[s] ELSE 0], NumStrategies)

Bug_AddBeforeCheckpoint(account, allocation) ==
  /\ Touched(allocation) # {}
  /\ Touched(allocation) \subseteq live
  /\ RevenueIndexFits
  /\ revenue' = RevenueSettled({})
  /\ totalSignalWeight' = totalSignalWeight + LiveAmount(allocation)
  /\ AddSignalWeight(account, allocation)
  /\ UNCHANGED <<now, lifecycleVars, configVars, usdgVars>>

(* addSignalFor, called by SignalGBX for each strategy that allocation      *)
(* gives something.                                                         *)
AddSignalFor(account, allocation) ==
  /\ Touched(allocation) # {}
  /\ Touched(allocation) \subseteq live
  /\ RevenueIndexFits
  /\ revenue' = RevenueSettled(Touched(allocation))
  /\ totalSignalWeight' = totalSignalWeight + LiveAmount(allocation)
  /\ AddSignalWeight(account, allocation)
  /\ UNCHANGED <<now, lifecycleVars, configVars, usdgVars>>

Bug_RemoveFromLiveOnly(account, allocation) ==
  /\ Touched(allocation) # {}
  /\ Touched(allocation) \subseteq live
  /\ \A s \in Strategies : allocation[s] <= weightOf[s][account]
  /\ RevenueIndexFits
  /\ LiveAmount(allocation) <= totalSignalWeight
  /\ revenue' = RevenueSettled(Touched(allocation))
  /\ totalSignalWeight' = totalSignalWeight - LiveAmount(allocation)
  /\ RemoveSignalWeight(account, allocation)
  /\ UNCHANGED <<now, lifecycleVars, configVars, usdgVars>>

(* removeSignalFor: a dead strategy's signal may be withdrawn too, and has  *)
(* left totalSignalWeight already.                                          *)
RemoveSignalFor(account, allocation) ==
  /\ Touched(allocation) # {}
  /\ Touched(allocation) \subseteq registered
  /\ \A s \in Strategies : allocation[s] <= weightOf[s][account]
  /\ RevenueIndexFits
  /\ LiveAmount(allocation) <= totalSignalWeight      \* checked subtraction
  /\ revenue' = RevenueSettled(Touched(allocation))
  /\ totalSignalWeight' = totalSignalWeight - LiveAmount(allocation)
  /\ RemoveSignalWeight(account, allocation)
  /\ UNCHANGED <<now, lifecycleVars, configVars, usdgVars>>

(* claimBribeRewards. *)
ClaimBribeRewards(account, strategies) ==
  /\ strategies # {}
  /\ strategies \subseteq registered
  /\ ClaimRewards(account, strategies)
  /\ UNCHANGED <<now, resonanceVars>>

(* notifyRevenue, which only the bound Router calls. *)
NotifyRevenue(amount) ==
  /\ routerBound
  /\ amount # 0
  /\ WithinLifetime(revenue, amount)
  /\ Rollover(revenue, now, amount)
  /\ RevenueIndexFits
  /\ revenue' = Notified(revenue, now, totalSignalWeight, ActiveWeights, amount)
  /\ resonanceUSDG' = resonanceUSDG + amount

Bug_MinimumIsRemaining == Remaining(revenue, now)

Bug_MinimumIsWholeStream ==
  IF revenue.rate = 0 THEN REWARD_DURATION ELSE revenue.rate * REWARD_DURATION

RouteMinimum ==
  LET minimum == Remaining(revenue, now)
  IN  IF minimum < REWARD_DURATION THEN REWARD_DURATION ELSE minimum

(* ResonanceRouter.route: a balance below the minimum is held, which        *)
(* changes nothing; otherwise the whole balance is notified.                *)
Route ==
  /\ routerUSDG # 0
  /\ routerUSDG >= RouteMinimum
  /\ NotifyRevenue(routerUSDG)
  /\ routerUSDG' = 0
  /\ UNCHANGED <<now, totalSignalWeight, lifecycleVars, configVars, strategyUSDG, bribeVars>>

DistributedRevenue(s) == Paid(RevenueSettled({s}), s)

(* distributeRevenue. *)
DistributeRevenue(s) ==
  /\ s \in registered
  /\ RevenueIndexFits
  /\ RevenueEarned(s) <= resonanceUSDG                \* else the transfer reverts
  /\ revenue' = DistributedRevenue(s)
  /\ resonanceUSDG' = resonanceUSDG - RevenueEarned(s)
  /\ strategyUSDG' = [strategyUSDG EXCEPT ![s] = @ + RevenueEarned(s)]
  /\ UNCHANGED <<now, totalSignalWeight, lifecycleVars, configVars, routerUSDG, bribeVars>>

(* setResonanceRouter, once; the candidate names this Resonance and USDG.   *)
SetResonanceRouter ==
  /\ ~routerBound
  /\ routerBound' = TRUE
  /\ UNCHANGED <<now, revenue, totalSignalWeight, lifecycleVars, bribeBps, usdgVars, bribeVars>>

SetBribeBps(newBribeBps) ==
  /\ newBribeBps <= MAX_BRIBE_BPS
  /\ bribeBps' = newBribeBps
  /\ UNCHANGED <<now, revenue, totalSignalWeight, lifecycleVars, routerBound, usdgVars, bribeVars>>

(* addStrategy: the factories make a Strategy, its Bribe and its BribeRouter *)
(* at fresh addresses, which are numbered in the order they are created;    *)
(* the payment token is the Bribe's first reward token.                     *)
AddStrategy(s, token) ==
  /\ registered = 0 .. s - 1
  /\ AddRewardToken(s, token)
  /\ paymentToken' = [paymentToken EXCEPT ![s] = token]
  /\ registered' = registered \cup {s}
  /\ live' = live \cup {s}
  /\ liveStrategyCount' = liveStrategyCount + 1
  /\ revenue' = [revenue EXCEPT !.paid[s] = revenue.stored]
  /\ UNCHANGED <<now, totalSignalWeight, configVars, usdgVars>>

KillStrategy(s) ==
  /\ s \in registered
  /\ s \in live
  /\ liveStrategyCount # 1
  /\ RevenueIndexFits
  /\ bribeWeight[s] <= totalSignalWeight              \* checked subtraction
  /\ revenue' = RevenueSettled({s})
  /\ live' = live \ {s}
  /\ liveStrategyCount' = liveStrategyCount - 1
  /\ totalSignalWeight' = totalSignalWeight - bribeWeight[s]
  /\ UNCHANGED <<now, registered, paymentToken, configVars, usdgVars, bribeVars>>

AddBribeRewardToken(s, token) ==
  /\ s \in registered
  /\ AddRewardToken(s, token)
  /\ UNCHANGED <<now, resonanceVars>>

(* The Bribe calls that do not come from Resonance. *)
FundBribe(s, token, amount) ==
  /\ NotifyReward(s, token, amount)
  /\ UNCHANGED <<now, resonanceVars>>

ClaimBribeReward(account, s, token) ==
  /\ ClaimReward(account, s, token)
  /\ UNCHANGED <<now, resonanceVars>>

(* USDG reaches the Router from the Mine, or from anybody. *)
DepositRevenue(amount) ==
  /\ routerUSDG' = routerUSDG + amount
  /\ UNCHANGED <<now, revenue, totalSignalWeight, lifecycleVars, configVars,
                 resonanceUSDG, strategyUSDG, bribeVars>>

Tick ==
  /\ now < MaxTime
  /\ now' = now + 1
  /\ UNCHANGED <<bribeVars, resonanceVars>>

-----------------------------------------------------------------------------
Allocations == [Strategies -> SignalAmounts \cup {0}]

SignalOf(account) == PartialSum([s \in Strategies |-> weightOf[s][account]], NumStrategies)

HasGBXFor(account, allocation) ==
  SignalOf(account) + PartialSum(allocation, NumStrategies) <= MaxSignal

SignalCalls ==
  \E account \in Accounts, allocation \in Allocations :
    \/ HasGBXFor(account, allocation) /\ AddSignalFor(account, allocation)
    \/ RemoveSignalFor(account, allocation)

RevenueCalls ==
  \/ Route
  \/ \E s \in Strategies : DistributeRevenue(s)
  \/ \E amount \in RevenueAmounts :
       routerUSDG + revenue.notified + amount <= MaxRevenue /\ DepositRevenue(amount)

NewStrategies == \E s \in Strategies, token \in PaymentTokens : AddStrategy(s, token)

OwnerCalls ==
  \/ SetResonanceRouter
  \/ \E newBribeBps \in BpsChoices : SetBribeBps(newBribeBps)
  \/ \E s \in Strategies : KillStrategy(s)
  \/ \E s \in Strategies, token \in Tokens : AddBribeRewardToken(s, token)

RewardCalls ==
  \/ \E account \in Accounts, strategies \in SUBSET Strategies : ClaimBribeRewards(account, strategies)
  \/ \E s \in Strategies, token \in Tokens :
       \/ \E amount \in RewardAmounts : FundBribe(s, token, amount)
       \/ \E account \in Accounts : ClaimBribeReward(account, s, token)

Next == SignalCalls \/ RevenueCalls \/ NewStrategies \/ OwnerCalls \/ RewardCalls \/ Tick

Spec == Init /\ [][Next]_vars
-----------------------------------------------------------------------------
(* Correctness. *)

(* Resonance divides revenue by the sum of the weights it shares it out by: *)
(* the signal of the live strategies, however signal was added, withdrawn,  *)
(* left in a dead strategy, or withdrawn from one.                          *)
SignalTotals ==
  /\ totalSignalWeight = PartialSum(ActiveWeights, NumStrategies)
  /\ BribeWeightIsSum

(* Resonance holds at least what every strategy could have distributed now  *)
(* and what is still to stream, and its state keeps its types.              *)
RevenueBacked ==
  /\ TypeOK
  /\ PartialSum([s \in Strategies |-> RevenueEarned(s)], NumStrategies)
       + Remaining(revenue, now) <= resonanceUSDG

(* The Router never lets a stream begin that pays nothing per second, which *)
(* notifyRevenue itself does not check.                                     *)
RoutedStreamsPay == now < revenue.finish => revenue.rate > 0

(* At one timestamp no transaction changes what a strategy has earned,      *)
(* except the one that pays it all out: a change of weight, of liveness or  *)
(* of the stream never reaches back into what was earned before it.         *)
EarnedOnlyPaid ==
  [][now' = now =>
       \A s \in Strategies :
         \/ RevenueEarned(s)' = RevenueEarned(s)
         \/ /\ RevenueEarned(s)' = 0
            /\ strategyUSDG'[s] = strategyUSDG[s] + RevenueEarned(s)]_vars

(* The same for the rewards of every account in every Bribe. *)
RewardsOnlyPaid ==
  [][now' = now =>
       \A s \in Strategies, t \in Tokens, a \in Accounts :
         \/ RewardEarned(s, t, a)' = RewardEarned(s, t, a)
         \/ /\ RewardEarned(s, t, a)' = 0
            /\ bribeBalance'[s][t] = bribeBalance[s][t] - RewardEarned(s, t, a)]_vars

(* A killed strategy earns nothing more, and nothing that happens to its    *)
(* signal gives it any.                                                     *)
DeadStrategiesEarnNothing ==
  [][\A s \in registered \ live : RevenueEarned(s)' <= RevenueEarned(s)]_vars

-----------------------------------------------------------------------------
(* What the Router holds back is only held up.  route() is permissionless   *)
(* and pays nobody, so that somebody calls it again and again is an         *)
(* assumption about its users, as it is the contract's own; and time goes   *)
(* on.                                                                      *)
Fairness == WF_vars(Tick) /\ WF_vars(Route)

HeldSpec == Spec /\ Fairness

(* A balance that makes a stream and that the lifetime cap allows does not  *)
(* stay in the Router: the minimum it waits for falls with the stream that  *)
(* is running, to the least there is when that ends (by the bound of time). *)
HeldRevenueIsRouted ==
  (/\ routerBound
   /\ routerUSDG >= REWARD_DURATION
   /\ WithinLifetime(revenue, routerUSDG)
   /\ revenue.finish <= MaxTime)
  ~> (routerUSDG = 0 \/ ~WithinLifetime(revenue, routerUSDG))
=============================================================================
