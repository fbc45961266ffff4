------------------------------ MODULE Strategy ------------------------------
(***************************************************************************)
(* The Strategies (core/Strategy.sol) and BribeRouters                     *)
(* (core/BribeRouter.sol) on top of Resonance: each Strategy sells the     *)
(* USDG it has earned in a continuous reverse Dutch auction for its        *)
(* payment token, and splits the payment between the Fund and, through its *)
(* BribeRouter, the accounts that signal for it.                           *)
(*                                                                         *)
(* buy() calls the payment token before it has finished, and the token may *)
(* call the buyer, who may call the protocol.  A purchase with a payment   *)
(* is therefore two steps, BuyBegin up to the call and BuyFinish after it, *)
(* and every other operation may run in between, purchases from other      *)
(* Strategies included; the open purchases are a stack.  A purchase whose  *)
(* second part fails is reverted with all that it contains and so never    *)
(* happened: PurchasesComplete shows that it does not fail.                *)
(***************************************************************************)
EXTENDS Resonance, Sequences

CONSTANTS
  ConfigInitialPrice, EPOCH_DURATION, PRICE_MULTIPLIER, MINIMUM_PRICE,  \* Config
  PRICE_SCALE, ABSOLUTE_MAXIMUM_PRICE,
  MaxEpoch,          \* bound: largest epoch id an order may name
  Deadlines,         \* bound: deadlines an order may name
  MaximumPayments    \* bound: price limits an order may name

ASSUME StrategyConstants ==
  /\ EPOCH_DURATION \in Nat \ {0}
  /\ PRICE_SCALE \in Nat \ {0}
  /\ PRICE_MULTIPLIER \in Nat
  /\ MINIMUM_PRICE \in 1 .. ABSOLUTE_MAXIMUM_PRICE
  /\ ABSOLUTE_MAXIMUM_PRICE \in Nat
  /\ ConfigInitialPrice \in MINIMUM_PRICE .. ABSOLUTE_MAXIMUM_PRICE
  /\ MaxEpoch \in Nat
  /\ Deadlines \subseteq Nat
  /\ MaximumPayments \subseteq Nat

VARIABLES
  epochId, initialPrice, epochStartedAt,  \* of each Strategy
  purchases,         \* the calls of buy() that are open, the innermost first
  fundBalance,       \* payment tokens the Fund has received
  bribeRouterBalance,\* payment tokens each BribeRouter holds
  takenIn,           \* all payments made so far
  soldUSDG           \* all USDG that buyers have received

auctionVars == <<epochId, initialPrice, epochStartedAt>>
paymentVars == <<fundBalance, bribeRouterBalance, takenIn, soldUSDG>>
strategyVars == <<auctionVars, purchases, paymentVars>>
allVars == <<vars, strategyVars>>

Purchase ==
  [strategy: Strategies, epoch: Nat, revenue: Nat \ {0}, payment: Nat \ {0}, bps: 0 .. MAX_BRIBE_BPS]

StrategyTypeOK ==
  /\ TypeOK
  /\ epochId \in [Strategies -> Nat]
  /\ initialPrice \in [Strategies -> 0 .. ABSOLUTE_MAXIMUM_PRICE]
  /\ epochStartedAt \in [Strategies -> Times]
  /\ purchases \in Seq(Purchase)
  /\ fundBalance \in Nat
  /\ bribeRouterBalance \in [Strategies -> Nat]
  /\ takenIn \in Nat
  /\ soldUSDG \in Nat

StrategyInit ==
  /\ Init
  /\ epochId = [s \in Strategies |-> 0]
  /\ initialPrice = [s \in Strategies |-> 0]
  /\ epochStartedAt = [s \in Strategies |-> 0]
  /\ purchases = << >>
  /\ fundBalance = 0
  /\ bribeRouterBalance = [s \in Strategies |-> 0]
  /\ takenIn = 0
  /\ soldUSDG = 0

-----------------------------------------------------------------------------
CurrentPrice(s) ==
  LET elapsed == now - epochStartedAt[s]
  IN  IF elapsed >= EPOCH_DURATION
      THEN 0
      ELSE initialPrice[s] - (initialPrice[s] * elapsed) \div EPOCH_DURATION

NextInitialPrice(payment) ==
  LET raised == (payment * PRICE_MULTIPLIER) \div PRICE_SCALE
  IN  IF raised > ABSOLUTE_MAXIMUM_PRICE THEN ABSOLUTE_MAXIMUM_PRICE
      ELSE IF raised < MINIMUM_PRICE THEN MINIMUM_PRICE
      ELSE raised

Open == {purchases[n].strategy : n \in DOMAIN purchases}

Bug_OnlyWhatIsHeld(s) == strategyUSDG[s]

(* The USDG a purchase delivers: what the Strategy holds once Resonance has *)
(* distributed everything it has earned until now.                          *)
RevenueAmount(s) == strategyUSDG[s] + RevenueEarned(s)

Bug_NoLock(s, expectedEpochId, deadline, maximumPayment) ==
  /\ now <= deadline
  /\ expectedEpochId = epochId[s]
  /\ RevenueAmount(s) # 0
  /\ CurrentPrice(s) <= maximumPayment

(* The lock of buy(), its checks, and its call of distributeRevenue.        *)
OrderIsGood(s, expectedEpochId, deadline, maximumPayment) ==
  /\ s \notin Open
  /\ now <= deadline
  /\ expectedEpochId = epochId[s]
  /\ RevenueAmount(s) # 0
  /\ CurrentPrice(s) <= maximumPayment

StartNextEpoch(s, payment) ==
  /\ initialPrice' = [initialPrice EXCEPT ![s] = NextInitialPrice(payment)]
  /\ epochStartedAt' = [epochStartedAt EXCEPT ![s] = now]
  /\ epochId' = [epochId EXCEPT ![s] = @ + 1]

(* buy() at price zero calls no payment token.                              *)
BuyForNothing(s, expectedEpochId, deadline) ==
  /\ OrderIsGood(s, expectedEpochId, deadline, 0)
  /\ RevenueIndexFits
  /\ revenue' = DistributedRevenue(s)
  /\ resonanceUSDG' = resonanceUSDG - RevenueEarned(s)
  /\ strategyUSDG' = [strategyUSDG EXCEPT ![s] = 0]
  /\ soldUSDG' = soldUSDG + RevenueAmount(s)
  /\ StartNextEpoch(s, 0)
  /\ UNCHANGED <<now, totalSignalWeight, lifecycleVars, configVars, routerUSDG, bribeVars,
                 purchases, fundBalance, bribeRouterBalance, takenIn>>

Bug_SnapshotBeforeRelease(s, expectedEpochId, deadline, maximumPayment) ==
  /\ OrderIsGood(s, expectedEpochId, deadline, maximumPayment)
  /\ CurrentPrice(s) # 0
  /\ strategyUSDG[s] # 0
  /\ DistributeRevenue(s)
  /\ purchases' = <<[strategy |-> s, epoch |-> expectedEpochId, revenue |-> strategyUSDG[s],
                     payment |-> CurrentPrice(s), bps |-> bribeBps]>> \o purchases
  /\ UNCHANGED <<auctionVars, paymentVars>>

(* buy() up to its call of the payment token. *)
BuyBegin(s, expectedEpochId, deadline, maximumPayment) ==
  /\ OrderIsGood(s, expectedEpochId, deadline, maximumPayment)
  /\ CurrentPrice(s) # 0
  /\ DistributeRevenue(s)
  /\ purchases' = <<[strategy |-> s, epoch |-> expectedEpochId, revenue |-> RevenueAmount(s),
                     payment |-> CurrentPrice(s), bps |-> bribeBps]>> \o purchases
  /\ UNCHANGED <<auctionVars, paymentVars>>

BribeShare(purchase) == (purchase.payment * purchase.bps) \div BPS

Bug_FundShareRoundedDown(purchase) ==
  /\ fundBalance' = fundBalance + (purchase.payment * (BPS - purchase.bps)) \div BPS
  /\ bribeRouterBalance' = [bribeRouterBalance EXCEPT ![purchase.strategy] = @ + BribeShare(purchase)]
  /\ takenIn' = takenIn + purchase.payment

(* _settlePayment: the Bribe's share goes to the BribeRouter that Resonance *)
(* names, the rest to the Fund.                                             *)
SettlePayment(purchase) ==
  /\ fundBalance' = fundBalance + (purchase.payment - BribeShare(purchase))
  /\ bribeRouterBalance' = [bribeRouterBalance EXCEPT ![purchase.strategy] = @ + BribeShare(purchase)]
  /\ takenIn' = takenIn + purchase.payment

(* The rest of buy(). *)
BuyFinish ==
  /\ purchases # << >>
  /\ LET purchase == Head(purchases)
         s == purchase.strategy
     IN  /\ purchase.revenue <= strategyUSDG[s]        \* else the transfer reverts
         /\ SettlePayment(purchase)
         /\ strategyUSDG' = [strategyUSDG EXCEPT ![s] = @ - purchase.revenue]
         /\ soldUSDG' = soldUSDG + purchase.revenue
         /\ StartNextEpoch(s, purchase.payment)
  /\ purchases' = Tail(purchases)
  /\ UNCHANGED <<now, revenue, totalSignalWeight, lifecycleVars, configVars,
                 resonanceUSDG, routerUSDG, bribeVars>>

Bug_AnyAmount(s) == 0

RouteMinimumReward(s) ==
  LET remaining == Remaining(reward[s][paymentToken[s]], now)
  IN  IF remaining < REWARD_DURATION THEN REWARD_DURATION ELSE remaining

(* BribeRouter.route: less than the minimum is held, which changes nothing. *)
RouteReward(s) ==
  /\ s \in registered
  /\ bribeRouterBalance[s] # 0
  /\ bribeRouterBalance[s] >= RouteMinimumReward(s)
  /\ NotifyReward(s, paymentToken[s], bribeRouterBalance[s])
  /\ bribeRouterBalance' = [bribeRouterBalance EXCEPT ![s] = 0]
  /\ UNCHANGED <<now, resonanceVars, auctionVars, purchases, fundBalance, takenIn, soldUSDG>>

(* addStrategy, with the constructor of the Strategy it creates.            *)
CreateStrategy(s, token) ==
  /\ AddStrategy(s, token)
  /\ initialPrice' = [initialPrice EXCEPT ![s] = ConfigInitialPrice]
  /\ epochStartedAt' = [epochStartedAt EXCEPT ![s] = now]
  /\ UNCHANGED <<epochId, purchases, paymentVars>>

BuyCalls ==
  \E s \in Strategies, expectedEpochId \in 0 .. MaxEpoch, deadline \in Deadlines :
    \/ BuyForNothing(s, expectedEpochId, deadline)
    \/ \E maximumPayment \in MaximumPayments : BuyBegin(s, expectedEpochId, deadline, maximumPayment)

OtherCalls == SignalCalls \/ RevenueCalls \/ OwnerCalls \/ RewardCalls

StrategyNext ==
  \/ BuyCalls
  \/ BuyFinish
  \/ \E s \in Strategies : RouteReward(s)
  \/ \E s \in Strategies, token \in PaymentTokens : CreateStrategy(s, token)
  \/ OtherCalls /\ UNCHANGED strategyVars
  \/ purchases = << >> /\ Tick /\ UNCHANGED strategyVars

StrategySpec == StrategyInit /\ [][StrategyNext]_allVars
-----------------------------------------------------------------------------
(* Correctness. *)

(* A purchase that has called its payment token is still for the epoch on   *)
(* sale, at its price, and its USDG is still there, whatever the buyer did  *)
(* in the call: so no call can make buy() fail half way, and no epoch sells *)
(* twice.                                                                   *)
PurchasesComplete ==
  \A n \in DOMAIN purchases :
    LET s == purchases[n].strategy
    IN  /\ purchases[n].epoch = epochId[s]
        /\ purchases[n].payment = CurrentPrice(s)
        /\ purchases[n].revenue <= strategyUSDG[s]

(* Every USDG unit ever notified is with Resonance, with a Strategy, or has *)
(* gone to a buyer, and the state keeps its types.                          *)
RevenueConserved ==
  /\ StrategyTypeOK
  /\ revenue.notified = resonanceUSDG + PartialSum(strategyUSDG, NumStrategies) + soldUSDG

(* Every unit ever paid to a Strategy went to the Fund, waits in a          *)
(* BribeRouter, or was notified to a Bribe.                                 *)
PaymentsReachRecipients ==
  takenIn <= fundBalance + PartialSum(bribeRouterBalance, NumStrategies)
    + PartialSum([s \in Strategies |->
                    IF s \in registered THEN reward[s][paymentToken[s]].notified ELSE 0], NumStrategies)

(* A purchase delivers everything its Strategy has earned by then: the next *)
(* epoch starts with nothing on sale.                                       *)
PurchaseTakesEverything ==
  [][\A s \in Strategies :
       epochId'[s] # epochId[s] => RevenueAmount(s)' = 0]_allVars

(* The BribeRouter asks of a balance what the Bribe asks of a reward, so    *)
(* only the lifetime cap can make route() fail.                             *)
RewardsRoutable ==
  \A s \in registered :
    (/\ bribeRouterBalance[s] # 0
     /\ bribeRouterBalance[s] >= RouteMinimumReward(s)
     /\ WithinLifetime(reward[s][paymentToken[s]], bribeRouterBalance[s]))
    => ENABLED RouteReward(s)
=============================================================================
