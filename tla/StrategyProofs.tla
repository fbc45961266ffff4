----------------------------- MODULE StrategyProofs -----------------------------
(***************************************************************************)
(* The auctions of the Strategies, for every number of strategies, every   *)
(* price, epoch length and amount, and every nesting of purchases.         *)
(*                                                                         *)
(* PurchasesComplete is not inductive.  That finishing one purchase leaves *)
(* the others complete needs the lock: they are of different Strategies    *)
(* (OpenOnce).  That no call in between moves a price needs that they are  *)
(* of Strategies that exist, since only a new one gets a price.  And that  *)
(* the revenue bought is still all there is needs that an open purchase    *)
(* took everything, and that at its timestamp nothing more is earned       *)
(* (OpenTakeAll): at one timestamp Resonance only pays, it never adds,     *)
(* which is what ResonanceProofs shows of every call.  The payments' books *)
(* need that every Strategy has a payment token (PaidInTokens).            *)
(***************************************************************************)
EXTENDS Strategy, ResonanceProofs

EpochsStarted == \A s \in Strategies : epochStartedAt[s] <= now

OpenOnce ==
  \A m, n \in DOMAIN purchases :
    purchases[m].strategy = purchases[n].strategy => m = n

(* An open purchase has taken all that its Strategy has, and at its         *)
(* timestamp nothing more can come.                                         *)
OpenTakeAll ==
  \A n \in DOMAIN purchases :
    LET s == purchases[n].strategy
    IN  /\ s \in registered
        /\ purchases[n].revenue = strategyUSDG[s]
        /\ RevenueEarned(s) = 0

PaidInTokens == \A s \in registered : paymentToken[s] \in PaymentTokens

StrategyInv ==
  /\ IInv
  /\ PaidInTokens
  /\ EpochsStarted
  /\ OpenOnce
  /\ OpenTakeAll
  /\ PurchasesComplete
  /\ RevenueConserved
  /\ PaymentsReachRecipients

-----------------------------------------------------------------------------
(* What a call of Resonance or of a Bribe does to the money: a Strategy     *)
(* only gets what it has earned, USDG only moves, and what was notified to  *)
(* a Bribe only grows.                                                      *)

RevenueMoves ==
  /\ \A s \in Strategies :
       \/ strategyUSDG'[s] = strategyUSDG[s]
       \/ strategyUSDG'[s] = strategyUSDG[s] + RevenueEarned(s)
  /\ revenue'.notified + resonanceUSDG + PartialSum(strategyUSDG, NumStrategies)
       = revenue.notified + resonanceUSDG' + PartialSum(strategyUSDG', NumStrategies)

RewardsGrow ==
  \A s \in Strategies, t \in Tokens : reward[s][t].notified <= reward'[s][t].notified

StrategiesStay ==
  /\ registered \subseteq registered'
  /\ \A s \in registered : paymentToken'[s] = paymentToken[s]
  /\ \A s \in registered' \ registered : paymentToken'[s] \in PaymentTokens

KeepsBooks == RevenueMoves /\ RewardsGrow /\ StrategiesStay

LEMMA NotifiedOfSettled ==
  ASSUME NEW P, NEW k \in Stream(P), NEW t, NEW total, NEW w, NEW who, NEW p, NEW amount
  PROVE  /\ Settled(k, t, total, w, who).notified = k.notified
         /\ Paid(Settled(k, t, total, w, who), p).notified = k.notified
         /\ Notified(k, t, total, w, amount).notified = k.notified + amount
BY DEF Settled, Paid, Notified, Stream

LEMMA RewardsTyped ==
  ASSUME IInv
  PROVE  /\ reward \in [Strategies -> [Tokens -> Stream(Accounts)]]
         /\ \A s \in Strategies, t \in Tokens :
              reward[s][t] \in Stream(Accounts) /\ reward[s][t].notified \in Nat
<1>1. reward \in [Strategies -> [Tokens -> Stream(Accounts)]]
  BY DEF IInv, BribeInv, BribeTypeOK
<1> QED
  BY <1>1 DEF Stream

LEMMA SettlingKeepsNotified ==
  ASSUME IInv, NEW account \in Accounts, NEW bribes, reward' = RewardsSettledFor(account, bribes)
  PROVE  RewardsGrow
<1>1. ASSUME NEW s \in Strategies, NEW t \in Tokens
      PROVE  reward[s][t].notified <= reward'[s][t].notified
  <2>1. reward[s][t] \in Stream(Accounts) /\ reward[s][t].notified \in Nat
    BY RewardsTyped
  <2>2. reward'[s][t] = reward[s][t] \/ reward'[s][t] = RewardSettled(s, t, account)
    BY DEF RewardsSettledFor, AllRewardsSettled
  <2>3. RewardSettled(s, t, account).notified = reward[s][t].notified
    BY <2>1, NotifiedOfSettled DEF RewardSettled
  <2> QED
    BY <2>1, <2>2, <2>3
<1> QED
  BY <1>1 DEF RewardsGrow

LEMMA ClaimingKeepsNotified ==
  ASSUME IInv, NEW account \in Accounts, NEW claims, Claim(account, claims)
  PROVE  RewardsGrow
<1>1. ASSUME NEW s \in Strategies, NEW t \in Tokens
      PROVE  reward[s][t].notified <= reward'[s][t].notified
  <2>1. reward[s][t] \in Stream(Accounts) /\ reward[s][t].notified \in Nat
    BY RewardsTyped
  <2>2. \/ reward'[s][t] = reward[s][t]
        \/ reward'[s][t] = Paid(RewardSettled(s, t, account), account)
    BY DEF Claim
  <2>3. Paid(RewardSettled(s, t, account), account).notified = reward[s][t].notified
    BY <2>1, NotifiedOfSettled DEF RewardSettled
  <2> QED
    BY <2>1, <2>2, <2>3
<1> QED
  BY <1>1 DEF RewardsGrow

LEMMA NotifyingGrows ==
  ASSUME IInv, NEW s \in Strategies, NEW t \in Tokens, NEW amount \in Nat,
         NotifyReward(s, t, amount)
  PROVE  /\ RewardsGrow
         /\ reward'[s][t].notified = reward[s][t].notified + amount
         /\ \A z \in Strategies, u \in Tokens :
              z # s \/ u # t => reward'[z][u].notified = reward[z][u].notified
<1>1. reward \in [Strategies -> [Tokens -> Stream(Accounts)]]
  BY RewardsTyped
<1>2. reward' = [reward EXCEPT
                   ![s][t] = Notified(reward[s][t], now, bribeWeight[s], weightOf[s], amount)]
  BY DEF NotifyReward
<1>3. reward'[s][t].notified = reward[s][t].notified + amount
  <2>1. reward'[s][t] = Notified(reward[s][t], now, bribeWeight[s], weightOf[s], amount)
    BY <1>1, <1>2
  <2>2. reward[s][t] \in Stream(Accounts)
    BY <1>1
  <2> QED
    BY <2>1, <2>2, NotifiedOfSettled
<1>4. \A z \in Strategies, u \in Tokens : z # s \/ u # t => reward'[z][u] = reward[z][u]
  BY <1>1, <1>2
<1>5. ASSUME NEW z \in Strategies, NEW u \in Tokens
      PROVE  reward[z][u].notified <= reward'[z][u].notified
  <2>1. reward[z][u].notified \in Nat
    BY RewardsTyped
  <2> QED
    BY <1>3, <1>4, <2>1
<1> QED
  BY <1>3, <1>4, <1>5 DEF RewardsGrow

LEMMA RevenueTyped ==
  ASSUME IInv
  PROVE  /\ revenue \in Stream(Strategies) /\ revenue.notified \in Nat
         /\ resonanceUSDG \in Nat /\ strategyUSDG \in [Strategies -> Nat]
         /\ PartialSum(strategyUSDG, NumStrategies) \in Nat
         /\ \A s \in Strategies : RevenueEarned(s) \in Nat /\ RevenueEarned(s) <= resonanceUSDG
<1>1. /\ ResonanceInv /\ resonanceUSDG \in Nat /\ strategyUSDG \in [Strategies -> Nat]
      /\ revenue \in Stream(Strategies)
  BY DEF IInv, ResonanceInv, TypeOK
<1>2. PartialSum(strategyUSDG, NumStrategies) \in Nat
  BY <1>1, SumNatural, StrategiesAndAccounts
<1>3. revenue.notified \in Nat
  BY <1>1 DEF Stream
<1> QED
  BY <1>1, <1>2, <1>3, RevenueSolvent

(* A call that moves no USDG of Resonance or of a Strategy. *)
LEMMA QuietRevenue ==
  ASSUME IInv, revenue'.notified = revenue.notified, UNCHANGED <<resonanceUSDG, strategyUSDG>>
  PROVE  RevenueMoves
BY RevenueTyped DEF RevenueMoves

LEMMA QuietRewards ==
  ASSUME IInv, reward' = reward
  PROVE  RewardsGrow
BY RewardsTyped DEF RewardsGrow

LEMMA SignalKeepsBooks ==
  ASSUME IInv, SignalCalls
  PROVE  KeepsBooks
<1>1. PICK account \in Accounts, allocation \in Allocations :
        AddSignalFor(account, allocation) \/ RemoveSignalFor(account, allocation)
  BY DEF SignalCalls
<1>2. /\ revenue' = RevenueSettled(Touched(allocation))
      /\ reward' = RewardsSettledFor(account, Touched(allocation))
      /\ UNCHANGED <<lifecycleVars, usdgVars>>
  BY <1>1 DEF AddSignalFor, RemoveSignalFor, AddSignalWeight, RemoveSignalWeight
<1>3. revenue'.notified = revenue.notified
  BY <1>2, RevenueTyped, NotifiedOfSettled DEF RevenueSettled
<1>4. RevenueMoves
  BY <1>2, <1>3, QuietRevenue DEF usdgVars
<1>5. RewardsGrow
  BY <1>1, <1>2, SettlingKeepsNotified
<1> QED
  BY <1>2, <1>4, <1>5 DEF KeepsBooks, StrategiesStay, lifecycleVars

LEMMA RouteKeepsBooks ==
  ASSUME IInv, Route
  PROVE  KeepsBooks
<1>1. /\ revenue' = Notified(revenue, now, totalSignalWeight, ActiveWeights, routerUSDG)
      /\ resonanceUSDG' = resonanceUSDG + routerUSDG
      /\ strategyUSDG' = strategyUSDG /\ reward' = reward
      /\ registered' = registered /\ paymentToken' = paymentToken
  BY DEF Route, NotifyRevenue, lifecycleVars, bribeVars
<1>2. routerUSDG \in Nat
  BY DEF IInv, ResonanceInv, TypeOK
<1>3. revenue'.notified = revenue.notified + routerUSDG
  BY <1>1, RevenueTyped, NotifiedOfSettled
<1>4. RevenueMoves
  BY <1>1, <1>2, <1>3, RevenueTyped DEF RevenueMoves
<1> QED
  BY <1>1, <1>4, QuietRewards DEF KeepsBooks, StrategiesStay

LEMMA DistributeKeepsBooks ==
  ASSUME IInv, NEW s \in Strategies, DistributeRevenue(s)
  PROVE  KeepsBooks
<1> DEFINE e == RevenueEarned(s)
<1>1. /\ revenue' = Paid(RevenueSettled({s}), s)
      /\ resonanceUSDG' = resonanceUSDG - e
      /\ strategyUSDG' = [strategyUSDG EXCEPT ![s] = strategyUSDG[s] + e]
      /\ reward' = reward
      /\ registered' = registered /\ paymentToken' = paymentToken
  BY DEF DistributeRevenue, DistributedRevenue, lifecycleVars, bribeVars
<1>2. revenue'.notified = revenue.notified
  BY <1>1, RevenueTyped, NotifiedOfSettled DEF RevenueSettled
<1>3. e \in Nat /\ resonanceUSDG \in Nat /\ revenue.notified \in Nat
      /\ strategyUSDG \in [Strategies -> Nat] /\ PartialSum(strategyUSDG, NumStrategies) \in Nat
  BY RevenueTyped
<1> HIDE DEF e
<1>4. PartialSum(strategyUSDG', NumStrategies) = PartialSum(strategyUSDG, NumStrategies) + e
  <2> DEFINE n == NumStrategies
             f == strategyUSDG
             g == strategyUSDG'
             x == strategyUSDG[s] + e
  <2>1. /\ n \in Nat /\ f \in [0 .. n - 1 -> Int] /\ s \in 0 .. n - 1 /\ x \in Int
        /\ g = [f EXCEPT ![s] = x]
    BY <1>1, <1>3, StrategiesAndAccounts
  <2>2. x - f[s] = e
    BY <1>3
  <2> HIDE DEF n, f, g, x
  <2>3. PartialSum(g, n) = PartialSum(f, n) + (x - f[s])
    BY <2>1, SumShift
  <2> QED
    BY <2>2, <2>3 DEF n, f, g
<1>5. \A z \in Strategies : \/ strategyUSDG'[z] = strategyUSDG[z]
                            \/ strategyUSDG'[z] = strategyUSDG[z] + RevenueEarned(z)
  BY <1>1, <1>3 DEF e
<1>6. RevenueMoves
  BY <1>1, <1>2, <1>3, <1>4, <1>5 DEF RevenueMoves
<1> QED
  BY <1>1, <1>6, QuietRewards DEF KeepsBooks, StrategiesStay

LEMMA RevenueKeepsBooks ==
  ASSUME IInv, RevenueCalls
  PROVE  KeepsBooks
<1>1. ASSUME NEW amount, DepositRevenue(amount) PROVE KeepsBooks
  <2>1. UNCHANGED <<revenue, resonanceUSDG, strategyUSDG, reward, registered, paymentToken>>
    BY <1>1 DEF DepositRevenue, lifecycleVars, bribeVars
  <2> QED
    BY <2>1, QuietRevenue, QuietRewards DEF KeepsBooks, StrategiesStay
<1> QED
  BY <1>1, RouteKeepsBooks, DistributeKeepsBooks DEF RevenueCalls

LEMMA AddStrategyKeepsBooks ==
  ASSUME IInv, NEW s \in Strategies, NEW token \in PaymentTokens, AddStrategy(s, token)
  PROVE  KeepsBooks
<1>1. /\ registered = 0 .. s - 1
      /\ paymentToken' = [paymentToken EXCEPT ![s] = token]
      /\ registered' = registered \cup {s}
      /\ revenue' = [revenue EXCEPT !.paid[s] = revenue.stored]
      /\ UNCHANGED <<resonanceUSDG, strategyUSDG, reward>>
  BY DEF AddStrategy, AddRewardToken, usdgVars
<1>2. revenue'.notified = revenue.notified
  BY <1>1, RevenueTyped DEF Stream
<1>3. s \notin registered /\ paymentToken \in [Strategies -> PaymentTokens \cup {NoToken}]
      /\ registered \subseteq Strategies
  BY <1>1, StrategiesAndAccounts DEF IInv, ResonanceInv, TypeOK
<1>4. StrategiesStay
  BY <1>1, <1>3 DEF StrategiesStay
<1> QED
  BY <1>1, <1>2, <1>4, QuietRevenue, QuietRewards DEF KeepsBooks

LEMMA OwnerKeepsBooks ==
  ASSUME IInv, OwnerCalls
  PROVE  KeepsBooks
<1>1. ASSUME NEW s \in Strategies, KillStrategy(s) PROVE KeepsBooks
  <2>1. /\ revenue' = RevenueSettled({s})
        /\ UNCHANGED <<resonanceUSDG, strategyUSDG, reward, registered, paymentToken>>
    BY <1>1 DEF KillStrategy, usdgVars, bribeVars
  <2>2. revenue'.notified = revenue.notified
    BY <2>1, RevenueTyped, NotifiedOfSettled DEF RevenueSettled
  <2> QED
    BY <2>1, <2>2, QuietRevenue, QuietRewards DEF KeepsBooks, StrategiesStay
<1>2. CASE UNCHANGED <<revenue, resonanceUSDG, strategyUSDG, reward, registered, paymentToken>>
  BY <1>2, QuietRevenue, QuietRewards DEF KeepsBooks, StrategiesStay
<1>3. \/ UNCHANGED <<revenue, resonanceUSDG, strategyUSDG, reward, registered, paymentToken>>
      \/ \E s \in Strategies : KillStrategy(s)
  BY DEF OwnerCalls, SetResonanceRouter, SetBribeBps, AddBribeRewardToken, AddRewardToken,
         resonanceVars, lifecycleVars, usdgVars, bribeVars
<1> QED
  BY <1>1, <1>2, <1>3

LEMMA BribeCallKeepsBooks ==
  ASSUME IInv, RewardsGrow, UNCHANGED resonanceVars
  PROVE  KeepsBooks
<1>1. UNCHANGED <<revenue, resonanceUSDG, strategyUSDG, registered, paymentToken>>
  BY DEF resonanceVars, lifecycleVars, usdgVars
<1> QED
  BY <1>1, QuietRevenue DEF KeepsBooks, StrategiesStay

LEMMA RewardKeepsBooks ==
  ASSUME IInv, RewardCalls
  PROVE  KeepsBooks
<1>1. UNCHANGED resonanceVars
  BY DEF RewardCalls, ClaimBribeRewards, ClaimBribeReward, FundBribe
<1>2. ASSUME NEW account \in Accounts, NEW strategies, ClaimBribeRewards(account, strategies)
      PROVE  RewardsGrow
  BY <1>2, ClaimingKeepsNotified DEF ClaimBribeRewards, ClaimRewards
<1>3. ASSUME NEW s \in Strategies, NEW token \in Tokens, NEW account \in Accounts,
             ClaimBribeReward(account, s, token)
      PROVE  RewardsGrow
  BY <1>3, ClaimingKeepsNotified DEF ClaimBribeReward, ClaimReward
<1>4. ASSUME NEW s \in Strategies, NEW token \in Tokens, NEW amount \in RewardAmounts,
             FundBribe(s, token, amount)
      PROVE  RewardsGrow
  <2>1. amount \in Nat
    BY ResonanceConstants
  <2> QED
    BY <1>4, <2>1, NotifyingGrows DEF FundBribe
<1>5. RewardsGrow
  BY <1>2, <1>3, <1>4 DEF RewardCalls
<1> QED
  BY <1>1, <1>5, BribeCallKeepsBooks

LEMMA OtherCallsKeepBooks ==
  ASSUME IInv, OtherCalls
  PROVE  KeepsBooks /\ IInv' /\ RevenueStands /\ now' = now
BY SignalKeepsBooks, RevenueKeepsBooks, OwnerKeepsBooks, RewardKeepsBooks, TransactionStep
   DEF OtherCalls

-----------------------------------------------------------------------------
(* The state of the auctions. *)

LEMMA StrategyTyped ==
  ASSUME StrategyInv
  PROVE  /\ IInv /\ now \in Nat /\ now \in Times
         /\ registered \subseteq Strategies /\ bribeBps \in 0 .. MAX_BRIBE_BPS
         /\ epochId \in [Strategies -> Nat]
         /\ initialPrice \in [Strategies -> 0 .. ABSOLUTE_MAXIMUM_PRICE]
         /\ epochStartedAt \in [Strategies -> Times]
         /\ \A s \in Strategies : epochStartedAt[s] \in Nat /\ epochStartedAt[s] <= now
         /\ purchases \in Seq(Purchase)
         /\ \A n \in DOMAIN purchases : purchases[n] \in Purchase
         /\ fundBalance \in Nat /\ takenIn \in Nat /\ soldUSDG \in Nat
         /\ bribeRouterBalance \in [Strategies -> Nat]
<1>1. /\ IInv /\ StrategyTypeOK
  BY DEF StrategyInv, RevenueConserved
<1>2. now \in Nat /\ now \in Times
  BY <1>1, RevenueFacts, BribeConstants DEF IInv, BribeInv, BribeTypeOK
<1>3. registered \subseteq Strategies /\ bribeBps \in 0 .. MAX_BRIBE_BPS
  BY <1>1 DEF IInv, ResonanceInv, TypeOK
<1>4. \A n \in DOMAIN purchases : purchases[n] \in Purchase
  BY <1>1 DEF StrategyTypeOK
<1>5. \A s \in Strategies : epochStartedAt[s] \in Nat /\ epochStartedAt[s] <= now
  BY <1>1, BribeConstants DEF StrategyTypeOK, StrategyInv, EpochsStarted, Times
<1> QED
  BY <1>1, <1>2, <1>3, <1>4, <1>5 DEF StrategyTypeOK

LEMMA FloorShare ==
  ASSUME NEW a \in Nat, NEW b \in Nat, NEW c \in Nat, c > 0, b <= c
  PROVE  (a * b) \div c \in Nat /\ (a * b) \div c <= a
OBVIOUS

(* The price falls from the initial price to zero. *)
LEMMA PriceFalls ==
  ASSUME StrategyInv, NEW s \in Strategies
  PROVE  CurrentPrice(s) \in Nat /\ CurrentPrice(s) <= initialPrice[s]
<1> DEFINE elapsed == now - epochStartedAt[s]
           price == initialPrice[s]
<1>1. price \in Nat /\ elapsed \in Nat
  BY StrategyTyped, StrategyConstants
<1>2. EPOCH_DURATION \in Nat /\ EPOCH_DURATION > 0
  BY StrategyConstants
<1>3. CurrentPrice(s) = IF elapsed >= EPOCH_DURATION THEN 0
                        ELSE price - (price * elapsed) \div EPOCH_DURATION
  BY DEF CurrentPrice
<1> HIDE DEF elapsed, price
<1>4. CASE elapsed >= EPOCH_DURATION
  BY <1>1, <1>3, <1>4 DEF price
<1>5. CASE elapsed < EPOCH_DURATION
  <2>1. (price * elapsed) \div EPOCH_DURATION \in Nat /\ (price * elapsed) \div EPOCH_DURATION <= price
    BY <1>1, <1>2, <1>5, FloorShare
  <2>2. CurrentPrice(s) = price - (price * elapsed) \div EPOCH_DURATION
    BY <1>1, <1>2, <1>3, <1>5
  <2> QED
    BY <1>1, <2>1, <2>2 DEF price
<1> QED
  BY <1>1, <1>2, <1>4, <1>5

LEMMA NextPriceBounds ==
  ASSUME NEW payment \in Nat
  PROVE  NextInitialPrice(payment) \in 0 .. ABSOLUTE_MAXIMUM_PRICE
<1> DEFINE raised == (payment * PRICE_MULTIPLIER) \div PRICE_SCALE
<1>1. raised \in Nat
  BY StrategyConstants, FloorBounds, ProductType
<1>2. /\ ABSOLUTE_MAXIMUM_PRICE \in Nat
      /\ MINIMUM_PRICE \in Nat /\ MINIMUM_PRICE <= ABSOLUTE_MAXIMUM_PRICE
  BY StrategyConstants
<1>3. NextInitialPrice(payment)
        = IF raised > ABSOLUTE_MAXIMUM_PRICE THEN ABSOLUTE_MAXIMUM_PRICE
          ELSE IF raised < MINIMUM_PRICE THEN MINIMUM_PRICE ELSE raised
  BY DEF NextInitialPrice
<1> HIDE DEF raised
<1> QED
  BY <1>1, <1>2, <1>3

LEMMA ShareOfPayment ==
  ASSUME NEW p \in Purchase
  PROVE  /\ p.strategy \in Strategies /\ p.epoch \in Nat
         /\ p.payment \in Nat /\ p.payment > 0 /\ p.revenue \in Nat /\ p.revenue > 0
         /\ BribeShare(p) \in Nat /\ BribeShare(p) <= p.payment
<1>1. /\ p.payment \in Nat /\ p.bps \in Nat /\ p.bps <= BPS
      /\ BPS \in Nat /\ BPS > 0
  BY ResonanceConstants DEF Purchase
<1>2. BribeShare(p) \in Nat /\ BribeShare(p) <= p.payment
  BY <1>1, FloorShare DEF BribeShare
<1> QED
  BY <1>2 DEF Purchase

-----------------------------------------------------------------------------
(* Sums. *)

LEMMA SumOfBoth ==
  ASSUME NEW n \in Nat, NEW f \in [0 .. n - 1 -> Nat], NEW g \in [0 .. n - 1 -> Nat]
  PROVE  /\ PartialSum([p \in 0 .. n - 1 |-> f[p] + g[p]], n) = PartialSum(f, n) + PartialSum(g, n)
         /\ PartialSum(f, n) \in Nat /\ PartialSum(g, n) \in Nat
<1> DEFINE h == [p \in 0 .. n - 1 |-> f[p] + g[p]]
<1>1. IsSumOf(h, f, g, n)
  BY DEF IsSumOf
<1> HIDE DEF h
<1>2. PartialSum(h, n) = PartialSum(f, n) + PartialSum(g, n)
  BY <1>1, SumAdd
<1> QED
  BY <1>2, SumNatural DEF h

-----------------------------------------------------------------------------
(* The open purchases stand through every call made in between. *)

OrdersStand ==
  \A s \in registered :
    /\ epochId'[s] = epochId[s]
    /\ initialPrice'[s] = initialPrice[s]
    /\ epochStartedAt'[s] = epochStartedAt[s]

(* What a call does to the Strategy of one open purchase. *)
PurchaseStands(p) ==
  /\ p.strategy \in registered'
  /\ p.revenue = strategyUSDG'[p.strategy]
  /\ RevenueEarned(p.strategy)' = 0
  /\ p.epoch = epochId'[p.strategy]
  /\ p.payment = CurrentPrice(p.strategy)'

(* A call that gives a Strategy at most what it has earned, and leaves its  *)
(* epoch alone.                                                             *)
CallLeaves(s) ==
  /\ s \in registered'
  /\ strategyUSDG'[s] = strategyUSDG[s] \/ strategyUSDG'[s] = strategyUSDG[s] + RevenueEarned(s)
  /\ RevenueEarned(s)' = RevenueEarned(s) \/ RevenueEarned(s)' = 0
  /\ epochId'[s] = epochId[s]
  /\ CurrentPrice(s)' = CurrentPrice(s)

LEMMA PurchaseLeftStanding ==
  ASSUME StrategyInv, NEW n \in DOMAIN purchases, NEW p, p = purchases[n],
         NEW s, s = p.strategy, CallLeaves(s)
  PROVE  PurchaseStands(p)
<1>1. /\ s \in registered /\ s \in Strategies
      /\ p.revenue = strategyUSDG[s] /\ RevenueEarned(s) = 0
      /\ p.epoch = epochId[s] /\ p.payment = CurrentPrice(s)
  BY StrategyTyped DEF StrategyInv, OpenTakeAll, PurchasesComplete
<1>2. strategyUSDG[s] \in Nat
  BY <1>1, StrategyTyped, RevenueTyped
<1>3. strategyUSDG'[s] = strategyUSDG[s] /\ RevenueEarned(s)' = 0
  BY <1>1, <1>2 DEF CallLeaves
<1> QED
  BY <1>1, <1>3 DEF PurchaseStands, CallLeaves

LEMMA PurchaseStandsThroughCall ==
  ASSUME StrategyInv, KeepsBooks, RevenueStands, now' = now, OrdersStand,
         NEW n \in DOMAIN purchases, NEW p, p = purchases[n]
  PROVE  PurchaseStands(p)
<1>1. PICK s : s = p.strategy
  OBVIOUS
<1>2. s \in registered /\ s \in Strategies
  BY <1>1, StrategyTyped DEF StrategyInv, OpenTakeAll
<1>3. /\ strategyUSDG'[s] = strategyUSDG[s] \/ strategyUSDG'[s] = strategyUSDG[s] + RevenueEarned(s)
      /\ s \in registered'
  BY <1>2 DEF KeepsBooks, RevenueMoves, StrategiesStay
<1>4. RevenueEarned(s)' = RevenueEarned(s) \/ RevenueEarned(s)' = 0
  BY <1>2 DEF RevenueStands
<1>5. CurrentPrice(s)' = CurrentPrice(s) /\ epochId'[s] = epochId[s]
  BY <1>2 DEF OrdersStand, CurrentPrice
<1>6. CallLeaves(s)
  BY <1>3, <1>4, <1>5 DEF CallLeaves
<1> QED
  BY <1>1, <1>6, PurchaseLeftStanding

(* What all the open purchases stand for, after a step. *)
AllStand == \A n \in DOMAIN purchases' : \A p : p = purchases'[n] => PurchaseStands(p)

LEMMA StandingPurchases ==
  ASSUME IInv', AllStand
  PROVE  OpenTakeAll' /\ PurchasesComplete'
<1>1. ASSUME NEW n \in DOMAIN purchases'
      PROVE  /\ purchases'[n].strategy \in registered'
             /\ purchases'[n].revenue = strategyUSDG'[purchases'[n].strategy]
             /\ RevenueEarned(purchases[n].strategy)' = 0
             /\ purchases'[n].epoch = epochId'[purchases'[n].strategy]
             /\ purchases'[n].payment = CurrentPrice(purchases[n].strategy)'
  <2>1. PICK p : p = purchases'[n]
    OBVIOUS
  <2>2. PurchaseStands(p)
    BY <2>1 DEF AllStand
  <2> QED
    BY <2>1, <2>2 DEF PurchaseStands, RevenueEarned, CurrentPrice
<1>2. \A s \in registered' : strategyUSDG'[s] \in Nat
  BY DEF IInv, ResonanceInv, TypeOK
<1>3. OpenTakeAll'
  BY <1>1 DEF OpenTakeAll
<1>4. PurchasesComplete'
  BY <1>1, <1>2 DEF PurchasesComplete
<1> QED
  BY <1>3, <1>4

LEMMA PurchasesStand ==
  ASSUME StrategyInv, IInv', KeepsBooks, RevenueStands, now' = now, OrdersStand,
         purchases' = purchases
  PROVE  OpenOnce' /\ OpenTakeAll' /\ PurchasesComplete'
<1>1. AllStand
  BY PurchaseStandsThroughCall DEF AllStand
<1>2. OpenOnce'
  BY DEF StrategyInv, OpenOnce
<1> QED
  BY <1>1, <1>2, StandingPurchases

LEMMA TokensStay ==
  ASSUME StrategyInv, KeepsBooks
  PROVE  PaidInTokens'
BY DEF StrategyInv, PaidInTokens, KeepsBooks, StrategiesStay

(* The ledger of USDG through a call that delivers nothing to a buyer. *)
LEMMA RevenueStaysConserved ==
  ASSUME StrategyInv, IInv', KeepsBooks, soldUSDG' = soldUSDG
  PROVE  revenue'.notified
           = resonanceUSDG' + PartialSum(strategyUSDG', NumStrategies) + soldUSDG'
<1> DEFINE held == PartialSum(strategyUSDG, NumStrategies)
           held2 == PartialSum(strategyUSDG', NumStrategies)
           total == revenue.notified
           total2 == revenue'.notified
           at == resonanceUSDG
           at2 == resonanceUSDG'
<1>1. /\ resonanceUSDG' \in Nat /\ strategyUSDG' \in [Strategies -> Nat]
      /\ revenue' \in Stream(Strategies)
  BY DEF IInv, ResonanceInv, TypeOK
<1>2. held2 \in Nat /\ total2 \in Nat /\ at2 \in Nat
  BY <1>1, SumNatural, StrategiesAndAccounts DEF Stream
<1>3. soldUSDG \in Nat /\ at \in Nat /\ held \in Nat /\ total \in Nat
  BY StrategyTyped, RevenueTyped
<1>4. total = at + held + soldUSDG
  BY DEF StrategyInv, RevenueConserved
<1>5. total2 + at + held = total + at2 + held2
  BY DEF KeepsBooks, RevenueMoves
<1> HIDE DEF held, held2, total, total2, at, at2
<1>6. total2 = at2 + held2 + soldUSDG
  BY <1>2, <1>3, <1>4, <1>5
<1> QED
  BY <1>6 DEF held2, total2, at2

-----------------------------------------------------------------------------
(* The payments. *)

NotifiedTable ==
  [s \in Strategies |-> IF s \in registered THEN reward[s][paymentToken[s]].notified ELSE 0]

LEMMA PaymentsTyped ==
  ASSUME StrategyInv
  PROVE  /\ NotifiedTable \in [Strategies -> Nat]
         /\ bribeRouterBalance \in [Strategies -> Nat]
         /\ takenIn \in Nat /\ fundBalance \in Nat
         /\ PartialSum(NotifiedTable, NumStrategies) \in Nat
         /\ PartialSum(bribeRouterBalance, NumStrategies) \in Nat
         /\ takenIn <= fundBalance + PartialSum(bribeRouterBalance, NumStrategies)
                         + PartialSum(NotifiedTable, NumStrategies)
<1>1. \A s \in registered : s \in Strategies /\ paymentToken[s] \in Tokens
  BY StrategyTyped, ResonanceConstants DEF StrategyInv, PaidInTokens
<1>2. NotifiedTable \in [Strategies -> Nat]
  BY <1>1, StrategyTyped, RewardsTyped DEF NotifiedTable
<1>3. /\ bribeRouterBalance \in [Strategies -> Nat] /\ takenIn \in Nat /\ fundBalance \in Nat
  BY StrategyTyped
<1>4. PartialSum(NotifiedTable, NumStrategies) \in Nat /\ PartialSum(bribeRouterBalance, NumStrategies) \in Nat
  BY <1>2, <1>3, SumNatural, StrategiesAndAccounts
<1>5. takenIn <= fundBalance + PartialSum(bribeRouterBalance, NumStrategies)
                   + PartialSum(NotifiedTable, NumStrategies)
  BY DEF StrategyInv, PaymentsReachRecipients, NotifiedTable
<1> QED
  BY <1>2, <1>3, <1>4, <1>5

(* Payments that wait in a BribeRouter may move on to its Bribe. *)
PaymentsMoveOn ==
  /\ takenIn' = takenIn /\ fundBalance' = fundBalance
  /\ bribeRouterBalance' \in [Strategies -> Nat]
  /\ NotifiedTable' \in [Strategies -> Nat]
  /\ \A s \in Strategies :
       bribeRouterBalance[s] + NotifiedTable[s] <= bribeRouterBalance'[s] + NotifiedTable'[s]

LEMMA PaymentsKept ==
  ASSUME StrategyInv, PaymentsMoveOn
  PROVE  PaymentsReachRecipients'
<1> DEFINE n == NumStrategies
           f == bribeRouterBalance
           g == NotifiedTable
           f2 == bribeRouterBalance'
           g2 == NotifiedTable'
           h == [p \in 0 .. n - 1 |-> f[p] + g[p]]
           h2 == [p \in 0 .. n - 1 |-> f2[p] + g2[p]]
<1>1. /\ n \in Nat
      /\ f \in [0 .. n - 1 -> Nat] /\ g \in [0 .. n - 1 -> Nat]
      /\ f2 \in [0 .. n - 1 -> Nat] /\ g2 \in [0 .. n - 1 -> Nat]
      /\ \A p \in 0 .. n - 1 : f[p] + g[p] <= f2[p] + g2[p]
  BY StrategiesAndAccounts, PaymentsTyped DEF PaymentsMoveOn
<1>2. /\ takenIn \in Nat /\ fundBalance \in Nat
      /\ takenIn <= fundBalance + PartialSum(f, n) + PartialSum(g, n)
      /\ takenIn' = takenIn /\ fundBalance' = fundBalance
  BY PaymentsTyped DEF PaymentsMoveOn
<1> HIDE DEF n, f, g, f2, g2
<1>3. /\ PartialSum(h, n) = PartialSum(f, n) + PartialSum(g, n)
      /\ PartialSum(f, n) \in Nat /\ PartialSum(g, n) \in Nat
  BY <1>1, SumOfBoth
<1>4. /\ PartialSum(h2, n) = PartialSum(f2, n) + PartialSum(g2, n)
      /\ PartialSum(f2, n) \in Nat /\ PartialSum(g2, n) \in Nat
  BY <1>1, SumOfBoth
<1>5. PartialSum(h, n) <= PartialSum(h2, n)
  <2>1. h \in [0 .. n - 1 -> Nat] /\ h2 \in [0 .. n - 1 -> Nat]
    <3>1. \A p \in 0 .. n - 1 : f[p] + g[p] \in Nat /\ f2[p] + g2[p] \in Nat
      BY <1>1
    <3> QED
      BY <3>1
  <2>2. \A p \in 0 .. n - 1 : h[p] = f[p] + g[p] /\ h2[p] = f2[p] + g2[p]
    OBVIOUS
  <2>3. \A p \in 0 .. n - 1 : h[p] <= h2[p]
    BY <1>1, <2>2
  <2> HIDE DEF h, h2
  <2> QED
    BY <1>1, <2>1, <2>3, SumMonotone
<1> HIDE DEF h, h2
<1>6. takenIn' <= fundBalance' + PartialSum(f2, n) + PartialSum(g2, n)
  BY <1>2, <1>3, <1>4, <1>5
<1> QED
  BY <1>6 DEF PaymentsReachRecipients, NotifiedTable, f2, g2, n

LEMMA NotifiedGrows ==
  ASSUME StrategyInv, IInv', KeepsBooks
  PROVE  /\ NotifiedTable' \in [Strategies -> Nat]
         /\ \A s \in Strategies : NotifiedTable[s] <= NotifiedTable'[s]
<1>1. /\ registered' \subseteq Strategies
      /\ reward' \in [Strategies -> [Tokens -> Stream(Accounts)]]
  BY DEF IInv, ResonanceInv, BribeInv, BribeTypeOK, TypeOK
<1>2. \A s \in registered' : paymentToken'[s] \in Tokens
  BY TokensStay, ResonanceConstants DEF PaidInTokens
<1>3. \A s \in registered' : reward'[s][paymentToken'[s]].notified \in Nat
  BY <1>1, <1>2 DEF Stream
<1>4. NotifiedTable' \in [Strategies -> Nat]
  BY <1>3 DEF NotifiedTable
<1>5. ASSUME NEW s \in Strategies PROVE NotifiedTable[s] <= NotifiedTable'[s]
  <2>1. CASE s \in registered
    <3>1. s \in registered' /\ paymentToken'[s] = paymentToken[s] /\ paymentToken[s] \in Tokens
      BY <2>1, ResonanceConstants DEF KeepsBooks, StrategiesStay, StrategyInv, PaidInTokens
    <3> QED
      BY <2>1, <3>1 DEF NotifiedTable, KeepsBooks, RewardsGrow
  <2>2. CASE s \notin registered
    BY <1>4, <2>2 DEF NotifiedTable
  <2> QED
    BY <2>1, <2>2
<1> QED
  BY <1>4, <1>5

-----------------------------------------------------------------------------
(* The steps. *)

OrdersTyped ==
  /\ epochId \in [Strategies -> Nat]
  /\ initialPrice \in [Strategies -> 0 .. ABSOLUTE_MAXIMUM_PRICE]
  /\ epochStartedAt \in [Strategies -> Times]
  /\ EpochsStarted

LEMMA OrdersAreTyped ==
  ASSUME StrategyInv
  PROVE  OrdersTyped
BY StrategyTyped DEF OrdersTyped, EpochsStarted

(* A call that opens and finishes no purchase. *)
NoPurchase ==
  /\ KeepsBooks /\ RevenueStands /\ now' = now
  /\ OrdersStand
  /\ UNCHANGED <<purchases, soldUSDG, takenIn, fundBalance>>
  /\ bribeRouterBalance' \in [Strategies -> Nat]
  /\ \A s \in Strategies :
       bribeRouterBalance[s] + NotifiedTable[s] <= bribeRouterBalance'[s] + NotifiedTable'[s]

LEMMA NoPurchaseStep ==
  ASSUME StrategyInv, IInv', OrdersTyped', NoPurchase
  PROVE  StrategyInv'
<1> USE DEF NoPurchase
<1>1. OpenOnce' /\ OpenTakeAll' /\ PurchasesComplete'
  BY PurchasesStand
<1>2. PaidInTokens'
  BY TokensStay
<1>3. StrategyTypeOK'
  <2>1. TypeOK'
    BY DEF IInv, ResonanceInv
  <2> QED
    BY <2>1, StrategyTyped DEF OrdersTyped, StrategyTypeOK
<1>4. RevenueConserved'
  BY <1>3, RevenueStaysConserved DEF RevenueConserved
<1>5. PaymentsMoveOn
  BY NotifiedGrows DEF PaymentsMoveOn
<1>6. PaymentsReachRecipients'
  BY <1>5, PaymentsKept
<1> QED
  BY <1>1, <1>2, <1>4, <1>6 DEF StrategyInv, OrdersTyped

LEMMA RoutersKeep ==
  ASSUME StrategyInv, IInv', KeepsBooks, bribeRouterBalance' = bribeRouterBalance
  PROVE  /\ bribeRouterBalance' \in [Strategies -> Nat]
         /\ \A s \in Strategies :
              bribeRouterBalance[s] + NotifiedTable[s] <= bribeRouterBalance'[s] + NotifiedTable'[s]
<1>1. bribeRouterBalance \in [Strategies -> Nat] /\ NotifiedTable \in [Strategies -> Nat]
  BY PaymentsTyped
<1>2. ASSUME NEW s \in Strategies
      PROVE  bribeRouterBalance[s] + NotifiedTable[s] <= bribeRouterBalance'[s] + NotifiedTable'[s]
  <2> DEFINE a == NotifiedTable[s]
             b == NotifiedTable'[s]
             r == bribeRouterBalance[s]
  <2>1. a \in Nat /\ b \in Nat /\ a <= b /\ r \in Nat
    BY <1>1, NotifiedGrows
  <2> HIDE DEF a, b, r
  <2>2. r + a <= r + b
    BY <2>1
  <2> QED
    BY <2>2 DEF a, b, r
<1> QED
  BY <1>1, <1>2

LEMMA OtherCallsStep ==
  ASSUME StrategyInv, OtherCalls, UNCHANGED strategyVars
  PROVE  StrategyInv'
<1>1. IInv' /\ KeepsBooks /\ RevenueStands /\ now' = now
  BY StrategyTyped, OtherCallsKeepBooks
<1>2. UNCHANGED <<epochId, initialPrice, epochStartedAt, purchases, fundBalance,
                  bribeRouterBalance, takenIn, soldUSDG>>
  BY DEF strategyVars, auctionVars, paymentVars
<1>3. OrdersTyped'
  BY <1>1, <1>2, OrdersAreTyped DEF OrdersTyped, EpochsStarted
<1>4. OrdersStand
  BY <1>2 DEF OrdersStand
<1>5. NoPurchase
  BY <1>1, <1>2, <1>4, RoutersKeep DEF NoPurchase
<1> QED
  BY <1>1, <1>3, <1>5, NoPurchaseStep

LEMMA CreateStrategyStep ==
  ASSUME StrategyInv, NEW s \in Strategies, NEW token \in PaymentTokens, CreateStrategy(s, token)
  PROVE  StrategyInv'
<1>1. /\ AddStrategy(s, token)
      /\ initialPrice' = [initialPrice EXCEPT ![s] = ConfigInitialPrice]
      /\ epochStartedAt' = [epochStartedAt EXCEPT ![s] = now]
      /\ UNCHANGED <<epochId, purchases, fundBalance, bribeRouterBalance, takenIn, soldUSDG>>
  BY DEF CreateStrategy, paymentVars
<1>2. IInv' /\ KeepsBooks /\ RevenueStands /\ now' = now
  BY <1>1, StrategyTyped, AddStrategyKeepsBooks, AddStrategyStep DEF AddStrategy
<1>3. OrdersTyped'
  <2>1. ConfigInitialPrice \in 0 .. ABSOLUTE_MAXIMUM_PRICE
    BY StrategyConstants
  <2>2. /\ epochId' \in [Strategies -> Nat]
        /\ initialPrice' \in [Strategies -> 0 .. ABSOLUTE_MAXIMUM_PRICE]
        /\ epochStartedAt' \in [Strategies -> Times]
    BY <1>1, <2>1, StrategyTyped
  <2>3. EpochsStarted'
    BY <1>1, <1>2, StrategyTyped DEF EpochsStarted
  <2> QED
    BY <2>2, <2>3 DEF OrdersTyped
<1>4. OrdersStand
  <2>1. s \notin registered
    BY <1>1, StrategiesAndAccounts DEF AddStrategy
  <2> QED
    BY <1>1, <2>1, StrategyTyped DEF OrdersStand
<1>5. NoPurchase
  BY <1>1, <1>2, <1>4, RoutersKeep DEF NoPurchase
<1> QED
  BY <1>2, <1>3, <1>5, NoPurchaseStep

(* What a BribeRouter held, its Bribe has been notified of. *)
LEMMA RouteRewardStep ==
  ASSUME StrategyInv, NEW s \in Strategies, RouteReward(s)
  PROVE  StrategyInv'
<1> DEFINE t == paymentToken[s]
           held == bribeRouterBalance[s]
<1>1. /\ s \in registered
      /\ NotifyReward(s, t, held)
      /\ bribeRouterBalance' = [bribeRouterBalance EXCEPT ![s] = 0]
      /\ now' = now /\ UNCHANGED resonanceVars
      /\ UNCHANGED <<epochId, initialPrice, epochStartedAt, purchases, fundBalance, takenIn, soldUSDG>>
  BY DEF RouteReward, auctionVars
<1>2. /\ IInv /\ t \in Tokens /\ held \in Nat
      /\ bribeRouterBalance \in [Strategies -> Nat] /\ NotifiedTable \in [Strategies -> Nat]
  BY <1>1, StrategyTyped, PaymentsTyped, ResonanceConstants DEF StrategyInv, PaidInTokens
<1>3. FundBribe(s, t, held)
  BY <1>1 DEF FundBribe
<1>4. IInv' /\ RevenueStands
  BY <1>2, <1>3, FundBribeStep
<1>5. /\ RewardsGrow
      /\ reward'[s][t].notified = reward[s][t].notified + held
  BY <1>1, <1>2, NotifyingGrows
<1>6. KeepsBooks
  BY <1>1, <1>2, <1>5, BribeCallKeepsBooks
<1>7. UNCHANGED <<registered, paymentToken>>
  BY <1>1 DEF resonanceVars, lifecycleVars
<1>8. bribeRouterBalance' \in [Strategies -> Nat]
  BY <1>1, <1>2
<1>9. ASSUME NEW z \in Strategies
      PROVE  bribeRouterBalance[z] + NotifiedTable[z] <= bribeRouterBalance'[z] + NotifiedTable'[z]
  <2> DEFINE a == NotifiedTable[z]
             b == NotifiedTable'[z]
             r == bribeRouterBalance[z]
             r2 == bribeRouterBalance'[z]
  <2>1. a \in Nat /\ b \in Nat /\ a <= b /\ r \in Nat /\ r2 \in Nat
    BY <1>2, <1>4, <1>6, <1>8, NotifiedGrows
  <2>2. CASE z = s
    <3>1. r = held /\ r2 = 0
      BY <1>1, <1>2, <2>2
    <3>2. a = reward[s][t].notified
      BY <1>1, <2>2 DEF NotifiedTable
    <3>3. b = reward'[s][t].notified
      BY <1>1, <1>7, <2>2 DEF NotifiedTable
    <3>4. b = a + held
      BY <1>5, <3>2, <3>3
    <3> HIDE DEF a, b, r, r2, held
    <3>5. r + a <= r2 + b
      BY <2>1, <3>1, <3>4
    <3> QED
      BY <3>5 DEF a, b, r, r2
  <2>3. CASE z # s
    <3>1. r2 = r
      BY <1>1, <1>2, <2>3
    <3> HIDE DEF a, b, r, r2
    <3>2. r + a <= r2 + b
      BY <2>1, <3>1
    <3> QED
      BY <3>2 DEF a, b, r, r2
  <2> QED
    BY <2>2, <2>3
<1>10. OrdersStand /\ OrdersTyped'
  BY <1>1, OrdersAreTyped DEF OrdersStand, OrdersTyped, EpochsStarted
<1>11. NoPurchase
  BY <1>1, <1>4, <1>6, <1>8, <1>9, <1>10 DEF NoPurchase
<1> QED
  BY <1>4, <1>10, <1>11, NoPurchaseStep

LEMMA StrategyTickStep ==
  ASSUME StrategyInv, purchases = << >>, Tick, UNCHANGED strategyVars
  PROVE  StrategyInv'
<1>1. UNCHANGED <<epochId, initialPrice, epochStartedAt, purchases, fundBalance,
                  bribeRouterBalance, takenIn, soldUSDG>>
  BY DEF strategyVars, auctionVars, paymentVars
<1>2. IInv'
  BY StrategyTyped, TickStep
<1>3. /\ UNCHANGED <<revenue, resonanceUSDG, strategyUSDG, registered, paymentToken, reward>>
      /\ now' = now + 1
  BY DEF Tick, resonanceVars, lifecycleVars, usdgVars, bribeVars
<1>4. EpochsStarted'
  BY <1>1, <1>3, StrategyTyped DEF EpochsStarted
<1>5. OpenOnce' /\ OpenTakeAll' /\ PurchasesComplete'
  BY <1>1 DEF OpenOnce, OpenTakeAll, PurchasesComplete
<1>6. TypeOK'
  BY <1>2 DEF IInv, ResonanceInv
<1>7. RevenueConserved'
  BY <1>1, <1>3, <1>6, StrategyTyped DEF StrategyInv, RevenueConserved, StrategyTypeOK
<1>8. PaidInTokens' /\ PaymentsReachRecipients'
  BY <1>1, <1>3 DEF StrategyInv, PaidInTokens, PaymentsReachRecipients
<1> QED
  BY <1>2, <1>4, <1>5, <1>7, <1>8 DEF StrategyInv

(***************************************************************************)
(* The purchases.                                                          *)
(***************************************************************************)

LEMMA Stacked ==
  ASSUME NEW S, NEW q \in Seq(S), NEW p \in S
  PROVE  /\ <<p>> \o q \in Seq(S)
         /\ \A n \in DOMAIN (<<p>> \o q) :
              \/ n = 1 /\ (<<p>> \o q)[n] = p
              \/ n # 1 /\ n - 1 \in DOMAIN q /\ (<<p>> \o q)[n] = q[n - 1]
OBVIOUS

LEMMA Unstacked ==
  ASSUME NEW S, NEW q \in Seq(S), q # << >>
  PROVE  /\ Tail(q) \in Seq(S) /\ Head(q) = q[1] /\ 1 \in DOMAIN q
         /\ \A n \in DOMAIN Tail(q) : n + 1 \in DOMAIN q /\ n + 1 # 1 /\ Tail(q)[n] = q[n + 1]
OBVIOUS

LEMMA NothingLeftToEarn ==
  ASSUME IInv, NEW s \in Strategies, DistributeRevenue(s)
  PROVE  /\ RevenueEarned(s)' = 0
         /\ strategyUSDG'[s] = RevenueAmount(s) /\ s \in registered'
<1>1. ActiveWeights' = ActiveWeights
  BY DEF DistributeRevenue, ActiveWeights, lifecycleVars, bribeVars
<1>2. RevenuePaid(s)
  BY <1>1 DEF RevenuePaid, DistributeRevenue
<1>3. RevenueEarned(s)' = 0
  BY <1>2, PaidRevenue DEF IInv
<1>4. strategyUSDG'[s] = strategyUSDG[s] + RevenueEarned(s)
  BY RevenueTyped DEF DistributeRevenue
<1> QED
  BY <1>3, <1>4 DEF RevenueAmount, DistributeRevenue, lifecycleVars

LEMMA BuyBeginStep ==
  ASSUME StrategyInv, NEW s \in Strategies, NEW expectedEpochId, NEW deadline, NEW maximumPayment,
         BuyBegin(s, expectedEpochId, deadline, maximumPayment)
  PROVE  StrategyInv'
<1> DEFINE p == [strategy |-> s, epoch |-> expectedEpochId, revenue |-> RevenueAmount(s),
                 payment |-> CurrentPrice(s), bps |-> bribeBps]
<1>1. /\ s \notin Open /\ expectedEpochId = epochId[s]
      /\ RevenueAmount(s) # 0 /\ CurrentPrice(s) # 0
      /\ DistributeRevenue(s)
      /\ purchases' = <<p>> \o purchases
      /\ UNCHANGED <<epochId, initialPrice, epochStartedAt, fundBalance, bribeRouterBalance,
                     takenIn, soldUSDG>>
  BY DEF BuyBegin, OrderIsGood, auctionVars, paymentVars
<1>2. IInv' /\ KeepsBooks /\ RevenueStands /\ now' = now
  BY <1>1, StrategyTyped, DistributeKeepsBooks, DistributeRevenueStep DEF DistributeRevenue
<1>3. OrdersStand /\ OrdersTyped'
  BY <1>1, <1>2, OrdersAreTyped DEF OrdersStand, OrdersTyped, EpochsStarted
<1>4. PICK q : q = p
  OBVIOUS
<1>5. /\ q \in Purchase
      /\ q.strategy = s /\ q.epoch = epochId[s] /\ q.revenue = RevenueAmount(s)
      /\ q.payment = CurrentPrice(s)
  <2>1. RevenueAmount(s) \in Nat
    BY StrategyTyped, RevenueTyped DEF RevenueAmount
  <2>2. CurrentPrice(s) \in Nat
    BY PriceFalls
  <2>3. epochId[s] \in Nat /\ bribeBps \in 0 .. MAX_BRIBE_BPS
    BY StrategyTyped
  <2> QED
    BY <1>1, <1>4, <2>1, <2>2, <2>3 DEF Purchase
<1> HIDE DEF p
<1>6. /\ purchases' \in Seq(Purchase)
      /\ \A n \in DOMAIN purchases' :
           \/ n = 1 /\ purchases'[n] = q
           \/ n # 1 /\ n - 1 \in DOMAIN purchases /\ purchases'[n] = purchases[n - 1]
  BY <1>1, <1>4, <1>5, StrategyTyped, Stacked
<1>7. PurchaseStands(q)
  <2>1. RevenueEarned(s)' = 0 /\ strategyUSDG'[s] = RevenueAmount(s) /\ s \in registered'
    BY <1>1, StrategyTyped, NothingLeftToEarn
  <2>2. CurrentPrice(s)' = CurrentPrice(s) /\ epochId'[s] = epochId[s]
    BY <1>1, <1>2 DEF CurrentPrice
  <2> QED
    BY <1>5, <2>1, <2>2 DEF PurchaseStands
<1>8. AllStand
  <2> SUFFICES ASSUME NEW n \in DOMAIN purchases', NEW r, r = purchases'[n]
               PROVE  PurchaseStands(r)
    BY DEF AllStand
  <2>1. CASE n = 1
    BY <1>6, <1>7, <2>1
  <2>2. CASE n # 1
    <3>1. n - 1 \in DOMAIN purchases /\ r = purchases[n - 1]
      BY <1>6, <2>2
    <3> QED
      BY <1>2, <1>3, <3>1, PurchaseStandsThroughCall
  <2> QED
    BY <2>1, <2>2
<1>9. OpenOnce'
  <2> SUFFICES ASSUME NEW m \in DOMAIN purchases', NEW n \in DOMAIN purchases',
                      purchases'[m].strategy = purchases'[n].strategy
               PROVE  m = n
    BY DEF OpenOnce
  <2>1. m \in Nat /\ n \in Nat
    BY <1>6
  <2>2. \A k \in DOMAIN purchases : purchases[k].strategy # s
    BY <1>1 DEF Open
  <2>3. CASE m = 1 \/ n = 1
    BY <1>5, <1>6, <2>2, <2>3
  <2>4. CASE m # 1 /\ n # 1
    <3>1. /\ m - 1 \in DOMAIN purchases /\ n - 1 \in DOMAIN purchases
          /\ purchases[m - 1].strategy = purchases[n - 1].strategy
      BY <1>6, <2>4
    <3>2. m - 1 = n - 1
      BY <3>1 DEF StrategyInv, OpenOnce
    <3> QED
      BY <2>1, <3>2
  <2> QED
    BY <2>3, <2>4
<1>10. OpenTakeAll' /\ PurchasesComplete'
  BY <1>2, <1>8, StandingPurchases
<1>11. StrategyTypeOK'
  <2>1. TypeOK'
    BY <1>2 DEF IInv, ResonanceInv
  <2> QED
    BY <1>1, <1>3, <1>6, <2>1, StrategyTyped DEF OrdersTyped, StrategyTypeOK
<1>12. RevenueConserved'
  BY <1>1, <1>2, <1>11, RevenueStaysConserved DEF RevenueConserved
<1>13. PaidInTokens' /\ PaymentsReachRecipients'
  <2>1. PaymentsMoveOn
    BY <1>1, <1>2, NotifiedGrows, RoutersKeep DEF PaymentsMoveOn
  <2> QED
    BY <1>2, <2>1, PaymentsKept, TokensStay
<1> QED
  BY <1>2, <1>3, <1>9, <1>10, <1>12, <1>13 DEF StrategyInv, OrdersTyped

(* A Strategy delivers USDG: nothing of Resonance or of a Bribe changes.    *)
LEMMA StrategyDelivers ==
  ASSUME IInv, strategyUSDG' \in [Strategies -> Nat],
         UNCHANGED <<now, revenue, totalSignalWeight, lifecycleVars, configVars,
                     resonanceUSDG, routerUSDG, bribeVars>>
  PROVE  /\ IInv'
         /\ \A s \in Strategies : RevenueEarned(s)' = RevenueEarned(s)
<1>1. BribeInv /\ ResonanceInv /\ ResonanceTypes
  BY ResonanceTyped DEF IInv
<1>2. BribeInv'
  BY <1>1, BribesUnchanged
<1>3. UNCHANGED <<registered, live, liveStrategyCount, paymentToken, routerBound, bribeBps, bribeWeight>>
  BY DEF lifecycleVars, configVars, bribeVars
<1>4. ActiveWeights' = ActiveWeights
  BY <1>3 DEF ActiveWeights
<1>5. RevenueSound' /\ totalSignalWeight' = PartialSum(ActiveWeights', NumStrategies)
  BY <1>1, <1>4, RevenueFacts DEF RevenueSound
<1>6. RoutedStreamsPay'
  BY <1>1 DEF RoutedStreamsPay, ResonanceInv
<1>7. IInv'
  BY <1>1, <1>2, <1>3, <1>5, <1>6, ResonanceInvKept DEF ResonanceTypes
<1>8. \A s \in Strategies : RevenueEarned(s)' = RevenueEarned(s)
  BY <1>4 DEF RevenueEarned
<1> QED
  BY <1>7, <1>8

(* The next epoch of a Strategy, and of no other. *)
LEMMA NextEpochOrders ==
  ASSUME StrategyInv, now' = now, NEW s \in Strategies, NEW payment \in Nat, StartNextEpoch(s, payment)
  PROVE  /\ OrdersTyped'
         /\ epochId'[s] = epochId[s] + 1
         /\ \A z \in Strategies : z # s => CurrentPrice(z)' = CurrentPrice(z) /\ epochId'[z] = epochId[z]
<1>1. NextInitialPrice(payment) \in 0 .. ABSOLUTE_MAXIMUM_PRICE
  BY NextPriceBounds
<1>2. /\ initialPrice' = [initialPrice EXCEPT ![s] = NextInitialPrice(payment)]
      /\ epochStartedAt' = [epochStartedAt EXCEPT ![s] = now]
      /\ epochId' = [epochId EXCEPT ![s] = epochId[s] + 1]
  BY DEF StartNextEpoch
<1>3. initialPrice' \in [Strategies -> 0 .. ABSOLUTE_MAXIMUM_PRICE]
  BY <1>1, <1>2, StrategyTyped
<1>4. epochStartedAt' \in [Strategies -> Times] /\ EpochsStarted'
  BY <1>2, StrategyTyped DEF EpochsStarted
<1>5. epochId' \in [Strategies -> Nat] /\ epochId'[s] = epochId[s] + 1
  BY <1>2, StrategyTyped
<1>6. ASSUME NEW z \in Strategies, z # s
      PROVE  CurrentPrice(z)' = CurrentPrice(z) /\ epochId'[z] = epochId[z]
  BY <1>2, <1>6, StrategyTyped DEF CurrentPrice
<1> QED
  BY <1>3, <1>4, <1>5, <1>6 DEF OrdersTyped

(* The sum of what the Strategies hold when one of them pays everything.    *)
LEMMA HeldAfterDelivery ==
  ASSUME StrategyInv, NEW s \in Strategies, strategyUSDG' = [strategyUSDG EXCEPT ![s] = 0]
  PROVE  /\ strategyUSDG' \in [Strategies -> Nat]
         /\ PartialSum(strategyUSDG', NumStrategies) + strategyUSDG[s]
              = PartialSum(strategyUSDG, NumStrategies)
         /\ PartialSum(strategyUSDG', NumStrategies) \in Nat
         /\ strategyUSDG[s] \in Nat
<1> DEFINE n == NumStrategies
           f == strategyUSDG
           g == strategyUSDG'
           zero == 0
<1>1. /\ f \in [Strategies -> Nat] /\ PartialSum(f, n) \in Nat
  BY StrategyTyped, RevenueTyped
<1>2. g \in [Strategies -> Nat]
  BY <1>1
<1>3. /\ n \in Nat /\ f \in [0 .. n - 1 -> Int] /\ s \in 0 .. n - 1 /\ zero \in Int
      /\ g = [f EXCEPT ![s] = zero] /\ f[s] \in Nat
  BY <1>1, StrategiesAndAccounts
<1>4. PartialSum(g, n) \in Nat
  BY <1>2, SumNatural, StrategiesAndAccounts
<1> HIDE DEF n, f, g, zero
<1>5. PartialSum(g, n) = PartialSum(f, n) + (zero - f[s])
  BY <1>3, SumShift
<1>6. PartialSum(g, n) + f[s] = PartialSum(f, n)
  BY <1>1, <1>3, <1>4, <1>5 DEF zero
<1> QED
  BY <1>2, <1>3, <1>4, <1>6 DEF n, f, g

(* A payment is shared out between the Fund and a BribeRouter. *)
LEMMA PaymentSettled ==
  ASSUME StrategyInv, NEW p \in Purchase, SettlePayment(p),
         UNCHANGED <<registered, paymentToken, reward>>
  PROVE  /\ PaymentsReachRecipients'
         /\ fundBalance' \in Nat /\ takenIn' \in Nat /\ bribeRouterBalance' \in [Strategies -> Nat]
<1> DEFINE n == NumStrategies
           s == p.strategy
           share == BribeShare(p)
           f == bribeRouterBalance
           g == bribeRouterBalance'
           x == f[s] + share
           notified == PartialSum(NotifiedTable, n)
<1>1. /\ fundBalance' = fundBalance + (p.payment - share)
      /\ g = [f EXCEPT ![s] = x]
      /\ takenIn' = takenIn + p.payment
  BY DEF SettlePayment
<1>2. s \in Strategies /\ p.payment \in Nat /\ share \in Nat /\ share <= p.payment
  BY ShareOfPayment
<1>3. /\ f \in [Strategies -> Nat] /\ takenIn \in Nat /\ fundBalance \in Nat
      /\ notified \in Nat /\ PartialSum(f, n) \in Nat
      /\ takenIn <= fundBalance + PartialSum(f, n) + notified
  BY PaymentsTyped
<1>4. NotifiedTable' = NotifiedTable
  BY DEF NotifiedTable
<1>5. g \in [Strategies -> Nat]
  BY <1>1, <1>2, <1>3
<1>6. /\ n \in Nat /\ f \in [0 .. n - 1 -> Int] /\ s \in 0 .. n - 1 /\ x \in Int
      /\ x - f[s] = share
  <2>1. f[s] \in Nat /\ f \in [Strategies -> Int]
    BY <1>2, <1>3
  <2>2. n \in Nat /\ f \in [0 .. n - 1 -> Int] /\ s \in 0 .. n - 1
    BY <1>2, <2>1, StrategiesAndAccounts
  <2> HIDE DEF f, share
  <2>3. x \in Int /\ x - f[s] = share
    BY <1>2, <2>1
  <2> QED
    BY <2>2, <2>3
<1> HIDE DEF n, share, f, g, x, notified
<1>7. PartialSum(g, n) = PartialSum(f, n) + share
  BY <1>1, <1>6, SumShift
<1>8. takenIn' <= fundBalance' + PartialSum(g, n) + notified
  BY <1>1, <1>2, <1>3, <1>7
<1>9. fundBalance' \in Nat /\ takenIn' \in Nat
  BY <1>1, <1>2, <1>3
<1>10. PaymentsReachRecipients'
  BY <1>4, <1>8 DEF PaymentsReachRecipients, NotifiedTable, g, n, notified
<1> QED
  BY <1>5, <1>9, <1>10 DEF g

(* Delivering all that a Strategy has leaves the ledger of USDG balanced.   *)
LEMMA DeliveryConserves ==
  ASSUME StrategyInv, NEW s \in Strategies, NEW earned \in Nat,
         strategyUSDG' = [strategyUSDG EXCEPT ![s] = 0],
         soldUSDG' = soldUSDG + (strategyUSDG[s] + earned),
         resonanceUSDG' = resonanceUSDG - earned,
         revenue'.notified = revenue.notified
  PROVE  /\ revenue'.notified
              = resonanceUSDG' + PartialSum(strategyUSDG', NumStrategies) + soldUSDG'
         /\ soldUSDG' \in Nat
<1> DEFINE held == PartialSum(strategyUSDG, NumStrategies)
           held2 == PartialSum(strategyUSDG', NumStrategies)
           total == revenue.notified
           at == resonanceUSDG
           own == strategyUSDG[s]
           sold == soldUSDG
<1>1. held2 + own = held /\ held2 \in Nat /\ own \in Nat
  BY HeldAfterDelivery
<1>2. sold \in Nat /\ at \in Nat /\ held \in Nat /\ total \in Nat
  BY StrategyTyped, RevenueTyped
<1>3. total = at + held + sold
  BY DEF StrategyInv, RevenueConserved
<1> HIDE DEF held, held2, total, at, own, sold
<1>4. total = (at - earned) + held2 + (sold + (own + earned)) /\ sold + (own + earned) \in Nat
  BY <1>1, <1>2, <1>3
<1> QED
  BY <1>4 DEF held2, total, at, own, sold

LEMMA BuyFinishStep ==
  ASSUME StrategyInv, BuyFinish
  PROVE  /\ StrategyInv'
         /\ \A s \in Strategies : epochId'[s] # epochId[s] => RevenueAmount(s)' = 0
<1>1. PICK p : p = Head(purchases)
  OBVIOUS
<1>2. PICK s : s = p.strategy
  OBVIOUS
<1>3. /\ purchases # << >>
      /\ SettlePayment(p)
      /\ strategyUSDG' = [strategyUSDG EXCEPT ![s] = strategyUSDG[s] - p.revenue]
      /\ soldUSDG' = soldUSDG + p.revenue
      /\ StartNextEpoch(s, p.payment)
      /\ purchases' = Tail(purchases)
      /\ UNCHANGED <<now, revenue, totalSignalWeight, lifecycleVars, configVars,
                     resonanceUSDG, routerUSDG, bribeVars>>
  BY <1>1, <1>2 DEF BuyFinish
<1>4. /\ 1 \in DOMAIN purchases /\ p = purchases[1] /\ p \in Purchase
      /\ purchases' \in Seq(Purchase)
      /\ \A n \in DOMAIN purchases' :
           n + 1 \in DOMAIN purchases /\ n + 1 # 1 /\ purchases'[n] = purchases[n + 1]
  BY <1>1, <1>3, StrategyTyped, Unstacked
<1>5. /\ s \in Strategies /\ p.payment \in Nat
      /\ s \in registered /\ p.revenue = strategyUSDG[s] /\ RevenueEarned(s) = 0
  BY <1>2, <1>4, ShareOfPayment DEF StrategyInv, OpenTakeAll
<1>6. strategyUSDG' = [strategyUSDG EXCEPT ![s] = 0] /\ soldUSDG' = soldUSDG + strategyUSDG[s]
  <2>1. strategyUSDG[s] \in Nat
    BY <1>5, StrategyTyped, RevenueTyped
  <2>2. strategyUSDG[s] - p.revenue = 0
    BY <1>5, <2>1
  <2> QED
    BY <1>3, <1>5, <2>2
<1>7. strategyUSDG' \in [Strategies -> Nat]
  BY <1>5, <1>6, HeldAfterDelivery
<1>8. IInv' /\ \A z \in Strategies : RevenueEarned(z)' = RevenueEarned(z)
  BY <1>3, <1>7, StrategyTyped, StrategyDelivers
<1>9. /\ OrdersTyped' /\ epochId'[s] = epochId[s] + 1
      /\ \A z \in Strategies : z # s => CurrentPrice(z)' = CurrentPrice(z) /\ epochId'[z] = epochId[z]
  BY <1>3, <1>5, NextEpochOrders
<1>10. UNCHANGED <<registered, paymentToken, reward>>
  BY <1>3 DEF lifecycleVars, bribeVars
<1>11. AllStand
  <2> SUFFICES ASSUME NEW n \in DOMAIN purchases', NEW r, r = purchases'[n]
               PROVE  PurchaseStands(r)
    BY DEF AllStand
  <2>1. n + 1 \in DOMAIN purchases /\ r = purchases[n + 1] /\ n + 1 # 1
    BY <1>4
  <2>2. PICK z : z = r.strategy
    OBVIOUS
  <2>3. z # s
    BY <1>2, <1>4, <2>1, <2>2 DEF StrategyInv, OpenOnce
  <2>4. z \in registered /\ z \in Strategies
    BY <2>1, <2>2, StrategyTyped DEF StrategyInv, OpenTakeAll
  <2>5. strategyUSDG'[z] = strategyUSDG[z]
    BY <1>6, <2>3, <2>4, StrategyTyped, RevenueTyped
  <2>6. CallLeaves(z)
    BY <1>8, <1>9, <1>10, <2>3, <2>4, <2>5 DEF CallLeaves
  <2> QED
    BY <2>1, <2>2, <2>6, PurchaseLeftStanding
<1>12. OpenTakeAll' /\ PurchasesComplete'
  BY <1>8, <1>11, StandingPurchases
<1>13. OpenOnce'
  <2> SUFFICES ASSUME NEW m \in DOMAIN purchases', NEW n \in DOMAIN purchases',
                      purchases'[m].strategy = purchases'[n].strategy
               PROVE  m = n
    BY DEF OpenOnce
  <2>1. m \in Nat /\ n \in Nat
    BY <1>4
  <2>2. /\ m + 1 \in DOMAIN purchases /\ n + 1 \in DOMAIN purchases
        /\ purchases[m + 1].strategy = purchases[n + 1].strategy
    BY <1>4
  <2>3. m + 1 = n + 1
    BY <2>2 DEF StrategyInv, OpenOnce
  <2> QED
    BY <2>1, <2>3
<1>14. /\ PaymentsReachRecipients'
       /\ fundBalance' \in Nat /\ takenIn' \in Nat /\ bribeRouterBalance' \in [Strategies -> Nat]
  BY <1>3, <1>4, <1>10, PaymentSettled
<1>15. /\ revenue'.notified = resonanceUSDG' + PartialSum(strategyUSDG', NumStrategies) + soldUSDG'
       /\ soldUSDG' \in Nat
  <2> DEFINE earned == 0
  <2>1. strategyUSDG[s] \in Nat /\ resonanceUSDG \in Nat
    BY <1>5, StrategyTyped, RevenueTyped
  <2>2. /\ earned \in Nat /\ soldUSDG' = soldUSDG + (strategyUSDG[s] + earned)
        /\ resonanceUSDG' = resonanceUSDG - earned
        /\ revenue'.notified = revenue.notified
    BY <1>3, <1>6, <2>1
  <2> HIDE DEF earned
  <2> QED
    BY <1>5, <1>6, <2>2, DeliveryConserves
<1>16. StrategyTypeOK'
  <2>1. TypeOK'
    BY <1>8 DEF IInv, ResonanceInv
  <2> QED
    BY <1>4, <1>9, <1>14, <1>15, <2>1 DEF OrdersTyped, StrategyTypeOK
<1>17. RevenueConserved' /\ PaidInTokens'
  BY <1>10, <1>15, <1>16 DEF RevenueConserved, StrategyInv, PaidInTokens
<1>18. StrategyInv'
  BY <1>8, <1>9, <1>12, <1>13, <1>14, <1>17 DEF StrategyInv, OrdersTyped
<1>19. ASSUME NEW z \in Strategies, epochId'[z] # epochId[z] PROVE RevenueAmount(z)' = 0
  <2>1. z = s
    BY <1>9, <1>19
  <2>2. strategyUSDG'[s] = 0
    BY <1>5, <1>6, StrategyTyped, RevenueTyped
  <2>3. RevenueEarned(z)' = 0
    BY <1>5, <1>8, <2>1
  <2> QED
    BY <2>1, <2>2, <2>3 DEF RevenueAmount
<1> QED
  BY <1>18, <1>19

LEMMA BuyForNothingStep ==
  ASSUME StrategyInv, NEW s \in Strategies, NEW expectedEpochId, NEW deadline,
         BuyForNothing(s, expectedEpochId, deadline)
  PROVE  /\ StrategyInv'
         /\ \A z \in Strategies : epochId'[z] # epochId[z] => RevenueAmount(z)' = 0
<1> DEFINE earned == RevenueEarned(s)
           free == 0
<1>1. /\ s \notin Open
      /\ revenue' = DistributedRevenue(s)
      /\ resonanceUSDG' = resonanceUSDG - earned
      /\ strategyUSDG' = [strategyUSDG EXCEPT ![s] = 0]
      /\ soldUSDG' = soldUSDG + (strategyUSDG[s] + earned)
      /\ StartNextEpoch(s, free)
      /\ UNCHANGED <<now, totalSignalWeight, lifecycleVars, configVars, routerUSDG, bribeVars,
                     purchases, fundBalance, bribeRouterBalance, takenIn>>
  BY DEF BuyForNothing, OrderIsGood, RevenueAmount
<1>2. /\ BribeInv /\ ResonanceInv /\ ResonanceTypes
  BY StrategyTyped, ResonanceTyped DEF IInv
<1>3. BribeInv'
  BY <1>1, <1>2, BribesUnchanged
<1>4. UNCHANGED <<registered, live, liveStrategyCount, paymentToken, routerBound, bribeBps,
                  routerUSDG, bribeWeight, reward>>
  BY <1>1 DEF lifecycleVars, configVars, bribeVars
<1>5. ActiveWeights' = ActiveWeights
  BY <1>4 DEF ActiveWeights
<1>6. RevenuePaid(s)
  BY <1>1, <1>5 DEF RevenuePaid
<1>7. /\ RevenueSound' /\ RoutedStreamsPay' /\ resonanceUSDG' \in Nat
      /\ RevenueEarned(s)' = 0
      /\ \A z \in Strategies : z # s => RevenueEarned(z)' = RevenueEarned(z)
  BY <1>2, <1>6, PaidRevenue
<1>8. strategyUSDG' \in [Strategies -> Nat] /\ strategyUSDG'[s] = 0
  BY <1>1, StrategyTyped, RevenueTyped, HeldAfterDelivery
<1>9. totalSignalWeight' = PartialSum(ActiveWeights', NumStrategies)
  BY <1>2, <1>6, RevenueFacts DEF RevenuePaid
<1>10. IInv'
  BY <1>2, <1>3, <1>4, <1>7, <1>8, <1>9, ResonanceInvKept DEF ResonanceTypes
<1>11. /\ OrdersTyped'
       /\ \A z \in Strategies : z # s => CurrentPrice(z)' = CurrentPrice(z) /\ epochId'[z] = epochId[z]
  <2>1. free \in Nat
    OBVIOUS
  <2> HIDE DEF free
  <2> QED
    BY <1>1, <2>1, NextEpochOrders
<1>12. AllStand
  <2> SUFFICES ASSUME NEW n \in DOMAIN purchases', NEW r, r = purchases'[n]
               PROVE  PurchaseStands(r)
    BY DEF AllStand
  <2>1. n \in DOMAIN purchases /\ r = purchases[n]
    BY <1>1
  <2>2. PICK z : z = r.strategy
    OBVIOUS
  <2>3. z # s
    BY <1>1, <2>1, <2>2 DEF Open
  <2>4. z \in registered /\ z \in Strategies
    BY <2>1, <2>2, StrategyTyped DEF StrategyInv, OpenTakeAll
  <2>5. strategyUSDG'[z] = strategyUSDG[z]
    BY <1>1, <2>3, <2>4, StrategyTyped, RevenueTyped
  <2>6. CallLeaves(z)
    BY <1>4, <1>7, <1>11, <2>3, <2>4, <2>5 DEF CallLeaves
  <2> QED
    BY <2>1, <2>2, <2>6, PurchaseLeftStanding
<1>13. OpenTakeAll' /\ PurchasesComplete' /\ OpenOnce'
  <2>1. OpenOnce'
    BY <1>1 DEF StrategyInv, OpenOnce
  <2> QED
    BY <1>10, <1>12, <2>1, StandingPurchases
<1>14. revenue'.notified = revenue.notified
  <2>1. revenue \in Stream(Strategies)
    BY StrategyTyped, RevenueTyped
  <2>2. revenue' = Paid(Settled(revenue, now, totalSignalWeight, ActiveWeights, {s}), s)
    BY <1>1 DEF DistributedRevenue, RevenueSettled
  <2> QED
    BY <2>1, <2>2, NotifiedOfSettled
<1>15. earned \in Nat
  BY StrategyTyped, RevenueTyped
<1> HIDE DEF earned
<1>16. /\ revenue'.notified = resonanceUSDG' + PartialSum(strategyUSDG', NumStrategies) + soldUSDG'
       /\ soldUSDG' \in Nat
  BY <1>1, <1>14, <1>15, DeliveryConserves
<1>17. StrategyTypeOK'
  <2>1. TypeOK'
    BY <1>10 DEF IInv, ResonanceInv
  <2> QED
    BY <1>1, <1>11, <1>16, <2>1, StrategyTyped DEF OrdersTyped, StrategyTypeOK
<1>18. RevenueConserved'
  BY <1>16, <1>17 DEF RevenueConserved
<1>19. PaidInTokens' /\ PaymentsReachRecipients'
  BY <1>1, <1>4 DEF StrategyInv, PaidInTokens, PaymentsReachRecipients
<1>20. StrategyInv'
  BY <1>10, <1>11, <1>13, <1>18, <1>19 DEF StrategyInv, OrdersTyped
<1>21. ASSUME NEW z \in Strategies, epochId'[z] # epochId[z] PROVE RevenueAmount(z)' = 0
  <2>1. z = s
    BY <1>11, <1>21
  <2> QED
    BY <1>7, <1>8, <2>1 DEF RevenueAmount
<1> QED
  BY <1>20, <1>21

LEMMA StrategyInitInv == StrategyInit => StrategyInv
<1> SUFFICES ASSUME StrategyInit PROVE StrategyInv
  OBVIOUS
<1> DEFINE zeros == [p \in 0 .. NumStrategies - 1 |-> 0]
<1>1. IInv /\ TypeOK
  BY InitIInv DEF StrategyInit, IInv, ResonanceInv
<1>2. /\ registered = {} /\ now = 0 /\ revenue = NewStream(Strategies) /\ resonanceUSDG = 0
      /\ strategyUSDG = zeros /\ bribeRouterBalance = zeros
      /\ epochId = zeros /\ initialPrice = zeros /\ epochStartedAt = zeros
      /\ purchases = << >> /\ fundBalance = 0 /\ takenIn = 0 /\ soldUSDG = 0
  BY StrategiesAndAccounts DEF StrategyInit, Init, BribeInit
<1>3. PartialSum(zeros, NumStrategies) = 0
  BY SumOfNothing, StrategiesAndAccounts
<1>4. NotifiedTable = zeros
  BY <1>2, StrategiesAndAccounts DEF NotifiedTable
<1>5. revenue.notified = 0
  BY <1>2 DEF NewStream
<1>6. /\ zeros \in [Strategies -> Nat] /\ zeros \in [Strategies -> Times]
      /\ zeros \in [Strategies -> 0 .. ABSOLUTE_MAXIMUM_PRICE]
  BY StrategiesAndAccounts, StrategyConstants, BribeConstants DEF Times
<1>7. StrategyTypeOK
  BY <1>1, <1>2, <1>6 DEF StrategyTypeOK
<1>8. EpochsStarted
  BY <1>2, StrategiesAndAccounts DEF EpochsStarted
<1> HIDE DEF zeros
<1>9. RevenueConserved
  BY <1>2, <1>3, <1>5, <1>7 DEF RevenueConserved
<1>10. PaymentsReachRecipients
  BY <1>2, <1>3, <1>4 DEF PaymentsReachRecipients, NotifiedTable
<1>11. PaidInTokens /\ OpenOnce /\ OpenTakeAll /\ PurchasesComplete
  BY <1>2 DEF PaidInTokens, OpenOnce, OpenTakeAll, PurchasesComplete
<1> QED
  BY <1>1, <1>8, <1>9, <1>10, <1>11 DEF StrategyInv

LEMMA StrategyStutter ==
  ASSUME StrategyInv, UNCHANGED allVars
  PROVE  StrategyInv'
<1>1. UNCHANGED vars /\ UNCHANGED <<epochId, initialPrice, epochStartedAt, purchases, fundBalance,
                                    bribeRouterBalance, takenIn, soldUSDG>>
  BY DEF allVars, strategyVars, auctionVars, paymentVars
<1>2. UNCHANGED <<now, revenue, resonanceUSDG, strategyUSDG, registered, live, paymentToken, reward,
                  totalSignalWeight, bribeWeight>>
  BY <1>1 DEF vars, resonanceVars, lifecycleVars, usdgVars, bribeVars
<1>3. IInv'
  BY <1>1, NextIInv, StrategyTyped
<1>4. TypeOK'
  BY <1>3 DEF IInv, ResonanceInv
<1>5. EpochsStarted' /\ PaidInTokens' /\ OpenOnce'
  BY <1>1, <1>2 DEF StrategyInv, EpochsStarted, PaidInTokens, OpenOnce
<1>6. OpenTakeAll' /\ PurchasesComplete'
  BY <1>1, <1>2 DEF StrategyInv, OpenTakeAll, PurchasesComplete, RevenueEarned, ActiveWeights,
                    CurrentPrice
<1>7. RevenueConserved' /\ PaymentsReachRecipients'
  BY <1>1, <1>2, <1>4 DEF StrategyInv, RevenueConserved, StrategyTypeOK, PaymentsReachRecipients
<1> QED
  BY <1>3, <1>5, <1>6, <1>7 DEF StrategyInv

(* An epoch ends only by a purchase, which leaves nothing on sale. *)
EpochsEndEmpty == \A s \in Strategies : epochId'[s] # epochId[s] => RevenueAmount(s)' = 0

LEMMA StrategyNextInv ==
  ASSUME StrategyInv, [StrategyNext]_allVars
  PROVE  StrategyInv' /\ EpochsEndEmpty
<1>1. CASE UNCHANGED allVars
  BY <1>1, StrategyStutter DEF EpochsEndEmpty, allVars, strategyVars, auctionVars
<1>2. CASE BuyCalls
  <2>1. PICK s \in Strategies, expectedEpochId \in 0 .. MaxEpoch, deadline \in Deadlines :
          \/ BuyForNothing(s, expectedEpochId, deadline)
          \/ \E maximumPayment \in MaximumPayments :
               BuyBegin(s, expectedEpochId, deadline, maximumPayment)
    BY <1>2 DEF BuyCalls
  <2>2. CASE BuyForNothing(s, expectedEpochId, deadline)
    BY <2>1, <2>2, BuyForNothingStep DEF EpochsEndEmpty
  <2>3. ASSUME NEW maximumPayment, BuyBegin(s, expectedEpochId, deadline, maximumPayment)
        PROVE  StrategyInv' /\ EpochsEndEmpty
    <3>1. epochId' = epochId
      BY <2>3 DEF BuyBegin, auctionVars
    <3> QED
      BY <2>1, <2>3, <3>1, BuyBeginStep DEF EpochsEndEmpty
  <2> QED
    BY <2>1, <2>2, <2>3
<1>3. CASE BuyFinish
  BY <1>3, BuyFinishStep DEF EpochsEndEmpty
<1>4. ASSUME NEW s \in Strategies, RouteReward(s) PROVE StrategyInv' /\ EpochsEndEmpty
  BY <1>4, RouteRewardStep DEF EpochsEndEmpty, RouteReward, auctionVars
<1>5. ASSUME NEW s \in Strategies, NEW token \in PaymentTokens, CreateStrategy(s, token)
      PROVE  StrategyInv' /\ EpochsEndEmpty
  BY <1>5, CreateStrategyStep DEF EpochsEndEmpty, CreateStrategy
<1>6. CASE OtherCalls /\ UNCHANGED strategyVars
  BY <1>6, OtherCallsStep DEF EpochsEndEmpty, strategyVars, auctionVars
<1>7. CASE purchases = << >> /\ Tick /\ UNCHANGED strategyVars
  BY <1>7, StrategyTickStep DEF EpochsEndEmpty, strategyVars, auctionVars
<1> QED
  BY <1>1, <1>2, <1>3, <1>4, <1>5, <1>6, <1>7 DEF StrategyNext

LEMMA StrategyInvariance == StrategySpec => []StrategyInv
<1>1. StrategyInv /\ [StrategyNext]_allVars => StrategyInv'
  BY StrategyNextInv
<1> QED
  BY <1>1, StrategyInitInv, PTL DEF StrategySpec

-----------------------------------------------------------------------------
(* Routing rewards. *)

RouteGuards(s) ==
  /\ s \in registered
  /\ bribeRouterBalance[s] # 0
  /\ bribeRouterBalance[s] >= RouteMinimumReward(s)
  /\ paymentToken[s] \in rewardTokens[s]
  /\ bribeRouterBalance[s] >= REWARD_DURATION
  /\ WithinLifetime(reward[s][paymentToken[s]], bribeRouterBalance[s])
  /\ Rollover(reward[s][paymentToken[s]], now, bribeRouterBalance[s])
  /\ BribeIndexFits(s, paymentToken[s])

RouteTaken(s) ==
  LET t == paymentToken[s]
      amount == bribeRouterBalance[s]
  IN  /\ reward' = [reward EXCEPT ![s][t] = Notified(@, now, bribeWeight[s], weightOf[s], amount)]
      /\ bribeBalance' = [bribeBalance EXCEPT ![s][t] = @ + amount]
      /\ bribeRouterBalance' = [bribeRouterBalance EXCEPT ![s] = 0]
      /\ UNCHANGED <<weightOf, bribeWeight, rewardTokens, now, resonanceVars, auctionVars,
                     purchases, fundBalance, takenIn, soldUSDG>>

(* The guards are all that route() and the Bribe's notifyReward ask for.    *)
LEMMA RouteIsItsGuards ==
  ASSUME NEW s
  PROVE  RouteReward(s) <=> RouteGuards(s) /\ RouteTaken(s)
BY DEF RouteReward, NotifyReward, RouteGuards, RouteTaken

(* A Strategy's payment token is a reward token of its Bribe, from the      *)
(* transaction that creates both.                                           *)
PaymentsAreRewards == \A s \in registered : paymentToken[s] \in rewardTokens[s]

LEMMA ListedGrows ==
  ASSUME StrategyInv, PaymentsAreRewards, UNCHANGED <<registered, paymentToken>>,
         \/ UNCHANGED rewardTokens
         \/ \E s \in Strategies, t \in Tokens : AddRewardToken(s, t)
  PROVE  PaymentsAreRewards'
<1>1. rewardTokens \in [Strategies -> SUBSET Tokens] /\ registered \subseteq Strategies
  BY DEF StrategyInv, IInv, BribeInv, BribeTypeOK, ResonanceInv, TypeOK
<1>2. \A s \in Strategies : rewardTokens[s] \subseteq rewardTokens'[s]
  BY <1>1 DEF AddRewardToken
<1> QED
  BY <1>1, <1>2 DEF PaymentsAreRewards

LEMMA ListingInvariance == StrategySpec => []PaymentsAreRewards
<1>1. StrategyInit => PaymentsAreRewards
  BY DEF StrategyInit, Init, PaymentsAreRewards
<1>2. StrategyInv /\ PaymentsAreRewards /\ [StrategyNext]_allVars => PaymentsAreRewards'
  <2> SUFFICES ASSUME StrategyInv, PaymentsAreRewards, [StrategyNext]_allVars
               PROVE  PaymentsAreRewards'
    OBVIOUS
  <2>1. CASE UNCHANGED <<rewardTokens, registered, paymentToken>>
    BY <2>1, ListedGrows
  <2>2. ASSUME NEW s \in Strategies, NEW token \in PaymentTokens, CreateStrategy(s, token)
        PROVE  PaymentsAreRewards'
    <3>1. /\ paymentToken' = [paymentToken EXCEPT ![s] = token]
          /\ registered' = registered \cup {s}
          /\ rewardTokens' = [rewardTokens EXCEPT ![s] = @ \cup {token}]
      BY <2>2 DEF CreateStrategy, AddStrategy, AddRewardToken
    <3>2. /\ rewardTokens \in [Strategies -> SUBSET Tokens]
          /\ registered \subseteq Strategies
          /\ DOMAIN paymentToken = Strategies
      BY DEF StrategyInv, IInv, BribeInv, BribeTypeOK, ResonanceInv, TypeOK
    <3> QED
      BY <3>1, <3>2 DEF PaymentsAreRewards
  <2>3. CASE OwnerCalls
    <3>1. UNCHANGED <<registered, paymentToken>>
      BY <2>3 DEF OwnerCalls, SetResonanceRouter, SetBribeBps, AddBribeRewardToken, KillStrategy,
                  resonanceVars, lifecycleVars
    <3>2. \/ UNCHANGED rewardTokens
          \/ \E s \in Strategies, t \in Tokens : AddRewardToken(s, t)
      BY <2>3 DEF OwnerCalls, SetResonanceRouter, SetBribeBps, AddBribeRewardToken, KillStrategy,
                  bribeVars
    <3> QED
      BY <3>1, <3>2, ListedGrows
  <2>4. CASE SignalCalls
    BY <2>1, <2>4 DEF SignalCalls, AddSignalFor, RemoveSignalFor, AddSignalWeight,
                      RemoveSignalWeight, lifecycleVars
  <2>5. CASE RevenueCalls
    BY <2>1, <2>5 DEF RevenueCalls, Route, NotifyRevenue, DistributeRevenue, DepositRevenue,
                      lifecycleVars, bribeVars
  <2>6. CASE RewardCalls
    BY <2>1, <2>6 DEF RewardCalls, ClaimBribeRewards, ClaimBribeReward, FundBribe,
                      ClaimRewards, ClaimReward, Claim, NotifyReward, resonanceVars, lifecycleVars
  <2>7. ASSUME NEW s \in Strategies, RouteReward(s) PROVE PaymentsAreRewards'
    BY <2>1, <2>7 DEF RouteReward, NotifyReward, resonanceVars, lifecycleVars
  <2>8. CASE BuyCalls
    BY <2>1, <2>8 DEF BuyCalls, BuyForNothing, BuyBegin, DistributeRevenue, vars, bribeVars,
                      resonanceVars, lifecycleVars
  <2>9. CASE BuyFinish
    BY <2>1, <2>9 DEF BuyFinish, vars, bribeVars, resonanceVars, lifecycleVars
  <2>10. CASE Tick
    BY <2>1, <2>10 DEF Tick, bribeVars, resonanceVars, lifecycleVars
  <2>11. CASE UNCHANGED allVars
    BY <2>1, <2>11 DEF allVars, vars, bribeVars, resonanceVars, lifecycleVars
  <2> QED
    BY <2>2, <2>3, <2>4, <2>5, <2>6, <2>7, <2>8, <2>9, <2>10, <2>11 DEF StrategyNext, OtherCalls
<1> QED
  BY <1>1, <1>2, StrategyInvariance, PTL DEF StrategySpec

LEMMA RouteIsOpen ==
  ASSUME StrategyInv, PaymentsAreRewards, NEW s \in registered,
         bribeRouterBalance[s] # 0,
         bribeRouterBalance[s] >= RouteMinimumReward(s),
         WithinLifetime(reward[s][paymentToken[s]], bribeRouterBalance[s])
  PROVE  RouteGuards(s)
<1> DEFINE t == paymentToken[s]
           b == bribeRouterBalance[s]
           left == Remaining(reward[s][t], now)
<1>1. s \in Strategies /\ t \in Tokens
  BY ResonanceConstants DEF StrategyInv, IInv, ResonanceInv, TypeOK, PaidInTokens
<1>2. b \in Nat
  BY <1>1 DEF StrategyInv, RevenueConserved, StrategyTypeOK
<1>3. left \in Int
  <2>1. reward[s][t] \in Stream(Accounts) /\ now \in Nat
    BY <1>1, BribeConstants DEF StrategyInv, IInv, BribeInv, BribeTypeOK, Times
  <2>2. reward[s][t].finish \in Nat /\ reward[s][t].rate \in Nat
    BY <2>1 DEF Stream
  <2> HIDE DEF t
  <2> QED
    BY <2>1, <2>2 DEF Remaining
<1>4. b >= REWARD_DURATION /\ b >= left
  <2>1. RouteMinimumReward(s) = IF left < REWARD_DURATION THEN REWARD_DURATION ELSE left
    BY DEF RouteMinimumReward
  <2>2. b >= RouteMinimumReward(s) /\ REWARD_DURATION \in Nat
    BY StreamConstants
  <2> HIDE DEF b, left
  <2> QED
    BY <1>2, <1>3, <2>1, <2>2
<1>5. BribeIndexFits(s, t)
  BY <1>1, PromisesKept DEF StrategyInv, ResonancePromises, UpdatesFit
<1>6. t \in rewardTokens[s]
  BY DEF PaymentsAreRewards
<1> QED
  BY <1>4, <1>5, <1>6 DEF RouteGuards, Rollover

-----------------------------------------------------------------------------
(* The theorems. *)

(* A purchase that has called its payment token can still be finished, for  *)
(* the epoch and at the price it was begun at, whatever the call did, other *)
(* purchases nested in it included (Strategy.sol: buy and its lock).        *)
THEOREM PurchasesAlwaysComplete == StrategySpec => []PurchasesComplete
<1>1. StrategyInv => PurchasesComplete
  BY DEF StrategyInv
<1> QED
  BY <1>1, StrategyInvariance, PTL

(* USDG that was notified is with Resonance, with a Strategy, or has been   *)
(* delivered to a buyer; and the state keeps its types.                     *)
THEOREM RevenueIsConserved == StrategySpec => []RevenueConserved
<1>1. StrategyInv => RevenueConserved
  BY DEF StrategyInv
<1> QED
  BY <1>1, StrategyInvariance, PTL

(* Every payment is with the Fund, in a BribeRouter, or was notified to a   *)
(* Bribe (Strategy.sol: _settlePayment; BribeRouter.sol: route).            *)
THEOREM PaymentsArrive == StrategySpec => []PaymentsReachRecipients
<1>1. StrategyInv => PaymentsReachRecipients
  BY DEF StrategyInv
<1> QED
  BY <1>1, StrategyInvariance, PTL

(* An epoch ends only with everything sold that its Strategy had earned.    *)
THEOREM PurchasesTakeEverything == StrategySpec => PurchaseTakesEverything
<1>1. StrategyInv /\ [StrategyNext]_allVars
        => [\A s \in Strategies : epochId'[s] # epochId[s] => RevenueAmount(s)' = 0]_allVars
  BY StrategyNextInv DEF EpochsEndEmpty
<1> QED
  BY <1>1, StrategyInvariance, PTL DEF StrategySpec, PurchaseTakesEverything

(* A BribeRouter that holds what route() waits for, and what the lifetime   *)
(* cap allows, can always route it: none of the requires of the Bribe can   *)
(* revert it, neither the duration, nor the rollover of what is streaming,  *)
(* nor the registration of the token, nor an update.  RouteTaken only       *)
(* assigns, so this is what RewardsRoutable says with ENABLED.              *)
THEOREM RewardsAlwaysRoutable ==
  StrategySpec =>
    [](\A s \in registered :
         (/\ bribeRouterBalance[s] # 0
          /\ bribeRouterBalance[s] >= RouteMinimumReward(s)
          /\ WithinLifetime(reward[s][paymentToken[s]], bribeRouterBalance[s]))
         => RouteGuards(s))
<1>1. StrategyInv /\ PaymentsAreRewards =>
        \A s \in registered :
          (/\ bribeRouterBalance[s] # 0
           /\ bribeRouterBalance[s] >= RouteMinimumReward(s)
           /\ WithinLifetime(reward[s][paymentToken[s]], bribeRouterBalance[s]))
          => RouteGuards(s)
  BY RouteIsOpen
<1> QED
  BY <1>1, StrategyInvariance, ListingInvariance, PTL

(* What Resonance and its Bribes promise of every state they also keep      *)
(* while Strategies buy from them, in the middle of a purchase too.         *)
THEOREM ResonanceSoundUnderTrade == StrategySpec => []ResonancePromises
<1>1. StrategyInv => ResonancePromises
  BY StrategyTyped, PromisesKept
<1> QED
  BY <1>1, StrategyInvariance, PTL
=============================================================================
