---------------------------- MODULE RewardModel ----------------------------
(***************************************************************************)
(* The two smaller conservation models of packages/simulations: a Strategy's *)
(* payments split between Fund and BribeRouter (StrategyPaymentModel) and    *)
(* the rewards of a Bribe without their streaming (RewardDistributionModel). *)
(* The scenarios run them apart; here the amount distribute returns is       *)
(* what emit receives, as the BribeRouter's route is notifyReward's amount.  *)
(***************************************************************************)
EXTENDS Integers, FiniteSetsExt

CONSTANTS Users, Weights, Amounts, BribeShares, RewardsLeft,  \* what scenarios choose from
          Precision, SettlementBps, DefaultBribeBps,
          MaxPaid       \* bound: payments and donations

RewardModelAssumption ==
  Precision > 0 /\ DefaultBribeBps \in 0..SettlementBps /\ \A b \in BribeShares : b \in 0..SettlementBps

VARIABLES bribeBps, fundReceived, routerBalance,           \* StrategyPaymentModel
          weights, userIndex, accrued, rewardIndex, received, \* RewardDistributionModel
          spent,      \* all payments and donations
          leastFund   \* what the Fund must have got of each payment, summed

payment == <<bribeBps, fundReceived, routerBalance, spent, leastFund>>
reward == <<weights, userIndex, accrued, rewardIndex, received>>
vars == <<payment, reward>>

TotalWeight == MapThenSumSet(LAMBDA u : weights[u], Users)

EarnedBy(u) == accrued[u] + (weights[u] * (rewardIndex - userIndex[u])) \div Precision

RewardSurplus == received - MapThenSumSet(EarnedBy, Users)

Init ==
  /\ bribeBps = DefaultBribeBps /\ fundReceived = 0 /\ routerBalance = 0
  /\ weights \in [Users -> Weights]
  /\ userIndex = [u \in Users |-> 0] /\ accrued = [u \in Users |-> 0]
  /\ rewardIndex = 0 /\ received = 0 /\ spent = 0 /\ leastFund = 0

SetBribeBps(share) == bribeBps' = share /\ UNCHANGED <<fundReceived, routerBalance, spent, leastFund, reward>>

BribeAmount(amount, share) == (amount * share) \div SettlementBps

Buy(amount) ==
  /\ amount > 0 /\ spent + amount <= MaxPaid
  /\ fundReceived' = fundReceived + amount - BribeAmount(amount, bribeBps)
  /\ routerBalance' = routerBalance + BribeAmount(amount, bribeBps)
  /\ spent' = spent + amount
  /\ leastFund' = leastFund + amount * (SettlementBps - bribeBps)
  /\ UNCHANGED <<bribeBps, reward>>

DonateToRouter(amount) ==
  /\ spent + amount <= MaxPaid
  /\ routerBalance' = routerBalance + amount
  /\ spent' = spent + amount
  /\ UNCHANGED <<bribeBps, fundReceived, leastFund, reward>>

\* emit: with nobody to earn it the amount is received and assigned to nobody.
Emit(amount) ==
  /\ received' = received + amount
  /\ rewardIndex' = IF TotalWeight = 0 THEN rewardIndex
                    ELSE rewardIndex + (amount * Precision) \div TotalWeight
  /\ UNCHANGED <<weights, userIndex, accrued>>

\* distribute: everything or nothing, and nothing below either bound.
Distribute(minimumAmount, rewardLeft) ==
  /\ routerBalance >= minimumAmount /\ routerBalance >= rewardLeft /\ routerBalance > 0
  /\ Emit(routerBalance)
  /\ routerBalance' = 0
  /\ UNCHANGED <<bribeBps, fundReceived, spent, leastFund>>

Checkpoint(u) ==
  /\ accrued' = [accrued EXCEPT ![u] = EarnedBy(u)]
  /\ userIndex' = [userIndex EXCEPT ![u] = rewardIndex]

CheckpointOnly(u) == Checkpoint(u) /\ UNCHANGED <<weights, rewardIndex, received, payment>>

SetWeight(u, weight) ==
  /\ Checkpoint(u)
  /\ weights' = [weights EXCEPT ![u] = weight]
  /\ UNCHANGED <<rewardIndex, received, payment>>

Next ==
  \/ \E share \in BribeShares : SetBribeBps(share)
  \/ \E amount \in Amounts : Buy(amount) \/ DonateToRouter(amount)
  \/ \E minimum \in Amounts, left \in RewardsLeft : Distribute(minimum, left)
  \/ \E u \in Users : CheckpointOnly(u) \/ \E w \in Weights : SetWeight(u, w)

Spec == Init /\ [][Next]_vars
-----------------------------------------------------------------------------
(* Weights that change between distributions never let users earn more than *)
(* was distributed: floors only leave a surplus.                             *)
RewardsNeverExceedReceived == RewardSurplus >= 0

(* A weight that changes does not change what anybody has earned so far.     *)
WeightsActForward ==
  rewardIndex' = rewardIndex => \A u \in Users : EarnedBy(u)' = EarnedBy(u)

(* Every unit spent is with the Fund, in the Router or distributed, under    *)
(* shares that change between purchases, and the Fund has at least its share *)
(* of every purchase.                                                        *)
PaymentsConserved ==
  /\ fundReceived + routerBalance + received = spent
  /\ fundReceived * SettlementBps >= leastFund
=============================================================================
