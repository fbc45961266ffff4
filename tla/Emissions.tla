----------------------------- MODULE Emissions -----------------------------
(***************************************************************************)
(* The offchain copies of the Mine's issuance and settlement arithmetic: the *)
(* SDK's quotes (packages/sdk/src/math), and the two forms in which the      *)
(* simulations (packages/simulations) compute what sixteen slots refreshed   *)
(* at every boundary would have issued.  A curve is what SDK callers pass as *)
(* MiningCurveConfig.  Arguments an operator's code throws on are outside    *)
(* its domain.                                                               *)
(*                                                                         *)
(* The state is one clock that issues second by second, to compare with.     *)
(***************************************************************************)
EXTENDS Integers, Sequences, SequencesExt

CONSTANTS Curves,        \* bound: the curves compared
          MaxElapsed,    \* bound: seconds since the start
          Payments,      \* bound: payments split
          BpsOf,         \* BPS_DENOMINATOR
          BribeRates     \* bound: Bribe shares a payment is classified at

VARIABLES curve, elapsed, issued, paid, classified

vars == <<curve, elapsed, issued, paid, classified>>

-----------------------------------------------------------------------------
(* integer.ts *)
MulDiv(x, y, denominator) == (x * y) \div denominator
ClampBigInt(value, minimum, maximum) ==
  IF value < minimum THEN minimum ELSE IF value > maximum THEN maximum ELSE value

ShiftRight(x, n) == x \div 2^n

ValidCurve(c) == c.halvingPeriod > 0 /\ c.tailTps > 0 /\ c.tailTps <= c.initialTps

(* emissions.ts: the prospective global rate. *)
MiningRateAt(t, c) ==
  LET shifted == ShiftRight(c.initialTps, t \div c.halvingPeriod)
  IN  IF shifted < c.tailTps THEN c.tailTps ELSE shifted

MiningPrice(initialPrice, t, decayPeriod) ==
  IF t >= decayPeriod THEN 0 ELSE initialPrice - MulDiv(initialPrice, t, decayPeriod)

MiningAccrual(tps, t) == tps * t

PreviousMinerAmount(payment, hasPreviousMiner, bps) ==
  IF hasPreviousMiner THEN MulDiv(payment, bps, BpsOf) ELSE 0

NextMiningInitialPrice(payment, multiplier, minimum, maximum) ==
  ClampBigInt(payment * multiplier, minimum, maximum)

(* supply.ts *)
CurrentTotalSupply(lifetimeMinted, lifetimeBurned) == lifetimeMinted - lifetimeBurned

(* auction.ts: the Bribe share of a Strategy payment is rounded down, the    *)
(* Fund gets the rest.                                                       *)
StrategyPayment(payment, bribeBps) ==
  LET bribe == MulDiv(payment, bribeBps, BpsOf) IN [fund |-> payment - bribe, bribe |-> bribe]

-----------------------------------------------------------------------------
(* reference-model: walk the eras until the time is used up or the tail      *)
(* rate is reached.                                                          *)
ReferenceEmission(t, c) ==
  LET Walk[era \in 0..256, remaining \in 0..t] ==
        LET shifted == ShiftRight(c.initialTps, era)
            active  == IF remaining < c.halvingPeriod THEN remaining ELSE c.halvingPeriod
        IN  IF remaining = 0 THEN 0
            ELSE IF shifted <= c.tailTps THEN c.tailTps * remaining
            ELSE shifted * active + Walk[era + 1, remaining - active]
  IN  Walk[0, t]

(* economic-model: the era in which the tail begins ... *)
FirstTailBoundary(c) ==
  CHOOSE b \in 0..255 : /\ ShiftRight(c.initialTps, b) <= c.tailTps
                        /\ \A a \in 0..b - 1 : ShiftRight(c.initialTps, a) > c.tailTps

(* ... the eras before it, each as long as it lasted, and the tail after it. *)
EconomicEmission(t, c) ==
  LET boundary == FirstTailBoundary(c)
      tailStart == boundary * c.halvingPeriod
      Era(e) == LET start == e * c.halvingPeriod
                    active == ClampBigInt(t - start, 0, c.halvingPeriod)
                IN  MiningRateAt(start, c) * active
  IN  FoldLeft(+, 0, [i \in 1..boundary |-> Era(i - 1)])
        + (IF t > tailStart THEN c.tailTps * (t - tailStart) ELSE 0)

(* classifyStrategyPayments: payment by payment, each at its own rate. *)
ClassifyStrategyPayments(payments) ==
  FoldLeft(LAMBDA sum, p : LET s == StrategyPayment(p.amount, p.rate)
                           IN  [fund |-> sum.fund + s.fund, bribe |-> sum.bribe + s.bribe],
           [fund |-> 0, bribe |-> 0], payments)

-----------------------------------------------------------------------------
Init ==
  /\ curve \in Curves
  /\ elapsed = 0
  /\ issued = 0
  /\ paid = <<>>
  /\ classified = [fund |-> 0, bribe |-> 0]

(* Sixteen refreshed slots issue at the global rate for one second. *)
Second ==
  /\ elapsed < MaxElapsed /\ paid = <<>>
  /\ elapsed' = elapsed + 1
  /\ issued' = issued + MiningRateAt(elapsed, curve)
  /\ UNCHANGED <<curve, paid, classified>>

(* One Strategy payment more, settled as auction.ts settles it. *)
Pay(amount, rate) ==
  /\ elapsed = 0 /\ Len(paid) < 3
  /\ paid' = Append(paid, [amount |-> amount, rate |-> rate])
  /\ classified' = [fund |-> classified.fund + StrategyPayment(amount, rate).fund,
                    bribe |-> classified.bribe + StrategyPayment(amount, rate).bribe]
  /\ UNCHANGED <<curve, elapsed, issued>>

Next == Second \/ \E amount \in Payments, rate \in BribeRates : Pay(amount, rate)

Spec == Init /\ [][Next]_vars
-----------------------------------------------------------------------------
(* What the two simulations compute in closed form for a time is what the    *)
(* SDK's rate gives second by second, at and around every halving and where  *)
(* the tail begins.                                                          *)
SchedulesAgree ==
  /\ ReferenceEmission(elapsed, curve) = issued
  /\ EconomicEmission(elapsed, curve) = issued

(* Classifying payments one by one conserves them, and never gives the       *)
(* Bribe more than classifying their sum at the highest of their rates: the  *)
(* partition of purchases can only favour the Fund.                          *)
PartitionFavoursFund ==
  LET total == FoldLeft(LAMBDA sum, p : sum + p.amount, 0, paid)
      highest == IF paid = <<>> THEN 0
                 ELSE CHOOSE r \in {paid[i].rate : i \in DOMAIN paid} :
                        \A i \in DOMAIN paid : paid[i].rate <= r
      split == ClassifyStrategyPayments(paid)
  IN  /\ split = classified
      /\ split.fund + split.bribe = total
      /\ split.bribe <= StrategyPayment(total, highest).bribe
=============================================================================
