---------------------------- MODULE MineQuotes ----------------------------
(***************************************************************************)
(* A client of the Mine that works from a stale view: it reads a slot with  *)
(* the SDK's readMineSlotView, builds an order bounded by what it read with *)
(* buildMine, and the order reaches a Mine that has moved on.  The SDK's     *)
(* copies of the Mine's arithmetic are those of Emissions.                   *)
(***************************************************************************)
EXTENDS Mine

CONSTANTS BpsOf  \* BPS_DENOMINATOR

VARIABLE view  \* the view the client holds, or NoView

qvars == <<vars, view>>

Sdk == INSTANCE Emissions WITH
  Curves <- {}, MaxElapsed <- 0, Payments <- {}, BribeRates <- {},
  curve <- 0, elapsed <- 0, issued <- 0, paid <- <<>>, classified <- <<>>

NoView == [index |-> -1]
NoBoundary == -1   \* nextHalvingBoundary is null

Curve == [initialTps |-> INITIAL_TPS, halvingPeriod |-> HALVING_PERIOD, tailTps |-> TAIL_TPS]

Bug_BoundaryFromSlot(i) ==
  IF GlobalTps <= TAIL_TPS THEN NoBoundary
  ELSE slots[i].lastAccruedAt + (now \div HALVING_PERIOD + 1) * HALVING_PERIOD

\* The time at which a tenure begun later gets another rate; null in the tail.
NextHalvingBoundary(i) ==
  IF GlobalTps <= TAIL_TPS THEN NoBoundary
  ELSE (now \div HALVING_PERIOD + 1) * HALVING_PERIOD

MineSlotView(i) ==
  [index |-> i, epochId |-> slots[i].epochId, miner |-> slots[i].miner,
   currentPrice |-> Price(slots[i]), initialPrice |-> slots[i].initialPrice,
   prospectiveSlotTps |-> GlobalTps \div SLOT_COUNT,
   nextHalvingBoundary |-> NextHalvingBoundary(i)]

\* buildMine for the viewed slot: the epoch and price of the view, a deadline
\* the client chooses.
Order(v, deadline) ==
  [index |-> v.index, expectedEpochId |-> v.epochId, deadline |-> deadline, maximumPrice |-> v.currentPrice]

ReadMineSlot(i) ==
  /\ view' = MineSlotView(i)
  /\ UNCHANGED vars

\* The client mines for itself and forgets the view it used.
SubmitOrder(account, deadline) ==
  /\ view # NoView
  /\ LET o == Order(view, deadline)
     IN  MineSlot(account, account, o.index, o.expectedEpochId, o.deadline, o.maximumPrice)
  /\ view' = NoView

QInit == Init /\ view = NoView

QNext ==
  \/ Next /\ UNCHANGED view
  \/ \E i \in Slots : ReadMineSlot(i)
  \/ \E account \in Accounts, deadline \in Deadlines : SubmitOrder(account, deadline)

QSpec == QInit /\ [][QNext]_qvars
-----------------------------------------------------------------------------
(* Whatever happened between the view and the order, an order that the Mine  *)
(* executes replaces the miner the client saw, for no more than the price it *)
(* saw, and, when its deadline is before the boundary the view names, at the *)
(* rate the view promised (actions.ts: "Set `deadline` before the next       *)
(* halving boundary when the quoted prospective TPS must remain valid").     *)
FilledAsQuoted ==
  \A account \in Accounts, deadline \in Deadlines :
       SubmitOrder(account, deadline) =>
         /\ slots[view.index].miner = view.miner
         /\ Price(slots[view.index]) <= view.currentPrice
         /\ (view.nextHalvingBoundary = NoBoundary \/ deadline < view.nextHalvingBoundary)
              => slots'[view.index].tps = view.prospectiveSlotTps

(* The SDK's integer copies of the auction and emission arithmetic give what *)
(* the Mine charges, assigns and owes in every reachable state.              *)
QuotesMatchMine ==
  /\ Sdk!MiningRateAt(now, Curve) = GlobalTps
  /\ \A i \in Slots :
       LET s == slots[i]
           price == Sdk!MiningPrice(s.initialPrice, now - s.auctionStartedAt, PRICE_DECAY_PERIOD)
       IN  /\ price = Price(s)
           /\ Sdk!MiningAccrual(s.tps, now - s.lastAccruedAt) = PendingSlotEmission(s)
           /\ Sdk!PreviousMinerAmount(price, s.miner # NoAddress, PREVIOUS_MINER_BPS)
                = PreviousMinerShare(s, Price(s))
           /\ Sdk!NextMiningInitialPrice(price, PRICE_MULTIPLIER, MIN_INITIAL_PRICE, MAX_INITIAL_PRICE)
                = NextTenure(s, Price(s), s.miner).initialPrice
  /\ Sdk!CurrentTotalSupply(lifetimeMinted, lifetimeBurned) = totalSupply
=============================================================================
