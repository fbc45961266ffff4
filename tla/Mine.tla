-------------------------------- MODULE Mine --------------------------------
(***************************************************************************)
(* The Mine (core/Mine.sol): independent mining slots, each a continuous   *)
(* reverse Dutch auction in USDG.  Replacing a slot's miner mints the      *)
(* outgoing tenure's GBX, credits the outgoing miner with 80% of the price *)
(* as a pull claim, sends the rest to the ResonanceRouter and locks in the *)
(* rate of the new tenure.  A constant-time accumulator tracks the GBX     *)
(* that all tenures have earned and not yet minted.                        *)
(*                                                                         *)
(* One action is one transaction, which Ethereum runs alone and completely *)
(* or not at all: a guard that fails is a revert.  Any number of           *)
(* transactions may share a block timestamp; Tick moves to the next one.   *)
(* The Solidity constants are CONSTANTS here, so that the model checker    *)
(* can use small ones and the proofs hold for all of them.                 *)
(*                                                                         *)
(* Definitions named Bug_... are variants of the definition after them     *)
(* with one mistake in it.  No specification uses them: they record a      *)
(* mistake that a property of this module detects.                         *)
(***************************************************************************)
EXTENDS GBX

CONSTANTS
  NumAccounts,     \* users: miners, payers, GBX holders
  Routers,         \* ResonanceRouters with a complete reciprocal graph
  InitialRouter,   \* the router the constructor stores
  Pair,            \* the liquidity pair that receives the genesis GBX
  NoAddress,       \* the zero address
  InitialUSDG,     \* USDG each user holds at first
  SLOT_COUNT, PRICE_DECAY_PERIOD, HALVING_PERIOD,
  BPS, PREVIOUS_MINER_BPS,
  PRICE_MULTIPLIER, MIN_INITIAL_PRICE, MAX_INITIAL_PRICE,
  INITIAL_TPS, TAIL_TPS, GENESIS_LIQUIDITY_GBX,
  MaxTime,         \* bound: last block timestamp
  MaxEpoch,        \* bound: largest epoch id an order may name
  Deadlines,       \* bound: deadlines an order may name
  MaximumPayments, \* bound: price limits an order may name
  Amounts          \* bound: amounts donated or burned in one call

Accounts == 0 .. NumAccounts - 1
Slots == 0 .. SLOT_COUNT - 1
Times == 0 .. MaxTime
USDGHolders == Accounts \cup Routers \cup {MineAddr}

ASSUME MineConstants ==
  /\ NumAccounts \in Nat \ {0}
  /\ SLOT_COUNT \in Nat \ {0}
  /\ PRICE_DECAY_PERIOD \in Nat \ {0}
  /\ HALVING_PERIOD \in Nat \ {0}
  /\ BPS \in Nat \ {0}
  /\ PREVIOUS_MINER_BPS \in 0 .. BPS
  /\ PRICE_MULTIPLIER \in Nat
  /\ MIN_INITIAL_PRICE \in Nat
  /\ MAX_INITIAL_PRICE \in Nat
  /\ MIN_INITIAL_PRICE <= MAX_INITIAL_PRICE
  /\ INITIAL_TPS \in Nat
  /\ TAIL_TPS \in 0 .. INITIAL_TPS
  /\ GENESIS_LIQUIDITY_GBX \in Nat \ {0}
  /\ InitialUSDG \in Nat
  /\ MaxTime \in Nat
  /\ MaxEpoch \in Nat
  /\ Deadlines \subseteq Nat
  /\ MaximumPayments \subseteq Nat
  /\ Amounts \subseteq Nat

ASSUME MineAddresses ==
  /\ InitialRouter \in Routers
  /\ MineAddr \notin Accounts \cup Routers
  /\ Routers \cap Accounts = {}
  /\ Accounts \cup {Pair} \subseteq GBXHolders
  /\ NoAddress \notin Accounts \cup {SetupAuthority}

VARIABLES
  now,                          \* block.timestamp
  slots,                        \* _slots
  aggregateTps,
  storedPendingEmission,
  pendingUpdatedAt,
  totalMined,
  totalClaimableMinerPayments,
  claimableMinerPayment,
  resonanceRouter,
  genesisAuthority,
  genesisLiquidityMinted,
  usdg                          \* USDG balances

emissionVars == <<aggregateTps, storedPendingEmission, pendingUpdatedAt, totalMined>>
claimVars == <<totalClaimableMinerPayments, claimableMinerPayment>>
genesisVars == <<genesisAuthority, genesisLiquidityMinted>>
mineVars == <<slots, emissionVars, claimVars, genesisVars, resonanceRouter>>
vars == <<now, mineVars, usdg, gbxVars>>

Slot ==
  [epochId: Nat \ {0}, initialPrice: Nat, auctionStartedAt: Times,
   lastAccruedAt: Times, tps: Nat, miner: Accounts \cup {NoAddress}]

TypeOK ==
  /\ GBXTypeOK
  /\ now \in Times
  /\ slots \in [Slots -> Slot]
  /\ aggregateTps \in Nat
  /\ storedPendingEmission \in Nat
  /\ pendingUpdatedAt \in Times
  /\ totalMined \in Nat
  /\ totalClaimableMinerPayments \in Nat
  /\ claimableMinerPayment \in [Accounts -> Nat]
  /\ resonanceRouter \in Routers
  /\ genesisAuthority \in {SetupAuthority, NoAddress}
  /\ genesisLiquidityMinted \in BOOLEAN
  /\ usdg \in [USDGHolders -> Nat]

-----------------------------------------------------------------------------
(* The auction and emission arithmetic.  startTime is timestamp 0. *)

EmptySlot ==
  [epochId |-> 1, initialPrice |-> MIN_INITIAL_PRICE, auctionStartedAt |-> 0,
   lastAccruedAt |-> 0, tps |-> 0, miner |-> NoAddress]

Bug_PriceNeverZero(slot) ==
  slot.initialPrice - (slot.initialPrice * (now - slot.auctionStartedAt)) \div PRICE_DECAY_PERIOD

(* _price: linear decay, the decayed part rounded down, zero from the end   *)
(* of the period on.                                                        *)
Price(slot) ==
  LET elapsed == now - slot.auctionStartedAt
  IN  IF elapsed >= PRICE_DECAY_PERIOD
      THEN 0
      ELSE slot.initialPrice - (slot.initialPrice * elapsed) \div PRICE_DECAY_PERIOD

NextInitialPrice(payment) ==
  LET raised == payment * PRICE_MULTIPLIER
  IN  IF raised > MAX_INITIAL_PRICE THEN MAX_INITIAL_PRICE
      ELSE IF raised < MIN_INITIAL_PRICE THEN MIN_INITIAL_PRICE
      ELSE raised

(* INITIAL_TPS shifted right once per completed halving period. *)
ShiftedTps(halvings) ==
  LET Shifted[k \in 0 .. halvings] ==
        IF k = 0 THEN INITIAL_TPS ELSE Shifted[k - 1] \div 2
  IN  Shifted[halvings]

GlobalTps ==
  LET tps == ShiftedTps(now \div HALVING_PERIOD)
  IN  IF tps < TAIL_TPS THEN TAIL_TPS ELSE tps

PendingEmission == storedPendingEmission + (now - pendingUpdatedAt) * aggregateTps

PendingSlotEmission(slot) ==
  IF slot.miner = NoAddress THEN 0 ELSE (now - slot.lastAccruedAt) * slot.tps

EffectiveTotalSupply == totalSupply + PendingEmission

(* The outgoing miner's floored share; an empty slot has no outgoing miner. *)
PreviousMinerShare(slot, payment) ==
  IF slot.miner = NoAddress THEN 0 ELSE (payment * PREVIOUS_MINER_BPS) \div BPS

(* The router's exhaustive remainder. *)
RevenueAmount(slot, payment) == payment - PreviousMinerShare(slot, payment)

-----------------------------------------------------------------------------
Init ==
  /\ GBXInit
  /\ now = 0
  /\ slots = [i \in Slots |-> EmptySlot]
  /\ aggregateTps = 0
  /\ storedPendingEmission = 0
  /\ pendingUpdatedAt = 0
  /\ totalMined = 0
  /\ totalClaimableMinerPayments = 0
  /\ claimableMinerPayment = [a \in Accounts |-> 0]
  /\ resonanceRouter = InitialRouter
  /\ genesisAuthority = SetupAuthority
  /\ genesisLiquidityMinted = FALSE
  /\ usdg = [h \in USDGHolders |-> IF h \in Accounts THEN InitialUSDG ELSE 0]

(* The checks of mine() before it changes anything. *)
OrderIsGood(i, expectedEpochId, deadline, maximumPayment) ==
  /\ now <= deadline
  /\ expectedEpochId = slots[i].epochId
  /\ Price(slots[i]) <= maximumPayment

Bug_AccrueOnlyIfMinted(slot) ==
  LET amount == PendingSlotEmission(slot)
  IN  \/ amount = 0 /\ UNCHANGED <<storedPendingEmission, pendingUpdatedAt, totalMined, gbxVars>>
      \/ /\ Mint(MineAddr, slot.miner, amount)
         /\ storedPendingEmission' = PendingEmission - amount
         /\ pendingUpdatedAt' = now
         /\ totalMined' = totalMined + amount

(* _accruePendingEmission, then _settleSlot: every tenure's accrual is      *)
(* stored up to now, and the outgoing tenure's part of it is minted.        *)
AccrueAndSettle(slot) ==
  LET amount == PendingSlotEmission(slot)
  IN  /\ amount <= PendingEmission           \* checked subtraction
      /\ storedPendingEmission' = PendingEmission - amount
      /\ pendingUpdatedAt' = now
      /\ totalMined' = totalMined + amount
      /\ \/ amount = 0 /\ UNCHANGED gbxVars
         \/ Mint(MineAddr, slot.miner, amount)

(* _allocatePayment. *)
CreditOutgoingMiner(slot, share) ==
  /\ totalClaimableMinerPayments' = totalClaimableMinerPayments + share
  /\ claimableMinerPayment' =
       IF slot.miner = NoAddress THEN claimableMinerPayment
       ELSE [claimableMinerPayment EXCEPT ![slot.miner] = @ + share]

Bug_DepositEverything(payer, payment, revenue) ==
  /\ payment <= usdg[payer]
  /\ usdg' = [usdg EXCEPT ![payer] = @ - payment, ![resonanceRouter] = @ + payment]

(* _collectAndDeposit: the payment comes in whole, the share that is not    *)
(* the outgoing miner's goes on to the router; nothing moves for a zero     *)
(* price.                                                                   *)
CollectAndDeposit(payer, payment, revenue) ==
  /\ payment <= usdg[payer]
  /\ usdg' = [usdg EXCEPT ![payer] = @ - payment,
                          ![MineAddr] = @ + (payment - revenue),
                          ![resonanceRouter] = @ + revenue]

Bug_WholeGlobalRate(slot, payment, miner) ==
  [epochId |-> slot.epochId + 1, initialPrice |-> NextInitialPrice(payment),
   auctionStartedAt |-> now, lastAccruedAt |-> now, tps |-> GlobalTps, miner |-> miner]

NextTenure(slot, payment, miner) ==
  [epochId |-> slot.epochId + 1, initialPrice |-> NextInitialPrice(payment),
   auctionStartedAt |-> now, lastAccruedAt |-> now,
   tps |-> GlobalTps \div SLOT_COUNT, miner |-> miner]

Bug_KeepOutgoingRate(previous, next) == aggregateTps + next.tps

ReplacedAggregate(previous, next) == aggregateTps - previous.tps + next.tps

(* mine() by payer, for miner. *)
MineSlot(payer, miner, i, expectedEpochId, deadline, maximumPayment) ==
  LET previous == slots[i]
      payment == Price(previous)
      next == NextTenure(previous, payment, miner)
  IN  /\ OrderIsGood(i, expectedEpochId, deadline, maximumPayment)
      /\ AccrueAndSettle(previous)
      /\ CreditOutgoingMiner(previous, PreviousMinerShare(previous, payment))
      /\ previous.tps <= aggregateTps        \* checked subtraction
      /\ aggregateTps' = ReplacedAggregate(previous, next)
      /\ slots' = [slots EXCEPT ![i] = next]
      /\ CollectAndDeposit(payer, payment, RevenueAmount(previous, payment))
      /\ UNCHANGED <<now, genesisVars, resonanceRouter>>

ClaimMinerPayment(account) ==
  LET amount == claimableMinerPayment[account]
  IN  /\ amount # 0
      /\ amount <= totalClaimableMinerPayments   \* checked subtraction
      /\ amount <= usdg[MineAddr]                \* else the transfer reverts
      /\ claimableMinerPayment' = [claimableMinerPayment EXCEPT ![account] = 0]
      /\ totalClaimableMinerPayments' = totalClaimableMinerPayments - amount
      /\ usdg' = [usdg EXCEPT ![MineAddr] = @ - amount, ![account] = @ + amount]
      /\ UNCHANGED <<now, slots, emissionVars, genesisVars, resonanceRouter, gbxVars>>

Bug_GenesisAgain(caller) ==
  /\ caller = SetupAuthority
  /\ genesisLiquidityMinted' = TRUE
  /\ Mint(MineAddr, Pair, GENESIS_LIQUIDITY_GBX)
  /\ UNCHANGED <<now, slots, emissionVars, claimVars, genesisAuthority, resonanceRouter, usdg>>

MintGenesisLiquidity(caller) ==
  /\ ~genesisLiquidityMinted
  /\ caller = genesisAuthority
  /\ genesisLiquidityMinted' = TRUE
  /\ genesisAuthority' = NoAddress
  /\ Mint(MineAddr, Pair, GENESIS_LIQUIDITY_GBX)
  /\ UNCHANGED <<now, slots, emissionVars, claimVars, resonanceRouter, usdg>>

(* The owner redirects later revenue; every member of Routers passes        *)
(* _validateResonanceRouter.                                                *)
SetResonanceRouter(newRouter) ==
  /\ newRouter # resonanceRouter
  /\ resonanceRouter' = newRouter
  /\ UNCHANGED <<now, slots, emissionVars, claimVars, genesisVars, usdg, gbxVars>>

(* GBX.setMinter by the setup authority, which binds this Mine. *)
BindMinter(caller) ==
  /\ SetMinter(caller, MineAddr)
  /\ UNCHANGED <<now, mineVars, usdg>>

(* GBX.burn by a holder, directly on the token. *)
BurnGBX(account, amount) ==
  /\ Burn(account, amount)
  /\ UNCHANGED <<now, mineVars, usdg>>

(* A plain USDG transfer to the Mine, which the Mine does not see. *)
Donate(account, amount) ==
  /\ amount \in 1 .. usdg[account]
  /\ usdg' = [usdg EXCEPT ![account] = @ - amount, ![MineAddr] = @ + amount]
  /\ UNCHANGED <<now, mineVars, gbxVars>>

(* The next block has a later timestamp. *)
Tick ==
  /\ now < MaxTime
  /\ now' = now + 1
  /\ UNCHANGED <<mineVars, usdg, gbxVars>>

MineOrders ==
  \E i \in Slots, expectedEpochId \in 1 .. MaxEpoch :
    \E deadline \in Deadlines, maximumPayment \in MaximumPayments :
      \E payer, miner \in Accounts :
        MineSlot(payer, miner, i, expectedEpochId, deadline, maximumPayment)

Next ==
  \/ MineOrders
  \/ \E a \in Accounts : ClaimMinerPayment(a)
  \/ MintGenesisLiquidity(SetupAuthority)
  \/ \E r \in Routers : SetResonanceRouter(r)
  \/ BindMinter(SetupAuthority)
  \/ \E a \in Accounts, amount \in Amounts : BurnGBX(a, amount)
  \/ \E a \in Accounts, amount \in Amounts : Donate(a, amount)
  \/ Tick

Spec == Init /\ [][Next]_vars
-----------------------------------------------------------------------------
(* Correctness. *)

SlotRates == [i \in Slots |-> slots[i].tps]
SlotAccruals == [i \in Slots |-> (now - slots[i].lastAccruedAt) * slots[i].tps]

(* aggregateTps, which mine() adjusts by the difference of two tenures, is  *)
(* always the sum of the sixteen tenure-locked rates.                       *)
AggregateRateIsSum == aggregateTps = PartialSum(SlotRates, SLOT_COUNT)

(* pendingEmission(), the constant-time accumulator, is always the sum of   *)
(* what the sixteen tenures would be paid if they were all replaced now, so *)
(* settling a slot can never underflow it and leave the slot stuck.         *)
PendingIsSum == PendingEmission = PartialSum(SlotAccruals, SLOT_COUNT)

(* The running total of miner claims is the sum of the claims and the Mine  *)
(* holds at least that much USDG, so every claim can be paid in any order.  *)
ClaimsBacked ==
  /\ totalClaimableMinerPayments = PartialSum(claimableMinerPayment, NumAccounts)
  /\ totalClaimableMinerPayments <= usdg[MineAddr]

(* Every GBX ever minted was settled to a miner by a replacement or is the  *)
(* one genesis allocation, and the supply is what was minted and not        *)
(* burned, and is what the holders hold: mint has no other caller, and burns *)
(* reopen nothing.                                                          *)
IssuanceReconciles ==
  /\ lifetimeMinted = totalMined
       + (IF genesisLiquidityMinted THEN GENESIS_LIQUIDITY_GBX ELSE 0)
  /\ totalSupply = lifetimeMinted - lifetimeBurned
  /\ totalSupply = PartialSum(gbxBalance, NumGBXHolders)

(* Everything issued and everything accrued stays below what the initial    *)
(* rate would have produced since the start, whatever the replacements were *)
(* and although old tenures keep their rate over halvings.                  *)
IssuanceBounded ==
  /\ aggregateTps <= INITIAL_TPS
  /\ lifetimeMinted + PendingEmission
       <= (IF genesisLiquidityMinted THEN GENESIS_LIQUIDITY_GBX ELSE 0) + INITIAL_TPS * now

(* What the Mine promises of GBX issuance, stated without slots.            *)
issued == lifetimeMinted + PendingEmission
Issued == INSTANCE Issuance WITH rate <- aggregateTps, genesisDone <- genesisLiquidityMinted
ImplementsIssuance == Issued!Spec
=============================================================================
