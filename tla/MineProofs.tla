----------------------------- MODULE MineProofs -----------------------------
(***************************************************************************)
(* The Mine's accounting, proved for every number of slots and accounts,   *)
(* every rate, price, share and period.                                    *)
(*                                                                         *)
(* The inductive invariant adds to the properties of Mine what keeps them  *)
(* inductive: no timestamp lies in the future, an empty slot has no rate,  *)
(* and no tenure's rate exceeds an equal split of the initial rate.        *)
(*                                                                         *)
(* The last section is about the orders that the SDK's quoteMine builds    *)
(* from a view of the Mine: however stale the view, an order the contract  *)
(* accepts is filled as it was quoted.                                     *)
(***************************************************************************)
EXTENDS MineQuotes

ClocksPast ==
  /\ pendingUpdatedAt <= now
  /\ \A i \in Slots : slots[i].auctionStartedAt <= now /\ slots[i].lastAccruedAt <= now

TenureRates ==
  \A i \in Slots :
    /\ slots[i].tps <= INITIAL_TPS \div SLOT_COUNT
    /\ slots[i].miner = NoAddress => slots[i].tps = 0

IInv ==
  /\ TypeOK
  /\ ClocksPast
  /\ TenureRates
  /\ AggregateRateIsSum
  /\ PendingIsSum
  /\ ClaimsBacked
  /\ IssuanceReconciles
  /\ IssuanceBounded

-----------------------------------------------------------------------------
(* Arithmetic. *)

LEMMA DivLeast ==
  ASSUME NEW a \in Nat, NEW b \in Nat, b > 0
  PROVE  a \div b \in Nat /\ a \div b <= a /\ b * (a \div b) <= a
OBVIOUS

LEMMA FloorShare ==
  ASSUME NEW a \in Nat, NEW b \in Nat, NEW c \in Nat, c > 0, b <= c
  PROVE  (a * b) \div c \in Nat /\ (a * b) \div c <= a
OBVIOUS

LEMMA DivMono ==
  ASSUME NEW a \in Nat, NEW b \in Nat, NEW c \in Nat, a <= b, c > 0
  PROVE  a \div c <= b \div c
<1>1. c * (a \div c) <= a /\ a < c * (a \div c) + c
  OBVIOUS
<1>2. c * (b \div c) <= b /\ b < c * (b \div c) + c
  OBVIOUS
<1>3. ASSUME a \div c >= b \div c + 1 PROVE FALSE
  <2>1. c * (a \div c) >= c * (b \div c + 1)
    BY <1>3
  <2>2. c * (b \div c + 1) = c * (b \div c) + c
    OBVIOUS
  <2> QED
    BY <1>1, <1>2, <2>1, <2>2
<1> QED
  BY <1>3

(* The quotient is the one number between the two bounds. *)
LEMMA DivUnique ==
  ASSUME NEW a \in Nat, NEW c \in Nat, NEW k \in Nat, c > 0, k * c <= a, a < (k + 1) * c
  PROVE  a \div c = k
<1>1. a \div c \in Nat /\ c * (a \div c) <= a /\ a < c * (a \div c) + c
  OBVIOUS
<1>2. ASSUME a \div c >= k + 1 PROVE FALSE
  <2>1. c * (a \div c) >= c * (k + 1)
    BY <1>1, <1>2
  <2> QED
    BY <1>1, <2>1
<1>3. ASSUME k >= a \div c + 1 PROVE FALSE
  <2>1. c * k >= c * (a \div c + 1)
    BY <1>1, <1>3
  <2>2. c * (a \div c + 1) = c * (a \div c) + c
    BY <1>1
  <2> QED
    BY <1>1, <2>1, <2>2
<1> QED
  BY <1>1, <1>2, <1>3

(* The decay never takes more than the initial price. *)
LEMMA PriceBounds ==
  ASSUME NEW slot \in Slot, now \in Nat, slot.auctionStartedAt <= now
  PROVE  Price(slot) \in Nat /\ Price(slot) <= slot.initialPrice
<1> DEFINE elapsed == now - slot.auctionStartedAt
<1>1. slot.initialPrice \in Nat /\ slot.auctionStartedAt \in Nat
  BY MineConstants DEF Slot, Times
<1>2. elapsed \in Nat
  BY <1>1
<1>3. CASE elapsed >= PRICE_DECAY_PERIOD
  BY <1>1, <1>3 DEF Price
<1>4. CASE elapsed < PRICE_DECAY_PERIOD
  <2>1. /\ (slot.initialPrice * elapsed) \div PRICE_DECAY_PERIOD \in Nat
        /\ (slot.initialPrice * elapsed) \div PRICE_DECAY_PERIOD <= slot.initialPrice
    BY <1>1, <1>2, <1>4, FloorShare, MineConstants
  <2>2. Price(slot) = slot.initialPrice - (slot.initialPrice * elapsed) \div PRICE_DECAY_PERIOD
    BY <1>1, <1>2, <1>4, MineConstants DEF Price
  <2> QED
    BY <1>1, <2>1, <2>2
<1> QED
  BY <1>2, <1>3, <1>4, MineConstants

(* The outgoing miner's share is part of the payment. *)
LEMMA ShareBounds ==
  ASSUME NEW slot, NEW payment \in Nat
  PROVE  /\ PreviousMinerShare(slot, payment) \in Nat
         /\ PreviousMinerShare(slot, payment) <= payment
BY FloorShare, MineConstants DEF PreviousMinerShare

LEMMA NextPriceType ==
  ASSUME NEW payment \in Nat
  PROVE  NextInitialPrice(payment) \in Nat
BY MineConstants DEF NextInitialPrice

(***************************************************************************)
(* Shifting right never exceeds the initial rate.  The table of the        *)
(* recursive function exists for every number of halvings.                 *)
(***************************************************************************)
LEMMA ShiftTable ==
  \A n \in Nat : \E S :
     S = [k \in 0 .. n |-> IF k = 0 THEN INITIAL_TPS ELSE S[k - 1] \div 2]
<1> DEFINE Table(S, n) == S = [k \in 0 .. n |-> IF k = 0 THEN INITIAL_TPS ELSE S[k - 1] \div 2]
           T == {n \in Nat : \E S : Table(S, n)}
<1>1. 0 \in T
  <2>1. Table([k \in 0 .. 0 |-> INITIAL_TPS], 0)
    OBVIOUS
  <2> QED
    BY <2>1
<1>2. ASSUME NEW n \in T PROVE n + 1 \in T
  <2>1. PICK S : Table(S, n)
    OBVIOUS
  <2> DEFINE S1 == [k \in 0 .. n + 1 |-> IF k <= n THEN S[k] ELSE S[n] \div 2]
  <2>2. \A k \in 0 .. n + 1 : S1[k] = IF k = 0 THEN INITIAL_TPS ELSE S1[k - 1] \div 2
    <3> TAKE k \in 0 .. n + 1
    <3>1. CASE k = 0
      BY <2>1, <3>1
    <3>2. CASE k \in 1 .. n
      BY <2>1, <3>2
    <3>3. CASE k = n + 1
      BY <3>3
    <3> QED
      BY <3>1, <3>2, <3>3
  <2>3. Table(S1, n + 1)
    BY <2>2
  <2>4. \E S2 : Table(S2, n + 1)
    BY <2>3
  <2> QED
    BY <2>4
<1> HIDE DEF T
<1>3. T = Nat
  <2>1. T \in SUBSET Nat
    BY DEF T
  <2> QED
    BY <1>1, <1>2, <2>1, InductiveSet
<1> QED
  BY <1>3 DEF T

LEMMA ShiftBounds ==
  \A n \in Nat : ShiftedTps(n) \in 0 .. INITIAL_TPS
<1> SUFFICES ASSUME NEW n \in Nat PROVE ShiftedTps(n) \in 0 .. INITIAL_TPS
  OBVIOUS
<1> DEFINE Table(S) == S = [k \in 0 .. n |-> IF k = 0 THEN INITIAL_TPS ELSE S[k - 1] \div 2]
           Sol == CHOOSE S : Table(S)
           T == {k \in Nat : k <= n => Sol[k] \in 0 .. INITIAL_TPS}
<1>1. Table(Sol)
  BY ShiftTable
<1>2. ShiftedTps(n) = Sol[n]
  BY DEF ShiftedTps
<1> HIDE DEF Sol
<1>3. \A k \in 0 .. n : Sol[k] = IF k = 0 THEN INITIAL_TPS ELSE Sol[k - 1] \div 2
  BY <1>1
<1>4. 0 \in T
  BY <1>3, MineConstants
<1>5. ASSUME NEW k \in T PROVE k + 1 \in T
  <2> SUFFICES ASSUME k + 1 <= n PROVE Sol[k + 1] \in 0 .. INITIAL_TPS
    OBVIOUS
  <2>1. Sol[k + 1] = Sol[k] \div 2
    BY <1>3
  <2> QED
    BY <2>1, DivLeast, MineConstants
<1> HIDE DEF T
<1>6. T = Nat
  <2>1. T \in SUBSET Nat
    BY DEF T
  <2> QED
    BY <1>4, <1>5, <2>1, InductiveSet
<1> QED
  BY <1>2, <1>6 DEF T

(* A new tenure's rate is at most an equal split of the initial rate. *)
LEMMA TenureRateBounds ==
  ASSUME now \in Nat
  PROVE  /\ GlobalTps \div SLOT_COUNT \in Nat
         /\ GlobalTps \div SLOT_COUNT <= INITIAL_TPS \div SLOT_COUNT
<1>1. now \div HALVING_PERIOD \in Nat
  BY MineConstants
<1>2. GlobalTps \in 0 .. INITIAL_TPS
  BY <1>1, ShiftBounds, MineConstants DEF GlobalTps
<1> QED
  BY <1>2, DivMono, DivLeast, MineConstants
-----------------------------------------------------------------------------
(* The initial state. *)

LEMMA InitIInv == Init => IInv
<1> SUFFICES ASSUME Init PROVE IInv
  OBVIOUS
<1> USE MineConstants, MineAddresses, GBXAssumption
<1>1. EmptySlot \in Slot
  BY DEF EmptySlot, Slot, Times
<1>2. TypeOK
  <2>1. GBXTypeOK
    BY DEF Init, GBXInit, GBXTypeOK, GBXHolders
  <2>2. usdg \in [USDGHolders -> Nat]
    BY DEF Init
  <2>3. slots \in [Slots -> Slot]
    BY <1>1 DEF Init
  <2>4. /\ now \in Times /\ pendingUpdatedAt \in Times
        /\ aggregateTps \in Nat /\ storedPendingEmission \in Nat /\ totalMined \in Nat
    BY DEF Init, Times
  <2>5. /\ totalClaimableMinerPayments \in Nat
        /\ claimableMinerPayment \in [Accounts -> Nat]
        /\ resonanceRouter \in Routers
        /\ genesisAuthority \in {SetupAuthority, NoAddress}
        /\ genesisLiquidityMinted \in BOOLEAN
    BY DEF Init
  <2> QED
    BY <2>1, <2>2, <2>3, <2>4, <2>5 DEF TypeOK
<1>3. ClocksPast
  BY DEF Init, ClocksPast, EmptySlot
<1>4. TenureRates
  BY DivLeast DEF Init, TenureRates, EmptySlot
<1>5. PendingEmission = 0
  BY DEF Init, PendingEmission
<1>6. AggregateRateIsSum
  <2>1. SlotRates \in [0 .. SLOT_COUNT - 1 -> Int] /\ \A i \in 0 .. SLOT_COUNT - 1 : SlotRates[i] = 0
    BY DEF Init, SlotRates, Slots, EmptySlot
  <2> QED
    BY <2>1, SumZero DEF Init, AggregateRateIsSum
<1>7. PendingIsSum
  <2>1. SlotAccruals \in [0 .. SLOT_COUNT - 1 -> Int] /\ \A i \in 0 .. SLOT_COUNT - 1 : SlotAccruals[i] = 0
    BY DEF Init, SlotAccruals, Slots, EmptySlot
  <2> QED
    BY <1>5, <2>1, SumZero DEF PendingIsSum
<1>8. ClaimsBacked
  <2>1. /\ claimableMinerPayment \in [0 .. NumAccounts - 1 -> Int]
        /\ \A a \in 0 .. NumAccounts - 1 : claimableMinerPayment[a] = 0
    BY DEF Init, Accounts
  <2> QED
    BY <2>1, SumZero DEF Init, ClaimsBacked, USDGHolders
<1>9. IssuanceReconciles
  <2>1. /\ gbxBalance \in [0 .. NumGBXHolders - 1 -> Int]
        /\ \A h \in 0 .. NumGBXHolders - 1 : gbxBalance[h] = 0
    BY DEF Init, GBXInit, GBXHolders
  <2> QED
    BY <2>1, SumZero DEF Init, GBXInit, IssuanceReconciles
<1>10. IssuanceBounded
  BY <1>5 DEF Init, GBXInit, IssuanceBounded
<1> QED
  BY <1>2, <1>3, <1>4, <1>6, <1>7, <1>8, <1>9, <1>10 DEF IInv

-----------------------------------------------------------------------------
(* GBX steps. *)

LEMMA MintStep ==
  ASSUME GBXTypeOK, totalSupply = PartialSum(gbxBalance, NumGBXHolders),
         totalSupply = lifetimeMinted - lifetimeBurned,
         NEW caller, NEW h \in GBXHolders, NEW amount \in Nat,
         Mint(caller, h, amount)
  PROVE  /\ GBXTypeOK'
         /\ lifetimeMinted' = lifetimeMinted + amount
         /\ totalSupply' = lifetimeMinted' - lifetimeBurned'
         /\ totalSupply' = PartialSum(gbxBalance', NumGBXHolders)
<1>1. GBXTypeOK'
  BY DEF Mint, GBXTypeOK
<1>2. PartialSum(gbxBalance', NumGBXHolders)
        = PartialSum(gbxBalance, NumGBXHolders) + (gbxBalance'[h] - gbxBalance[h])
  <2>1. /\ gbxBalance \in [0 .. NumGBXHolders - 1 -> Int]
        /\ gbxBalance' \in [0 .. NumGBXHolders - 1 -> Int]
    BY <1>1 DEF GBXTypeOK, GBXHolders
  <2>2. SameExceptAt(gbxBalance, gbxBalance', h, NumGBXHolders)
    BY <2>1 DEF Mint, GBXTypeOK, GBXHolders, SameExceptAt
  <2> QED
    BY <2>2, SumUpdate, GBXAssumption DEF GBXHolders
<1> QED
  BY <1>1, <1>2 DEF Mint, GBXTypeOK

LEMMA BurnStep ==
  ASSUME GBXTypeOK, totalSupply = PartialSum(gbxBalance, NumGBXHolders),
         totalSupply = lifetimeMinted - lifetimeBurned,
         NEW h \in GBXHolders, NEW amount \in Nat,
         Burn(h, amount)
  PROVE  /\ GBXTypeOK'
         /\ lifetimeMinted' = lifetimeMinted
         /\ totalSupply' = lifetimeMinted' - lifetimeBurned'
         /\ totalSupply' = PartialSum(gbxBalance', NumGBXHolders)
<1>1. gbxBalance \in [0 .. NumGBXHolders - 1 -> Nat] /\ gbxBalance[h] - amount \in Int
  BY DEF GBXTypeOK, GBXHolders
<1>2. gbxBalance[h] <= totalSupply
  BY <1>1, SumTerm, GBXAssumption DEF GBXHolders
<1>3. GBXTypeOK'
  BY <1>2 DEF Burn, GBXTypeOK
<1>4. PartialSum(gbxBalance', NumGBXHolders)
        = PartialSum(gbxBalance, NumGBXHolders) + (gbxBalance'[h] - gbxBalance[h])
  <2>1. gbxBalance' \in [0 .. NumGBXHolders - 1 -> Int]
    BY <1>3 DEF GBXTypeOK, GBXHolders
  <2>2. SameExceptAt(gbxBalance, gbxBalance', h, NumGBXHolders)
    BY <1>1, <2>1 DEF Burn, GBXTypeOK, GBXHolders, SameExceptAt
  <2> QED
    BY <2>2, SumUpdate, GBXAssumption DEF GBXHolders
<1> QED
  BY <1>3, <1>4 DEF Burn, GBXTypeOK

-----------------------------------------------------------------------------
(* A replacement. *)

LEMMA MineSlotStep ==
  ASSUME IInv, NEW payer \in Accounts, NEW miner \in Accounts, NEW i \in Slots,
         NEW expectedEpochId, NEW deadline, NEW maximumPayment,
         MineSlot(payer, miner, i, expectedEpochId, deadline, maximumPayment)
  PROVE  IInv'
<1> DEFINE previous == slots[i]
           payment == Price(previous)
           share == PreviousMinerShare(previous, payment)
           next == NextTenure(previous, payment, miner)
           amount == PendingSlotEmission(previous)
<1> USE MineConstants, MineAddresses, GBXAssumption
<1>1. previous \in Slot /\ now \in Nat /\ previous.auctionStartedAt \in Nat
      /\ previous.lastAccruedAt \in Nat /\ previous.tps \in Nat
      /\ previous.auctionStartedAt <= now /\ previous.lastAccruedAt <= now
  BY DEF IInv, TypeOK, ClocksPast, Times, Slot
<1>2. payment \in Nat
  BY <1>1, PriceBounds
<1>3. share \in Nat /\ share <= payment
  BY <1>2, ShareBounds
<1>4. next.tps \in Nat /\ next.tps <= INITIAL_TPS \div SLOT_COUNT
  BY <1>1, TenureRateBounds DEF NextTenure
<1>5. next \in Slot
  BY <1>1, <1>2, <1>4, NextPriceType DEF NextTenure, Slot, IInv, TypeOK, Times
<1>6. amount = (now - previous.lastAccruedAt) * previous.tps /\ amount \in Nat
  <2>1. (now - previous.lastAccruedAt) * previous.tps \in Nat
    BY <1>1
  <2>2. previous.miner = NoAddress => previous.tps = 0
    BY DEF IInv, TenureRates
  <2> QED
    BY <1>1, <2>1, <2>2 DEF PendingSlotEmission
<1> HIDE DEF previous, payment, share, next, amount
<1>7. /\ amount <= PendingEmission
      /\ storedPendingEmission' = PendingEmission - amount
      /\ pendingUpdatedAt' = now
      /\ totalMined' = totalMined + amount
      /\ (amount = 0 /\ UNCHANGED gbxVars) \/ Mint(MineAddr, previous.miner, amount)
  BY DEF MineSlot, AccrueAndSettle, previous, amount
<1>8. /\ previous.tps <= aggregateTps
      /\ aggregateTps' = aggregateTps - previous.tps + next.tps
      /\ slots' = [slots EXCEPT ![i] = next]
      /\ UNCHANGED <<now, genesisVars, resonanceRouter>>
  BY DEF MineSlot, ReplacedAggregate, previous, next, payment
<1>9. /\ totalClaimableMinerPayments' = totalClaimableMinerPayments + share
      /\ claimableMinerPayment' =
           IF previous.miner = NoAddress THEN claimableMinerPayment
           ELSE [claimableMinerPayment EXCEPT ![previous.miner] = @ + share]
      /\ previous.miner = NoAddress => share = 0
  BY DEF MineSlot, CreditOutgoingMiner, PreviousMinerShare, previous, share, payment
<1>10. /\ payment <= usdg[payer]
       /\ usdg' = [usdg EXCEPT ![payer] = @ - payment,
                               ![MineAddr] = @ + (payment - (payment - share)),
                               ![resonanceRouter] = @ + (payment - share)]
  BY DEF MineSlot, CollectAndDeposit, RevenueAmount, previous, share, payment
<1>11. PendingEmission \in Nat /\ PendingEmission' = PendingEmission - amount
  <2>1. PendingEmission \in Nat
    BY <1>1 DEF IInv, TypeOK, ClocksPast, PendingEmission, Times
  <2>2. (now' - pendingUpdatedAt') * aggregateTps' = 0
    BY <1>1, <1>4, <1>7, <1>8 DEF IInv, TypeOK
  <2>3. storedPendingEmission' + (now' - pendingUpdatedAt') * aggregateTps' = PendingEmission - amount
    BY <1>6, <1>7, <2>1, <2>2
  <2> QED
    BY <2>1, <2>3 DEF PendingEmission
<1>12. previous.miner # NoAddress => previous.miner \in Accounts /\ previous.miner \in GBXHolders
  BY <1>1 DEF Slot
<1>13. /\ GBXTypeOK'
       /\ lifetimeMinted' = lifetimeMinted + amount
       /\ totalSupply' = lifetimeMinted' - lifetimeBurned'
       /\ totalSupply' = PartialSum(gbxBalance', NumGBXHolders)
  <2>0. /\ GBXTypeOK
        /\ totalSupply = lifetimeMinted - lifetimeBurned
        /\ totalSupply = PartialSum(gbxBalance, NumGBXHolders)
    BY DEF IInv, TypeOK, IssuanceReconciles
  <2>1. CASE amount = 0 /\ UNCHANGED gbxVars
    BY <2>0, <2>1 DEF gbxVars, GBXTypeOK
  <2>2. CASE Mint(MineAddr, previous.miner, amount)
    <3>1. amount # 0
      BY <2>2 DEF Mint
    <3>2. previous.miner \in GBXHolders
      BY <1>1, <1>12, <3>1 DEF amount, PendingSlotEmission
    <3> QED
      BY <1>6, <2>0, <2>2, <3>2, MintStep
  <2> QED
    BY <1>7, <2>1, <2>2
<1>14. TypeOK'
  <2>1. slots' \in [Slots -> Slot]
    BY <1>5, <1>8 DEF IInv, TypeOK
  <2>2. usdg' \in [USDGHolders -> Nat]
    <3>1. usdg \in [USDGHolders -> Nat] /\ resonanceRouter \in Routers
      BY DEF IInv, TypeOK
    <3> QED
      BY <1>2, <1>3, <1>10, <3>1 DEF USDGHolders
  <2>3. claimableMinerPayment' \in [Accounts -> Nat] /\ totalClaimableMinerPayments' \in Nat
    BY <1>3, <1>9, <1>12 DEF IInv, TypeOK
  <2>4. aggregateTps' \in Nat /\ storedPendingEmission' \in Nat /\ totalMined' \in Nat
    BY <1>1, <1>4, <1>6, <1>7, <1>8, <1>11 DEF IInv, TypeOK
  <2>5. pendingUpdatedAt' \in Times
    BY <1>7 DEF IInv, TypeOK
  <2> QED
    BY <1>8, <1>13, <2>1, <2>2, <2>3, <2>4, <2>5 DEF IInv, TypeOK, genesisVars
<1>15. ClocksPast'
  BY <1>1, <1>7, <1>8 DEF IInv, TypeOK, ClocksPast, next, NextTenure
<1>16. TenureRates'
  <2>1. next.miner = miner
    BY DEF next, NextTenure
  <2>2. ASSUME NEW j \in Slots
        PROVE  /\ slots'[j].tps <= INITIAL_TPS \div SLOT_COUNT
               /\ slots'[j].miner = NoAddress => slots'[j].tps = 0
    BY <1>4, <1>8, <2>1 DEF IInv, TypeOK, TenureRates
  <2> QED
    BY <2>2 DEF TenureRates
<1>17. AggregateRateIsSum'
  <2>1. SlotRates \in [0 .. SLOT_COUNT - 1 -> Int]
    BY DEF IInv, TypeOK, SlotRates, Slots, Slot
  <2>2. SlotRates' \in [0 .. SLOT_COUNT - 1 -> Int]
    BY <1>14 DEF TypeOK, SlotRates, Slots, Slot
  <2>3. SameExceptAt(SlotRates, SlotRates', i, SLOT_COUNT)
    BY <1>8, <2>1, <2>2 DEF IInv, TypeOK, SlotRates, SameExceptAt, Slots
  <2>4. PartialSum(SlotRates', SLOT_COUNT)
          = PartialSum(SlotRates, SLOT_COUNT) + (SlotRates'[i] - SlotRates[i])
    BY <2>3, SumUpdate DEF Slots
  <2>5. SlotRates[i] = previous.tps
    BY DEF SlotRates, previous
  <2>6. SlotRates'[i] = next.tps
    BY <1>8 DEF IInv, TypeOK, SlotRates
  <2> QED
    BY <1>1, <1>4, <1>8, <2>4, <2>5, <2>6 DEF IInv, TypeOK, AggregateRateIsSum
<1>18. PendingIsSum'
  <2>1. SlotAccruals \in [0 .. SLOT_COUNT - 1 -> Int]
    <3>1. ASSUME NEW j \in Slots PROVE (now - slots[j].lastAccruedAt) * slots[j].tps \in Int
      <4>1. now \in Int /\ slots[j].lastAccruedAt \in Int /\ slots[j].tps \in Int
        BY DEF IInv, TypeOK, Slot, Times
      <4> QED
        BY <4>1
    <3> QED
      BY <3>1 DEF SlotAccruals, Slots
  <2>2. SlotAccruals'[i] = 0
    BY <1>1, <1>4, <1>8 DEF IInv, TypeOK, SlotAccruals, next, NextTenure
  <2>3. \A j \in Slots : j # i => SlotAccruals'[j] = SlotAccruals[j]
    BY <1>8 DEF IInv, TypeOK, SlotAccruals
  <2>4. SlotAccruals' \in [0 .. SLOT_COUNT - 1 -> Int]
    <3>1. \A j \in Slots : SlotAccruals'[j] \in Int
      BY <2>1, <2>2, <2>3 DEF Slots
    <3> QED
      BY <3>1 DEF SlotAccruals, Slots
  <2>5. PartialSum(SlotAccruals', SLOT_COUNT)
          = PartialSum(SlotAccruals, SLOT_COUNT) + (SlotAccruals'[i] - SlotAccruals[i])
    <3>1. SameExceptAt(SlotAccruals, SlotAccruals', i, SLOT_COUNT)
      BY <2>1, <2>3, <2>4 DEF SameExceptAt, Slots
    <3> QED
      BY <3>1, SumUpdate DEF Slots
  <2>6. SlotAccruals[i] = amount
    BY <1>6 DEF SlotAccruals, previous
  <2>7. PendingEmission = PartialSum(SlotAccruals, SLOT_COUNT)
    BY DEF IInv, PendingIsSum
  <2> QED
    BY <1>6, <1>11, <2>2, <2>5, <2>6, <2>7 DEF PendingIsSum
<1>19. ClaimsBacked'
  <2>1. claimableMinerPayment \in [0 .. NumAccounts - 1 -> Int]
        /\ totalClaimableMinerPayments \in Nat
        /\ totalClaimableMinerPayments = PartialSum(claimableMinerPayment, NumAccounts)
        /\ totalClaimableMinerPayments <= usdg[MineAddr]
        /\ usdg \in [USDGHolders -> Nat] /\ resonanceRouter \in Routers
    BY DEF IInv, TypeOK, ClaimsBacked, Accounts
  <2>2. totalClaimableMinerPayments' = PartialSum(claimableMinerPayment', NumAccounts)
    <3>1. CASE previous.miner = NoAddress
      BY <1>9, <2>1, <3>1
    <3>2. CASE previous.miner # NoAddress
      <4> DEFINE m == previous.miner
      <4>1. m \in 0 .. NumAccounts - 1 /\ claimableMinerPayment[m] + share \in Int
        BY <1>3, <1>12, <2>1, <3>2 DEF Accounts
      <4>2. claimableMinerPayment' \in [0 .. NumAccounts - 1 -> Int]
        BY <1>14 DEF TypeOK, Accounts
      <4>3. SameExceptAt(claimableMinerPayment, claimableMinerPayment', m, NumAccounts)
            /\ claimableMinerPayment'[m] = claimableMinerPayment[m] + share
        BY <1>9, <2>1, <3>2, <4>1, <4>2 DEF SameExceptAt
      <4> HIDE DEF m
      <4>4. PartialSum(claimableMinerPayment', NumAccounts)
              = PartialSum(claimableMinerPayment, NumAccounts)
                + (claimableMinerPayment'[m] - claimableMinerPayment[m])
        BY <4>1, <4>3, SumUpdate
      <4> QED
        BY <1>3, <1>9, <2>1, <4>1, <4>3, <4>4
    <3> QED
      BY <3>1, <3>2
  <2>3. usdg'[MineAddr] = usdg[MineAddr] + share
    BY <1>2, <1>3, <1>10, <2>1 DEF USDGHolders
  <2> QED
    BY <1>3, <1>9, <2>1, <2>2, <2>3 DEF ClaimsBacked, USDGHolders
<1>20. IssuanceReconciles'
  BY <1>6, <1>7, <1>8, <1>13 DEF IInv, TypeOK, IssuanceReconciles, genesisVars, GBXTypeOK
<1>21. IssuanceBounded'
  <2>1. aggregateTps' <= INITIAL_TPS
    <3>1. SlotRates' \in [0 .. SLOT_COUNT - 1 -> Nat]
      BY <1>14 DEF TypeOK, SlotRates, Slots, Slot
    <3>2. \A j \in 0 .. SLOT_COUNT - 1 : SlotRates'[j] <= INITIAL_TPS \div SLOT_COUNT
      BY <1>16 DEF TenureRates, SlotRates, Slots
    <3>3. INITIAL_TPS \div SLOT_COUNT \in Nat /\ SLOT_COUNT * (INITIAL_TPS \div SLOT_COUNT) <= INITIAL_TPS
      BY DivLeast
    <3>4. PartialSum(SlotRates', SLOT_COUNT) <= SLOT_COUNT * (INITIAL_TPS \div SLOT_COUNT)
          /\ PartialSum(SlotRates', SLOT_COUNT) \in Nat
      BY <3>1, <3>2, <3>3, SumBounds
    <3> QED
      BY <1>17, <3>3, <3>4 DEF AggregateRateIsSum
  <2>2. lifetimeMinted' + PendingEmission' = lifetimeMinted + PendingEmission
    BY <1>6, <1>11, <1>13 DEF IInv, TypeOK, GBXTypeOK
  <2> QED
    BY <1>8, <2>1, <2>2 DEF IInv, IssuanceBounded, genesisVars
<1> QED
  BY <1>14, <1>15, <1>16, <1>17, <1>18, <1>19, <1>20, <1>21 DEF IInv
-----------------------------------------------------------------------------
(* The other steps. *)

(* What a step that touches neither the clock nor the slots has to show. *)
LEMMA SlotsUntouched ==
  ASSUME IInv, UNCHANGED <<now, slots, emissionVars>>
  PROVE  /\ ClocksPast' /\ TenureRates' /\ AggregateRateIsSum' /\ PendingIsSum'
         /\ PendingEmission' = PendingEmission
<1>1. PendingEmission' = PendingEmission
  BY DEF PendingEmission, emissionVars
<1>2. SlotRates' = SlotRates /\ SlotAccruals' = SlotAccruals
  BY DEF SlotRates, SlotAccruals
<1> QED
  BY <1>1, <1>2
     DEF IInv, ClocksPast, TenureRates, AggregateRateIsSum, PendingIsSum, emissionVars

LEMMA ClaimStep ==
  ASSUME IInv, NEW a \in Accounts, ClaimMinerPayment(a)
  PROVE  IInv'
<1> DEFINE amount == claimableMinerPayment[a]
<1> USE MineConstants, MineAddresses
<1>1. /\ amount \in Nat /\ amount <= totalClaimableMinerPayments
      /\ totalClaimableMinerPayments \in Nat
      /\ usdg \in [USDGHolders -> Nat] /\ amount <= usdg[MineAddr]
      /\ claimableMinerPayment \in [Accounts -> Nat]
      /\ a \in USDGHolders /\ MineAddr \in USDGHolders /\ a # MineAddr
  BY DEF IInv, TypeOK, ClaimMinerPayment, USDGHolders
<1>2. /\ claimableMinerPayment' = [claimableMinerPayment EXCEPT ![a] = 0]
      /\ totalClaimableMinerPayments' = totalClaimableMinerPayments - amount
      /\ usdg' = [usdg EXCEPT ![MineAddr] = @ - amount, ![a] = @ + amount]
      /\ UNCHANGED <<now, slots, emissionVars, genesisVars, resonanceRouter, gbxVars>>
  BY DEF ClaimMinerPayment
<1> HIDE DEF amount
<1>3. TypeOK'
  <2>1. usdg' \in [USDGHolders -> Nat] /\ claimableMinerPayment' \in [Accounts -> Nat]
        /\ totalClaimableMinerPayments' \in Nat
    BY <1>1, <1>2
  <2> QED
    BY <1>2, <2>1 DEF IInv, TypeOK, GBXTypeOK, gbxVars, emissionVars, genesisVars
<1>4. ClaimsBacked'
  <2>1. SameExceptAt(claimableMinerPayment, claimableMinerPayment', a, NumAccounts)
        /\ claimableMinerPayment'[a] = 0
    BY <1>1, <1>2 DEF SameExceptAt, Accounts
  <2>2. PartialSum(claimableMinerPayment', NumAccounts)
          = PartialSum(claimableMinerPayment, NumAccounts)
            + (claimableMinerPayment'[a] - claimableMinerPayment[a])
    BY <2>1, SumUpdate DEF Accounts
  <2>3. claimableMinerPayment[a] = amount
    BY DEF amount
  <2>4. usdg'[MineAddr] = usdg[MineAddr] - amount
    BY <1>1, <1>2
  <2> QED
    BY <1>1, <1>2, <2>1, <2>2, <2>3, <2>4 DEF IInv, ClaimsBacked
<1>5. IssuanceReconciles'
  BY <1>2 DEF IInv, IssuanceReconciles, gbxVars, emissionVars, genesisVars
<1>6. PendingEmission' = PendingEmission /\ ClocksPast' /\ TenureRates' /\ AggregateRateIsSum' /\ PendingIsSum'
  BY <1>2, SlotsUntouched
<1>7. IssuanceBounded'
  BY <1>2, <1>6 DEF IInv, IssuanceBounded, gbxVars, emissionVars, genesisVars
<1> QED
  BY <1>3, <1>4, <1>5, <1>6, <1>7 DEF IInv

LEMMA GenesisStep ==
  ASSUME IInv, NEW caller, MintGenesisLiquidity(caller)
  PROVE  IInv'
<1> USE MineConstants, MineAddresses
<1>1. /\ genesisLiquidityMinted = FALSE /\ genesisLiquidityMinted' = TRUE
      /\ genesisAuthority' = NoAddress
      /\ Mint(MineAddr, Pair, GENESIS_LIQUIDITY_GBX)
      /\ UNCHANGED <<now, slots, emissionVars, claimVars, resonanceRouter, usdg>>
  BY DEF MintGenesisLiquidity, IInv, TypeOK
<1>2. /\ GBXTypeOK'
      /\ lifetimeMinted' = lifetimeMinted + GENESIS_LIQUIDITY_GBX
      /\ totalSupply' = lifetimeMinted' - lifetimeBurned'
      /\ totalSupply' = PartialSum(gbxBalance', NumGBXHolders)
  BY <1>1, MintStep DEF IInv, TypeOK, IssuanceReconciles
<1>3. TypeOK'
  BY <1>1, <1>2 DEF IInv, TypeOK, emissionVars, claimVars
<1>4. ClaimsBacked'
  BY <1>1 DEF IInv, ClaimsBacked, claimVars
<1>5. IssuanceReconciles'
  BY <1>1, <1>2 DEF IInv, TypeOK, IssuanceReconciles, emissionVars
<1>6. PendingEmission' = PendingEmission /\ ClocksPast' /\ TenureRates' /\ AggregateRateIsSum' /\ PendingIsSum'
  BY <1>1, SlotsUntouched
<1>7. IssuanceBounded'
  <2>1. PendingEmission \in Int
    BY DEF IInv, TypeOK, PendingEmission, Times
  <2>2. lifetimeMinted + PendingEmission <= INITIAL_TPS * now /\ aggregateTps <= INITIAL_TPS
    BY <1>1 DEF IInv, IssuanceBounded, TypeOK, Times
  <2>3. lifetimeMinted \in Nat /\ now \in Nat
    BY DEF IInv, TypeOK, GBXTypeOK, Times
  <2>4. now' = now /\ aggregateTps' = aggregateTps
    BY <1>1 DEF emissionVars
  <2>5. lifetimeMinted' + PendingEmission' <= GENESIS_LIQUIDITY_GBX + INITIAL_TPS * now
    BY <1>2, <1>6, <2>1, <2>2, <2>3
  <2> QED
    BY <1>1, <2>2, <2>4, <2>5 DEF IssuanceBounded
<1> QED
  BY <1>3, <1>4, <1>5, <1>6, <1>7 DEF IInv

LEMMA BurnGBXStep ==
  ASSUME IInv, NEW a \in Accounts, NEW amount \in Nat, BurnGBX(a, amount)
  PROVE  IInv'
<1> USE MineConstants, MineAddresses
<1>1. Burn(a, amount) /\ UNCHANGED <<now, mineVars, usdg>>
  BY DEF BurnGBX
<1>2. /\ GBXTypeOK'
      /\ lifetimeMinted' = lifetimeMinted
      /\ totalSupply' = lifetimeMinted' - lifetimeBurned'
      /\ totalSupply' = PartialSum(gbxBalance', NumGBXHolders)
  BY <1>1, BurnStep DEF IInv, TypeOK, IssuanceReconciles
<1>3. TypeOK'
  BY <1>1, <1>2 DEF IInv, TypeOK, mineVars, emissionVars, claimVars, genesisVars
<1>4. ClaimsBacked'
  BY <1>1 DEF IInv, ClaimsBacked, claimVars, mineVars
<1>5. IssuanceReconciles'
  BY <1>1, <1>2 DEF IInv, IssuanceReconciles, mineVars, emissionVars, genesisVars
<1>6. PendingEmission' = PendingEmission /\ ClocksPast' /\ TenureRates' /\ AggregateRateIsSum' /\ PendingIsSum'
  BY <1>1, SlotsUntouched DEF mineVars
<1>7. IssuanceBounded'
  BY <1>1, <1>2, <1>6 DEF IInv, IssuanceBounded, mineVars, emissionVars, genesisVars
<1> QED
  BY <1>3, <1>4, <1>5, <1>6, <1>7 DEF IInv

LEMMA DonateStep ==
  ASSUME IInv, NEW a \in Accounts, NEW amount \in Nat, Donate(a, amount)
  PROVE  IInv'
<1> USE MineConstants, MineAddresses
<1>1. /\ usdg \in [USDGHolders -> Nat] /\ amount <= usdg[a]
      /\ a \in USDGHolders /\ MineAddr \in USDGHolders /\ a # MineAddr
      /\ usdg' = [usdg EXCEPT ![a] = @ - amount, ![MineAddr] = @ + amount]
      /\ UNCHANGED <<now, mineVars, gbxVars>>
  BY DEF Donate, IInv, TypeOK, USDGHolders
<1>2. usdg' \in [USDGHolders -> Nat] /\ usdg'[MineAddr] = usdg[MineAddr] + amount
  BY <1>1
<1>3. TypeOK'
  BY <1>1, <1>2 DEF IInv, TypeOK, GBXTypeOK, gbxVars, mineVars, emissionVars, claimVars, genesisVars
<1>4. ClaimsBacked'
  BY <1>1, <1>2 DEF IInv, TypeOK, ClaimsBacked, claimVars, mineVars
<1>5. IssuanceReconciles'
  BY <1>1 DEF IInv, IssuanceReconciles, gbxVars, mineVars, emissionVars, genesisVars
<1>6. PendingEmission' = PendingEmission /\ ClocksPast' /\ TenureRates' /\ AggregateRateIsSum' /\ PendingIsSum'
  BY <1>1, SlotsUntouched DEF mineVars
<1>7. IssuanceBounded'
  BY <1>1, <1>6 DEF IInv, IssuanceBounded, gbxVars, mineVars, emissionVars, genesisVars
<1> QED
  BY <1>3, <1>4, <1>5, <1>6, <1>7 DEF IInv

(* Binding the minter, redirecting the router and stuttering leave every    *)
(* quantity of the invariant alone.                                         *)
LEMMA AdminStep ==
  ASSUME IInv,
         \/ BindMinter(SetupAuthority)
         \/ \E r \in Routers : SetResonanceRouter(r)
         \/ UNCHANGED vars
  PROVE  IInv'
<1>1. /\ UNCHANGED <<now, slots, emissionVars, claimVars, genesisVars, usdg>>
      /\ UNCHANGED <<totalSupply, gbxBalance, lifetimeMinted, lifetimeBurned>>
      /\ resonanceRouter' \in Routers
      /\ minter' \in {SetupAuthority, MineAddr} /\ minterLocked' \in BOOLEAN
  BY DEF BindMinter, SetMinter, SetResonanceRouter, vars, mineVars, gbxVars, IInv, TypeOK, GBXTypeOK
<1>2. TypeOK'
  BY <1>1 DEF IInv, TypeOK, GBXTypeOK, emissionVars, claimVars, genesisVars
<1>3. ClaimsBacked' /\ IssuanceReconciles'
  BY <1>1 DEF IInv, ClaimsBacked, IssuanceReconciles, claimVars, emissionVars, genesisVars
<1>4. PendingEmission' = PendingEmission /\ ClocksPast' /\ TenureRates' /\ AggregateRateIsSum' /\ PendingIsSum'
  BY <1>1, SlotsUntouched
<1>5. IssuanceBounded'
  BY <1>1, <1>4 DEF IInv, IssuanceBounded, emissionVars, genesisVars
<1> QED
  BY <1>2, <1>3, <1>4, <1>5 DEF IInv

(* A second passes: every tenure, and the accumulator, accrues its rate.    *)
LEMMA TickStep ==
  ASSUME IInv, Tick
  PROVE  IInv' /\ PendingEmission' = PendingEmission + aggregateTps
<1> USE MineConstants
<1>1. now' = now + 1 /\ now' \in Times /\ UNCHANGED <<mineVars, usdg, gbxVars>>
  BY DEF Tick, IInv, TypeOK, Times
<1>2. /\ now \in Nat /\ pendingUpdatedAt \in Nat /\ aggregateTps \in Nat
      /\ storedPendingEmission \in Nat /\ lifetimeMinted \in Nat
      /\ slots \in [Slots -> Slot]
  BY DEF IInv, TypeOK, GBXTypeOK, Times
<1>3. \A a, b, c \in Int : (a + 1 - b) * c = (a - b) * c + c
  OBVIOUS
<1>4. PendingEmission' = PendingEmission + aggregateTps /\ PendingEmission \in Int
  <2>1. (now + 1 - pendingUpdatedAt) * aggregateTps = (now - pendingUpdatedAt) * aggregateTps + aggregateTps
    BY <1>2, <1>3
  <2> QED
    BY <1>1, <1>2, <2>1 DEF PendingEmission, mineVars, emissionVars
<1>5. TypeOK'
  BY <1>1 DEF IInv, TypeOK, GBXTypeOK, gbxVars, mineVars, emissionVars, claimVars, genesisVars
<1>6. ClocksPast' /\ TenureRates'
  <2>1. \A i \in Slots : slots[i].auctionStartedAt \in Nat /\ slots[i].lastAccruedAt \in Nat
    BY <1>2 DEF Slot, Times
  <2> QED
    BY <1>1, <1>2, <2>1 DEF IInv, ClocksPast, TenureRates, mineVars, emissionVars
<1>7. AggregateRateIsSum' /\ ClaimsBacked' /\ IssuanceReconciles'
  <2>1. SlotRates' = SlotRates
    BY <1>1 DEF SlotRates, mineVars
  <2> QED
    BY <1>1, <2>1 DEF IInv, AggregateRateIsSum, ClaimsBacked, IssuanceReconciles,
                      gbxVars, mineVars, emissionVars, claimVars, genesisVars
<1>8. PendingIsSum'
  <2>1. ASSUME NEW i \in Slots
        PROVE  /\ SlotAccruals[i] \in Int /\ SlotRates[i] \in Int
               /\ SlotAccruals'[i] = SlotAccruals[i] + SlotRates[i]
    <3>1. slots[i].lastAccruedAt \in Int /\ slots[i].tps \in Int /\ slots' = slots
      BY <1>1, <1>2 DEF Slot, Times, mineVars
    <3>2. (now + 1 - slots[i].lastAccruedAt) * slots[i].tps
            = (now - slots[i].lastAccruedAt) * slots[i].tps + slots[i].tps
      BY <1>2, <1>3, <3>1
    <3>3. SlotAccruals[i] = (now - slots[i].lastAccruedAt) * slots[i].tps
          /\ SlotAccruals'[i] = (now' - slots'[i].lastAccruedAt) * slots'[i].tps
          /\ SlotRates[i] = slots[i].tps
      BY DEF SlotAccruals, SlotRates
    <3>4. (now - slots[i].lastAccruedAt) * slots[i].tps \in Int
      BY <1>2, <3>1
    <3>5. SlotAccruals'[i] = (now + 1 - slots[i].lastAccruedAt) * slots[i].tps
      <4>1. now' - slots'[i].lastAccruedAt = now + 1 - slots[i].lastAccruedAt
        <5>1. slots'[i].lastAccruedAt = slots[i].lastAccruedAt
          BY <3>1
        <5>2. now' = now + 1 /\ now \in Int /\ slots[i].lastAccruedAt \in Int
          BY <1>1, <1>2, <3>1
        <5>3. slots'[i].lastAccruedAt \in Int /\ now' \in Int
          BY <5>1, <5>2
        <5> QED
          BY <5>1, <5>2, <5>3
      <4>3. slots'[i].tps = slots[i].tps
        BY <3>1
      <4>2. SlotAccruals'[i] = (now' - slots'[i].lastAccruedAt) * slots'[i].tps
        BY <3>3
      <4> QED
        BY <4>1, <4>2, <4>3
    <3> QED
      BY <3>1, <3>2, <3>3, <3>4, <3>5
  <2>2. /\ SlotRates \in [0 .. SLOT_COUNT - 1 -> Int]
        /\ SlotAccruals \in [0 .. SLOT_COUNT - 1 -> Int]
    BY <2>1 DEF SlotRates, SlotAccruals, Slots
  <2>3. SlotAccruals' \in [0 .. SLOT_COUNT - 1 -> Int]
    <3>1. \A i \in Slots : SlotAccruals'[i] \in Int
      BY <2>1
    <3> QED
      BY <3>1 DEF SlotAccruals, Slots
  <2>4. PartialSum(SlotAccruals', SLOT_COUNT)
          = PartialSum(SlotAccruals, SLOT_COUNT) + PartialSum(SlotRates, SLOT_COUNT)
    <3>1. IsSumOf(SlotAccruals', SlotAccruals, SlotRates, SLOT_COUNT)
      BY <2>1, <2>2, <2>3 DEF IsSumOf, Slots
    <3> QED
      BY <3>1, SumAdd
  <2> QED
    BY <1>1, <1>4, <2>4 DEF IInv, PendingIsSum, AggregateRateIsSum, mineVars, emissionVars
<1>9. IssuanceBounded'
  <2>1. aggregateTps <= INITIAL_TPS /\ UNCHANGED <<aggregateTps, genesisLiquidityMinted, lifetimeMinted>>
    BY <1>1 DEF IInv, IssuanceBounded, mineVars, emissionVars, genesisVars, gbxVars
  <2>2. INITIAL_TPS * (now + 1) = INITIAL_TPS * now + INITIAL_TPS /\ INITIAL_TPS * now \in Int
    BY <1>2
  <2>3. lifetimeMinted + PendingEmission
          <= (IF genesisLiquidityMinted THEN GENESIS_LIQUIDITY_GBX ELSE 0) + INITIAL_TPS * now
    BY DEF IInv, IssuanceBounded
  <2>4. lifetimeMinted' + PendingEmission'
          <= (IF genesisLiquidityMinted THEN GENESIS_LIQUIDITY_GBX ELSE 0) + INITIAL_TPS * (now + 1)
    BY <1>2, <1>4, <2>1, <2>2, <2>3
  <2> QED
    BY <1>1, <2>1, <2>4 DEF IssuanceBounded
<1> QED
  BY <1>4, <1>5, <1>6, <1>7, <1>8, <1>9 DEF IInv
-----------------------------------------------------------------------------
(* The theorems. *)

LEMMA NextIInv == IInv /\ [Next]_vars => IInv'
<1> SUFFICES ASSUME IInv, [Next]_vars PROVE IInv'
  OBVIOUS
<1>1. ASSUME NEW i \in Slots, NEW expectedEpochId, NEW deadline, NEW maximumPayment,
             NEW payer \in Accounts, NEW miner \in Accounts,
             MineSlot(payer, miner, i, expectedEpochId, deadline, maximumPayment)
      PROVE  IInv'
  BY <1>1, MineSlotStep
<1>2. CASE MineOrders
  BY <1>1, <1>2 DEF MineOrders
<1>3. CASE \E a \in Accounts : ClaimMinerPayment(a)
  BY <1>3, ClaimStep
<1>4. CASE MintGenesisLiquidity(SetupAuthority)
  BY <1>4, GenesisStep
<1>5. CASE \/ BindMinter(SetupAuthority)
           \/ \E r \in Routers : SetResonanceRouter(r)
           \/ UNCHANGED vars
  BY <1>5, AdminStep
<1>6. CASE \E a \in Accounts, amount \in Amounts : BurnGBX(a, amount)
  BY <1>6, BurnGBXStep, MineConstants
<1>7. CASE \E a \in Accounts, amount \in Amounts : Donate(a, amount)
  BY <1>7, DonateStep, MineConstants
<1>8. CASE Tick
  BY <1>8, TickStep
<1> QED
  BY <1>2, <1>3, <1>4, <1>5, <1>6, <1>7, <1>8 DEF Next

LEMMA Invariance == Spec => []IInv
BY InitIInv, NextIInv, PTL DEF Spec

(***************************************************************************)
(* Every reachable state is well typed: in particular no checked           *)
(* subtraction of the Mine or of GBX would have gone below zero, and the   *)
(* next auction price and tenure rate are naturals.                        *)
(***************************************************************************)
THEOREM TypeCorrect == Spec => []TypeOK
<1>1. IInv => TypeOK
  BY DEF IInv
<1> QED
  BY <1>1, Invariance, PTL

(***************************************************************************)
(* pendingEmission(), read in constant time from the accumulators, is the  *)
(* sum of what every slot has accrued: settling any slot at any time       *)
(* removes exactly its part.                                               *)
(***************************************************************************)
THEOREM PendingExact == Spec => []PendingIsSum
<1>1. IInv => PendingIsSum
  BY DEF IInv
<1> QED
  BY <1>1, Invariance, PTL

(***************************************************************************)
(* aggregateTps, which mine() updates by the difference of two tenures, is *)
(* the sum of the rates of the tenures that are running.                   *)
(***************************************************************************)
THEOREM AggregateExact == Spec => []AggregateRateIsSum
<1>1. IInv => AggregateRateIsSum
  BY DEF IInv
<1> QED
  BY <1>1, Invariance, PTL

(***************************************************************************)
(* The Mine's USDG always covers the sum of the miners' claims.            *)
(***************************************************************************)
THEOREM ClaimsAlwaysBacked == Spec => []ClaimsBacked
<1>1. IInv => ClaimsBacked
  BY DEF IInv
<1> QED
  BY <1>1, Invariance, PTL

(***************************************************************************)
(* GBX minted = tenures settled + genesis; supply = minted - burned = held.*)
(***************************************************************************)
THEOREM IssuanceSound == Spec => []IssuanceReconciles
<1>1. IInv => IssuanceReconciles
  BY DEF IInv
<1> QED
  BY <1>1, Invariance, PTL

(***************************************************************************)
(* Minted plus accrued GBX stays under the curve of the initial rate and   *)
(* the genesis amount, whatever mine(), claims and burns do in between.    *)
(***************************************************************************)
THEOREM IssuanceUnderCurve == Spec => []IssuanceBounded
<1>1. IInv => IssuanceBounded
  BY DEF IInv
<1> QED
  BY <1>1, Invariance, PTL

-----------------------------------------------------------------------------
(***************************************************************************)
(* The Mine implements Issuance: every step accrues for one second,        *)
(* changes the rate, issues the genesis amount, or is invisible.           *)
(***************************************************************************)
LEMMA ReplacementKeepsIssued ==
  ASSUME IInv, NEW i \in Slots, NEW expectedEpochId, NEW deadline, NEW maximumPayment,
         NEW payer \in Accounts, NEW miner \in Accounts,
         MineSlot(payer, miner, i, expectedEpochId, deadline, maximumPayment)
  PROVE  Issued!ChangeRate
<1> DEFINE amount == PendingSlotEmission(slots[i])
<1> USE MineConstants, MineAddresses
<1>1. IInv'
  BY MineSlotStep
<1>2. /\ storedPendingEmission' = PendingEmission - amount
      /\ pendingUpdatedAt' = now /\ now' = now
      /\ genesisLiquidityMinted' = genesisLiquidityMinted
      /\ (amount = 0 /\ UNCHANGED gbxVars) \/ Mint(MineAddr, slots[i].miner, amount)
  BY DEF MineSlot, AccrueAndSettle, genesisVars
<1>3. amount \in Int /\ PendingEmission \in Int /\ lifetimeMinted \in Int /\ now \in Int
  <2>1. slots[i].tps \in Int /\ slots[i].lastAccruedAt \in Int /\ now \in Int
    BY DEF IInv, TypeOK, Slot, Times
  <2>2. (now - slots[i].lastAccruedAt) * slots[i].tps \in Int
    BY <2>1
  <2>3. PendingEmission \in Int
    BY DEF IInv, TypeOK, PendingEmission, Times
  <2> QED
    BY <2>1, <2>2, <2>3 DEF PendingSlotEmission, IInv, TypeOK, GBXTypeOK
<1> HIDE DEF amount
<1>4. aggregateTps' \in 0 .. INITIAL_TPS
  BY <1>1 DEF IInv, TypeOK, IssuanceBounded
<1>5. lifetimeMinted' = lifetimeMinted + amount
  BY <1>2, <1>3 DEF Mint, gbxVars
<1>6. PendingEmission' = PendingEmission - amount
  <2>1. (now' - pendingUpdatedAt') * aggregateTps' = 0
    <3>1. now' - pendingUpdatedAt' = 0 /\ aggregateTps' \in Int
      BY <1>2, <1>3, <1>4
    <3>2. \A x \in Int : 0 * x = 0
      OBVIOUS
    <3> QED
      BY <3>1, <3>2, Zenon
  <2>2. PendingEmission' = storedPendingEmission' + (now' - pendingUpdatedAt') * aggregateTps'
    BY DEF PendingEmission
  <2> QED
    BY <1>2, <1>3, <2>1, <2>2
<1>7. issued' = issued
  BY <1>3, <1>5, <1>6 DEF issued
<1> QED
  BY <1>2, <1>4, <1>7 DEF Issued!ChangeRate

LEMMA StepImplements == IInv /\ [Next]_vars => [Issued!Next]_(Issued!issuance)
<1> SUFFICES ASSUME IInv, [Next]_vars PROVE Issued!Next \/ UNCHANGED Issued!issuance
  OBVIOUS
<1> USE DEF Issued!Next, Issued!issuance
<1>1. CASE MineOrders
  BY <1>1, ReplacementKeepsIssued DEF MineOrders
<1>2. CASE Tick
  <2>1. now' = now + 1 /\ UNCHANGED <<lifetimeMinted, aggregateTps, genesisLiquidityMinted>>
    BY <1>2 DEF Tick, mineVars, emissionVars, genesisVars, gbxVars
  <2>2. issued' = issued + aggregateTps
    <3>1. PendingEmission \in Int /\ lifetimeMinted \in Int /\ aggregateTps \in Int
      BY MineConstants DEF IInv, TypeOK, GBXTypeOK, PendingEmission, Times
    <3> QED
      BY <1>2, <2>1, <3>1, TickStep DEF issued
  <2> QED
    BY <2>1, <2>2 DEF Issued!Accrue
<1>3. CASE MintGenesisLiquidity(SetupAuthority)
  <2>1. /\ UNCHANGED <<now, slots, emissionVars>>
        /\ ~genesisLiquidityMinted /\ genesisLiquidityMinted' = TRUE
        /\ lifetimeMinted' = lifetimeMinted + GENESIS_LIQUIDITY_GBX
    BY <1>3 DEF MintGenesisLiquidity, Mint
  <2>2. issued' = issued + GENESIS_LIQUIDITY_GBX
    <3>1. PendingEmission \in Int /\ lifetimeMinted \in Int /\ GENESIS_LIQUIDITY_GBX \in Int
      BY MineConstants DEF IInv, TypeOK, GBXTypeOK, PendingEmission, Times
    <3> QED
      BY <2>1, <3>1, SlotsUntouched DEF issued
  <2> QED
    BY <2>1, <2>2 DEF Issued!Genesis, emissionVars
<1>4. CASE \/ \E a \in Accounts : ClaimMinerPayment(a)
           \/ \E r \in Routers : SetResonanceRouter(r)
           \/ BindMinter(SetupAuthority)
           \/ \E a \in Accounts, amount \in Amounts : BurnGBX(a, amount)
           \/ \E a \in Accounts, amount \in Amounts : Donate(a, amount)
           \/ UNCHANGED vars
  <2>1. UNCHANGED <<now, emissionVars, genesisLiquidityMinted, lifetimeMinted>>
    BY <1>4 DEF ClaimMinerPayment, SetResonanceRouter, BindMinter, SetMinter, BurnGBX, Burn,
                Donate, vars, mineVars, genesisVars, gbxVars
  <2> QED
    BY <2>1 DEF issued, PendingEmission, emissionVars
<1> QED
  BY <1>1, <1>2, <1>3, <1>4 DEF Next

(* Mine.sol with GBX.sol implements Issuance: every mining, claim, binding,  *)
(* burn and passing second is a step of the abstract issuance under the      *)
(* refinement mapping of Mine's `issued`, or leaves it alone.                *)
THEOREM MineImplementsIssuance == Spec => ImplementsIssuance
<1>1. Init => Issued!Init
  BY DEF Init, GBXInit, Issued!Init, issued, PendingEmission
<1> QED
  BY <1>1, StepImplements, Invariance, PTL DEF Spec, ImplementsIssuance, Issued!Spec
-----------------------------------------------------------------------------
(* Orders built from a stale view. *)

(* One halving more halves the rate. *)
LEMMA ShiftStep ==
  \A n \in Nat : ShiftedTps(n + 1) <= ShiftedTps(n)
<1> SUFFICES ASSUME NEW n \in Nat PROVE ShiftedTps(n + 1) <= ShiftedTps(n)
  OBVIOUS
<1> DEFINE Table(S, m) == S = [k \in 0 .. m |-> IF k = 0 THEN INITIAL_TPS ELSE S[k - 1] \div 2]
           Sol(m) == CHOOSE S : Table(S, m)
           T == {k \in Nat : k <= n => Sol(n)[k] = Sol(n + 1)[k]}
<1>1. Table(Sol(n), n) /\ Table(Sol(n + 1), n + 1)
  <2>1. ASSUME NEW m \in Nat PROVE Table(Sol(m), m)
    <3>1. \E S : Table(S, m)
      BY ShiftTable
    <3> HIDE DEF Table
    <3> QED
      BY <3>1
  <2> HIDE DEF Table, Sol
  <2> QED
    BY <2>1
<1>2. ShiftedTps(n) = Sol(n)[n] /\ ShiftedTps(n + 1) = Sol(n + 1)[n + 1]
  BY DEF ShiftedTps
<1> HIDE DEF Sol
<1>3. /\ \A k \in 0 .. n : Sol(n)[k] = IF k = 0 THEN INITIAL_TPS ELSE Sol(n)[k - 1] \div 2
      /\ \A k \in 0 .. n + 1 : Sol(n + 1)[k] = IF k = 0 THEN INITIAL_TPS ELSE Sol(n + 1)[k - 1] \div 2
  BY <1>1
<1>4. 0 \in T
  BY <1>3
<1>5. ASSUME NEW k \in T PROVE k + 1 \in T
  BY <1>3
<1> HIDE DEF T
<1>6. T = Nat
  <2>1. T \in SUBSET Nat
    BY DEF T
  <2> QED
    BY <1>4, <1>5, <2>1, InductiveSet
<1>7. Sol(n)[n] = Sol(n + 1)[n]
  BY <1>6 DEF T
<1>8. Sol(n + 1)[n + 1] = Sol(n + 1)[n] \div 2
  BY <1>3
<1> QED
  BY <1>2, <1>7, <1>8, ShiftBounds, DivLeast, MineConstants

RateAfter(halvings) ==
  IF ShiftedTps(halvings) < TAIL_TPS THEN TAIL_TPS ELSE ShiftedTps(halvings)

(* The rate a view promised: for good in the tail, or until the boundary it *)
(* names, which is the next one after some number of halvings.              *)
RatePromised(v) ==
  \/ GlobalTps = TAIL_TPS /\ v.prospectiveSlotTps = TAIL_TPS \div SLOT_COUNT
  \/ \E k \in Nat : /\ k * HALVING_PERIOD <= now
                     /\ v.nextHalvingBoundary = (k + 1) * HALVING_PERIOD
                     /\ v.prospectiveSlotTps = RateAfter(k) \div SLOT_COUNT

(* What a view still says of its slot: nothing once the slot has another    *)
(* epoch, and before that who mines it, and what it costs at most.          *)
ViewSound ==
  view = NoView \/
  /\ view.index \in Slots
  /\ view.epochId \in Nat /\ view.epochId <= slots[view.index].epochId
  /\ view.epochId = slots[view.index].epochId =>
       view.miner = slots[view.index].miner /\ Price(slots[view.index]) <= view.currentPrice
  /\ view.currentPrice \in Nat
  /\ RatePromised(view)

LEMMA NoViewIsNoSlot == \A v : v.index \in Slots => v # NoView
BY MineConstants DEF Slots, NoView

LEMMA RateOfNow ==
  ASSUME now \in Nat
  PROVE  /\ now \div HALVING_PERIOD \in Nat /\ GlobalTps = RateAfter(now \div HALVING_PERIOD)
         /\ GlobalTps \in Nat /\ GlobalTps >= TAIL_TPS
<1>1. now \div HALVING_PERIOD \in Nat
  BY MineConstants
<1> QED
  BY <1>1, ShiftBounds, MineConstants DEF GlobalTps, RateAfter

(* A price only falls while its slot stays the same. *)
LEMMA PriceFalls ==
  ASSUME now \in Nat, now' = now + 1, NEW slot \in Slot, slot.auctionStartedAt <= now
  PROVE  Price(slot)' <= Price(slot) /\ Price(slot) \in Nat /\ Price(slot)' \in Nat
<1> DEFINE elapsed == now - slot.auctionStartedAt
<1>1. slot.initialPrice \in Nat /\ slot.auctionStartedAt \in Nat /\ elapsed \in Nat
  BY MineConstants DEF Slot, Times
<1>2. slot.initialPrice * elapsed \in Nat /\ slot.initialPrice * (elapsed + 1) \in Nat
      /\ slot.initialPrice * elapsed <= slot.initialPrice * (elapsed + 1)
  BY <1>1
<1>3. (slot.initialPrice * elapsed) \div PRICE_DECAY_PERIOD <= (slot.initialPrice * (elapsed + 1)) \div PRICE_DECAY_PERIOD
  BY <1>2, DivMono, MineConstants
<1>4. Price(slot) = IF elapsed >= PRICE_DECAY_PERIOD THEN 0
                    ELSE slot.initialPrice - (slot.initialPrice * elapsed) \div PRICE_DECAY_PERIOD
  BY DEF Price
<1>5. Price(slot)' = IF elapsed + 1 >= PRICE_DECAY_PERIOD THEN 0
                     ELSE slot.initialPrice - (slot.initialPrice * (elapsed + 1)) \div PRICE_DECAY_PERIOD
  <2>1. now' - slot.auctionStartedAt = elapsed + 1
    BY <1>1
  <2> QED
    BY <2>1 DEF Price
<1>6. Price(slot) \in Nat
  BY PriceBounds
<1>7. (slot.initialPrice * elapsed) \div PRICE_DECAY_PERIOD \in Nat
      /\ (slot.initialPrice * (elapsed + 1)) \div PRICE_DECAY_PERIOD \in Nat
  BY <1>2, DivLeast, MineConstants
<1>8. elapsed + 1 <= PRICE_DECAY_PERIOD =>
        (slot.initialPrice * (elapsed + 1)) \div PRICE_DECAY_PERIOD <= slot.initialPrice
  BY <1>1, FloorShare, MineConstants
<1> HIDE DEF elapsed
<1> QED
  BY <1>1, <1>3, <1>4, <1>5, <1>6, <1>7, <1>8, MineConstants

LEMMA ViewInit == QInit => ViewSound
BY DEF QInit, ViewSound

(* A step of the Mine that neither replaces a slot nor takes time.          *)
LEMMA SlotsStay ==
  ASSUME ViewSound, UNCHANGED <<now, slots, view>>
  PROVE  ViewSound'
<1>1. RatePromised(view)' <=> RatePromised(view)
  BY DEF RatePromised, GlobalTps, RateAfter
<1>2. Price(slots[view.index])' = Price(slots[view.index])
  BY DEF Price
<1> QED
  BY <1>1, <1>2 DEF ViewSound

(* Time does not bring back a rate that has ended.                          *)
LEMMA PromiseAges ==
  ASSUME now \in Nat, now' = now + 1, NEW v, RatePromised(v)
  PROVE  RatePromised(v)'
<1> USE MineConstants
<1> DEFINE k == now \div HALVING_PERIOD
           l == now' \div HALVING_PERIOD
<1>1. CASE \E h \in Nat : /\ h * HALVING_PERIOD <= now
                           /\ v.nextHalvingBoundary = (h + 1) * HALVING_PERIOD
                           /\ v.prospectiveSlotTps = RateAfter(h) \div SLOT_COUNT
  <2>1. PICK h \in Nat : /\ h * HALVING_PERIOD <= now
                         /\ v.nextHalvingBoundary = (h + 1) * HALVING_PERIOD
                         /\ v.prospectiveSlotTps = RateAfter(h) \div SLOT_COUNT
    BY <1>1
  <2>2. h * HALVING_PERIOD \in Nat
    OBVIOUS
  <2>3. h * HALVING_PERIOD <= now'
    BY <2>1, <2>2
  <2> QED
    BY <2>1, <2>3 DEF RatePromised, RateAfter
<1>2. CASE GlobalTps = TAIL_TPS /\ v.prospectiveSlotTps = TAIL_TPS \div SLOT_COUNT
  <2>1. k \in Nat /\ l \in Nat /\ HALVING_PERIOD * k <= now /\ now < HALVING_PERIOD * k + HALVING_PERIOD
    OBVIOUS
  <2>2. k <= l
    BY DivMono
  <2>3. l = k \/ l = k + 1
    <3>1. CASE now' < HALVING_PERIOD * k + HALVING_PERIOD
      <4>1. HALVING_PERIOD * k + HALVING_PERIOD = (k + 1) * HALVING_PERIOD /\ HALVING_PERIOD * k = k * HALVING_PERIOD
        BY <2>1
      <4>2. k * HALVING_PERIOD <= now' /\ now' < (k + 1) * HALVING_PERIOD
        BY <2>1, <3>1, <4>1
      <4> HIDE DEF k
      <4>3. l = k
        BY <2>1, <4>2, DivUnique
      <4> QED
        BY <4>3
    <3>2. CASE now' = HALVING_PERIOD * k + HALVING_PERIOD
      <4>1. now' = (k + 1) * HALVING_PERIOD /\ (k + 1 + 1) * HALVING_PERIOD = (k + 1) * HALVING_PERIOD + HALVING_PERIOD
            /\ k + 1 \in Nat
        BY <2>1, <3>2
      <4>2. (k + 1) * HALVING_PERIOD <= now' /\ now' < (k + 1 + 1) * HALVING_PERIOD
        BY <4>1
      <4> HIDE DEF k
      <4>3. l = k + 1
        BY <4>1, <4>2, DivUnique
      <4> QED
        BY <4>3
    <3> QED
      BY <2>1, <3>1, <3>2
  <2>4. ShiftedTps(k) \in Nat /\ ShiftedTps(l) \in Nat /\ ShiftedTps(l) <= ShiftedTps(k)
    <3> HIDE DEF k, l
    <3> QED
      BY <2>1, <2>3, ShiftStep, ShiftBounds
  <2>5. GlobalTps = IF ShiftedTps(k) < TAIL_TPS THEN TAIL_TPS ELSE ShiftedTps(k)
    BY DEF GlobalTps
  <2>6. GlobalTps' = IF ShiftedTps(l) < TAIL_TPS THEN TAIL_TPS ELSE ShiftedTps(l)
    BY DEF GlobalTps, ShiftedTps
  <2> HIDE DEF k, l
  <2>7. ASSUME NEW a \in Nat, NEW b \in Nat, b <= a, TAIL_TPS = IF a < TAIL_TPS THEN TAIL_TPS ELSE a
        PROVE  TAIL_TPS = IF b < TAIL_TPS THEN TAIL_TPS ELSE b
    BY <2>7
  <2>8. TAIL_TPS = IF ShiftedTps(k) < TAIL_TPS THEN TAIL_TPS ELSE ShiftedTps(k)
    BY <1>2, <2>5
  <2>9. TAIL_TPS = IF ShiftedTps(l) < TAIL_TPS THEN TAIL_TPS ELSE ShiftedTps(l)
    BY <2>4, <2>7, <2>8
  <2>10. GlobalTps' = TAIL_TPS
    BY <2>6, <2>9
  <2> QED
    BY <1>2, <2>10 DEF RatePromised
<1> QED
  BY <1>1, <1>2 DEF RatePromised

LEMMA ViewAges ==
  ASSUME IInv, ViewSound, Tick, UNCHANGED view
  PROVE  ViewSound'
<1> USE MineConstants
<1>1. now \in Nat /\ now' = now + 1 /\ slots' = slots /\ slots \in [Slots -> Slot]
  BY DEF Tick, mineVars, IInv, TypeOK, Times
<1>2. CASE view = NoView
  BY <1>2 DEF ViewSound
<1>3. CASE view # NoView
  <2> DEFINE slot == slots[view.index]
  <2>1. /\ view.index \in Slots /\ view.epochId \in Nat /\ view.epochId <= slot.epochId
        /\ view.epochId = slot.epochId => view.miner = slot.miner /\ Price(slot) <= view.currentPrice
        /\ view.currentPrice \in Nat /\ RatePromised(view)
    BY <1>3 DEF ViewSound
  <2>2. slot \in Slot /\ slot.auctionStartedAt <= now
    BY <1>1, <2>1 DEF IInv, ClocksPast
  <2>3. /\ Price(slots[view.index])' <= Price(slots[view.index])
        /\ Price(slots[view.index]) \in Nat /\ Price(slots[view.index])' \in Nat
    <3>1. ASSUME NEW s \in Slot, s.auctionStartedAt <= now
          PROVE  Price(s)' <= Price(s) /\ Price(s) \in Nat /\ Price(s)' \in Nat
      BY <1>1, <3>1, PriceFalls
    <3> QED
      BY <1>1, <2>2, <3>1 DEF Price
  <2>4. RatePromised(view)'
    BY <1>1, <2>1, PromiseAges
  <2> QED
    BY <1>1, <2>1, <2>3, <2>4 DEF ViewSound
<1> QED
  BY <1>2, <1>3

LEMMA ViewRead ==
  ASSUME IInv, NEW i \in Slots, ReadMineSlot(i)
  PROVE  ViewSound'
<1> DEFINE v == MineSlotView(i)
<1>1. view' = v /\ UNCHANGED <<now, slots>> /\ now \in Nat /\ slots[i] \in Slot /\ slots[i].auctionStartedAt <= now
  BY MineConstants DEF ReadMineSlot, vars, mineVars, IInv, TypeOK, ClocksPast, Times
<1>2. /\ v.index = i /\ v.epochId = slots[i].epochId /\ v.miner = slots[i].miner /\ v.currentPrice = Price(slots[i])
      /\ v.prospectiveSlotTps = GlobalTps \div SLOT_COUNT /\ v.nextHalvingBoundary = NextHalvingBoundary(i)
  BY DEF MineSlotView
<1> HIDE DEF v
<1>3. slots[i].epochId \in Nat
  BY <1>1 DEF Slot
<1>4. Price(slots[i]) \in Nat
  BY <1>1, PriceBounds
<1>5. RatePromised(v)
  <2>1. now \div HALVING_PERIOD \in Nat /\ (now \div HALVING_PERIOD) * HALVING_PERIOD <= now
    BY <1>1, MineConstants
  <2>2. /\ GlobalTps = RateAfter(now \div HALVING_PERIOD)
        /\ GlobalTps \in Nat /\ GlobalTps >= TAIL_TPS
    BY <1>1, RateOfNow
  <2>3. CASE GlobalTps <= TAIL_TPS
    <3>1. GlobalTps = TAIL_TPS
      BY <2>2, <2>3, MineConstants
    <3> QED
      BY <1>2, <3>1 DEF RatePromised
  <2>4. CASE ~(GlobalTps <= TAIL_TPS)
    <3>1. v.nextHalvingBoundary = (now \div HALVING_PERIOD + 1) * HALVING_PERIOD
      BY <1>2, <2>4 DEF NextHalvingBoundary
    <3> QED
      BY <1>2, <2>1, <2>2, <3>1 DEF RatePromised
  <2> QED
    BY <2>3, <2>4
<1>6. RatePromised(view)'
  <2>1. GlobalTps' = GlobalTps
    BY <1>1 DEF GlobalTps
  <2> QED
    BY <1>1, <1>5, <2>1 DEF RatePromised, RateAfter
<1>7. Price(slots[i])' = Price(slots[i])
  BY <1>1 DEF Price
<1>8. Price(slots[view.index])' = Price(slots[i])
  BY <1>1, <1>2, <1>7
<1> QED
  BY <1>1, <1>2, <1>3, <1>4, <1>6, <1>8 DEF ViewSound

(* A replaced slot has another epoch, so a view of it says nothing more.    *)
LEMMA ViewOutlived ==
  ASSUME IInv, ViewSound, UNCHANGED view, NEW i \in Slots, NEW expectedEpochId, NEW deadline, NEW maximumPayment,
         NEW payer, NEW miner, MineSlot(payer, miner, i, expectedEpochId, deadline, maximumPayment)
  PROVE  ViewSound'
<1>1. UNCHANGED now /\ slots \in [Slots -> Slot]
      /\ slots' = [slots EXCEPT ![i] = NextTenure(slots[i], Price(slots[i]), miner)]
  BY DEF MineSlot, IInv, TypeOK
<1>2. NextTenure(slots[i], Price(slots[i]), miner).epochId = slots[i].epochId + 1 /\ slots[i].epochId \in Nat
  BY <1>1 DEF NextTenure, Slot
<1>3. RatePromised(view)' <=> RatePromised(view)
  BY <1>1 DEF RatePromised, GlobalTps, RateAfter
<1>4. CASE view = NoView
  BY <1>4 DEF ViewSound
<1>5. CASE view # NoView /\ view.index # i
  <2>1. view.index \in Slots /\ slots'[view.index] = slots[view.index]
    BY <1>1, <1>5 DEF ViewSound
  <2>2. Price(slots[view.index])' = Price(slots[view.index])
    BY <1>1, <2>1 DEF Price
  <2> QED
    BY <1>3, <1>5, <2>1, <2>2 DEF ViewSound
<1>6. CASE view # NoView /\ view.index = i
  <2>1. /\ slots'[i].epochId = slots[i].epochId + 1 /\ view.epochId \in Nat /\ view.epochId <= slots[i].epochId
        /\ view.currentPrice \in Nat /\ RatePromised(view)
    BY <1>1, <1>2, <1>6 DEF ViewSound
  <2>2. view.epochId <= slots'[i].epochId /\ view.epochId # slots'[i].epochId
    BY <1>2, <2>1
  <2> QED
    BY <1>3, <1>6, <2>1, <2>2 DEF ViewSound
<1> QED
  BY <1>4, <1>5, <1>6

(* An order is one of the calls of the Mine, except that its deadline and   *)
(* price need not be among those that bound the other calls.                *)
LEMMA OrderStep ==
  ASSUME IInv, ViewSound, NEW account \in Accounts, NEW deadline, SubmitOrder(account, deadline)
  PROVE  IInv' /\ ViewSound'
<1>1. view.index \in Slots /\ view' = NoView
      /\ MineSlot(account, account, view.index, view.epochId, deadline, view.currentPrice)
  BY DEF SubmitOrder, Order, ViewSound
<1> QED
  BY <1>1, MineSlotStep DEF ViewSound

LEMMA QuotesStep ==
  ASSUME IInv, ViewSound, [QNext]_qvars
  PROVE  IInv' /\ ViewSound'
<1>1. CASE Next /\ UNCHANGED view
  <2>1. IInv'
    BY <1>1, NextIInv
  <2>2. CASE MineOrders
    BY <1>1, <2>1, <2>2, ViewOutlived DEF MineOrders
  <2>3. CASE Tick
    BY <1>1, <2>1, <2>3, ViewAges
  <2>4. CASE ~MineOrders /\ ~Tick
    <3>1. UNCHANGED <<now, slots>>
      BY <1>1, <2>4 DEF Next, ClaimMinerPayment, MintGenesisLiquidity, SetResonanceRouter, BindMinter,
         BurnGBX, Donate, mineVars
    <3> QED
      BY <1>1, <2>1, <3>1, SlotsStay
  <2> QED
    BY <2>1, <2>2, <2>3, <2>4
<1>2. ASSUME NEW i \in Slots, ReadMineSlot(i) PROVE IInv' /\ ViewSound'
  <2>1. UNCHANGED vars
    BY <1>2 DEF ReadMineSlot
  <2> QED
    BY <1>2, <2>1, ViewRead, NextIInv
<1>3. CASE UNCHANGED qvars
  <2>1. UNCHANGED vars /\ UNCHANGED <<now, slots, view>>
    BY <1>3 DEF qvars, vars, mineVars
  <2> QED
    BY <2>1, SlotsStay, NextIInv
<1> QED
  BY <1>1, <1>2, <1>3, OrderStep DEF QNext

LEMMA QuotesSound == QSpec => [](IInv /\ ViewSound)
<1>1. QInit => IInv /\ ViewSound
  BY InitIInv, ViewInit DEF QInit
<1> QED
  BY <1>1, QuotesStep, PTL DEF QSpec

(***************************************************************************)
(* An order built from a view of any age, if the Mine executes it at all,  *)
(* replaces the miner the client saw, for no more than the price it saw,   *)
(* and with a deadline before the halving boundary it saw at the rate it   *)
(* was promised (readMineSlotView and buildMine of the SDK).               *)
(***************************************************************************)
THEOREM OrdersAreFilledAsQuoted == QSpec => [][FilledAsQuoted]_qvars
<1>1. ASSUME IInv, ViewSound, NEW account \in Accounts, NEW deadline \in Deadlines, SubmitOrder(account, deadline)
      PROVE  /\ slots[view.index].miner = view.miner
             /\ Price(slots[view.index]) <= view.currentPrice
             /\ (view.nextHalvingBoundary = NoBoundary \/ deadline < view.nextHalvingBoundary)
                  => slots'[view.index].tps = view.prospectiveSlotTps
  <2>1. /\ view.index \in Slots /\ view # NoView
        /\ MineSlot(account, account, view.index, view.epochId, deadline, view.currentPrice)
    BY <1>1 DEF SubmitOrder, Order, ViewSound
  <2>2. now <= deadline /\ view.epochId = slots[view.index].epochId
    BY <2>1 DEF MineSlot, OrderIsGood
  <2>3. slots[view.index].miner = view.miner /\ Price(slots[view.index]) <= view.currentPrice
    BY <1>1, <2>1, <2>2 DEF ViewSound
  <2>4. slots'[view.index].tps = GlobalTps \div SLOT_COUNT
    BY <1>1, <2>1 DEF MineSlot, NextTenure, IInv, TypeOK
  <2>5. now \in Nat /\ deadline \in Nat
    BY <1>1, MineConstants DEF IInv, TypeOK, Times
  <2>6. CASE GlobalTps = TAIL_TPS /\ view.prospectiveSlotTps = TAIL_TPS \div SLOT_COUNT
    BY <2>3, <2>4, <2>6
  <2>7. ASSUME NEW k \in Nat, k * HALVING_PERIOD <= now, view.nextHalvingBoundary = (k + 1) * HALVING_PERIOD,
               view.prospectiveSlotTps = RateAfter(k) \div SLOT_COUNT,
               view.nextHalvingBoundary = NoBoundary \/ deadline < view.nextHalvingBoundary
        PROVE  slots'[view.index].tps = view.prospectiveSlotTps
    <3>1. (k + 1) * HALVING_PERIOD \in Nat
      BY MineConstants
    <3>2. now < (k + 1) * HALVING_PERIOD
      BY <2>2, <2>5, <2>7, <3>1 DEF NoBoundary
    <3>3. now \div HALVING_PERIOD = k
      BY <2>5, <2>7, <3>2, DivUnique, MineConstants
    <3>4. GlobalTps = RateAfter(k)
      BY <2>5, <3>3, RateOfNow
    <3> QED
      BY <2>4, <2>7, <3>4
  <2> QED
    BY <1>1, <2>1, <2>3, <2>6, <2>7 DEF ViewSound, RatePromised
<1>2. IInv /\ ViewSound => FilledAsQuoted
  BY <1>1 DEF FilledAsQuoted
<1> QED
  BY <1>2, QuotesSound, PTL DEF QSpec

=============================================================================
