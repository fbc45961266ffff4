------------------------------ MODULE LiveMine ------------------------------
(***************************************************************************)
(* The home page's model of the mine (apps/web/components/home/            *)
(* live-sim.ts): slots in descending auctions, each replaced when its      *)
(* price falls to a reserve drawn for it, its emission minted then.        *)
(*                                                                         *)
(* The code's numbers are real and drawn from a generator with a fixed     *)
(* seed; here prices and reserves are whole, and any draw is possible.     *)
(* A step is one call of stepMine, with any of the lengths Steps.          *)
(***************************************************************************)
EXTENDS Integers, FiniteSetsExt

CONSTANTS Slots,
          INITIAL_RATE, TAIL_RATE, HALVING,  \* per slot; the period of a halving
          DECAY, DWELL,    \* the hour of an auction, and its quiet first minutes
          MIN_PRICE, MULTIPLIER,
          OpeningPrices, OpeningAges, \* what createMine draws
          Reserves,        \* percent of the opening price at which a slot is taken
          Steps, MaxTime

LiveMineAssumption ==
  /\ INITIAL_RATE \in Nat /\ TAIL_RATE \in Nat /\ HALVING \in Nat \ {0}
  /\ DECAY \in Nat \ {0} /\ DWELL \in Nat /\ MIN_PRICE \in Nat \ {0} /\ MULTIPLIER \in Nat
  /\ OpeningPrices \cup OpeningAges \cup Reserves \cup Steps \subseteq Nat /\ MaxTime \in Nat

VARIABLES t, slots, minted, toMiners, toResonance,
          settled    \* emission of the tenures that have ended, from their times and rates

vars == <<t, slots, minted, toMiners, toResonance, settled>>

Larger(a, b) == IF a > b THEN a ELSE b

(* globalTps, for one slot. *)
GlobalTps(elapsed) == Larger(INITIAL_RATE \div 2 ^ (elapsed \div HALVING), TAIL_RATE)

SlotPrice(slot, now) ==
  IF now - slot.startedAt >= DECAY THEN 0
  ELSE (slot.initialPrice * (DECAY - (now - slot.startedAt))) \div DECAY

Opened(price, at, rate, accrued, reserve) ==
  [initialPrice |-> price, startedAt |-> at, tps |-> rate, accrued |-> accrued,
   reserve |-> (price * reserve) \div 100]

(* createMine, before the steps it runs itself. *)
Init ==
  /\ t = 0 /\ minted = 0 /\ toMiners = 0 /\ toResonance = 0 /\ settled = 0
  /\ slots \in [Slots -> {Opened(p, -age, INITIAL_RATE, age * INITIAL_RATE, r) :
                            p \in OpeningPrices, age \in OpeningAges, r \in Reserves}]

-----------------------------------------------------------------------------
(* A slot after the interval, before anyone looks at its price. *)
Accrued(slot, dt) == [slot EXCEPT !.accrued = @ + dt * slot.tps]

Taken(slot, now) == now - slot.startedAt > DWELL /\ SlotPrice(slot, now) <= slot.reserve

(* The rate a new tenure is assigned. *)
NewRate(slot, now) == GlobalTps(now)

(* What the new tenure begins with. *)
Carried(slot) == 0

NextPrice(paid) == Larger(paid * MULTIPLIER, MIN_PRICE)

(* replace: the next auction of a slot. *)
Replaced(slot, now, reserve) ==
  Opened(NextPrice(SlotPrice(slot, now)), now, NewRate(slot, now),
         Carried(slot), reserve)

ToMiner(paid) == (paid * 8) \div 10

(* stepMine: every slot accrues, and those whose price has come down are replaced. *)
StepMine(dt) ==
  LET now == t + dt
      after == [s \in Slots |-> Accrued(slots[s], dt)]
      taken == {s \in Slots : Taken(after[s], now)}
      Paid(s) == SlotPrice(after[s], now)
  IN /\ now <= MaxTime /\ t' = now
     /\ \E draw \in [taken -> Reserves] :
          slots' = [s \in Slots |-> IF s \in taken THEN Replaced(after[s], now, draw[s]) ELSE after[s]]
     /\ minted' = minted + MapThenSumSet(LAMBDA s : after[s].accrued, taken)
     /\ toMiners' = toMiners + MapThenSumSet(LAMBDA s : ToMiner(Paid(s)), taken)
     /\ toResonance' = toResonance + MapThenSumSet(LAMBDA s : Paid(s) - ToMiner(Paid(s)), taken)
     /\ settled' = settled + MapThenSumSet(LAMBDA s : (now - slots[s].startedAt) *
                                             GlobalTps(Larger(0, slots[s].startedAt)), taken)

Done == t = MaxTime /\ UNCHANGED vars

Next == Done \/ \E dt \in Steps : StepMine(dt)

Spec == Init /\ [][Next]_vars

-----------------------------------------------------------------------------
(* Properties. *)

(* What is minted is, for every tenure that has ended, the time it lasted at the rate of the  *)
(* moment it began: neither a halving nor the length of a frame changes what it was assigned.  *)
MintedIsTenures == minted = settled

(* Every replacement pays: with frames short beside the hour the reserve is met before the    *)
(* price has run out, so no claim on the board is a claim of nothing.                           *)
EveryTakePays ==
  \A s \in Slots : slots'[s].startedAt # slots[s].startedAt =>
       SlotPrice(slots[s], t') > 0

LiveMineTypeOK ==
  /\ t \in 0..MaxTime /\ minted \in Nat /\ toMiners \in Nat /\ toResonance \in Nat
  /\ \A s \in Slots : /\ slots[s].startedAt <= t /\ slots[s].initialPrice >= MIN_PRICE
                      /\ slots[s].accrued \in Nat /\ slots[s].tps \in TAIL_RATE..INITIAL_RATE
                      /\ slots[s].reserve < slots[s].initialPrice
=============================================================================
