----------------------------- MODULE FlowGrammar -----------------------------
(***************************************************************************)
(* The running figure of the specimen page (apps/landing/app/specimen/     *)
(* SpecimenDriver.tsx, mountGrammar): charges of capital enter a vessel,   *)
(* are divided into bays, held and claimed out again, on a fixed cycle.    *)
(*                                                                         *)
(* Time is counted in half seconds and quantities in whole units, so a     *)
(* share is rounded down; the code's substeps of a sixtieth of a second    *)
(* are here of at most MAX_SUB.  What the control signal weighs is any of  *)
(* Weights for each bay.  Drawing is left out.                             *)
(***************************************************************************)
EXTENDS Naturals, FiniteSetsExt

CONSTANTS Bays,        \* 1..the number of bays
          Weights,     \* what the control signal gives a bay
          FrameTimes,  \* lengths of a frame
          MAX_SUB,     \* the longest substep
          MaxCycles    \* bound on the charges followed

FlowGrammarAssumption ==
  /\ Bays \in {1..n : n \in 1..8} /\ MaxCycles \in Nat \ {0}
  /\ Weights \subseteq Nat \ {0} /\ FrameTimes \subseteq Nat \ {0} /\ MAX_SUB \in Nat \ {0}

IN_RATE == 15
OUT_RATE == 10
CHARGE == 120
VESSEL_FULL == 60
OUT_OPEN == 2
IN_SHUT == 8
OUT_SHUT == 14
HOLD_END == 18
CLAIM_END == 30
CYCLE == 34
STILL_AT == CYCLE + 7

Beats == {OUT_OPEN, IN_SHUT, OUT_SHUT, HOLD_END, CLAIM_END, CYCLE}

VARIABLES t, cycle, inCycle, chargedIn, held, bay, claimedOut,
          burned,     \* in quarters of a unit
          left        \* what the frame being played has still to advance

vars == <<t, cycle, inCycle, chargedIn, held, bay, claimedOut, burned, left>>

BayStock == MapThenSumSet(LAMBDA b : bay[b], Bays)

Seeded ==
  /\ t' = 0 /\ cycle' = 1 /\ inCycle' = 0 /\ chargedIn' = 0 /\ held' = 0
  /\ bay' = [b \in Bays |-> 0] /\ claimedOut' = 0 /\ burned' = 0

Init ==
  /\ t = 0 /\ cycle = 1 /\ inCycle = 0 /\ chargedIn = 0 /\ held = 0
  /\ bay = [b \in Bays |-> 0] /\ claimedOut = 0 /\ burned = 0 /\ left = 0

-----------------------------------------------------------------------------
Least(a, b) == IF a < b THEN a ELSE b

InOpen == t < IN_SHUT

OutOpen == t >= OUT_OPEN /\ t < OUT_SHUT
ClaimOpen == t >= HOLD_END /\ t < CLAIM_END

(* grLegs: the last bay takes what the others leave. *)
Legs(total, weight) ==
  LET whole == MapThenSumSet(LAMBDA b : weight[b], Bays)
      part(b) == (total * weight[b]) \div whole
      last == Cardinality(Bays)
  IN  [b \in Bays |-> IF b = last THEN total - MapThenSumSet(part, Bays \ {last})
                      ELSE part(b)]

(* What a bay gives up: its stock spread over what is left of the claim. *)
Claimed(stock, h) ==
  IF CLAIM_END - t <= h THEN stock ELSE (stock * h) \div (CLAIM_END - t)

(* advance: a substep ends at the next beat. *)
Substep ==
  LET beat == CHOOSE b \in Beats : b > t /\ \A c \in Beats : c > t => b <= c
  IN  Least(Least(left, MAX_SUB), beat - t)

Tick ==
  /\ left > 0
  /\ LET h == Substep
         dIn == IF InOpen THEN Least(IN_RATE * h, CHARGE - inCycle) ELSE 0
         dOut == IF OutOpen THEN Least(OUT_RATE * h, held + dIn) ELSE 0
         wraps == t + h >= CYCLE
     IN  \E weight \in [Bays -> Weights] :
           LET filled == IF dOut > 0
                         THEN [b \in Bays |-> bay[b] + Legs(dOut, weight)[b]] ELSE bay
               claim == [b \in Bays |-> IF ClaimOpen THEN Claimed(filled[b], h) ELSE 0]
               claims == MapThenSumSet(LAMBDA b : claim[b], Bays)
           IN  /\ cycle + (IF wraps THEN 1 ELSE 0) <= MaxCycles + 1
               /\ dOut = 0 => weight = CHOOSE w \in [Bays -> Weights] : TRUE
               /\ chargedIn' = chargedIn + dIn
               /\ held' = held + dIn - dOut
               /\ bay' = [b \in Bays |-> filled[b] - claim[b]]
               /\ claimedOut' = claimedOut + claims
               /\ burned' = burned + 3 * claims
               /\ inCycle' = IF wraps THEN 0 ELSE inCycle + dIn
               /\ t' = IF wraps THEN t + h - CYCLE ELSE t + h
               /\ cycle' = IF wraps THEN cycle + 1 ELSE cycle
               /\ left' = left - h

(* A frame begins: the rest of it is played before anything is painted. *)
Frame == left = 0 /\ cycle <= MaxCycles /\ left' \in FrameTimes
         /\ UNCHANGED <<t, cycle, inCycle, chargedIn, held, bay, claimedOut, burned>>

(* The driver's reset, after the panel has been away. *)
Reset == left = 0 /\ Seeded /\ left' = 0

(* The still of reduced motion. *)
Static == left = 0 /\ Seeded /\ left' = STILL_AT

Next == Tick \/ Frame \/ Reset \/ Static

Spec == Init /\ [][Next]_vars

-----------------------------------------------------------------------------
(* Types of the figure's counters. *)
FlowGrammarTypeOK ==
  /\ t \in 0..(CYCLE - 1) /\ cycle \in 1..(MaxCycles + 1) /\ inCycle \in 0..CHARGE
  /\ {chargedIn, held, claimedOut, burned, left} \subseteq Nat
  /\ bay \in [Bays -> Nat]

(* The figure's published check: what has been charged is in the vessel,   *)
(* in a bay, or has been claimed, after every substep of every cycle.      *)
GrammarBalances == chargedIn = held + BayStock + claimedOut /\ burned = 3 * claimedOut

(* Whatever the frames are, each cycle ends with one whole charge gone     *)
(* through: the bays are empty once the claim shuts, and the vessel with   *)
(* them, though nothing sets them to zero.                                 *)
EachCycleClears ==
  /\ t >= CLAIM_END => BayStock = 0 /\ claimedOut = CHARGE * cycle
  /\ t = 0 => held = 0 /\ BayStock = 0 /\ chargedIn = CHARGE * (cycle - 1)

(* The vessel never exceeds its published capacity. *)
VesselFits == held <= VESSEL_FULL
=============================================================================
