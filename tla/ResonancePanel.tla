---------------------------- MODULE ResonancePanel ----------------------------
(***************************************************************************)
(* The landing page's model of the Resonance stream                        *)
(* (apps/landing/lib/models/resonance.ts): a cycle of four stages in which *)
(* one scripted lot leaves the largest Strategy, the split travels down the*)
(* channels, and then holders move on their own clocks.                    *)
(*                                                                         *)
(* Time is in units of a hundred seconds of the simulation, stakes in units*)
(* of 500 GBX; a frame is one unit, a little over the longest of the page. *)
(* The stream itself, the pots, the coins and the drawing are left out.  A *)
(* reservation is kept while its drift window lasts: the next one is always*)
(* later than that.                                                        *)
(***************************************************************************)
EXTENDS Naturals, Sequences, FiniteSets, Folds

CONSTANTS Assets,        \* 0 .. the number of Strategies - 1
          STRATEGIES,    \* their stakes at first
          LOTS, SCRIPTED_LOT,
          Spare          \* what a Strategy must have more than after a lot: 800 GBX

ResonancePanelAssumption ==
  /\ Assets \subseteq Nat /\ IsFiniteSet(Assets) /\ Cardinality(Assets) > 1
  /\ Assets = 0..(Cardinality(Assets) - 1)
  /\ STRATEGIES \in [Assets -> Nat]
  /\ LOTS \subseteq Nat /\ SCRIPTED_LOT \in Nat /\ Spare \in Nat

PHASE == [hold |-> 18, move |-> 14, settle |-> 20, drift |-> 44]
DRIFT_WINDOW == 9
MIN_DWELL == 26
MOVED == 34              \* a move fades for 3400 s
BUSY == 10               \* and is fresh until three tenths of it are left
Never == 99              \* no reservation in this drift window

VARIABLES stage, left,   \* the cycle
          target,        \* the rotation of destinations
          stake, moved,  \* of each Strategy; moved counts down
          dwell,         \* time since its last move, capped
          nextMove       \* time to its holder's reservation

vars == <<stage, left, target, stake, moved, dwell, nextMove>>

NumAssets == Cardinality(Assets)

ResonancePanelTypeOK ==
  /\ stage \in DOMAIN PHASE /\ left \in 1..PHASE[stage]
  /\ target \in Assets
  /\ stake \in [Assets -> Nat]
  /\ moved \in [Assets -> 0..MOVED] /\ dwell \in [Assets -> 0..MIN_DWELL]
  /\ nextMove \in [Assets -> (0..DRIFT_WINDOW) \cup {Never}]

Init ==
  /\ stage = "hold" /\ left = PHASE.hold /\ target = 0
  /\ stake = STRATEGIES
  /\ moved = [a \in Assets |-> 0] /\ dwell = [a \in Assets |-> 0]
  /\ nextMove = [a \in Assets |-> Never]

(* armCycle: a reader who returns gets a calm board and the whole beat.     *)
ArmCycle ==
  /\ stage' = "hold" /\ left' = PHASE.hold
  /\ moved' = [a \in Assets |-> 0] /\ dwell' = [a \in Assets |-> 0]
  /\ UNCHANGED <<target, stake, nextMove>>

-----------------------------------------------------------------------------
Less(n, m) == IF n > m THEN n - m ELSE 0
Until(n, cap) == IF n > cap THEN cap ELSE n

Transferred(st, from, to, lot) == [st EXCEPT ![from] = @ - lot, ![to] = @ + lot]

(* applyMove, in a frame that then lets the marks fade by its own length.   *)
ApplyMove(from, to, lot) ==
  /\ stake' = Transferred(stake, from, to, lot)
  /\ moved' = [a \in Assets |-> IF a \in {from, to} THEN MOVED - 1 ELSE Less(moved[a], 1)]
  /\ dwell' = [a \in Assets |-> IF a \in {from, to} THEN 0 ELSE Until(dwell[a] + 1, MIN_DWELL)]

NoMove ==
  /\ UNCHANGED stake
  /\ moved' = [a \in Assets |-> Less(moved[a], 1)]
  /\ dwell' = [a \in Assets |-> Until(dwell[a] + 1, MIN_DWELL)]

CanSpare(a, lot) == stake[a] > lot + Spare

(* The largest Strategy that can spare the lot, the first of equals.        *)
LargestAsset ==
  {a \in Assets : /\ CanSpare(a, SCRIPTED_LOT)
                  /\ \A b \in Assets : CanSpare(b, SCRIPTED_LOT) =>
                       stake[b] < stake[a] \/ (stake[b] = stake[a] /\ a <= b)}

(* The rotation, which steps past the source.                               *)
Destination(big) == IF target = big THEN (target + 1) % NumAssets ELSE target

(* The first frame after hold has run out: one call is the whole attempt.   *)
SignalFromLargest ==
  \/ \E big \in LargestAsset :
       /\ ApplyMove(big, Destination(big), SCRIPTED_LOT)
       /\ target' = (Destination(big) + 1) % NumAssets
  \/ LargestAsset = {} /\ NoMove /\ UNCHANGED target

HoldEnds ==
  /\ stage = "hold" /\ left = 1
  /\ stage' = "move" /\ left' = PHASE.move
  /\ SignalFromLargest
  /\ UNCHANGED nextMove

MoveEnds ==
  /\ stage = "move" /\ left = 1
  /\ stage' = "settle" /\ left' = PHASE.settle
  /\ NoMove
  /\ UNCHANGED <<target, nextMove>>

(* Every holder gets a fresh reservation; the order is shuffled.            *)
Reservations ==
  {r \in [Assets -> 0..DRIFT_WINDOW] :
     \E order \in [Assets -> Assets] :
       /\ {order[a] : a \in Assets} = Assets
       /\ \A a \in Assets : 100 * r[a] >= 80 + 165 * order[a]
                            /\ 100 * r[a] < 80 + 165 * order[a] + 210 + 100}

SettleEnds ==
  /\ stage = "settle" /\ left = 1
  /\ stage' = "drift" /\ left' = PHASE.drift
  /\ nextMove' \in Reservations
  /\ NoMove
  /\ UNCHANGED target

DriftEnds ==
  /\ stage = "drift" /\ left = 1
  /\ stage' = "hold" /\ left' = PHASE.hold
  /\ NoMove
  /\ UNCHANGED <<target, nextMove>>

-----------------------------------------------------------------------------
(* A frame within a stage. *)

(* Holders move on their own in the head of the drift only.                 *)
InDriftWindow(l) == stage = "drift" /\ l > PHASE.drift - DRIFT_WINDOW

(* ... and while no move is fresh.                                          *)
Busy == \E a \in Assets : moved[a] > BUSY

(* The holders whose reservation and dwell have passed: the earliest moves. *)
Due == {a \in Assets : nextMove[a] <= 1 /\ dwell[a] + 1 >= MIN_DWELL}

Pick == {a \in Due : \A b \in Due : nextMove[a] < nextMove[b]
                                    \/ (nextMove[a] = nextMove[b] /\ a <= b)}

Reserved(n) == IF n = Never THEN Never ELSE Less(n, 1)

Drift ==
  \E from \in Pick :
    /\ \E to \in Assets \ {from}, lot \in LOTS :
         IF CanSpare(from, lot) THEN ApplyMove(from, to, lot) ELSE NoMove
    /\ nextMove' = [a \in Assets |-> IF a = from THEN Never ELSE Reserved(nextMove[a])]

Step ==
  /\ left > 1
  /\ left' = left - 1
  /\ IF InDriftWindow(left - 1) /\ ~Busy /\ Due # {}
       THEN Drift
       ELSE /\ NoMove
            /\ nextMove' = [a \in Assets |-> IF InDriftWindow(left - 1)
                                               THEN Reserved(nextMove[a]) ELSE Never]
  /\ UNCHANGED <<stage, target>>

Next == ArmCycle \/ HoldEnds \/ MoveEnds \/ SettleEnds \/ DriftEnds \/ Step

Spec == Init /\ [][Next]_vars

-----------------------------------------------------------------------------
(* "Hold really holds" (resonance.ts:128): when the reader is shown a calm  *)
(* board nothing that moved is still on its way, whoever moved last.        *)
HoldReallyHolds == stage = "hold" => \A a \in Assets : moved[a] = 0

(* Two moves never land together (resonance.ts:292-293): a stake changes    *)
(* only when no other change is fresh, scripted or not.                     *)
MovesNeverOverlap == stake' # stake => \A a \in Assets : moved[a] <= BUSY

(* The scripted move always fires, and out of a largest Strategy: a total   *)
(* that is conserved leaves the largest able to spare the lot whatever the  *)
(* holders did before (resonance.ts:250-252).                               *)
ScriptedMoveFires ==
  stage = "hold" /\ stage' = "move" =>
       \E a \in Assets : /\ \A b \in Assets : stake[b] <= stake[a]
                         /\ stake'[a] = stake[a] - SCRIPTED_LOT

(* No Strategy is emptied, and what all of them hold is what they began     *)
(* with.                                                                    *)
StakeIsConserved ==
  /\ \A a \in Assets : stake[a] > Spare
  /\ MapThenFoldSet(+, 0, LAMBDA a : stake[a], LAMBDA S : CHOOSE a \in S : TRUE, Assets)
       = MapThenFoldSet(+, 0, LAMBDA a : STRATEGIES[a], LAMBDA S : CHOOSE a \in S : TRUE, Assets)
=============================================================================
