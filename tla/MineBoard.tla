------------------------------ MODULE MineBoard ------------------------------
(***************************************************************************)
(* The landing page's model of the Mine (apps/landing/lib/models/mine.ts): *)
(* sixteen auctions of which four were never taken, miners who retake a    *)
(* slot on their own when its price has come down to their reservation,    *)
(* and a scripted programme of five beats in which the reader buys a slot  *)
(* and is displaced again.                                                 *)
(*                                                                         *)
(* Time is in units of a hundred seconds of the simulation, rounded so     *)
(* that no tenure is longer than the code's. A slot is open, a miner's or  *)
(* the reader's; which miner, what a tenure has mined and the drawing   *)
(* are left out. A never-taken slot keeps the price and the start of the   *)
(* deployment; the price of another is left open, so that any slot of the  *)
(* pool may be the one of the dearer middle, and any slot old enough may   *)
(* have reached its owner's reservation.                                   *)
(***************************************************************************)
EXTENDS Naturals, FiniteSets, Sequences

CONSTANTS SLOTS, OPEN_AT_START, DETAIL,
          Frames        \* what a frame may add to the clock

MineBoardAssumption ==
  /\ SLOTS \subseteq Nat /\ IsFiniteSet(SLOTS) /\ 0 \notin SLOTS
  /\ OPEN_AT_START \subseteq SLOTS /\ SLOTS \ OPEN_AT_START # {}
  /\ DETAIL \subseteq SLOTS
  /\ Frames \subseteq Nat

DECAY == 36
BEAT == 3
YOU_MIN == 5           \* 420 s
YOU_MAX == 8           \* 840 s
FIRST_GAP == 7         \* 720 s
ARRIVAL == 12          \* ten minutes of history and the ten of the warm-up
HELD == 4              \* longer than BEAT + 60 s
RIPE == 5              \* no reservation, of 85% at most, is reached before 540 s

Beats == <<"other-occ", "other-first", "you-buy", "other-occ", "you-out">>
NoSlot == 0
Owners == {"open", "miner", "you"}

VARIABLES t,            \* the clock, no further than the vacancies' hour
          owner, age,   \* of each slot; age is capped at RIPE
          beatIdx,      \* position in the programme, 0..4
          nextBeat,     \* time to the next beat
          youLegB,      \* the second half of the reader's tenure, 0 once it is used
          youSlot,      \* the slot the reader holds
          featured,     \* the slot the tape is talking about
          warming       \* TRUE until the first beat has been run

vars == <<t, owner, age, beatIdx, nextBeat, youLegB, youSlot, featured, warming>>

MineBoardTypeOK ==
  /\ t \in ARRIVAL..DECAY
  /\ owner \in [SLOTS -> Owners] /\ age \in [SLOTS -> 0..RIPE]
  /\ beatIdx \in 0..4 /\ nextBeat \in 0..YOU_MAX /\ youLegB \in 0..YOU_MAX
  /\ youSlot \in SLOTS \cup {NoSlot} /\ featured \in SLOTS \cup {NoSlot}
  /\ warming \in BOOLEAN

(* The board after the warm-up: occupied slots are at any point of their    *)
(* tenure, the first beat is still to be run.                               *)
Init ==
  /\ t = ARRIVAL
  /\ owner = [i \in SLOTS |-> IF i \in OPEN_AT_START THEN "open" ELSE "miner"]
  /\ age \in {a \in [SLOTS -> 0..RIPE] : \A i \in OPEN_AT_START : a[i] = RIPE}
  /\ beatIdx = 0 /\ nextBeat = 0 /\ youLegB = 0
  /\ youSlot = NoSlot /\ featured = NoSlot
  /\ warming = TRUE

Capped(n, cap) == IF n > cap THEN cap ELSE n

-----------------------------------------------------------------------------
(* Choosing a slot: own and old are the owners and the ages to choose by,   *)
(* now is the clock.                                                        *)

Open(own) == {i \in SLOTS : own[i] = "open"}

(* The price of a never-taken slot, and its worth in the order of pickFirst:*)
(* one of the detail strip counts as 1 / 1.35 of its price.                 *)
OpenPrice(at) == IF at >= DECAY THEN 0 ELSE DECAY - at

Worth(i, at) == OpenPrice(at) * (IF i \in DETAIL THEN 100 ELSE 135)

(* Cheapest at the moment its turn would come first, then cheapest now;     *)
(* sorting is stable.                                                       *)
Before(i, j, turn, now) ==
  \/ Worth(i, turn) < Worth(j, turn)
  \/ /\ Worth(i, turn) = Worth(j, turn)
     /\ \/ Worth(i, now) < Worth(j, now)
        \/ Worth(i, now) = Worth(j, now) /\ i <= j

PickFirst(own, now) ==
  LET turn == now + (Cardinality(Open(own)) - 1) * FIRST_GAP
  IN  CHOOSE i \in Open(own) : \A j \in Open(own) : Before(i, j, turn, now)

(* The pool of pickOccupied: miners' slots held longer than a beat, or any. *)
PickOccupied(own, old) ==
  LET any == {i \in SLOTS : own[i] = "miner"}
      held == {i \in any : old[i] >= HELD}
  IN  IF held # {} THEN held ELSE any

(* The slots miners retake on their own in a frame: never one that was      *)
(* never taken, nor the reader's.                                           *)
Ripe(own, old) == {i \in SLOTS : own[i] = "miner" /\ old[i] >= RIPE}

-----------------------------------------------------------------------------
(* runBeat *)

(* While a vacancy remains the second take by a miner spends one too.       *)
Kind(own) == IF beatIdx = 3 /\ Open(own) # {} THEN "other-first" ELSE Beats[beatIdx + 1]

SpendsVacancy(own) == Kind(own) = "other-first" /\ Open(own) # {}

(* The two legs of the reader's tenure, drawn when they buy.                *)
Legs == {l \in (1..YOU_MAX) \X (1..YOU_MAX) :
           /\ l[1] + l[2] \in YOU_MIN..YOU_MAX
           /\ 10 * l[1] >= 4 * (l[1] + l[2]) /\ 10 * l[1] <= 6 * (l[1] + l[2])}

(* What buy() does to the reader's slot when i changes hands.               *)
YouSlotAfter(own, you, i, who) ==
  IF who = "you" THEN i ELSE IF own[i] = "you" THEN NoSlot ELSE you

(* buy(): slot i changes hands, narrated.                                   *)
Narrated(own, old, you, i, who) ==
  /\ owner' = [own EXCEPT ![i] = who]
  /\ age' = [old EXCEPT ![i] = 0]
  /\ youSlot' = YouSlotAfter(own, you, i, who)
  /\ featured' = i

Following(b) == (b + 1) % Len(Beats)

Schedule ==
  IF beatIdx = 2
    THEN \E l \in Legs : nextBeat' = l[1] /\ youLegB' = l[2]
    ELSE nextBeat' = (IF beatIdx = 3 THEN youLegB ELSE BEAT) /\ youLegB' = 0

RunBeat(own, old, you, now) ==
  LET kind == Kind(own)
      pool == PickOccupied(own, old)
      Out == kind = "you-out" /\ you # NoSlot
      Buys == kind = "you-buy" /\ you = NoSlot /\ pool # {}
  IN  /\ beatIdx' = Following(beatIdx)
      /\ Schedule
      /\ \/ Out /\ Narrated(own, old, you, you, "miner")
         \/ Buys /\ \E i \in pool : Narrated(own, old, you, i, "you")
         \/ SpendsVacancy(own) /\ Narrated(own, old, you, PickFirst(own, now), "miner")
         \/ /\ ~Out /\ ~Buys /\ ~SpendsVacancy(own)
            /\ \E i \in pool : Narrated(own, old, you, i, "miner")
         \/ /\ ~Out /\ ~Buys /\ ~SpendsVacancy(own) /\ pool = {}
            /\ owner' = own /\ age' = old /\ youSlot' = you
            /\ UNCHANGED featured

(* warmStart ends with the first beat, at once.                             *)
WarmStart ==
  /\ warming
  /\ RunBeat(owner, age, youSlot, t)
  /\ warming' = FALSE
  /\ UNCHANGED t

(* stepMine: the clock, the miners' own takes, then the beat if it is due.  *)
StepMine(dt) ==
  LET now == Capped(t + dt, DECAY)
      aged == [i \in SLOTS |-> Capped(age[i] + dt, RIPE)]
  IN  /\ ~warming
      /\ t' = now
      /\ \E taken \in SUBSET Ripe(owner, aged) :
           LET own == [i \in SLOTS |-> IF i \in taken THEN "miner" ELSE owner[i]]
               old == [i \in SLOTS |-> IF i \in taken THEN 0 ELSE aged[i]]
               you == IF youSlot \in taken THEN NoSlot ELSE youSlot
           IN  IF nextBeat <= dt
                 THEN RunBeat(own, old, you, now)
                 ELSE /\ owner' = own /\ age' = old /\ youSlot' = you
                      /\ nextBeat' = nextBeat - dt
                      /\ UNCHANGED <<beatIdx, youLegB, featured>>
      /\ UNCHANGED warming

Next == WarmStart \/ \E dt \in Frames : StepMine(dt)

Spec == Init /\ [][Next]_vars

(* The animation loop of a panel in view goes on.                           *)
FairSpec == Spec /\ WF_vars(Next)

-----------------------------------------------------------------------------
(* The reader holds one slot at most, and it is the one the model says.     *)
YouHoldOne == {i \in SLOTS : owner[i] = "you"} = {youSlot} \ {NoSlot}

(* The reader's slot is left for the scripted displacement (mine.ts:573-575)*)
(* and what the reader is displaced by is the take the tape narrates.       *)
ReaderLeavesOnTheScript ==
  \A i \in SLOTS : owner[i] = "you" /\ owner'[i] # "you"
       => beatIdx = 4 /\ beatIdx' = 0 /\ featured' = i

(* The tape never narrates one column twice running (mine.ts:508-509), the long *)
(* legs of the reader's tenure included, unless every other miner's slot is *)
(* fresher than a beat.                                                     *)
AnotherColumn ==
  beatIdx' # beatIdx /\ featured' = featured /\ featured # NoSlot
       => \A i \in SLOTS \ {featured} : owner'[i] = "miner" => age'[i] < HELD

(* Every vacancy is spent in the end and stays so (mine.ts:475-477).        *)
EveryVacancyIsSpent == Open(owner) = {}
=============================================================================
