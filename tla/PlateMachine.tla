---------------------------- MODULE PlateMachine ----------------------------
(***************************************************************************)
(* The upper half of the landing page's plate                              *)
(* (apps/landing/components/sections/Plate.tsx): it steps the model of the *)
(* Mine, plans which slot is taken next, draws one take at a time and      *)
(* books the payment to its Router, which routes what it holds now and     *)
(* then.                                                                   *)
(*                                                                         *)
(* Time is in seconds of the page.  A price falls to a reservation at one  *)
(* instant, so a reservation is that instant; what is paid is any of       *)
(* Payments, and nothing once the hour is over.  A slot mints one a        *)
(* second.  A slot's flash goes up in a step exactly if it is taken in it, *)
(* since its last one is over long before.  Layout, painting and the       *)
(* levels eased for the eye are left out, as are the stations below the    *)
(* Router, which share no state with these two.                            *)
(***************************************************************************)
EXTENDS Integers, SequencesExt

CONSTANTS SLOTS,
          TS,            \* TS_MINE seconds of the Mine, the unit of the schedule
          DECAY, DWELL,  \* a slot's hour, and the tenure within which it is not taken
          MARGIN,        \* the tenure within which it is not chosen
          Gaps,          \* how far ahead the next take is planned
          TAKE_FADE, ROUTE_OPEN, Waits, MAX_QUEUED,
          Payments,
          OpeningAges,   \* of the tenures after the warm-up
          WarmDeposits,  \* what was deposited during it
          Frames, PRE, PRE_ROLL, STILL, STILLS, \* lengths of steps, and numbers of them
          MaxTime, MaxSeeds

PlateMachineAssumption ==
  /\ SLOTS \in Nat \ {0} /\ TS \in Nat \ {0} /\ DWELL <= MARGIN /\ MARGIN < DECAY
  /\ Gaps \cup Waits \cup Frames \cup OpeningAges \subseteq Nat
  /\ \A p \in Payments : p > 0 /\ p % 5 = 0
  /\ MAX_QUEUED \in Nat /\ WarmDeposits \in Nat /\ {PRE_ROLL, STILLS} \subseteq Nat \ {0}

VARIABLES mode,          \* what runs: the "roll" of a seed, the steps of a "still", or the loop
          left,          \* steps of a roll or a still to come
          still,         \* whether a still follows the roll
          seeds, t,
          slots,         \* when each tenure began, and when its price reaches the reservation
          sched,         \* the slot whose card is lit
          routerDeposits, totalMined,    \* the Mine's tallies since it was seeded
          emis,          \* what the staircase of the emission has risen to
          packets, queued,   \* the take that is drawn, and those that wait
          router         \* what it holds, has booked and has let out, and its clocks

vars == <<mode, left, still, seeds, t, slots, sched, routerDeposits, totalMined, emis, packets, queued, router>>

Indices == 0 .. SLOTS - 1
Earlier(a, b) == IF a < b THEN a ELSE b
Later(a, b) == IF a > b THEN a ELSE b
SumOver(f) == FoldFunctionOnSet(+, 0, f, DOMAIN f)
Carried(takes) == FoldLeft(LAMBDA n, take : n + take.toRouter, 0, takes)

-----------------------------------------------------------------------------
(* The Mine and the schedule. *)

(* The slots that are taken by now: past the quiet of their tenure, with   *)
(* the price at the reservation, or gone.                                  *)
Due(board, now) ==
  {i \in Indices : /\ now - board[i].startedAt > DWELL
                   /\ now >= Earlier(board[i].ripeAt, board[i].startedAt + DECAY)}

(* What is paid for each slot that is taken. *)
Sales(board, now) ==
  {paid \in [Due(board, now) -> Payments \cup {0}] :
     \A i \in DOMAIN paid : paid[i] = 0 <=> now - board[i].startedAt >= DECAY}

Retaken(board, now, paid) ==
  [i \in Indices |-> IF i \in DOMAIN paid THEN [startedAt |-> now, ripeAt |-> now + DECAY \div 2] ELSE board[i]]

Minted(board, now, taken) == SumOver([i \in taken |-> now - board[i].startedAt])

(* Every slot is occupied, and a fifth of what is paid is deposited. *)
Deposit(paid) == SumOver([i \in DOMAIN paid |-> paid[i] \div 5])

(* The instant the next take is planned for: before any price is gone. *)
Planned(board, now, gap) ==
  LET deadline == Min({board[i].startedAt + DECAY : i \in Indices})
  IN IF now + gap > deadline THEN Later(now + TS, deadline - TS) ELSE now + gap

Choosable(board, want) == {i \in Indices : want - board[i].startedAt > MARGIN}

Oldest(board, pool) ==
  CHOOSE i \in pool : \A j \in pool : \/ board[i].startedAt < board[j].startedAt
                                      \/ board[i].startedAt = board[j].startedAt /\ i <= j

(* When the others' prices are to reach theirs. *)
OthersTarget(i, want) == want + (2 + (i % 6)) * TS

(* replan: the oldest tenure goes next, and every reservation follows. *)
Plan(board, now, gap, was) ==
  LET want == Planned(board, now, gap)
      pool == Choosable(board, want)
      pick == Oldest(board, pool)
      Target(i) == IF i = pick THEN want ELSE OthersTarget(i, want)
      Ripe(i) == board[i].startedAt + Earlier(DECAY, Later(0, Target(i) - board[i].startedAt))
  IN IF pool = {} THEN [slots |-> board, sched |-> was]
     ELSE [slots |-> [i \in Indices |-> [board[i] EXCEPT !.ripeAt = Ripe(i)]], sched |-> pick]

(* stepMine, and the new plan if there was a take. *)
StepMine(now, paid) ==
  /\ t' = now
  /\ routerDeposits' = routerDeposits + Deposit(paid)
  /\ totalMined' = totalMined + Minted(slots, now, DOMAIN paid)
  /\ IF DOMAIN paid = {} THEN UNCHANGED <<slots, sched>>
     ELSE \E gap \in Gaps : LET plan == Plan(Retaken(slots, now, paid), now, gap, sched)
                           IN slots' = plan.slots /\ sched' = plan.sched

(* spawnTakes: the frame's deposit shared among the takes by what each paid.*)
Spawned(paid) ==
  LET gained == Deposit(paid)
      fired == SelectSeq([k \in 1 .. SLOTS |-> k - 1], LAMBDA i : i \in DOMAIN paid /\ paid[i] > 0)
      Share(i) == (gained * paid[i]) \div SumOver(paid)
  IN IF gained = 0 THEN <<>>
     ELSE [k \in DOMAIN fired |-> [slot |-> fired[k], toRouter |-> Share(fired[k]), age |-> 0]]

(* The staircase steps with every take that paid. *)
StepMinted(now, paid) == emis' = emis + Minted(slots, now, {i \in DOMAIN paid : paid[i] > 0})

-----------------------------------------------------------------------------
(* The Router. *)

(* The clock of the Router in hand after dt, with the deposits that arrived. *)
Booked(arrived, dt) ==
  LET booked == Later(router.bookedIn, arrived)
  IN [router EXCEPT !.held = @ + booked - router.bookedIn, !.bookedIn = booked,
                    !.sinceRoute = Earlier(@ + dt, Max(Waits))]

(* route() empties it when its time has come. *)
Routed(r) ==
  IF r.sinceRoute >= r.wait /\ r.held > 0
    THEN {[r EXCEPT !.outTotal = @ + r.held, !.held = 0, !.sinceRoute = 0, !.wait = w] : w \in Waits}
    ELSE {r}

(* What counts as under way when the frame books: the take that begins in  *)
(* it is no longer waiting, and not yet among those that were aged.        *)
InFlight(aged, waiting) == Carried(aged) + Carried(waiting)

Recent(takes) == SubSeq(takes, Later(1, Len(takes) - MAX_QUEUED + 1), Len(takes))

(* The Router's part of a frame. *)
Book(dt, takes) ==
  LET aged == SelectSeq([k \in DOMAIN packets |-> [packets[k] EXCEPT !.age = @ + dt]],
                        LAMBDA take : take.age < TAKE_FADE)
      kept == Recent(takes)
      begins == aged = <<>> /\ kept # <<>>
      waiting == IF begins THEN Tail(kept) ELSE kept
      r == Booked(routerDeposits' - InFlight(aged, waiting), dt)
  IN /\ packets' = IF begins THEN <<Head(kept)>> ELSE aged
     /\ queued' = waiting
     /\ IF r.open > 0 THEN router' = [r EXCEPT !.open = Later(0, @ - dt)]
        ELSE \E out \in Routed(r) :
               router' = IF out.outTotal > r.outTotal THEN [out EXCEPT !.open = ROUTE_OPEN] ELSE out

-----------------------------------------------------------------------------
(* seed: a board with a history, every slot of it occupied and one at least *)
(* as long as the warm-up lasts, with the first plan of it.                 *)
Boards ==
  {[i \in Indices |-> [startedAt |-> -ages[i], ripeAt |-> 0]] :
     ages \in {a \in [Indices -> OpeningAges] : \E i \in Indices : a[i] = Max(OpeningAges)}}

FirstPlans == {Plan(board, 0, gap, -1) : board \in Boards, gap \in Gaps}

(* The deposits of the warm-up are history: they are booked as routed.      *)
WarmRouter ==
  [held |-> 0, bookedIn |-> WarmDeposits, outTotal |-> WarmDeposits, open |-> 0, sinceRoute |-> 0, wait |-> Min(Waits)]

Init ==
  /\ mode = "roll" /\ left = PRE_ROLL /\ still \in BOOLEAN /\ seeds = 1 /\ t = 0
  /\ \E plan \in FirstPlans : slots = plan.slots /\ sched = plan.sched
  /\ routerDeposits = WarmDeposits /\ totalMined = 0 /\ emis = 0
  /\ packets = <<>> /\ queued = <<>> /\ router = WarmRouter

(* reset, when the reader comes back after a while, and the beginning of     *)
(* static, when no motion is asked for.                                      *)
Seed(then) ==
  /\ mode = "loop" /\ seeds < MaxSeeds
  /\ mode' = "roll" /\ left' = PRE_ROLL /\ still' = then /\ seeds' = seeds + 1 /\ t' = 0
  /\ \E plan \in FirstPlans : slots' = plan.slots /\ sched' = plan.sched
  /\ routerDeposits' = WarmDeposits /\ totalMined' = 0 /\ emis' = 0
  /\ packets' = <<>> /\ queued' = <<>> /\ router' = WarmRouter

(* The board is rolled on by a whole window, and the Router with it; every *)
(* deposit books at once.                                                  *)
PreRoll ==
  /\ mode = "roll"
  /\ \E paid \in Sales(slots, t + PRE) :
       /\ StepMine(t + PRE, paid)
       /\ emis' = emis + Minted(slots, t + PRE, DOMAIN paid)
  /\ router' \in Routed(Booked(routerDeposits', PRE))
  /\ left' = IF left = 1 /\ still THEN STILLS ELSE left - 1
  /\ mode' = IF left > 1 THEN "roll" ELSE IF still THEN "still" ELSE "loop"
  /\ UNCHANGED <<still, seeds, packets, queued>>

(* static: a few takes, of which the last is caught on its way. *)
Compose ==
  /\ mode = "still"
  /\ \E paid \in Sales(slots, t + STILL) :
       LET takes == queued \o Spawned(paid)
           caught == [k \in 1 .. Earlier(1, Len(takes)) |-> [Last(takes) EXCEPT !.age = (TAKE_FADE * 45) \div 100]]
           landed == routerDeposits' - Carried(caught)
       IN /\ StepMine(t + STILL, paid) /\ StepMinted(t + STILL, paid)
          /\ left' = left - 1
          /\ IF left > 1
               THEN queued' = takes /\ UNCHANGED <<mode, packets, router>>
               ELSE /\ mode' = "loop" /\ packets' = caught /\ queued' = <<>>
                    /\ router' = [router EXCEPT !.bookedIn = landed, !.outTotal = (landed * 62) \div 100,
                                                !.held = landed - (landed * 62) \div 100]
  /\ UNCHANGED <<still, seeds>>

(* step, as far as the Router. *)
Frame(dt) ==
  /\ mode = "loop" /\ t + dt <= MaxTime
  /\ \E paid \in Sales(slots, t + dt) :
       /\ StepMine(t + dt, paid) /\ StepMinted(t + dt, paid)
       /\ Book(dt, queued \o Spawned(paid))
  /\ UNCHANGED <<mode, left, still, seeds>>

Next ==
  \/ \E then \in BOOLEAN : Seed(then)
  \/ PreRoll
  \/ Compose
  \/ \E dt \in Frames : Frame(dt)

Spec == Init /\ [][Next]_vars

-----------------------------------------------------------------------------
(* Properties. *)

PlateMachineTypeOK ==
  /\ mode \in {"roll", "still", "loop"} /\ left \in 0 .. Later(PRE_ROLL, STILLS)
  /\ still \in BOOLEAN /\ seeds \in 1 .. MaxSeeds /\ t \in 0 .. MaxTime
  /\ \A i \in Indices : slots[i].startedAt <= t
  /\ sched \in Indices \cup {-1}
  /\ {routerDeposits, totalMined, emis, router.held, router.bookedIn, router.outTotal} \subseteq Nat
  /\ Len(packets) <= 1 /\ (mode = "loop" => Len(queued) <= MAX_QUEUED)
  /\ \A k \in DOMAIN packets : packets[k].age < TAKE_FADE
  /\ router.open \in 0 .. ROUTE_OPEN /\ router.sinceRoute \in 0 .. Max(Waits) /\ router.wait \in Waits

(* The plate's Router has what the Mine deposited and no unit more: what it *)
(* has booked it holds or has routed, nothing is booked that was not        *)
(* deposited, and what is not booked is on its way (Plate.tsx:1590-1595),   *)
(* through seeds, stills and the frames after them.                         *)
RouterInventsNothing ==
  /\ router.bookedIn = router.held + router.outTotal
  /\ router.bookedIn <= routerDeposits
  /\ routerDeposits <= router.bookedIn + Carried(packets) + Carried(queued)

(* The staircase is the Mine's own tally (Plate.tsx:2547-2551): no take goes *)
(* unrecorded because it paid nothing.                                       *)
StaircaseIsTheTally == emis = totalMined

(* The card that is lit and the card that flashes cannot disagree            *)
(* (Plate.tsx:1502-1513): whatever was planned when, a slot that changes     *)
(* hands is the one the schedule names, and its price is not gone.           *)
LitCardIsTaken ==
  mode' = mode /\ seeds' = seeds
    => \A i \in Indices : slots'[i].startedAt # slots[i].startedAt
         => i = sched /\ slots'[i].startedAt < slots[i].startedAt + DECAY

(* A payment is held back until its stream lands (Plate.tsx:1593-1595), so   *)
(* that what was deposited is what is routed, held and in flight             *)
(* (Plate.tsx:2683-2688).                                                    *)
PaymentsLandWhenDrawn ==
  mode = "loop" => routerDeposits = router.outTotal + router.held + Carried(packets) + Carried(queued)
=============================================================================
