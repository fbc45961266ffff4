--------------------------- MODULE OverviewVessel ---------------------------
(***************************************************************************)
(* The fund's vessel in the landing page's picture of the whole machine    *)
(* (apps/landing/components/sections/Overview.tsx): spheres that auctions  *)
(* have bought arrive one at a time, and once a cycle a burn marks a slice *)
(* of them and takes it away.                                              *)
(*                                                                         *)
(* Time is in units of about 0.3 s and a frame lasts one; the quiet parts  *)
(* of the cycle are shortened.  The other bands of the picture are the     *)
(* environment: any frame may settle a lot, and the one at FUND_AT does,   *)
(* as the fullest channel then holds enough.  Positions are left out, and  *)
(* a sphere that has left its cell is counted, not followed.  The panel    *)
(* has a size whenever it is drawn.                                        *)
(***************************************************************************)
EXTENDS Integers, SequencesExt

CONSTANTS CYCLE, Starts,       \* of the clock; when each of the five beats starts
          FUND_AT, MARK_AT, BURN_AT, BURN_TIME,
          FLIGHT, EMIT_GAP, SETTLE,  \* of an arrival, between two, of a reseated sphere
          DRAIN,               \* from the burn to the first delivery
          MAX_PENDING,
          Caps,                \* cells of the layouts a window may have
          Lots,                \* spheres bought in a frame
          MayResize, MayReduce

OverviewVesselAssumption ==
  /\ FUND_AT \in 1..MARK_AT /\ MARK_AT < BURN_AT /\ BURN_AT + BURN_TIME < CYCLE /\ MARK_AT \in Nat
  /\ {CYCLE, BURN_TIME, FLIGHT, EMIT_GAP, SETTLE, DRAIN} \subseteq Nat \ {0}
  /\ Caps \subseteq {n \in Nat : n >= 8} /\ Lots \subseteq Nat /\ MAX_PENDING \in Nat
  /\ {MayResize, MayReduce} \subseteq BOOLEAN

OFF == -1

VARIABLES cap,         \* cells of the layout, 0 while there is none
          t, marked,   \* the clock; whether this cycle's slice is marked
          struck,      \* whether this cycle's burn has begun
          burnP,       \* what is left of the burn, or OFF
          frac,        \* percent of the holding the slice is
          pile,        \* the holding, in the order of its cells
          occ,         \* the cells taken
          emitPend, emitCd,
          outs, next,  \* spheres on their way out; time to the next delivery
          posed,       \* staticMode
          reduced,
          painted,     \* what was last drawn: "nothing", "frame" or "still"
          burned,      \* whether a slice has been seen to leave in this cycle
          stays        \* spheres below the slice when it was last marked

vars == <<cap, t, marked, struck, burnP, frac, pile, occ, emitPend, emitCd, outs, next,
          posed, reduced, painted, burned, stays>>

Init ==
  /\ cap = 0 /\ t = 0 /\ marked = FALSE /\ struck = FALSE /\ burnP = OFF /\ frac = 24
  /\ pile = <<>> /\ occ = {} /\ emitPend = 0 /\ emitCd = 0 /\ outs = 0 /\ next = OFF
  /\ posed = FALSE /\ reduced = FALSE /\ painted = "nothing" /\ burned = FALSE
  /\ stays = 0

-----------------------------------------------------------------------------
Least(a, b) == IF a < b THEN a ELSE b
Larger(a, b) == IF a > b THEN a ELSE b
Percent(n, p) == (n * p + 50) \div 100      \* rounded

Sphere(cell, left, doom) == [cell |-> cell, left |-> left, doom |-> doom]
Ordered(seq) == SortSeq(seq, LAMBDA a, b : a.cell < b.cell)
CellsOf(seq) == {seq[i].cell : i \in 1..Len(seq)}
Doomed(seq) == {i \in 1..Len(seq) : seq[i].doom}
Kept(seq) == SelectSeq(seq, LAMBDA b : ~b.doom)

LowestFree(taken, room) == CHOOSE c \in 0..room : c \notin taken /\ \A d \in 0..c - 1 : d \in taken

(* seat: what still fits stays, at rest and unmarked, and the holding is   *)
(* topped up to its resting level.                                         *)
Seat(room) ==
  LET fits == SelectSeq(pile, LAMBDA b : b.cell < room)
      want == Larger(4, Percent(room, 62))
      atRest == [i \in 1..Len(fits) |-> Sphere(fits[i].cell, 0, FALSE)]
      add(seq, i) == Append(seq, Sphere(LowestFree(CellsOf(seq), room), 0, FALSE))
  IN  Ordered(FoldLeft(add, atRest, [i \in 1..want - Len(fits) |-> i]))

(* queueSpheres *)
Queued(n) == Least(MAX_PENDING, emitPend + n)

(* markBurn, its first call in a cycle: what is in the air lands at once. *)
Hurried(seq) == [i \in 1..Len(seq) |-> [seq[i] EXCEPT !.left = Least(@, 1)]]

Fraction(n) == IF 100 * n > 72 * cap THEN 30 ELSE IF 100 * n < 45 * cap THEN 16 ELSE 24

(* markBurn: the slice is the tail of the reading order. *)
Mark(seq, f) ==
  LET n == Least(Len(seq), Larger(1, Percent(Len(seq), f)))
  IN  [i \in 1..Len(seq) |-> [seq[i] EXCEPT !.doom = i > Len(seq) - n]]

Bug_LeavesTheGap(seq) == [pile |-> seq, occ |-> CellsOf(seq)]

(* reseat: what stands above the unbroken run drops into the lowest cells, *)
(* one after the other; a sphere that had landed settles anew.             *)
Reseated(seq) ==
  LET run == {i \in 1..Len(seq) : \A j \in 1..i : seq[j].cell = j - 1}
      loose == SubSeq(seq, Cardinality(run) + 1, Len(seq))
      drop(acc, b) ==
        LET c == LowestFree(acc.occ, cap)
        IN  [occ |-> acc.occ \cup {c},
             pile |-> Append(acc.pile,
               Sphere(c, IF c # b.cell /\ b.left = 0 THEN SETTLE ELSE b.left, b.doom))]
      kept == SubSeq(seq, 1, Cardinality(run))
      end == FoldLeft(drop, [occ |-> CellsOf(kept), pile |-> kept], loose)
  IN  [pile |-> Ordered(end.pile), occ |-> end.occ]

-----------------------------------------------------------------------------
(* The train that leaves, a frame later: one at a time is delivered. *)
Drained(leaving, wait) ==
  LET still == IF leaving > 0 /\ wait = 1 THEN leaving - 1 ELSE leaving
  IN  [outs |-> still,
       next |-> IF still = 0 THEN OFF ELSE IF wait = 1 THEN 1 ELSE wait - 1]

(* The burn begins once in a cycle. *)
Strikes(now, done) == ~done /\ now >= BURN_AT

(* step, in a frame in which the auctions buy n spheres. *)
Step(n) ==
  LET now == IF t + 1 >= CYCLE THEN 0 ELSE t + 1
      wraps == now = 0
      was == ~wraps /\ marked
      marking == now >= MARK_AT /\ now < BURN_AT
      strikes == Strikes(now, ~wraps /\ struck)
      f == IF marking /\ ~was THEN Fraction(Len(pile)) ELSE frac
      marks == IF marking THEN Mark(IF was THEN pile ELSE Hurried(pile), f) ELSE pile
      pend == Queued(n)
      cd == Larger(0, emitCd - 1)
      emits == pend > 0 /\ cd = 0 /\ outs = 0
      cell == LowestFree(occ, cap)
      arrives == emits /\ cell < cap
      there == IF arrives THEN Ordered(Append(marks, Sphere(cell, FLIGHT, FALSE))) ELSE marks
      flown == [i \in 1..Len(there) |-> [there[i] EXCEPT !.left = Larger(0, @ - 1)]]
      left == (IF strikes THEN BURN_TIME ELSE burnP) - 1
      burns == left = 0
      gone == IF burns THEN Cardinality(Doomed(flown)) ELSE 0
      seated == IF gone > 0 THEN Reseated(Kept(flown))
                ELSE [pile |-> flown, occ |-> IF arrives THEN occ \cup {cell} ELSE occ]
      leaving == outs + gone
      train == Drained(leaving, IF outs = 0 THEN DRAIN ELSE next)
  IN  /\ now = FUND_AT => n > 0
      /\ t' = now
      /\ marked' = (was \/ marking)
      /\ struck' = ((~wraps /\ struck) \/ strikes)
      /\ frac' = f
      /\ burnP' = IF left > 0 THEN left ELSE OFF
      /\ pile' = seated.pile /\ occ' = seated.occ
      /\ emitPend' = IF emits THEN pend - 1 ELSE pend
      /\ emitCd' = IF emits THEN EMIT_GAP ELSE cd
      /\ outs' = train.outs /\ next' = train.next
      /\ burned' = ((~wraps /\ burned) \/ gone > 0)
      /\ stays' = IF marking THEN Len(Kept(marks)) ELSE stays
      /\ UNCHANGED <<cap, posed, reduced>>

(* A frame of the driver: the model is stepped, if there is a layout, and  *)
(* the panel painted, which makes one.                                     *)
Frame ==
  /\ ~reduced
  /\ painted' = "frame"
  /\ \/ cap > 0 /\ \E n \in Lots : Step(n)
     \/ /\ cap = 0
        /\ cap' \in Caps
        /\ pile' = Seat(cap') /\ occ' = CellsOf(pile')
        /\ UNCHANGED <<t, marked, struck, burnP, frac, emitPend, emitCd, outs, next, posed,
                       reduced, burned, stays>>

(* poseStatic: a burn frozen half way, its first spheres in the chute. *)
Pose(room) ==
  LET n == Larger(6, Percent(room, 62))
      whole == Hurried([i \in 1..n + 2 |-> Sphere(i - 1, IF i <= n THEN 0 ELSE FLIGHT, FALSE)])
      f == IF 100 * (n + 2) > 72 * room THEN 30 ELSE IF 100 * (n + 2) < 45 * room THEN 16 ELSE 24
      slice == Mark(whole, f)
  IN  /\ cap' = room /\ frac' = f /\ t' = BURN_AT + 5
      /\ \E k \in 1..Least(3, Cardinality(Doomed(slice))) :
           /\ pile' = SubSeq(slice, 1, Len(slice) - k)
           /\ outs' = k /\ next' = 1
      /\ occ' = CellsOf(pile')
      /\ emitPend' = 0 /\ emitCd' = 0 /\ burnP' = OFF
      /\ posed' = TRUE /\ painted' = "still" /\ burned' = TRUE /\ stays' = Len(Kept(slice))
      /\ UNCHANGED <<marked, struck>>

(* The preference changes; the driver draws the still when it is asked to. *)
Prefer ==
  /\ MayReduce
  /\ reduced' = ~reduced
  /\ IF reduced' THEN \E room \in IF cap = 0 THEN Caps ELSE {cap} : Pose(room)
     ELSE UNCHANGED <<cap, t, marked, struck, burnP, frac, pile, occ, emitPend, emitCd, outs,
                      next, posed, painted, burned, stays>>

(* remeasure: the window or the type has changed. *)
Remeasure ==
  /\ MayResize
  /\ IF posed THEN \E room \in Caps : Pose(room)
     ELSE /\ cap' = 0
          /\ UNCHANGED <<t, marked, struck, burnP, frac, pile, occ, emitPend, emitCd, outs,
                         next, posed, painted, burned, stays>>
  /\ UNCHANGED reduced

(* reset, for a reader who comes back. *)
Reset ==
  /\ ~reduced
  /\ t' = 0 /\ marked' = FALSE /\ struck' = FALSE /\ burnP' = OFF
  /\ emitPend' = 0 /\ emitCd' = 0 /\ outs' = 0 /\ next' = OFF
  /\ pile' = [i \in 1..Len(pile) |-> [pile[i] EXCEPT !.doom = FALSE]]
  /\ burned' = FALSE
  /\ UNCHANGED <<cap, frac, occ, posed, reduced, painted, stays>>

Next == Frame \/ Prefer \/ Remeasure \/ Reset

Spec == Init /\ [][Next]_vars

-----------------------------------------------------------------------------
(* Types of the vessel's state. *)
OverviewVesselTypeOK ==
  /\ cap \in Caps \cup {0} /\ t \in 0..CYCLE - 1
  /\ {marked, struck, posed, reduced, burned} \subseteq BOOLEAN
  /\ burnP \in OFF..BURN_TIME /\ frac \in {16, 24, 30}
  /\ \A i \in 1..Len(pile) : pile[i].cell \in Nat /\ pile[i].left \in 0..FLIGHT
  /\ emitPend \in 0..MAX_PENDING /\ emitCd \in 0..EMIT_GAP
  /\ outs \in Nat /\ next \in OFF..DRAIN
  /\ painted \in {"nothing", "frame", "still"}

(* The holding is always full ranks plus one partial rank at the end: no   *)
(* cell is taken twice, none is empty below a taken one, and what the      *)
(* vessel thinks taken is what spheres stand in, through arrivals, burns,  *)
(* new layouts and the still.                                              *)
SolidRun ==
  /\ CellsOf(pile) = 0..(Len(pile) - 1)
  /\ occ = CellsOf(pile)
  /\ cap > 0 => Len(pile) <= cap

(* A burn takes the tail of the reading order: what stood below the slice  *)
(* when it was marked stands in its cell after the burn, and is not set    *)
(* moving, whatever has arrived above the slice in the meantime.           *)
SurvivorsStay ==
  outs' > outs /\ Frame =>
       \A i \in 1..stays : /\ i <= Len(pile') /\ ~pile[i].doom
                          /\ pile[i].left = 0 => pile'[i].left = 0

(* The comment at the cycle's offsets: every one of the things that must   *)
(* be seen is guaranteed.  No cycle ends without a slice having left.      *)
EveryCycleBurns == t' < t /\ Frame => burned
=============================================================================
