--------------------------- MODULE SpecimenEvents ---------------------------
(***************************************************************************)
(* The two event classes of the specimen page (apps/landing/app/specimen/  *)
(* SpecimenDriver.tsx, mountEvents): swatches flash one after the other on *)
(* a repeating clock, and a flash is taken off by the end of its animation *)
(* or, failing that, by a timer.                                           *)
(*                                                                         *)
(* Time is in units of 50 ms.  The simulation's clock gains at most two of *)
(* them a frame (the driver clamps a frame to a tenth of a second), the    *)
(* browser's timers run on real time and are not late by a unit.  The      *)
(* browser may cancel an animation without an event.                       *)
(***************************************************************************)
EXTENDS Integers, FiniteSets

CONSTANTS EVT_CYCLE, ANIMATION, BELT,   \* the cycle, the animation, the timer
          Offset,                       \* when in the cycle each swatch fires
          MayReduce                     \* whether the reader may ask for reduced motion

Swatches == DOMAIN Offset

SpecimenEventsAssumption ==
  /\ EVT_CYCLE \in Nat \ {0} /\ ANIMATION \in 0..BELT /\ BELT \in Nat
  /\ \A s \in Swatches : Offset[s] \in 1..(EVT_CYCLE - 2)
  /\ MayReduce \in BOOLEAN

OFF == -1

VARIABLES t,
          owed,       \* real time since the last frame, clamped
          reduced,
          lit,        \* swatches wearing their event class
          held,       \* those wearing the still's class
          text,       \* what each says of itself
          animation, timer,   \* time left of each, or OFF
          fired       \* swatches fired in this cycle

vars == <<t, owed, reduced, lit, held, text, animation, timer, fired>>

Init ==
  /\ t = 0 /\ owed = 0 /\ reduced = FALSE /\ lit = {} /\ held = {} /\ fired = {}
  /\ text = [s \in Swatches |-> "cleared"]
  /\ animation = [s \in Swatches |-> OFF] /\ timer = [s \in Swatches |-> OFF]

-----------------------------------------------------------------------------
(* clear: without its class a swatch has no animation either. *)
Clear(s) ==
  /\ lit' = lit \ {s}
  /\ text' = [text EXCEPT ![s] = "cleared"]
  /\ timer' = [timer EXCEPT ![s] = OFF]
  /\ animation' = [animation EXCEPT ![s] = OFF]

AnimationEnd(s) ==
  /\ animation[s] = 0 /\ Clear(s)
  /\ UNCHANGED <<t, owed, reduced, held, fired>>

TimerFires(s) ==
  /\ timer[s] = 0 /\ Clear(s)
  /\ UNCHANGED <<t, owed, reduced, held, fired>>

Cancelled(s) ==
  /\ animation[s] > 0 /\ animation' = [animation EXCEPT ![s] = OFF]
  /\ UNCHANGED <<t, owed, reduced, lit, held, text, timer, fired>>

(* A unit of real time, once everything due has been delivered. *)
Pass ==
  /\ \A s \in Swatches : timer[s] # 0 /\ animation[s] # 0
  /\ owed' = IF owed < 2 THEN owed + 1 ELSE owed
  /\ animation' = [s \in Swatches |-> IF animation[s] = OFF THEN OFF ELSE animation[s] - 1]
  /\ timer' = [s \in Swatches |-> IF timer[s] = OFF THEN OFF ELSE timer[s] - 1]
  /\ UNCHANGED <<t, reduced, lit, held, text, fired>>

Bug_CrossesStrictly(s, now) == t < Offset[s] /\ now > Offset[s]

Crosses(s, now) == t < Offset[s] /\ now >= Offset[s]

Wrapped(now) == IF now >= EVT_CYCLE THEN now - EVT_CYCLE ELSE now

(* The timer a flash is given. *)
Belt(s) == BELT

(* step: the swatches whose time the clock has crossed are fired. *)
Step ==
  /\ ~reduced /\ owed > 0
  /\ LET now == t + owed
         fires == {s \in Swatches : Crosses(s, now)}
     IN  /\ lit' = lit \cup fires
         /\ held' = held \ fires
         /\ text' = [s \in Swatches |-> IF s \in fires THEN "firing" ELSE text[s]]
         /\ animation' = [s \in Swatches |-> IF s \in fires THEN ANIMATION ELSE animation[s]]
         /\ timer' = [s \in Swatches |-> IF s \in fires THEN Belt(s) ELSE timer[s]]
         /\ t' = Wrapped(now)
         /\ fired' = IF Wrapped(now) < now THEN {} ELSE fired \cup fires
  /\ owed' = 0
  /\ UNCHANGED reduced

(* static: the first two swatches are held, the others cleared.  No timer  *)
(* is stopped.                                                             *)
Static ==
  LET shows == {s \in Swatches : s <= 2}
  IN  /\ lit' = {} /\ held' = shows
      /\ text' = [s \in Swatches |-> IF s \in shows THEN "firing" ELSE "cleared"]
      /\ animation' = [s \in Swatches |-> OFF]
      /\ UNCHANGED <<t, timer, fired>>

(* The preference changes; the driver draws every still when it is asked   *)
(* for reduced motion.                                                     *)
Prefer ==
  /\ MayReduce
  /\ reduced' = ~reduced /\ owed' = 0
  /\ IF reduced' THEN Static
     ELSE UNCHANGED <<t, lit, held, text, animation, timer, fired>>

Next ==
  \/ Pass \/ Step \/ Prefer
  \/ \E s \in Swatches : AnimationEnd(s) \/ TimerFires(s) \/ Cancelled(s)

Spec == Init /\ [][Next]_vars

(* Time passes, and the browser delivers what is due. *)
FairSpec ==
  /\ Spec /\ WF_vars(Pass)
  /\ \A s \in Swatches : WF_vars(TimerFires(s)) /\ WF_vars(AnimationEnd(s))

-----------------------------------------------------------------------------
(* Types of the specimen's clock, classes and timers. *)
SpecimenEventsTypeOK ==
  /\ t \in 0..(EVT_CYCLE - 1) /\ owed \in 0..2 /\ reduced \in BOOLEAN
  /\ lit \subseteq Swatches /\ held \subseteq Swatches /\ fired \subseteq Swatches
  /\ text \in [Swatches -> {"cleared", "firing"}]
  /\ animation \in [Swatches -> OFF..ANIMATION] /\ timer \in [Swatches -> OFF..BELT]

(* What a swatch prints is what it wears: one that says it is firing has   *)
(* its class, and one that has its class says so.                          *)
TextIsTheClass == \A s \in Swatches :
  /\ s \in lit => text[s] = "firing" /\ s \notin held
  /\ text[s] = "firing" => s \in lit \cup held

(* No cycle leaves a swatch out, wherever the frames fall: the clock never *)
(* starts again before the last one has been fired.                        *)
NoneIsSkipped == t' < t => fired = Swatches

(* A flash has to come off by itself, whatever becomes of its animation, of *)
(* the frames and of the preference.                                       *)
Flashes(s) == s \in lit
=============================================================================
