----------------------------- MODULE LiveBoards -----------------------------
(***************************************************************************)
(* The home page's live boards (apps/web/components/home/live-boards.tsx), *)
(* the frame that pins them (mechanism-dashboard.tsx) and the burn of the  *)
(* fund's model (live-sim.ts): one animation loop for all boards, one      *)
(* handle per board, which runs while its observer says it is on screen    *)
(* and it is the open stage.                                               *)
(*                                                                         *)
(* The environment is the reader, who scrolls, resizes, prefers and burns, *)
(* and the browser and React, which deliver everything later: an observer's*)
(* entries, the event of the media query, the effects of a committed       *)
(* render.  The models outlive every remount; of a board's model only the  *)
(* parity of its steps is kept, and of the fund's one holding.             *)
(***************************************************************************)
EXTENDS Integers

CONSTANTS Boards, Fund,      \* the boards, and which of them is the fund's
          Shares,            \* tenths of the supply that the buttons burn
          BurnFrames,        \* frames in which a burn is played
          InitialAmount,
          MaxAmount,         \* bound on the growth between burns
          MaxBurns,          \* bound on the burns
          BurnsOverlap       \* whether the reader burns again while one is played

LiveBoardsAssumption ==
  /\ Fund \in Boards
  /\ Shares \subseteq 1..10
  /\ BurnFrames \in Nat \ {0} /\ InitialAmount \in Nat /\ MaxAmount \in Nat /\ MaxBurns \in Nat
  /\ BurnsOverlap \in BOOLEAN

VARIABLES reduced,    \* the media query's answer
          announced,  \* the query's change event has not arrived yet
          pinned, stage,       \* the dashboard's state
          effects,    \* what the last render left to do: "none", "active" or "mount"
          inView,     \* boards with enough of them in the window
          entries,    \* what each board's observer has to say and has not said
          onScreen, activeRef, \* the refs of useBoard
          visible,    \* registered handles that are visible
          motion, frame,       \* the loop's
          scheduled,  \* frames the browser has been asked for
          parity,     \* of the steps of each board's model
          amount, leaving, progress, playing, receipt,  \* the fund's model
          owed,       \* of all slices chosen so far, what has not left
          burns

loop == <<motion, frame, scheduled>>
fund == <<amount, leaving, progress, playing, receipt, owed, burns>>
layout == <<pinned, stage>>
vars == <<reduced, announced, layout, effects, inView, entries, onScreen, activeRef, visible,
          loop, parity, fund>>

(* All boards share the pinned frame; elsewhere each has its own place. *)
Views(pin) == IF pin THEN {{}, Boards} ELSE SUBSET Boards

Open == IF pinned THEN {stage} ELSE Boards

Report(b, view) == IF b \in view THEN "in" ELSE "out"

LiveBoardsTypeOK ==
  /\ reduced \in BOOLEAN /\ announced \in BOOLEAN /\ pinned \in BOOLEAN
  /\ stage \in Boards /\ effects \in {"none", "active", "mount"}
  /\ inView \in Views(pinned)
  /\ entries \in [Boards -> {"none", "in", "out"}]
  /\ onScreen \subseteq Boards /\ activeRef \subseteq Boards
  /\ visible \subseteq onScreen \cap activeRef
  /\ motion \in BOOLEAN /\ frame \in 0..1 /\ scheduled \in 0..1
  /\ parity \in [Boards -> 0..1]
  /\ amount \in 0..MaxAmount /\ leaving \in 0..MaxAmount /\ owed \in 0..(MaxBurns * MaxAmount)
  /\ progress \in 0..(BurnFrames - 1) /\ playing \in BOOLEAN
  /\ receipt \in {-1} \cup (0..MaxAmount) /\ burns \in 0..MaxBurns

(* Mounted and registered, the observers' first entries and pinning still to come. *)
Init ==
  /\ reduced \in BOOLEAN /\ announced = FALSE /\ motion = ~reduced
  /\ pinned = FALSE /\ stage \in Boards /\ effects = "none"
  /\ inView \in SUBSET Boards
  /\ entries = [b \in Boards |-> Report(b, inView)]
  /\ onScreen = {} /\ activeRef = Boards /\ visible = {}
  /\ frame = 0 /\ scheduled = 0
  /\ parity = [b \in Boards |-> 0]
  /\ amount = InitialAmount /\ leaving = 0 /\ progress = 0 /\ playing = FALSE
  /\ receipt = -1 /\ owed = 0 /\ burns = 0

-----------------------------------------------------------------------------
(* The loop. *)

MayStart(m, v) == frame = 0 /\ m /\ v # {}

(* startLoop, by a wake or by the preference, with the handles as they are then. *)
StartLoop(m, v) ==
  IF MayStart(m, v) THEN frame' = 1 /\ scheduled' = scheduled + 1
  ELSE UNCHANGED <<frame, scheduled>>

Wake(v) == StartLoop(motion, v) /\ UNCHANGED motion

StopLoop == frame' = 0 /\ scheduled' = scheduled - frame

-----------------------------------------------------------------------------
(* The fund's model. *)

Played(p) == (leaving * p) \div BurnFrames

Leaves == IF playing THEN Played(progress + 1) - Played(progress) ELSE 0

GoesOn == progress + 1 < BurnFrames

(* The part of stepFund that plays a burn. *)
PlayOn ==
  /\ amount' = amount - Leaves
  /\ IF GoesOn
     THEN progress' = progress + 1 /\ UNCHANGED <<playing, leaving>>
     ELSE playing' = FALSE /\ progress' = 0 /\ leaving' = 0

(* Between burns the Strategies keep filling. *)
FillOn ==
  /\ amount' \in {amount} \cup (IF amount < MaxAmount THEN {amount + 1} ELSE {})
  /\ UNCHANGED <<leaving, progress, playing>>

StepFund ==
  /\ IF playing THEN PlayOn ELSE FillOn
  /\ owed' = owed - Leaves
  /\ UNCHANGED <<receipt, burns>>

(* burn: played frame by frame, or applied at once when there is no motion. *)
Leave(taken) ==
  /\ receipt' = taken /\ progress' = 0
  /\ playing' = motion
  /\ leaving' = IF motion THEN taken ELSE 0
  /\ amount' = IF motion THEN amount ELSE amount - taken
  /\ owed' = IF motion THEN owed + taken ELSE owed

(* The fund's buttons; a closed stage is inert. *)
Burn(share) ==
  /\ Fund \in Open \cap inView
  /\ burns < MaxBurns /\ (playing => BurnsOverlap)
  /\ burns' = burns + 1
  /\ Leave((amount * share) \div 10)
  /\ Wake(visible)
  /\ UNCHANGED <<reduced, announced, layout, effects, inView, entries, onScreen, activeRef,
                 visible, parity>>

-----------------------------------------------------------------------------
(* The browser. *)

Another == visible # {} /\ motion

(* runFrame: every visible board steps; the loop goes on while there was one. *)
Frame ==
  /\ scheduled > 0
  /\ parity' = [b \in Boards |-> IF b \in visible THEN 1 - parity[b] ELSE parity[b]]
  /\ IF Fund \in visible THEN StepFund ELSE UNCHANGED fund
  /\ IF Another THEN UNCHANGED <<frame, scheduled>>
     ELSE frame' = 0 /\ scheduled' = scheduled - 1
  /\ UNCHANGED <<reduced, announced, layout, effects, inView, entries, onScreen, activeRef,
                 visible, motion>>

Seen(screen, active) == screen \cap active

AfterEntry(v) == Wake(v)

(* An observer's callback; of several entries the last counts. *)
Deliver(b) ==
  /\ entries[b] # "none"
  /\ onScreen' = IF entries[b] = "in" THEN onScreen \cup {b} ELSE onScreen \ {b}
  /\ visible' = (visible \ {b}) \cup (Seen(onScreen', activeRef) \cap {b})
  /\ entries' = [entries EXCEPT ![b] = "none"]
  /\ AfterEntry(visible')
  /\ UNCHANGED <<reduced, announced, layout, effects, inView, activeRef, parity, fund>>

(* The reader scrolls or resizes; what is not observed yet reports nothing. *)
Scroll ==
  /\ inView' \in Views(pinned) \ {inView}
  /\ entries' = IF effects = "mount" THEN entries
                ELSE [b \in Boards |-> IF (b \in inView) # (b \in inView') THEN Report(b, inView')
                                       ELSE entries[b]]
  /\ UNCHANGED <<reduced, announced, layout, effects, onScreen, activeRef, visible, loop,
                 parity, fund>>

Prefer ==
  /\ reduced' = ~reduced /\ announced' = TRUE
  /\ UNCHANGED <<layout, effects, inView, entries, onScreen, activeRef, visible, loop, parity, fund>>

(* apply of the provider: setMotion with what the query says now. *)
SetMotion ==
  /\ announced /\ announced' = FALSE
  /\ motion' = ~reduced
  /\ IF reduced THEN StopLoop ELSE StartLoop(TRUE, visible)
  /\ UNCHANGED <<reduced, layout, effects, inView, entries, onScreen, activeRef, visible, parity, fund>>

-----------------------------------------------------------------------------
(* The dashboard. *)

(* The scroll opens another stage of the pinned frame. *)
SelectStage(b) ==
  /\ pinned /\ effects = "none" /\ b # stage
  /\ stage' = b /\ effects' = "active"
  /\ UNCHANGED <<reduced, announced, pinned, inView, entries, onScreen, activeRef, visible, loop,
                 parity, fund>>

(* The window becomes large or small enough, or the preference changes: other boards are     *)
(* rendered, and the elements of the old ones leave the document.                              *)
Repin ==
  /\ effects = "none" /\ pinned' = ~pinned /\ (pinned' => ~reduced)
  /\ effects' = "mount"
  /\ inView' \in Views(pinned')
  /\ entries' = [b \in Boards |-> "out"]
  /\ UNCHANGED <<reduced, announced, stage, onScreen, activeRef, visible, loop, parity, fund>>

(* The passive effects of a changed prop, of all boards at once. *)
ActiveEffects ==
  /\ effects = "active" /\ effects' = "none"
  /\ activeRef' = Open
  /\ visible' = Seen(onScreen, activeRef')
  /\ Wake(visible')
  /\ UNCHANGED <<reduced, announced, layout, inView, entries, onScreen, parity, fund>>

(* The passive effects of a remount: the old handles go, the new ones are observed. *)
MountEffects ==
  /\ effects = "mount" /\ effects' = "none"
  /\ onScreen' = {} /\ activeRef' = Open /\ visible' = {}
  /\ entries' = [b \in Boards |-> Report(b, inView)]
  /\ Wake({})
  /\ UNCHANGED <<reduced, announced, layout, inView, parity, fund>>

Next ==
  \/ Frame \/ Scroll \/ Prefer \/ SetMotion \/ Repin \/ ActiveEffects \/ MountEffects
  \/ \E b \in Boards : Deliver(b) \/ SelectStage(b)
  \/ \E s \in Shares : Burn(s)

Spec == Init /\ [][Next]_vars

(* The browser renders frames, delivers entries and events, and React flushes effects. *)
FairSpec ==
  /\ Spec
  /\ WF_vars(Frame) /\ WF_vars(SetMotion) /\ WF_vars(ActiveEffects) /\ WF_vars(MountEffects)
  /\ \A b \in Boards : WF_vars(Deliver(b))

-----------------------------------------------------------------------------
(* Properties. *)

(* There is never a second loop beside the one that can be cancelled, and none once the       *)
(* reader's wish for no motion has been heard.  Handles wake the loop from observers, effects  *)
(* and clicks, any number of times between two frames.                                         *)
OneLoop == scheduled = frame /\ (frame = 1 => motion)

(* While the frame is pinned and its effects have run, only the open stage runs, although all *)
(* boards are mounted and on screen at once.                                                    *)
OnlyTheOpenStageRuns == (pinned /\ effects = "none") => visible \subseteq {stage}

(* "Choose a slice of the effective supply and exactly that slice of every holding leaves with *)
(* it" (live-boards.tsx:726): when no burn is being played, every slice chosen has left whole,  *)
(* whatever came between, a closed stage, a scroll away, a remount, a change of the preference. *)
(* It holds of burns taken one at a time; one that begins while another is played replaces     *)
(* what is left of it (live-sim.ts:482).                                                        *)
SlicesLeaveWhole == ~playing => owed = 0

(* A board that stays on screen as the open stage of a reader who wants motion has to be       *)
(* stepped: no order of scroll, pinning, effects and entries leaves the loop asleep over it.    *)
Shown(b) == b \in inView /\ b \in Open /\ effects = "none" /\ ~reduced
Stepped(b) == parity'[b] # parity[b]
=============================================================================
