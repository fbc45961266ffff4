------------------------------- MODULE Harness -------------------------------
(***************************************************************************)
(* The landing page's simulation driver (apps/landing/lib/harness.ts): one *)
(* animation loop for the page, one IntersectionObserver that says which   *)
(* panels are in a band around the window, a second one that latches which *)
(* have been on screen, and the reduced-motion preference.                 *)
(*                                                                         *)
(* The browser is the environment: it scrolls, computes what an observer   *)
(* is to be told once per rendered frame, after the animation callbacks,   *)
(* and delivers it in a task of its own, when the page may already have    *)
(* scrolled on.  An observer's callback runs before that observer computes *)
(* anything again.  Painting and the .reveal entrances are left out; thirty*)
(* seconds of absence are one ageing step.                                 *)
(***************************************************************************)
EXTENDS Naturals, FiniteSets

CONSTANTS Sims,       \* the panels with a simulation
          Throwing,   \* those whose step may throw
          Preferences,\* the values the reduced-motion preference takes
          MaxStarts   \* bound on the calls of startHarness

HarnessAssumption ==
  /\ Throwing \subseteq Sims
  /\ Preferences \subseteq BOOLEAN
  /\ MaxStarts \in Nat

Places == {"far", "warm", "screen"}    \* outside the 80px band, in it, on screen
Ages == {"never", "recent", "old"}     \* lastSeen: 0, and under or over 30 s ago
Told == {"nothing", "in", "out"}       \* the last thing an observer reported

VARIABLES mode,       \* "stopped", or how the current start went: "live" or "still"
          starts,     \* calls of startHarness so far
          reduced,    \* the media query's answer
          place,      \* where each panel is in the window
          sims,       \* the registered simulations
          visible, seen, lastSeen,
          watched,    \* observed by io
          awaited,    \* observed by seenIo
          told,       \* what io last computed for each panel
          pending,    \* what io has computed and not delivered
          sighted,    \* what seenIo has computed and not delivered
          shown,      \* panels on screen at some time since they were registered
          stepped,    \* simulations stepped by the frame just run
          rewound,    \* simulations reset by the delivery just made
          going,      \* simulations stepped since their panel was last reported out
          due,        \* those reported out for thirty seconds and not reset since
          spent       \* simulations that threw and were not out of the band since

vars == <<mode, starts, reduced, place, sims, visible, seen, lastSeen, watched, awaited,
          told, pending, sighted, shown, stepped, rewound, going, due, spent>>

HarnessTypeOK ==
  /\ mode \in {"stopped", "live", "still"} /\ starts \in 0..MaxStarts
  /\ reduced \in BOOLEAN
  /\ place \in [Sims -> Places]
  /\ sims \subseteq Sims /\ shown \subseteq Sims
  /\ visible \subseteq sims /\ seen \subseteq sims
  /\ lastSeen \in [Sims -> Ages]
  /\ watched \subseteq sims /\ awaited \subseteq watched
  /\ told \in [Sims -> Told] /\ pending \in [Sims -> Told]
  /\ sighted \subseteq sims
  /\ stepped \subseteq sims /\ rewound \subseteq sims
  /\ going \subseteq sims /\ due \subseteq sims /\ spent \subseteq Throwing

Init ==
  /\ mode = "stopped" /\ starts = 0
  /\ reduced \in Preferences
  /\ place \in [Sims -> Places]
  /\ sims = {} /\ visible = {} /\ seen = {}
  /\ lastSeen = [s \in Sims |-> "never"]
  /\ watched = {} /\ awaited = {}
  /\ told = [s \in Sims |-> "nothing"] /\ pending = [s \in Sims |-> "nothing"]
  /\ sighted = {} /\ shown = {}
  /\ stepped = {} /\ rewound = {} /\ going = {} /\ due = {} /\ spent = {}

Quiet == stepped' = {} /\ rewound' = {}

-----------------------------------------------------------------------------
(* The page. *)

(* A section that mounts is observed at once when the loop is on.           *)
NowWatched(s) == IF mode = "live" /\ ~reduced THEN watched \cup {s} ELSE watched

Bug_LateIsNotAwaited(s) == awaited

NowAwaited(s) == IF mode = "live" /\ ~reduced THEN awaited \cup {s} ELSE awaited

RegisterSim(s) ==
  /\ s \notin sims
  /\ sims' = sims \cup {s}
  /\ lastSeen' = [lastSeen EXCEPT ![s] = "never"]
  /\ watched' = NowWatched(s) /\ awaited' = NowAwaited(s)
  /\ told' = [told EXCEPT ![s] = "nothing"]
  /\ pending' = [pending EXCEPT ![s] = "nothing"]
  /\ shown' = IF place[s] = "screen" THEN shown \cup {s} ELSE shown \ {s}
  /\ Quiet
  /\ UNCHANGED <<mode, starts, reduced, place, visible, seen, sighted, going, due, spent>>

NoLongerAwaited(s) == awaited \ {s}

(* Its cleanup: off the list, out of the map, no longer observed.           *)
Unregister(s) ==
  /\ s \in sims
  /\ sims' = sims \ {s}
  /\ visible' = visible \ {s} /\ seen' = seen \ {s}
  /\ watched' = watched \ {s} /\ awaited' = NoLongerAwaited(s)
  /\ sighted' = sighted \ {s} /\ spent' = spent \ {s}
  /\ going' = going \ {s} /\ due' = due \ {s}
  /\ Quiet
  /\ UNCHANGED <<mode, starts, reduced, place, lastSeen, told, pending, shown>>

Scroll(s, p) ==
  /\ p # place[s]
  /\ place' = [place EXCEPT ![s] = p]
  /\ shown' = IF p = "screen" /\ s \in sims THEN shown \cup {s} ELSE shown
  /\ Quiet
  /\ UNCHANGED <<mode, starts, reduced, sims, visible, seen, lastSeen, watched, awaited,
                 told, pending, sighted, going, due, spent>>

(* A panel has been where it was last reported for thirty seconds.          *)
Absent(s) == s \in sims \ visible /\ told[s] = "out" /\ pending[s] = "nothing"

Age(s) ==
  /\ lastSeen[s] = "recent" \/ Absent(s)
  /\ lastSeen' = [lastSeen EXCEPT ![s] = IF @ = "recent" THEN "old" ELSE @]
  /\ due' = IF Absent(s) THEN due \cup {s} ELSE due
  /\ Quiet
  /\ UNCHANGED <<mode, starts, reduced, place, sims, visible, seen, watched, awaited,
                 told, pending, sighted, shown, going, spent>>

-----------------------------------------------------------------------------
(* startHarness, and the teardown it returns. *)

Start ==
  /\ mode = "stopped" /\ starts < MaxStarts
  /\ starts' = starts + 1
  /\ IF reduced
       THEN mode' = "still" /\ UNCHANGED <<watched, awaited>>
       ELSE mode' = "live" /\ watched' = sims /\ awaited' = sims \ seen
  /\ told' = [s \in Sims |-> "nothing"]      \* observers are new
  /\ Quiet
  /\ UNCHANGED <<reduced, place, sims, visible, seen, lastSeen, pending, sighted, shown,
                 going, due, spent>>

(* Entries an observer has computed are still delivered after disconnect(). *)
Stop ==
  /\ mode # "stopped"
  /\ mode' = "stopped"
  /\ visible' = IF mode = "live" THEN {} ELSE visible
  /\ watched' = {} /\ awaited' = {} /\ spent' = {}
  /\ Quiet
  /\ UNCHANGED <<starts, reduced, place, sims, seen, lastSeen, told, pending, sighted, shown,
                 going, due>>

(* The reader's preference changes; the listener is there while it runs.    *)
Prefer(r) ==
  /\ r \in Preferences /\ r # reduced
  /\ reduced' = r
  /\ visible' = IF mode # "stopped" /\ r THEN {} ELSE visible
  /\ Quiet
  /\ UNCHANGED <<mode, starts, place, sims, seen, lastSeen, watched, awaited, told,
                 pending, sighted, shown, going, due, spent>>

-----------------------------------------------------------------------------
(* One rendered frame: the loop's callback, then what the observers see.    *)

Bug_WarmRuns == visible

(* The simulations a frame runs. *)
Running == visible \cap seen

InBand(s) == IF place[s] = "far" THEN "out" ELSE "in"

(* An observer reports a panel first, and then when the answer changes.     *)
Changed == {s \in watched : InBand(s) # told[s]}

(* A simulation that throws is taken out of the loop.                       *)
Quarantined(thrown) == visible \ thrown

Frame ==
  /\ mode = "live"
  /\ \E thrown \in SUBSET (Running \cap Throwing) :
       /\ stepped' = Running /\ going' = going \cup Running
       /\ visible' = Quarantined(thrown)
       /\ spent' = spent \cup thrown
  /\ IF \A s \in Sims : pending[s] = "nothing"
       THEN /\ told' = [s \in Sims |-> IF s \in Changed THEN InBand(s) ELSE told[s]]
            /\ pending' = [s \in Sims |-> IF s \in Changed THEN InBand(s) ELSE "nothing"]
            /\ sighted' = {s \in awaited : place[s] = "screen"}
       ELSE UNCHANGED <<told, pending, sighted>>
  /\ rewound' = {}
  /\ UNCHANGED <<mode, starts, reduced, place, sims, seen, lastSeen, watched, awaited, shown,
                 due>>

Noted(out) == [s \in Sims |-> IF s \in out THEN "recent" ELSE lastSeen[s]]

(* The observers' callbacks. A panel that comes back after a long absence   *)
(* is reset before it is visible again; one first sighted is latched.       *)
Deliver ==
  LET out == {s \in sims : pending[s] = "out"}
      in == {s \in sims : pending[s] = "in"}
  IN  /\ \/ \E s \in Sims : pending[s] # "nothing"
         \/ sighted # {}
      /\ rewound' = {s \in in : lastSeen[s] = "old"}
      /\ visible' = (visible \cup in) \ out
      /\ lastSeen' = Noted(out)
      /\ seen' = seen \cup (sighted \cap sims)
      /\ awaited' = awaited \ sighted
      /\ spent' = spent \ out /\ going' = going \ out /\ due' = due \ (rewound' \cup out)
      /\ pending' = [s \in Sims |-> "nothing"]
      /\ sighted' = {}
      /\ stepped' = {}
      /\ UNCHANGED <<mode, starts, reduced, place, sims, watched, told, shown>>

Next ==
  \/ \E s \in Sims : RegisterSim(s) \/ Unregister(s) \/ Age(s)
  \/ \E s \in Sims, p \in Places : Scroll(s, p)
  \/ Start \/ Stop
  \/ \E r \in BOOLEAN : Prefer(r)
  \/ Frame \/ Deliver

Spec == Init /\ [][Next]_vars

(* The browser goes on rendering, and runs the tasks it has queued.         *)
Fairness == WF_vars(Frame) /\ WF_vars(Deliver)

FairSpec == Spec /\ Fairness

-----------------------------------------------------------------------------
(* "Nothing runs before it is seen" (harness.ts:46-47): a frame steps only  *)
(* simulations whose panel has been on screen, whatever was scrolled while  *)
(* an observer's report was on its way, and whatever was started again.     *)
NothingRunsBeforeItIsSeen == stepped \subseteq shown

(* A panel that was reported out of the band for thirty seconds is reset    *)
(* before it runs again (harness.ts:18), also when the loop was torn down   *)
(* and started in the meantime.                                             *)
ReturnsAfresh == stepped \cap due = {}

(* A board is rewound on the way back in only, never under the reader's     *)
(* eyes (Mining.tsx:972-975): what a delivery resets has not been stepped   *)
(* since its panel was last reported out of the band.                       *)
NeverRewoundInView == rewound' \cap going = {}

(* A simulation that threw is left alone until its panel has been out of    *)
(* the band, or the page is started again (harness.ts:208).                 *)
ThrowingIsQuarantined == stepped' \cap spent = {}

(* A panel that stays on screen while the loop is on and motion allowed has *)
(* to be animated, also one whose section mounted after the loop started.   *)
Stepped(s) == s \in stepped
OnScreen(s) == mode = "live" /\ s \in sims \ Throwing /\ place[s] = "screen"
=============================================================================
