------------------------------ MODULE LiveFlow ------------------------------
(***************************************************************************)
(* The home page's model of Resonance (apps/web/components/home/           *)
(* live-sim.ts): revenue piles up in the Router, an unprivileged caller    *)
(* routes it when it may, the stream is split by signal, every Strategy    *)
(* sells what it has been streamed, and signal moves in lots.              *)
(*                                                                         *)
(* The code's numbers are real; here a stream lasts DURATION units of time *)
(* and amounts are multiples large enough to be divided exactly for        *)
(* MaxRoutes routes.  A step is one call of stepFlow, with any of the      *)
(* frame lengths Steps.  What is drawn is left out.                        *)
(***************************************************************************)
EXTENDS Integers, FiniteSetsExt

CONSTANTS Strategies,
          InitialWeight,   \* [Strategies -> Nat]
          Lots, MIN_WEIGHT,\* sizes of a move, and what it must leave behind
          DURATION, ATTEMPT,   \* of a stream, and between two calls of route
          INFLOW,          \* revenue per unit of time
          Fills,           \* when within its epoch an auction is filled
          Shifts,          \* time between two moves of signal
          Steps,           \* lengths of a step
          MaxTime, MaxRoutes   \* bounds

LiveFlowAssumption ==
  /\ InitialWeight \in [Strategies -> Nat \ {0}]
  /\ DURATION \in Nat \ {0} /\ ATTEMPT \in Nat \ {0} /\ INFLOW \in Nat /\ MIN_WEIGHT \in Nat
  /\ Lots \cup Fills \cup Shifts \cup Steps \subseteq Nat \ {0}
  /\ MaxTime \in Nat /\ MaxRoutes \in Nat

VARIABLES t, weight, pot, epochStartedAt, fillAt,
          pending, rate, finish, nextRouteAttempt, nextShift,
          routes,
          credited,   \* all that each Strategy was ever streamed
          sold        \* all that was ever sold

vars == <<t, weight, pot, epochStartedAt, fillAt, pending, rate, finish, nextRouteAttempt,
          nextShift, routes, credited, sold>>

Total(f) == MapThenSumSet(LAMBDA s : f[s], Strategies)

Init ==
  /\ t = 0 /\ weight = InitialWeight
  /\ pot = [s \in Strategies |-> 0]
  /\ epochStartedAt = [s \in Strategies |-> 0] /\ fillAt \in [Strategies -> Fills]
  /\ pending = INFLOW * DURATION /\ rate = 0 /\ finish = 0
  /\ nextRouteAttempt = 0 /\ nextShift \in Shifts
  /\ routes = 0 /\ credited = [s \in Strategies |-> 0] /\ sold = 0

-----------------------------------------------------------------------------
Larger(a, b) == IF a > b THEN a ELSE b
Smaller(a, b) == IF a < b THEN a ELSE b

(* streamLeft at time now. *)
StreamLeft(r, f, now) == r * Larger(0, f - now)

(* How long of the step the stream was running. *)
ActiveTime(dt) == IF finish > t THEN Smaller(t + dt, finish) - t ELSE 0

(* A Strategy's part, by the weights that were live during the interval. *)
Part(s, dt) == (rate * ActiveTime(dt) * weight[s]) \div Total(weight)

(* The auctions that clear in this step, after it has been credited. *)
Filled(dt) == {s \in Strategies : /\ t + dt - epochStartedAt[s] >= fillAt[s]
                                  /\ pot[s] + Part(s, dt) > 0}

Auctions(dt) ==
  /\ credited' = [s \in Strategies |-> credited[s] + Part(s, dt)]
  /\ pot' = [s \in Strategies |-> IF s \in Filled(dt) THEN 0 ELSE pot[s] + Part(s, dt)]
  /\ sold' = sold + MapThenSumSet(LAMBDA s : pot[s] + Part(s, dt), Filled(dt))
  /\ epochStartedAt' = [s \in Strategies |-> IF s \in Filled(dt) THEN t + dt ELSE epochStartedAt[s]]
  /\ fillAt' \in [Strategies -> Fills]
  /\ \A s \in Strategies \ Filled(dt) : fillAt'[s] = fillAt[s]

(* The rate of a new stream. *)
NewRate(held, left) == (held + left) \div DURATION

(* Somebody tries route() once per ATTEMPT; it goes through if it would not thin the stream. *)
Router(dt) ==
  LET held == pending + INFLOW * dt
      left == StreamLeft(rate, finish, t + dt)
      tries == t + dt >= nextRouteAttempt
      routed == tries /\ held > 0 /\ held >= left
  IN /\ nextRouteAttempt' = IF tries THEN t + dt + ATTEMPT ELSE nextRouteAttempt
     /\ rate' = IF routed THEN NewRate(held, left) ELSE rate
     /\ finish' = IF routed THEN t + dt + DURATION ELSE finish
     /\ pending' = IF routed THEN 0 ELSE held
     /\ routes' = IF routed THEN routes + 1 ELSE routes

Shifted(from, to, lot) == [weight EXCEPT ![from] = @ - lot, ![to] = @ + lot]

(* Signal moves in whole lots, if the one it leaves keeps enough. *)
Shift(dt) ==
  IF t + dt < nextShift THEN UNCHANGED <<weight, nextShift>>
  ELSE /\ \E from, to \in Strategies, lot \in Lots :
            weight' = IF from # to /\ weight[from] - lot > MIN_WEIGHT
                      THEN Shifted(from, to, lot)
                      ELSE weight
       /\ nextShift' \in {t + dt + shift : shift \in Shifts}

(* stepFlow: credit and sell, route, and only then move signal. *)
StepFlow(dt) ==
  /\ t + dt <= MaxTime /\ routes < MaxRoutes
  /\ Shift(dt)
  /\ Auctions(dt)
  /\ Router(dt)
  /\ t' = t + dt

Done == (t = MaxTime \/ routes = MaxRoutes) /\ UNCHANGED vars

Next == Done \/ \E dt \in Steps : StepFlow(dt)

Spec == Init /\ [][Next]_vars

-----------------------------------------------------------------------------
(* Properties. *)

LiveFlowTypeOK ==
  /\ t \in 0..MaxTime /\ routes \in 0..MaxRoutes
  /\ Total(weight) = Total(InitialWeight)
  /\ \A s \in Strategies : weight[s] >= Smaller(InitialWeight[s], MIN_WEIGHT + 1)
  /\ pot \in [Strategies -> Nat] /\ pending \in Nat /\ rate \in Nat /\ finish \in Nat

(* All revenue that has come in is waiting at the Router, still to be streamed, in a          *)
(* Strategy's pot, or sold: whatever frames a stream ends in, and whenever it is renewed.      *)
FlowBooksBalance ==
  INFLOW * (DURATION + t) = pending + StreamLeft(rate, finish, t) + Total(pot) + sold

(* A step in which signal moves has still split its interval by the signal that stood during  *)
(* it: a late arrival earns nothing of it and a leaver loses nothing.                          *)
SplitByStandingSignal ==
  weight' # weight =>
       \A a, b \in Strategies :
         (credited'[a] - credited[a]) * weight[b] = (credited'[b] - credited[b]) * weight[a]
=============================================================================
