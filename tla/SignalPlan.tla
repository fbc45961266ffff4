---------------------------- MODULE SignalPlan ----------------------------
(***************************************************************************)
(* The SDK's signal plans (signal-allocations.ts, signal-planner.ts): rows a *)
(* user entered are normalised, an allowance read at a pinned block decides  *)
(* whether an approval is needed, and the planned calls reach the contracts  *)
(* later, as a batch or one by one, after strategies may have been killed.   *)
(*                                                                         *)
(* Calls to SignalGBX do here to allowance, balance and positions what       *)
(* addSignalMany and removeSignalMany do, with everything else they do (the  *)
(* streams, the receipt) left to module SignalGBX.                           *)
(***************************************************************************)
EXTENDS Integers, Sequences, SequencesExt, FiniteSetsExt

CONSTANTS Strategies, ZeroAddress,
          WordMax,          \* type(uint256).max
          EnteredAmounts,   \* bound: amounts of a row, not all of them valid
          MaxRows,          \* bound: rows of a request
          MaxPlans,         \* bound: plans of the account
          InitialGBX        \* GBX of the account

VARIABLES allowance,  \* of the account to SignalGBX
          gbx,        \* of the account
          position,   \* signal of the account per strategy
          live,       \* strategies not killed
          plan,       \* the plan being executed, or NoPlan
          planned     \* plans made so far

vars == <<allowance, gbx, position, live, plan, planned>>

Sum(allocations) == FoldLeft(LAMBDA sum, a : sum + a.amount, 0, allocations)

-----------------------------------------------------------------------------
(* normalizeSignalAllocations *)
SumOf(rows, s) == Sum(SelectSeq(rows, LAMBDA r : r.strategy = s))
FirstSeen(rows) ==
  FoldLeft(LAMBDA order, r : IF Contains(order, r.strategy) THEN order ELSE Append(order, r.strategy), <<>>, rows)

Acceptable(rows) ==
  /\ rows # <<>>
  /\ \A i \in DOMAIN rows : rows[i].amount > 0 /\ rows[i].strategy # ZeroAddress
  /\ Sum(rows) <= WordMax   \* which bounds each row and each strategy's sum

Bug_LastRowWins(rows) ==
  LET order == FirstSeen(rows)
  IN  [i \in DOMAIN order |-> rows[SelectLastInSeq(rows, LAMBDA r : r.strategy = order[i])]]
NormalizeSignalAllocations(rows) ==
  LET order == FirstSeen(rows)
  IN  [i \in DOMAIN order |-> [strategy |-> order[i], amount |-> SumOf(rows, order[i])]]

-----------------------------------------------------------------------------
NoPlan == [kind |-> "none"]

Call(function, allocations) == [function |-> function, allocations |-> allocations]

Scalars(function, allocations) ==
  [i \in DOMAIN allocations |-> Call(function, <<allocations[i]>>)]

\* The calls of a plan: the scalar for one allocation, otherwise the batch; or
\* all scalars where the caller recovers from a batch it cannot use.
SignalCalls(function, allocations, asScalars) ==
  IF asScalars THEN Scalars(function, allocations) ELSE <<Call(function, allocations)>>

\* planAddSignals: the approval, if any, is for the exact total.
Approval(allocations, pinnedAllowance) ==
  IF pinnedAllowance >= Sum(allocations) THEN <<>>
  ELSE <<[function |-> "approve", amount |-> Sum(allocations)]>>

PlanAddSignals(rows, asScalars) ==
  LET allocations == NormalizeSignalAllocations(rows)
  IN  /\ Acceptable(rows)
      /\ plan' = [kind |-> "add", rows |-> rows, before |-> position,
                  approved |-> allowance < Sum(allocations),
                  calls |-> Approval(allocations, allowance) \o SignalCalls("add", allocations, asScalars)]
      /\ planned' = planned + 1
      /\ UNCHANGED <<allowance, gbx, position, live>>

PlanRemoveSignals(rows, asScalars) ==
  /\ Acceptable(rows)
  /\ plan' = [kind |-> "remove", rows |-> rows, before |-> position, approved |-> FALSE,
              calls |-> SignalCalls("remove", NormalizeSignalAllocations(rows), asScalars)]
  /\ planned' = planned + 1
  /\ UNCHANGED <<allowance, gbx, position, live>>

-----------------------------------------------------------------------------
(* The next call of the plan reaches the contracts. *)
CallDone == plan' = [plan EXCEPT !.calls = Tail(@)]

CanAdd(c) ==
  /\ \A i \in DOMAIN c.allocations : c.allocations[i].strategy \in live
  /\ Sum(c.allocations) <= allowance
  /\ Sum(c.allocations) <= gbx

CanRemove(c) ==
  \A i \in DOMAIN c.allocations : SumOf(c.allocations, c.allocations[i].strategy) <= position[c.allocations[i].strategy]

Succeeds(c) ==
  \/ c.function = "approve"
  \/ c.function = "add" /\ CanAdd(c)
  \/ c.function = "remove" /\ CanRemove(c)

Moved(c, sign) == [s \in Strategies |-> position[s] + sign * SumOf(c.allocations, s)]

Executed(c) ==
  \/ /\ c.function = "approve"
     /\ allowance' = c.amount
     /\ UNCHANGED <<gbx, position>>
  \/ /\ c.function = "add" /\ CanAdd(c)
     /\ allowance' = allowance - Sum(c.allocations)
     /\ gbx' = gbx - Sum(c.allocations)
     /\ position' = Moved(c, 1)
  \/ /\ c.function = "remove" /\ CanRemove(c)
     /\ gbx' = gbx + Sum(c.allocations)
     /\ position' = Moved(c, -1)
     /\ UNCHANGED allowance

Execute ==
  /\ plan # NoPlan /\ plan.calls # <<>>
  /\ Executed(Head(plan.calls))
  /\ CallDone
  /\ UNCHANGED <<live, planned>>

\* A plan ends when its calls are done, or its next call cannot succeed.
Finish ==
  /\ plan # NoPlan
  /\ plan.calls # <<>> => ~Succeeds(Head(plan.calls))
  /\ plan' = NoPlan
  /\ UNCHANGED <<allowance, gbx, position, live, planned>>

Kill(s) ==
  /\ s \in live /\ live # {s}
  /\ live' = live \ {s}
  /\ UNCHANGED <<allowance, gbx, position, plan, planned>>

Row == [strategy : Strategies \cup {ZeroAddress}, amount : EnteredAmounts]
Requests == UNION {[1..n -> Row] : n \in 0..MaxRows}

Init ==
  /\ allowance \in {0, 1} /\ gbx = InitialGBX
  /\ position = [s \in Strategies |-> 0]
  /\ live = Strategies
  /\ plan = NoPlan
  /\ planned = 0

Next ==
  \/ /\ plan = NoPlan /\ planned < MaxPlans
     /\ \E rows \in Requests, asScalars \in BOOLEAN :
          PlanAddSignals(rows, asScalars) \/ PlanRemoveSignals(rows, asScalars)
  \/ Execute \/ Finish
  \/ \E s \in Strategies : Kill(s)

Spec == Init /\ [][Next]_vars
-----------------------------------------------------------------------------
Left(c) == IF c.function = "add" THEN Sum(c.allocations) ELSE 0
StillToAdd == FoldLeft(LAMBDA sum, c : sum + Left(c), 0, plan.calls)

(* The approval planned from the pinned allowance is enough for all of the   *)
(* plan's calls, in the batch and one by one, whichever of them were already *)
(* executed: no addition fails for want of allowance.                        *)
AllowanceCoversPlan ==
  plan # NoPlan /\ plan.kind = "add" /\ plan.calls # <<>> /\ Head(plan.calls).function # "approve"
    => StillToAdd <= allowance

(* An executed plan moved every strategy by what the user's rows say,        *)
(* whether rows repeat a strategy and whether it went as a batch or one by   *)
(* one; and an approval it made is used up ("exact-total").                  *)
ExecutedAsEntered ==
  plan # NoPlan /\ plan.calls = <<>> =>
    /\ \A s \in Strategies :
         position[s] - plan.before[s] = (IF plan.kind = "add" THEN 1 ELSE -1) * SumOf(plan.rows, s)
    /\ plan.approved => allowance = 0

(* No call names a strategy twice, which would settle its streams again for *)
(* nothing ("so UI rows cannot accidentally cause redundant checkpoints").   *)
NoRedundantCheckpoints ==
  plan # NoPlan => \A i \in DOMAIN plan.calls :
    plan.calls[i].function # "approve" =>
      IsInjective([j \in DOMAIN plan.calls[i].allocations |-> plan.calls[i].allocations[j].strategy])
=============================================================================
