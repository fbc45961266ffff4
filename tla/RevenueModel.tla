---------------------------- MODULE RevenueModel ----------------------------
(***************************************************************************)
(* RevenueDistributionModel of packages/simulations: an independent model of *)
(* Resonance's revenue stream, driven by the conservation scenarios.  It     *)
(* keeps its own accounts (received, donations, paid, balance, a Router      *)
(* balance) and is shown to do to the stream what the contracts' kernel      *)
(* (RewardStream) does.                                                      *)
(***************************************************************************)
EXTENDS RewardStream, FiniteSetsExt

CONSTANTS Strategies, Amounts, Weights,  \* what scenarios choose from
          MaxTime,      \* bound: clock
          MaxReceived   \* bound: revenue and donations

VARIABLES weights, strategyIndex, claimable, alive, totalWeight, revenueIndex,
          received, donations, paid, balance, routerBalance, now, stream

vars == <<weights, strategyIndex, claimable, alive, totalWeight, revenueIndex,
          received, donations, paid, balance, routerBalance, now, stream>>
accounts == <<received, donations, balance, routerBalance>>
votes == <<weights, alive, totalWeight>>
index == <<strategyIndex, claimable, revenueIndex, stream>>

-----------------------------------------------------------------------------
LastTimeRewardApplicable == IF now < stream.finish THEN now ELSE stream.finish

RewardPerToken ==
  IF totalWeight = 0 \/ LastTimeRewardApplicable <= stream.lastUpdate THEN revenueIndex
  ELSE revenueIndex
         + ((LastTimeRewardApplicable - stream.lastUpdate) * stream.rate * REWARD_PRECISION) \div totalWeight

ActiveWeight(s) == IF alive[s] THEN weights[s] ELSE 0

EarnedBy(s) ==
  claimable[s] + (ActiveWeight(s) * (RewardPerToken - strategyIndex[s])) \div REWARD_PRECISION

Left == IF now >= stream.finish THEN 0 ELSE (stream.finish - now) * stream.rate

Surplus == balance - (Left + MapThenSumSet(EarnedBy, Strategies))

-----------------------------------------------------------------------------
Init ==
  /\ weights = [s \in Strategies |-> 0]
  /\ strategyIndex = [s \in Strategies |-> 0]
  /\ claimable = [s \in Strategies |-> 0]
  /\ alive = [s \in Strategies |-> TRUE]
  /\ totalWeight = 0 /\ revenueIndex = 0
  /\ received = 0 /\ donations = 0 /\ paid = 0 /\ balance = 0 /\ routerBalance = 0
  /\ now = 0
  /\ stream = [rate |-> 0, lastUpdate |-> 0, finish |-> 0]

\* notify, once routed: the index is brought up to date, a new period starts.
Notify(amount) ==
  /\ amount > 0
  /\ amount >= Left
  /\ revenueIndex' = RewardPerToken
  /\ received' = received + amount
  /\ balance' = balance + amount
  /\ stream' = [rate |-> (amount + Left) \div REWARD_DURATION,
                lastUpdate |-> now, finish |-> now + REWARD_DURATION]
  /\ UNCHANGED <<strategyIndex, claimable, donations, paid, now, votes>>

NotifyDirectly(amount) ==
  /\ received + donations + routerBalance + amount <= MaxReceived
  /\ Notify(amount)
  /\ UNCHANGED routerBalance

\* route: the Router holds back what is less than a unit per second or less
\* than what the running period has left.
Route(amount) ==
  LET held == routerBalance + amount
      threshold == IF Left > REWARD_DURATION THEN Left ELSE REWARD_DURATION
  IN  /\ received + donations + held <= MaxReceived
      /\ held > 0
      /\ IF held < threshold
         THEN routerBalance' = held
              /\ UNCHANGED <<index, votes, received, donations, paid, balance, now>>
         ELSE Notify(held) /\ routerBalance' = 0

Donate(amount) ==
  /\ received + donations + routerBalance + amount <= MaxReceived
  /\ donations' = donations + amount
  /\ balance' = balance + amount
  /\ UNCHANGED <<index, votes, received, paid, routerBalance, now>>

Advance(seconds) ==
  /\ now + seconds <= MaxTime
  /\ now' = now + seconds
  /\ UNCHANGED <<index, votes, accounts, paid>>

\* checkpoint(s), with what the caller does to claimable[s] afterwards.
Bug_CheckpointKeepsIndex(s, left) ==
  /\ revenueIndex' = RewardPerToken
  /\ stream' = [stream EXCEPT !.lastUpdate = LastTimeRewardApplicable]
  /\ claimable' = [claimable EXCEPT ![s] = left]
  /\ UNCHANGED strategyIndex
CheckpointLeaving(s, left) ==
  /\ revenueIndex' = RewardPerToken
  /\ stream' = [stream EXCEPT !.lastUpdate = LastTimeRewardApplicable]
  /\ claimable' = [claimable EXCEPT ![s] = left]
  /\ strategyIndex' = [strategyIndex EXCEPT ![s] = RewardPerToken]

Checkpoint(s) == CheckpointLeaving(s, EarnedBy(s)) /\ UNCHANGED <<accounts, votes, paid, now>>

SetWeight(s, weight) ==
  /\ alive[s] \/ weight <= weights[s]
  /\ CheckpointLeaving(s, EarnedBy(s))
  /\ weights' = [weights EXCEPT ![s] = weight]
  /\ totalWeight' = IF alive[s] THEN totalWeight + weight - weights[s] ELSE totalWeight
  /\ UNCHANGED <<accounts, paid, now, alive>>

Kill(s) ==
  /\ alive[s]
  /\ CheckpointLeaving(s, EarnedBy(s))
  /\ alive' = [alive EXCEPT ![s] = FALSE]
  /\ totalWeight' = totalWeight - weights[s]
  /\ UNCHANGED <<accounts, paid, now, weights>>

Claim(s) ==
  /\ CheckpointLeaving(s, 0)
  /\ paid' = paid + EarnedBy(s)
  /\ balance' = balance - EarnedBy(s)
  /\ UNCHANGED <<received, donations, routerBalance, votes, now>>

OfStrategy(s) == Checkpoint(s) \/ Kill(s) \/ Claim(s) \/ \E w \in Weights : SetWeight(s, w)

Next ==
  \/ \E amount \in Amounts : NotifyDirectly(amount) \/ Route(amount) \/ Donate(amount)
  \/ \E seconds \in 1..MaxTime : Advance(seconds)
  \/ \E s \in Strategies : OfStrategy(s)

Spec == Init /\ [][Next]_vars
-----------------------------------------------------------------------------
(* The stream as the contracts keep it. *)
Kernel ==
  [finish |-> stream.finish, rate |-> stream.rate, updated |-> stream.lastUpdate, stored |-> revenueIndex,
   notified |-> received, paid |-> strategyIndex, owed |-> claimable]
Active == [s \in Strategies |-> ActiveWeight(s)]
KernelSettled(s) == Settled(Kernel, now, totalWeight, Active, {s})

(* The model is solvent ("model is insolvent" is never thrown) and keeps the *)
(* donations out of what it pays: its surplus is at least the donations, for *)
(* all rounding is against the strategies.                                   *)
SurplusCoversDonations == Surplus >= donations

(* Nothing appears or vanishes between the Router, the stream, the payments  *)
(* and the donations, and the active weight is that of the live strategies.  *)
BooksBalance ==
  /\ balance + paid = received + donations
  /\ totalWeight = MapThenSumSet(ActiveWeight, Strategies)

(* The scenarios vouch for the contracts: each operation of the independent  *)
(* model changes the stream exactly as the contracts' kernel does.           *)
FollowsTheKernel ==
  /\ \/ Kernel' = Kernel
     \/ received' # received /\ Kernel' = Notified(Kernel, now, totalWeight, Active, received' - received)
     \/ paid' = paid /\ \E s \in Strategies : Kernel' = KernelSettled(s)
     \/ paid' # paid /\ \E s \in Strategies : Kernel' = Paid(KernelSettled(s), s)
  /\ \A s \in Strategies :
       weights'[s] # weights[s] \/ alive'[s] # alive[s] => Kernel' = KernelSettled(s)
  /\ Left' = Remaining(Kernel', now')
=============================================================================
