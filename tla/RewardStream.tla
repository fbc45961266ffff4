---------------------------- MODULE RewardStream ----------------------------
(***************************************************************************)
(* The stream-and-index kernel that Resonance (core/Resonance.sol) and     *)
(* every Bribe (core/Bribe.sol) share: an amount is paid out at a constant *)
(* rate over REWARD_DURATION, and a cumulative per-signal index says what  *)
(* each participant has earned without visiting the participants.  The     *)
(* participants of Resonance's stream are its strategies, those of a       *)
(* Bribe's stream the accounts that signal its strategy.                   *)
(*                                                                         *)
(* A stream is a record:                                                   *)
(*   finish    periodFinish         notified  lifetime amount notified     *)
(*   rate      per second           paid      index each participant last  *)
(*   updated   lastUpdateTime                 settled at                   *)
(*   stored    index at `updated`   owed      settled and not yet paid out *)
(* total is the signal weight of all participants, w the weight of each.   *)
(*                                                                         *)
(* Bug_... definitions are mistaken variants of the definition after them; *)
(* no specification uses them.                                             *)
(***************************************************************************)
EXTENDS Integers

CONSTANTS
  REWARD_DURATION,
  REWARD_PRECISION,
  WORD_MAX            \* type(uint256).max

ASSUME StreamConstants ==
  /\ REWARD_DURATION \in Nat \ {0}
  /\ REWARD_PRECISION \in Nat \ {0}
  /\ WORD_MAX \in Nat

MAX_LIFETIME_AMOUNT == WORD_MAX \div REWARD_PRECISION

Stream(Participants) ==
  [finish: Nat, rate: Nat, updated: Nat, stored: Nat, notified: Nat,
   paid: [Participants -> Nat], owed: [Participants -> Nat]]

NewStream(Participants) ==
  [finish |-> 0, rate |-> 0, updated |-> 0, stored |-> 0, notified |-> 0,
   paid |-> [p \in Participants |-> 0], owed |-> [p \in Participants |-> 0]]

LastApplicable(k, t) == IF t < k.finish THEN t ELSE k.finish

Remaining(k, t) == IF t >= k.finish THEN 0 ELSE (k.finish - t) * k.rate

(* While there is no signal the index stands still and what streams is      *)
(* assigned to nobody.                                                      *)
Index(k, t, total) ==
  IF total = 0 THEN k.stored
  ELSE k.stored + ((LastApplicable(k, t) - k.updated) * k.rate * REWARD_PRECISION) \div total

(* The checked arithmetic of an update. *)
IndexFits(k, t, total) == Index(k, t, total) <= WORD_MAX

Accrued(k, t, total, w, p) == (w[p] * (Index(k, t, total) - k.paid[p])) \div REWARD_PRECISION

Earned(k, t, total, w, p) == k.owed[p] + Accrued(k, t, total, w, p)

Bug_PaidNotAdvanced(k, t, total, w, who) ==
  [k EXCEPT !.stored = Index(k, t, total),
            !.updated = LastApplicable(k, t),
            !.owed = [p \in DOMAIN k.owed |->
                        IF p \in who THEN Earned(k, t, total, w, p) ELSE k.owed[p]]]

(* _updateRevenue and _updateReward: bring the index up to t and settle the *)
(* participants in who (none for the zero address).                         *)
Settled(k, t, total, w, who) ==
  [k EXCEPT !.stored = Index(k, t, total),
            !.updated = LastApplicable(k, t),
            !.owed = [p \in DOMAIN k.owed |->
                        IF p \in who THEN Earned(k, t, total, w, p) ELSE k.owed[p]],
            !.paid = [p \in DOMAIN k.paid |->
                        IF p \in who THEN Index(k, t, total) ELSE k.paid[p]]]

(* The checks notifyRevenue and notifyReward share. *)
WithinLifetime(k, amount) == amount <= MAX_LIFETIME_AMOUNT - k.notified
Rollover(k, t, amount) == amount >= Remaining(k, t)

Bug_RestartWithoutUpdate(k, t, total, w, amount) ==
  [k EXCEPT
     !.rate = (amount + Remaining(k, t)) \div REWARD_DURATION,
     !.updated = t,
     !.finish = t + REWARD_DURATION,
     !.notified = k.notified + amount]

(* Start a new period with amount and what the current period has left. *)
Notified(k, t, total, w, amount) ==
  [Settled(k, t, total, w, {}) EXCEPT
     !.rate = (amount + Remaining(k, t)) \div REWARD_DURATION,
     !.updated = t,
     !.finish = t + REWARD_DURATION,
     !.notified = k.notified + amount]

Paid(k, p) == [k EXCEPT !.owed[p] = 0]
=============================================================================
