------------------------------ MODULE Issuance ------------------------------
(***************************************************************************)
(* What the Mine promises about GBX issuance, with no slot, miner, price   *)
(* or accumulator in it: GBX comes into being only as time passes, at a    *)
(* rate that never exceeds INITIAL_TPS, and once as the genesis amount.    *)
(* `issued` counts a unit from the second in which it accrues, not from    *)
(* the transaction that mints it.                                          *)
(***************************************************************************)
EXTENDS Integers

CONSTANTS INITIAL_TPS, GENESIS_LIQUIDITY_GBX

VARIABLES now, issued, rate, genesisDone

issuance == <<now, issued, rate, genesisDone>>

Init ==
  /\ now = 0
  /\ issued = 0
  /\ rate = 0
  /\ genesisDone = FALSE

(* One second at the current rate. *)
Accrue ==
  /\ now' = now + 1
  /\ issued' = issued + rate
  /\ UNCHANGED <<rate, genesisDone>>

(* A replacement changes the rate and nothing else: settling a tenure mints *)
(* what has already been counted.                                           *)
ChangeRate ==
  /\ rate' \in 0 .. INITIAL_TPS
  /\ UNCHANGED <<now, issued, genesisDone>>

Genesis ==
  /\ ~genesisDone
  /\ genesisDone' = TRUE
  /\ issued' = issued + GENESIS_LIQUIDITY_GBX
  /\ UNCHANGED <<now, rate>>

Next == Accrue \/ ChangeRate \/ Genesis

Spec == Init /\ [][Next]_issuance
=============================================================================
