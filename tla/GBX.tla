--------------------------------- MODULE GBX ---------------------------------
(***************************************************************************)
(* The GBX token (core/GBX.sol): a mint authority that is handed over      *)
(* exactly once, from the setup account to a Mine that names this token,   *)
(* and monotone counters of everything minted and burned.                  *)
(*                                                                         *)
(* The OpenZeppelin ERC-20 underneath is modelled by the balances and the  *)
(* total supply it keeps.  Bug_... definitions are mistaken variants of    *)
(* the definition after them; see Mine.                                    *)
(***************************************************************************)
EXTENDS Sums

CONSTANTS
  NumGBXHolders,   \* addresses that may hold GBX, numbered from 0
  SetupAuthority,  \* initialMinter, the deployment-time setup account
  MineAddr         \* the Mine: deployed code whose gbx() is this token

GBXHolders == 0 .. NumGBXHolders - 1

ASSUME GBXAssumption ==
  /\ NumGBXHolders \in Nat
  /\ SetupAuthority # MineAddr

VARIABLES
  minter,          \* the setup authority, then the Mine
  minterLocked,    \* whether the one-time handoff has happened
  totalSupply,     \* ERC-20 total supply
  gbxBalance,      \* ERC-20 balances
  lifetimeMinted,  \* everything ever minted
  lifetimeBurned   \* everything ever burned

gbxVars ==
  <<minter, minterLocked, totalSupply, gbxBalance, lifetimeMinted, lifetimeBurned>>

GBXTypeOK ==
  /\ minter \in {SetupAuthority, MineAddr}
  /\ minterLocked \in BOOLEAN
  /\ totalSupply \in Nat
  /\ gbxBalance \in [GBXHolders -> Nat]
  /\ lifetimeMinted \in Nat
  /\ lifetimeBurned \in Nat

GBXInit ==
  /\ minter = SetupAuthority
  /\ minterLocked = FALSE
  /\ totalSupply = 0
  /\ gbxBalance = [h \in GBXHolders |-> 0]
  /\ lifetimeMinted = 0
  /\ lifetimeBurned = 0

(* The only candidate that is a contract reporting this token is the Mine. *)
SetMinter(caller, newMinter) ==
  /\ caller = minter
  /\ ~minterLocked
  /\ newMinter # minter
  /\ newMinter = MineAddr
  /\ minter' = newMinter
  /\ minterLocked' = TRUE
  /\ UNCHANGED <<totalSupply, gbxBalance, lifetimeMinted, lifetimeBurned>>

Mint(caller, account, amount) ==
  /\ caller = minter
  /\ minterLocked
  /\ amount # 0
  /\ lifetimeMinted' = lifetimeMinted + amount
  /\ totalSupply' = totalSupply + amount
  /\ gbxBalance' = [gbxBalance EXCEPT ![account] = @ + amount]
  /\ UNCHANGED <<minter, minterLocked, lifetimeBurned>>

Bug_BurnReopensIssuance(account, amount) ==
  /\ amount # 0
  /\ amount <= gbxBalance[account]
  /\ lifetimeMinted' = lifetimeMinted - amount
  /\ totalSupply' = totalSupply - amount
  /\ gbxBalance' = [gbxBalance EXCEPT ![account] = @ - amount]
  /\ UNCHANGED <<minter, minterLocked, lifetimeBurned>>

Burn(account, amount) ==
  /\ amount # 0
  /\ amount <= gbxBalance[account]
  /\ lifetimeBurned' = lifetimeBurned + amount
  /\ totalSupply' = totalSupply - amount
  /\ gbxBalance' = [gbxBalance EXCEPT ![account] = @ - amount]
  /\ UNCHANGED <<minter, minterLocked, lifetimeMinted>>
=============================================================================
