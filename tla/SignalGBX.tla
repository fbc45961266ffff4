------------------------------ MODULE SignalGBX ------------------------------
(***************************************************************************)
(* SignalGBX (core/SignalGBX.sol): GBX deposited to signal strategies, the *)
(* sGBX receipt and its votes, on top of Resonance and its Bribes.  Every  *)
(* unit of sGBX is a unit of signal of its account on some strategy; sGBX  *)
(* cannot be transferred.                                                  *)
(*                                                                         *)
(* The ERC-20 and ERC20Votes that the contract inherits are modelled by    *)
(* the balances, delegates and current votes they keep.                    *)
(***************************************************************************)
EXTENDS Resonance

CONSTANTS
  InitialGBX,        \* GBX each account holds at first
  NoDelegate         \* the zero address as a delegate

Delegates == Accounts \cup {NoDelegate}

ASSUME SignalConstants ==
  /\ InitialGBX \in Nat
  /\ NoDelegate \notin Accounts

VARIABLES
  gbxWallet,         \* GBX each account holds
  escrow,            \* GBX SignalGBX holds
  receipts,          \* sGBX balances
  delegates,
  votes,
  resonanceSet       \* whether SignalGBX.resonance has been set

voteVars == <<delegates, votes>>
signalVars == <<gbxWallet, escrow, receipts, voteVars, resonanceSet>>
allVars == <<vars, signalVars>>

SignalTypeOK ==
  /\ TypeOK
  /\ gbxWallet \in [Accounts -> Nat]
  /\ escrow \in Nat
  /\ receipts \in [Accounts -> Nat]
  /\ delegates \in [Accounts -> Delegates]
  /\ votes \in [Accounts -> Nat]
  /\ resonanceSet \in BOOLEAN

SignalInit ==
  /\ Init
  /\ gbxWallet = [a \in Accounts |-> InitialGBX]
  /\ escrow = 0
  /\ receipts = [a \in Accounts |-> 0]
  /\ delegates = [a \in Accounts |-> NoDelegate]
  /\ votes = [a \in Accounts |-> 0]
  /\ resonanceSet = FALSE

-----------------------------------------------------------------------------
TotalAmount(allocation) == PartialSum(allocation, NumStrategies)

Bug_DelegateAmountOnly(account, amount) ==
  IF delegates[account] = NoDelegate
  THEN /\ delegates' = [delegates EXCEPT ![account] = account]
       /\ votes' = [votes EXCEPT ![account] = @ + amount]
  ELSE /\ votes' = [votes EXCEPT ![delegates[account]] = @ + amount]
       /\ UNCHANGED delegates

(* ERC20Votes._update moves the votes of the amount; then an account that   *)
(* has no delegate delegates its whole balance to itself.                   *)
DepositVotes(account, amount) ==
  IF delegates[account] = NoDelegate
  THEN /\ delegates' = [delegates EXCEPT ![account] = account]
       /\ votes' = [votes EXCEPT ![account] = @ + receipts[account] + amount]
  ELSE /\ votes' = [votes EXCEPT ![delegates[account]] = @ + amount]
       /\ UNCHANGED delegates

(* _depositAndMint. *)
DepositAndMint(account, amount) ==
  /\ amount <= gbxWallet[account]
  /\ gbxWallet' = [gbxWallet EXCEPT ![account] = @ - amount]
  /\ escrow' = escrow + amount
  /\ receipts' = [receipts EXCEPT ![account] = @ + amount]
  /\ DepositVotes(account, amount)

(* _burnAndWithdraw. *)
BurnAndWithdraw(account, amount) ==
  /\ amount <= receipts[account]
  /\ amount <= escrow
  /\ receipts' = [receipts EXCEPT ![account] = @ - amount]
  /\ escrow' = escrow - amount
  /\ gbxWallet' = [gbxWallet EXCEPT ![account] = @ + amount]
  /\ IF delegates[account] = NoDelegate
     THEN UNCHANGED votes
     ELSE votes' = [votes EXCEPT ![delegates[account]] = @ - amount]
  /\ UNCHANGED delegates

(* addSignal, and addSignalMany: the whole batch is deposited at once, then *)
(* each part of it is signalled.                                            *)
AddSignalMany(account, allocation) ==
  /\ resonanceSet
  /\ TotalAmount(allocation) # 0
  /\ DepositAndMint(account, TotalAmount(allocation))
  /\ AddSignalFor(account, allocation)
  /\ UNCHANGED resonanceSet

Bug_BurnWholeReceipt(account, allocation) ==
  /\ resonanceSet
  /\ TotalAmount(allocation) # 0
  /\ RemoveSignalFor(account, allocation)
  /\ BurnAndWithdraw(account, receipts[account])
  /\ UNCHANGED resonanceSet

(* removeSignal and removeSignalMany. *)
RemoveSignalMany(account, allocation) ==
  /\ resonanceSet
  /\ TotalAmount(allocation) # 0
  /\ RemoveSignalFor(account, allocation)
  /\ BurnAndWithdraw(account, TotalAmount(allocation))
  /\ UNCHANGED resonanceSet

(* setResonance, once; the candidate names this SignalGBX.                  *)
SetResonance ==
  /\ ~resonanceSet
  /\ resonanceSet' = TRUE
  /\ UNCHANGED <<vars, gbxWallet, escrow, receipts, voteVars>>

MovedVotes(from, to, amount) ==
  [a \in Accounts |-> votes[a] - (IF a = from THEN amount ELSE 0) + (IF a = to THEN amount ELSE 0)]

(* ERC20Votes.delegate by the account. *)
Delegate(account, delegatee) ==
  /\ delegates' = [delegates EXCEPT ![account] = delegatee]
  /\ votes' = MovedVotes(delegates[account], delegatee, receipts[account])
  /\ UNCHANGED <<vars, gbxWallet, escrow, receipts, resonanceSet>>

(* A plain GBX transfer to SignalGBX, which mints nothing. *)
DonateGBX(account, amount) ==
  /\ amount <= gbxWallet[account]
  /\ gbxWallet' = [gbxWallet EXCEPT ![account] = @ - amount]
  /\ escrow' = escrow + amount
  /\ UNCHANGED <<vars, receipts, voteVars, resonanceSet>>

SignalNext ==
  \/ \E account \in Accounts, allocation \in Allocations :
       \/ AddSignalMany(account, allocation)
       \/ RemoveSignalMany(account, allocation)
  \/ SetResonance
  \/ \E account \in Accounts, delegatee \in Delegates : Delegate(account, delegatee)
  \/ \E account \in Accounts, amount \in SignalAmounts : DonateGBX(account, amount)
  \/ (RevenueCalls \/ NewStrategies \/ OwnerCalls \/ RewardCalls \/ Tick) /\ UNCHANGED signalVars

SignalSpec == SignalInit /\ [][SignalNext]_allVars
-----------------------------------------------------------------------------
(* Correctness. *)

(* An account's sGBX is exactly its signal over all strategies, dead ones   *)
(* included, SignalGBX holds the GBX behind every unit of it, and the state *)
(* keeps its types.                                                         *)
ReceiptsAreSignal ==
  /\ SignalTypeOK
  /\ \A a \in Accounts : receipts[a] = SignalOf(a)
  /\ PartialSum(receipts, NumAccounts) <= escrow

(* The votes of an account are the sGBX balances delegated to it, over      *)
(* deposits, withdrawals, redelegation, and the automatic self-delegation   *)
(* of an account that had given its delegation up.                          *)
VotesAreDelegated ==
  \A d \in Accounts :
    votes[d] = PartialSum([a \in Accounts |-> IF delegates[a] = d THEN receipts[a] ELSE 0], NumAccounts)

(* Whatever the owner, funders and other accounts do, an account can        *)
(* withdraw its whole signal at any time in one transaction.                *)
Position(account) == [s \in Strategies |-> weightOf[s][account]]
ExitsStayOpen ==
  \A a \in Accounts : SignalOf(a) > 0 => ENABLED RemoveSignalMany(a, Position(a))
=============================================================================
