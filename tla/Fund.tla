-------------------------------- MODULE Fund --------------------------------
(***************************************************************************)
(* The Fund (core/Fund.sol): GBX holders burn GBX for their part of the    *)
(* tokens they select.  The denominator is the Mine's effective supply,    *)
(* which counts the emission that is not minted yet.                       *)
(*                                                                         *)
(* redeem() calls the selected tokens one after the other, and any of them *)
(* may call others in turn, so it is one step per call, with steps of      *)
(* others between them; redeem() and burnGBX() themselves are locked.  The *)
(* checks in it are there because a token's address is only an address: a  *)
(* token here has a ledger it reports, but its transfer may also debit     *)
(* other ledgers, or take a fee.  When a check fails the whole transaction *)
(* is undone, what others did inside it included.                          *)
(***************************************************************************)
EXTENDS GBX, Sequences, FiniteSets

CONSTANTS
  NumAccounts,     \* redeemers, GBX holders 0 .. NumAccounts - 1
  FundHolder,      \* the Fund as a GBX holder
  Tokens,          \* addresses that can be selected, GBX not among them
  Ledgers,         \* the ledgers behind them
  Reports,         \* the ledger whose balance a token reports and transfers
  AlsoDebits,      \* other ledgers a token's transfer debits by as much
  Fee,             \* what a token's transfer keeps from the receiver
  InitialGBX,      \* GBX of each account at first
  InitialBacking,  \* balance of each ledger at first
  Selections,      \* bound: selections of tokens to redeem for
  RedeemAmounts,   \* bound: GBX redeemed in one call
  BurnAmounts,     \* bound: GBX burned in one call, and sent to the Fund
  DepositAmounts,  \* bound: amounts the Fund receives at once
  MaxBacking,      \* bound: balance of a ledger
  MaxPending,      \* bound: emission pending in the Mine
  MaxMinted        \* bound: GBX ever minted

Accounts == 0 .. NumAccounts - 1

ASSUME FundConstants ==
  /\ NumAccounts \in Nat \ {0}
  /\ Accounts \cup {FundHolder} \subseteq GBXHolders
  /\ FundHolder \notin Accounts
  /\ Reports \in [Tokens -> Ledgers]
  /\ AlsoDebits \in [Tokens -> SUBSET Ledgers]
  /\ Fee \in [Tokens -> Nat]
  /\ InitialGBX \in Nat
  /\ InitialBacking \in Nat
  /\ Selections \subseteq Seq(Tokens)
  /\ RedeemAmounts \subseteq Nat
  /\ BurnAmounts \subseteq Nat
  /\ DepositAmounts \subseteq Nat

VARIABLES
  pendingEmission,   \* Mine.pendingEmission()
  backing,           \* the Fund's balance on each ledger
  redemption,        \* the open call of redeem(), or NoRedemption
  before             \* the state to return to if it reverts

NoRedemption == [tokens |-> << >>]

stateVars == <<gbxVars, pendingEmission, backing>>
vars == <<stateVars, redemption, before>>

Redeeming == redemption # NoRedemption

FundTypeOK ==
  /\ GBXTypeOK
  /\ pendingEmission \in Nat
  /\ backing \in [Ledgers -> Nat]
  /\ Redeeming =>
       /\ redemption.tokens \in Selections
       /\ redemption.paid \in 0 .. Len(redemption.tokens)
       /\ redemption.supply \in Nat \ {0}
       /\ \A n \in DOMAIN redemption.tokens :
            redemption.payouts[n] \in 0 .. redemption.balances[n]

Init ==
  /\ minter = MineAddr
  /\ minterLocked = TRUE
  /\ gbxBalance = [h \in GBXHolders |-> IF h \in Accounts THEN InitialGBX ELSE 0]
  /\ totalSupply = PartialSum(gbxBalance, NumGBXHolders)
  /\ lifetimeMinted = totalSupply
  /\ lifetimeBurned = 0
  /\ pendingEmission = 0
  /\ backing = [l \in Ledgers |-> InitialBacking]
  /\ redemption = NoRedemption
  /\ before = << >>

-----------------------------------------------------------------------------
Bug_MintedSupplyOnly == totalSupply

(* Mine.effectiveTotalSupply(). *)
SupplyBeforeBurn == totalSupply + pendingEmission

Balance(token) == backing[Reports[token]]

Payout(token, gbxAmount) == (Balance(token) * gbxAmount) \div SupplyBeforeBurn

NoDuplicates(tokens) == \A m, n \in DOMAIN tokens : tokens[m] = tokens[n] => m = n

(* redeem() up to the burn: every selected balance is read before anything  *)
(* moves, and all payouts have one denominator.                             *)
RedeemBegin(account, gbxAmount, tokens) ==
  /\ ~Redeeming
  /\ gbxAmount # 0
  /\ tokens # << >>
  /\ minterLocked /\ minter = MineAddr
  /\ NoDuplicates(tokens)
  /\ SupplyBeforeBurn # 0               \* else mulDiv reverts
  /\ redemption' = [tokens |-> tokens,
                    gbxAmount |-> gbxAmount,
                    supply |-> SupplyBeforeBurn,
                    balances |-> [n \in DOMAIN tokens |-> Balance(tokens[n])],
                    payouts |-> [n \in DOMAIN tokens |-> Payout(tokens[n], gbxAmount)],
                    paid |-> 0]
  /\ before' = stateVars
  /\ Burn(account, gbxAmount)          \* transferred to the Fund and burned there
  /\ UNCHANGED <<pendingEmission, backing>>

Current == redemption.paid + 1

(* What the token at hand does when the Fund transfers payout of it.        *)
Debited(token, payout) ==
  [l \in Ledgers |-> IF l \in AlsoDebits[token] \cup {Reports[token]}
                     THEN (IF payout <= backing[l] THEN backing[l] - payout ELSE 0)
                     ELSE backing[l]]

Bug_DepositNotExpected ==
  LET token == redemption.tokens[Current]
      payout == redemption.payouts[Current]
  IN  /\ Balance(token) = redemption.balances[Current]
      /\ payout # 0 => /\ payout <= Balance(token)
                       /\ Fee[token] = 0

(* The comparison with the snapshot, and _transferExact.                    *)
PaymentIsExact ==
  LET token == redemption.tokens[Current]
      payout == redemption.payouts[Current]
  IN  /\ Balance(token) >= redemption.balances[Current]
      /\ payout # 0 => /\ payout <= Balance(token)
                       /\ Fee[token] = 0

PayToken ==
  /\ Redeeming
  /\ redemption.paid < Len(redemption.tokens)
  /\ PaymentIsExact
  /\ LET token == redemption.tokens[Current]
         payout == redemption.payouts[Current]
     IN  backing' = IF payout = 0 THEN backing ELSE Debited(token, payout)
  /\ redemption' = [redemption EXCEPT !.paid = Current]
  /\ UNCHANGED <<gbxVars, pendingEmission, before>>

AllPaid == Redeeming /\ redemption.paid = Len(redemption.tokens)

(* The final pass over the selected balances. *)
SelectedBalancesKept ==
  \A n \in DOMAIN redemption.tokens :
    Balance(redemption.tokens[n]) >= redemption.balances[n] - redemption.payouts[n]

RedeemEnd ==
  /\ AllPaid
  /\ SelectedBalancesKept
  /\ redemption' = NoRedemption
  /\ before' = << >>
  /\ UNCHANGED stateVars

(* A check failed: SelectedBalanceDecreased, InexactTransfer, or the        *)
(* token's own revert.                                                      *)
Revert ==
  /\ Redeeming
  /\ IF AllPaid THEN ~SelectedBalancesKept ELSE ~PaymentIsExact
  /\ redemption' = NoRedemption
  /\ minter' = before[1][1]
  /\ minterLocked' = before[1][2]
  /\ totalSupply' = before[1][3]
  /\ gbxBalance' = before[1][4]
  /\ lifetimeMinted' = before[1][5]
  /\ lifetimeBurned' = before[1][6]
  /\ pendingEmission' = before[2]
  /\ backing' = before[3]
  /\ before' = << >>

(* burnGBX: anyone may burn GBX that was sent to the Fund.                  *)
BurnGBX(amount) ==
  /\ ~Redeeming
  /\ Burn(FundHolder, amount)
  /\ UNCHANGED <<pendingEmission, backing, redemption, before>>

-----------------------------------------------------------------------------
(* What others do, inside a redemption's calls or between transactions.     *)

HolderBurns(account, amount) ==
  /\ Burn(account, amount)
  /\ UNCHANGED <<pendingEmission, backing, redemption, before>>

SendGBXToFund(account, amount) ==
  /\ amount <= gbxBalance[account]
  /\ gbxBalance' = [gbxBalance EXCEPT ![account] = @ - amount, ![FundHolder] = @ + amount]
  /\ UNCHANGED <<minter, minterLocked, totalSupply, lifetimeMinted, lifetimeBurned,
                 pendingEmission, backing, redemption, before>>

(* A Strategy's payment, or a donation. *)
Deposit(ledger, amount) ==
  /\ backing' = [backing EXCEPT ![ledger] = @ + amount]
  /\ UNCHANGED <<gbxVars, pendingEmission, redemption, before>>

(* The Mine mints a tenure's emission that was pending until now. *)
SettleTenure(account, amount) ==
  /\ amount <= pendingEmission
  /\ Mint(MineAddr, account, amount)
  /\ pendingEmission' = pendingEmission - amount
  /\ UNCHANGED <<backing, redemption, before>>

(* A second passes, which only happens between transactions. *)
Accrue ==
  /\ ~Redeeming
  /\ pendingEmission' = pendingEmission + 1
  /\ UNCHANGED <<gbxVars, backing, redemption, before>>

Next ==
  \/ \E account \in Accounts, gbxAmount \in RedeemAmounts, tokens \in Selections :
       RedeemBegin(account, gbxAmount, tokens)
  \/ PayToken
  \/ RedeemEnd
  \/ Revert
  \/ \E amount \in BurnAmounts : BurnGBX(amount)
  \/ \E account \in Accounts, amount \in BurnAmounts :
       \/ HolderBurns(account, amount)
       \/ SendGBXToFund(account, amount)
  \/ \E ledger \in Ledgers, amount \in DepositAmounts :
       backing[ledger] + amount <= MaxBacking /\ Deposit(ledger, amount)
  \/ \E account \in Accounts :
       lifetimeMinted < MaxMinted /\ SettleTenure(account, 1)
  \/ pendingEmission < MaxPending /\ Accrue

Spec == Init /\ [][Next]_vars
-----------------------------------------------------------------------------
(* Correctness. *)

(* A redemption that completes leaves every selected token with at least    *)
(* the backing per GBX, minted or still pending, that it had: whatever the  *)
(* tokens debit, in whatever order they were selected, and whatever others  *)
(* burn, mint or deposit during the calls.                                  *)
RedemptionDoesNotDilute ==
  [][RedeemEnd =>
       \A n \in DOMAIN redemption.tokens :
         Balance(redemption.tokens[n]) * redemption.supply
           >= redemption.balances[n] * (totalSupply + pendingEmission)]_vars

(* Tokens with a ledger of their own and no side effect never make a        *)
(* redemption revert, so the checks cost an honest selection nothing; and   *)
(* the state keeps its types.                                               *)
Honest(tokens) ==
  \A m \in DOMAIN tokens :
    /\ AlsoDebits[tokens[m]] = {}
    /\ Fee[tokens[m]] = 0
    /\ \A n \in DOMAIN tokens : Reports[tokens[m]] = Reports[tokens[n]] => m = n
HonestTokensRedeem ==
  /\ FundTypeOK
  /\ Redeeming /\ Honest(redemption.tokens) =>
       IF AllPaid THEN SelectedBalancesKept ELSE PaymentIsExact
=============================================================================
