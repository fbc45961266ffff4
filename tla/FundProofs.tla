----------------------------- MODULE FundProofs -----------------------------
(***************************************************************************)
(* What is proved about Fund, for any number of holders, tokens and        *)
(* ledgers, and whatever the tokens' transfers debit or keep.              *)
(*                                                                         *)
(* Neither property is inductive.  A redemption does not dilute because    *)
(* its payouts are the floor of one division per token, made before any    *)
(* call, and because the supply can only fall by what it burns while it is *)
(* open (CallIsPriced): others may burn, and what the Mine mints was       *)
(* pending already and is in the denominator.  An honest selection does    *)
(* not revert because each ledger holds what was read of it, less the      *)
(* payout once it is made (HonestLedgersHold), and because a payout is no  *)
(* more than the balance, for which the burned amount must be part of the  *)
(* supply: the supply is the sum of the balances (StateSound).  And since  *)
(* a reverted call restores the state it began in, that state is sound too.*)
(***************************************************************************)
EXTENDS Fund

(* The state outside a redemption, as the open call also remembers it. *)
Sound(mintr, locked, supply, balances, minted, burned, pending, fund) ==
  /\ mintr \in {SetupAuthority, MineAddr}
  /\ locked \in BOOLEAN
  /\ balances \in [GBXHolders -> Nat]
  /\ supply = PartialSum(balances, NumGBXHolders)
  /\ minted \in Nat
  /\ burned \in Nat
  /\ pending \in Nat
  /\ fund \in [Ledgers -> Nat]

StateSound ==
  Sound(minter, minterLocked, totalSupply, gbxBalance, lifetimeMinted, lifetimeBurned,
        pendingEmission, backing)

BeforeSound ==
  Redeeming => Sound(before[1][1], before[1][2], before[1][3], before[1][4],
                     before[1][5], before[1][6], before[2], before[3])

RedemptionRecord ==
  [tokens : Selections, gbxAmount : Nat, supply : Nat \ {0},
   balances : Seq(Nat), payouts : Seq(Nat), paid : Nat]

(* The open call is one the code opens: a snapshot and a payout per token.  *)
CallTypeOK ==
  Redeeming =>
    /\ redemption \in RedemptionRecord
    /\ DOMAIN redemption.balances = DOMAIN redemption.tokens
    /\ DOMAIN redemption.payouts = DOMAIN redemption.tokens
    /\ redemption.paid <= Len(redemption.tokens)

CallIsPriced ==
  Redeeming =>
    /\ \A n \in DOMAIN redemption.tokens :
         redemption.payouts[n] = (redemption.balances[n] * redemption.gbxAmount)
                                   \div redemption.supply
    /\ totalSupply + pendingEmission + redemption.gbxAmount <= redemption.supply

HonestLedgersHold ==
  Redeeming /\ Honest(redemption.tokens) =>
    \A n \in DOMAIN redemption.tokens :
      /\ n > redemption.paid => Balance(redemption.tokens[n]) >= redemption.balances[n]
      /\ n <= redemption.paid =>
           Balance(redemption.tokens[n]) >= redemption.balances[n] - redemption.payouts[n]

FundInv ==
  /\ StateSound
  /\ BeforeSound
  /\ CallTypeOK
  /\ CallIsPriced
  /\ HonestLedgersHold

-----------------------------------------------------------------------------
(* Arithmetic. *)

LEMMA Products ==
  ASSUME NEW a \in Nat, NEW b \in Nat, NEW c \in Nat
  PROVE  /\ a * b \in Nat
         /\ a <= b => a * c <= b * c /\ c * a <= c * b
         /\ (a + b) * c = a * c + b * c
         /\ c * (a + b) = c * a + c * b
OBVIOUS

(* The floor of a part of a balance, times the whole, is at most the part   *)
(* of the balance; and a part of no more than the whole is at most it.      *)
LEMMA FloorOfPart ==
  ASSUME NEW b \in Nat, NEW g \in Nat, NEW s \in Nat \ {0}, g <= s
  PROVE  LET p == (b * g) \div s IN p \in Nat /\ p * s <= b * g /\ p <= b
<1> DEFINE x == b * g
           p == x \div s
<1>1. x \in Nat /\ x <= b * s
  BY Products
<1> HIDE DEF x
<1>2. p \in Nat /\ p * s <= x
  BY <1>1
<1> HIDE DEF p
<1>3. ASSUME p >= b + 1 PROVE FALSE
  <2>1. PICK d \in Nat : p = (b + 1) + d
    <3>1. p - (b + 1) \in Nat /\ p = (b + 1) + (p - (b + 1))
      BY <1>2, <1>3
    <3> QED
      BY <3>1
  <2>2. p * s = b * s + s + d * s /\ d * s \in Nat /\ b * s \in Nat
    BY <2>1
  <2> QED
    BY <1>1, <1>2, <2>2
<1>4. p <= b
  BY <1>2, <1>3
<1> QED
  BY <1>2, <1>4 DEF p, x

(* What is left of a balance after the payment, over the supply left after  *)
(* the burn, is no less than it was before.                                 *)
LEMMA NoDilution ==
  ASSUME NEW b \in Nat, NEW g \in Nat, NEW s \in Nat \ {0}, NEW r \in Nat, r + g <= s,
         NEW left \in Nat, left >= b - ((b * g) \div s)
  PROVE  left * s >= b * r
<1> DEFINE p == (b * g) \div s
<1>1. p \in Nat /\ p * s <= b * g
  BY FloorOfPart
<1> HIDE DEF p
<1>2. b <= left + p
  BY <1>1 DEF p
<1>3. b * s <= left * s + p * s
  BY <1>1, <1>2, Products
<1>4. b * r + b * g <= b * s
  BY Products
<1>5. left * s \in Nat /\ p * s \in Nat /\ b * s \in Nat /\ b * r \in Nat /\ b * g \in Nat
  BY <1>1, Products
<1> QED
  BY <1>1, <1>3, <1>4, <1>5

-----------------------------------------------------------------------------
(* The ledger of GBX. *)

LEMMA MintedSupply ==
  ASSUME NEW f \in [GBXHolders -> Nat], NEW h \in GBXHolders, NEW amount \in Nat
  PROVE  /\ [f EXCEPT ![h] = @ + amount] \in [GBXHolders -> Nat]
         /\ PartialSum([f EXCEPT ![h] = @ + amount], NumGBXHolders)
              = PartialSum(f, NumGBXHolders) + amount
<1> DEFINE g == [f EXCEPT ![h] = @ + amount]
<1>0. g \in [GBXHolders -> Nat]
  OBVIOUS
<1>1. SameExceptAt(f, g, h, NumGBXHolders)
  BY DEF SameExceptAt, GBXHolders
<1>2. PartialSum(g, NumGBXHolders) = PartialSum(f, NumGBXHolders) + (g[h] - f[h])
  BY <1>1, SumUpdate, GBXAssumption DEF GBXHolders
<1>3. g[h] - f[h] = amount
  OBVIOUS
<1> QED
  BY <1>0, <1>2, <1>3

LEMMA BurnedSupply ==
  ASSUME NEW f \in [GBXHolders -> Nat], NEW h \in GBXHolders, NEW amount \in Nat,
         amount <= f[h]
  PROVE  /\ [f EXCEPT ![h] = @ - amount] \in [GBXHolders -> Nat]
         /\ PartialSum(f, NumGBXHolders) \in Nat
         /\ amount <= PartialSum(f, NumGBXHolders)
         /\ PartialSum([f EXCEPT ![h] = @ - amount], NumGBXHolders)
              = PartialSum(f, NumGBXHolders) - amount
<1> DEFINE g == [f EXCEPT ![h] = @ - amount]
<1>1. g \in [GBXHolders -> Nat]
  BY DEF GBXHolders
<1>2. SameExceptAt(f, g, h, NumGBXHolders)
  BY <1>1 DEF SameExceptAt, GBXHolders
<1>3. PartialSum(g, NumGBXHolders) = PartialSum(f, NumGBXHolders) + (g[h] - f[h])
  BY <1>2, SumUpdate, GBXAssumption DEF GBXHolders
<1>4. g[h] - f[h] = 0 - amount
  BY DEF GBXHolders
<1>5. PartialSum(f, NumGBXHolders) \in Nat /\ f[h] <= PartialSum(f, NumGBXHolders)
  BY SumTerm, GBXAssumption DEF GBXHolders
<1> QED
  BY <1>1, <1>3, <1>4, <1>5

(* There is a holder, so the sum is one of at least one balance. *)
LEMMA SumOfBalances ==
  ASSUME NEW f \in [GBXHolders -> Nat]
  PROVE  PartialSum(f, NumGBXHolders) \in Nat
<1>1. \E h \in GBXHolders : TRUE
  BY FundConstants DEF Accounts
<1> QED
  BY <1>1, SumTerm, GBXAssumption DEF GBXHolders

LEMMA SupplyIsNatural ==
  /\ StateSound => totalSupply \in Nat /\ pendingEmission \in Nat
  /\ StateSound' => totalSupply' \in Nat /\ pendingEmission' \in Nat
BY SumOfBalances DEF StateSound, Sound

LEMMA BurnKeepsSound ==
  ASSUME StateSound, NEW h \in GBXHolders, NEW amount \in Nat, Burn(h, amount),
         UNCHANGED <<pendingEmission, backing>>
  PROVE  /\ StateSound'
         /\ amount <= totalSupply
         /\ totalSupply' = totalSupply - amount
<1>1. /\ gbxBalance' \in [GBXHolders -> Nat]
      /\ amount <= totalSupply
      /\ totalSupply' = PartialSum(gbxBalance', NumGBXHolders)
  BY BurnedSupply DEF StateSound, Sound, Burn
<1> QED
  BY <1>1 DEF StateSound, Sound, Burn

-----------------------------------------------------------------------------
(* The initial state. *)
LEMMA FundInitInv == Init => FundInv
<1> SUFFICES ASSUME Init PROVE FundInv
  OBVIOUS
<1>1. ~Redeeming
  BY DEF Init, Redeeming
<1>2. gbxBalance \in [GBXHolders -> Nat]
  BY FundConstants DEF Init, Accounts
<1>3. totalSupply \in Nat
  BY <1>2, SumOfBalances DEF Init
<1>4. StateSound
  BY <1>2, <1>3, FundConstants DEF Init, StateSound, Sound
<1> QED
  BY <1>1, <1>4 DEF FundInv, BeforeSound, CallTypeOK, CallIsPriced, HonestLedgersHold

-----------------------------------------------------------------------------
(* The calls of a redemption. *)

LEMMA NotRedeemingInv ==
  ASSUME StateSound', ~Redeeming'
  PROVE  FundInv'
BY DEF FundInv, BeforeSound, CallTypeOK, CallIsPriced, HonestLedgersHold

LEMMA RedeemBeginStep ==
  ASSUME FundInv, NEW account \in Accounts, NEW gbxAmount \in RedeemAmounts,
         NEW tokens \in Selections, RedeemBegin(account, gbxAmount, tokens)
  PROVE  FundInv'
<1> USE FundConstants
<1>1. /\ StateSound
      /\ account \in GBXHolders
      /\ gbxAmount \in Nat
      /\ tokens \in Seq(Tokens)
  BY DEF FundInv
<1>2. totalSupply \in Nat /\ pendingEmission \in Nat
  BY <1>1, SupplyIsNatural
<1>3. /\ StateSound'
      /\ gbxAmount <= totalSupply
      /\ totalSupply' = totalSupply - gbxAmount
  BY <1>1, BurnKeepsSound DEF RedeemBegin
<1>4. SupplyBeforeBurn \in Nat \ {0} /\ gbxAmount <= SupplyBeforeBurn
  BY <1>2, <1>3 DEF RedeemBegin, SupplyBeforeBurn
<1>5. DOMAIN tokens = 1 .. Len(tokens) /\ Len(tokens) \in Nat
  BY <1>1
<1>6. \A n \in DOMAIN tokens : Balance(tokens[n]) \in Nat
  BY <1>1 DEF Balance, StateSound, Sound
<1>7. \A n \in DOMAIN tokens : Payout(tokens[n], gbxAmount) \in Nat
  BY <1>1, <1>4, <1>6, FloorOfPart DEF Payout
<1> DEFINE bs == [n \in DOMAIN tokens |-> Balance(tokens[n])]
           ps == [n \in DOMAIN tokens |-> Payout(tokens[n], gbxAmount)]
<1>8. bs \in Seq(Nat) /\ DOMAIN bs = DOMAIN tokens
  BY <1>5, <1>6
<1>9. ps \in Seq(Nat) /\ DOMAIN ps = DOMAIN tokens
  BY <1>5, <1>7
<1>10. \A n \in DOMAIN tokens :
         bs[n] = Balance(tokens[n]) /\ ps[n] = (bs[n] * gbxAmount) \div SupplyBeforeBurn
  BY DEF Payout
<1>11. /\ redemption' = [tokens |-> tokens, gbxAmount |-> gbxAmount,
                         supply |-> SupplyBeforeBurn, balances |-> bs,
                         payouts |-> ps, paid |-> 0]
       /\ backing' = backing
       /\ pendingEmission' = pendingEmission
       /\ before' = stateVars
  BY DEF RedeemBegin
<1> HIDE DEF bs, ps
<1>12. CallTypeOK'
  BY <1>1, <1>4, <1>5, <1>8, <1>9, <1>11 DEF CallTypeOK, RedemptionRecord
<1>13. CallIsPriced'
  <2>1. totalSupply' + pendingEmission' + gbxAmount = SupplyBeforeBurn
    BY <1>2, <1>3, <1>11 DEF SupplyBeforeBurn
  <2> QED
    BY <1>4, <1>10, <1>11, <2>1 DEF CallIsPriced
<1>14. BeforeSound'
  BY <1>1, <1>11 DEF BeforeSound, StateSound, stateVars, gbxVars
<1>15. HonestLedgersHold'
  <2>1. \A n \in DOMAIN tokens : Balance(tokens[n])' >= bs[n] /\ ~(n <= 0)
    BY <1>5, <1>6, <1>10, <1>11 DEF Balance
  <2> QED
    BY <1>11, <2>1 DEF HonestLedgersHold
<1> QED
  BY <1>3, <1>12, <1>13, <1>14, <1>15 DEF FundInv

(* What the invariant says of an open call. *)
LEMMA OpenCall ==
  ASSUME FundInv, Redeeming
  PROVE  /\ redemption.tokens \in Seq(Tokens)
         /\ DOMAIN redemption.tokens = 1 .. Len(redemption.tokens)
         /\ redemption.supply \in Nat \ {0}
         /\ redemption.gbxAmount \in Nat
         /\ redemption.gbxAmount <= redemption.supply
         /\ redemption.paid \in Nat
         /\ redemption.paid <= Len(redemption.tokens)
         /\ \A n \in DOMAIN redemption.tokens :
              /\ redemption.balances[n] \in Nat
              /\ redemption.payouts[n] \in Nat
              /\ redemption.payouts[n] <= redemption.balances[n]
              /\ redemption.tokens[n] \in Tokens
              /\ Balance(redemption.tokens[n]) \in Nat
<1>1. redemption \in RedemptionRecord
  BY DEF FundInv, CallTypeOK
<1>2. /\ redemption.tokens \in Seq(Tokens)
      /\ redemption.supply \in Nat \ {0}
      /\ redemption.gbxAmount \in Nat
      /\ redemption.paid \in Nat
      /\ redemption.balances \in Seq(Nat)
      /\ redemption.payouts \in Seq(Nat)
  BY <1>1, FundConstants DEF RedemptionRecord
<1>3. redemption.gbxAmount <= redemption.supply
  BY <1>2, SupplyIsNatural DEF FundInv, CallIsPriced
<1>4. \A n \in DOMAIN redemption.tokens :
        redemption.balances[n] \in Nat /\ redemption.payouts[n] \in Nat
  <2>1. /\ DOMAIN redemption.balances = DOMAIN redemption.tokens
        /\ DOMAIN redemption.payouts = DOMAIN redemption.tokens
    BY DEF FundInv, CallTypeOK
  <2>2. \A n \in DOMAIN redemption.balances : redemption.balances[n] \in Nat
    <3> DEFINE bs == redemption.balances
    <3>1. bs \in Seq(Nat)
      BY <1>2
    <3> HIDE DEF bs
    <3>2. \A n \in DOMAIN bs : bs[n] \in Nat
      BY <3>1
    <3> QED
      BY <3>2 DEF bs
  <2>3. \A n \in DOMAIN redemption.payouts : redemption.payouts[n] \in Nat
    <3> DEFINE ps == redemption.payouts
    <3>1. ps \in Seq(Nat)
      BY <1>2
    <3> HIDE DEF ps
    <3>2. \A n \in DOMAIN ps : ps[n] \in Nat
      BY <3>1
    <3> QED
      BY <3>2 DEF ps
  <2> QED
    BY <2>1, <2>2, <2>3
<1>5. \A n \in DOMAIN redemption.tokens : redemption.payouts[n] <= redemption.balances[n]
  BY <1>2, <1>3, <1>4, FloorOfPart DEF FundInv, CallIsPriced
<1>6. \A n \in DOMAIN redemption.tokens :
        redemption.tokens[n] \in Tokens /\ Balance(redemption.tokens[n]) \in Nat
  BY <1>2, FundConstants DEF Balance, FundInv, StateSound, Sound
<1> QED
  BY <1>2, <1>3, <1>4, <1>5, <1>6 DEF FundInv, CallTypeOK

LEMMA PayTokenStep == FundInv /\ PayToken => FundInv'
<1> SUFFICES ASSUME FundInv, PayToken PROVE FundInv'
  OBVIOUS
<1> USE FundConstants
<1>1. Redeeming /\ Current \in DOMAIN redemption.tokens
  BY OpenCall DEF PayToken, Current
<1> DEFINE token == redemption.tokens[Current]
           payout == redemption.payouts[Current]
<1>2. /\ token \in Tokens
      /\ payout \in Nat
      /\ Balance(token) \in Nat
  BY <1>1, OpenCall
<1>3. backing \in [Ledgers -> Nat]
  BY DEF FundInv, StateSound, Sound
<1>4. /\ backing' = IF payout = 0 THEN backing ELSE Debited(token, payout)
      /\ payout # 0 => payout <= Balance(token)
      /\ Balance(token) >= redemption.balances[Current]
  BY DEF PayToken, PaymentIsExact
<1> HIDE DEF token, payout
<1>5. backing' \in [Ledgers -> Nat]
  BY <1>2, <1>3, <1>4 DEF Debited
<1>6. /\ Redeeming
      /\ redemption \in RedemptionRecord
  BY <1>1 DEF FundInv, CallTypeOK
<1>7. /\ redemption' = [redemption EXCEPT !.paid = Current]
      /\ Current \in Nat
      /\ Current <= Len(redemption.tokens)
      /\ UNCHANGED <<gbxVars, pendingEmission, before>>
  BY <1>1, OpenCall DEF PayToken, Current
<1>8. /\ redemption'.tokens = redemption.tokens
      /\ redemption'.gbxAmount = redemption.gbxAmount
      /\ redemption'.supply = redemption.supply
      /\ redemption'.balances = redemption.balances
      /\ redemption'.payouts = redemption.payouts
      /\ redemption'.paid = Current
      /\ redemption' \in RedemptionRecord
  BY <1>6, <1>7 DEF RedemptionRecord
<1>9. StateSound'
  BY <1>5, <1>7 DEF FundInv, StateSound, Sound, gbxVars
<1>10. BeforeSound'
  BY <1>6, <1>7 DEF FundInv, BeforeSound
<1>11. CallTypeOK'
  BY <1>6, <1>7, <1>8 DEF FundInv, CallTypeOK
<1>12. CallIsPriced'
  BY <1>6, <1>7, <1>8 DEF FundInv, CallIsPriced, gbxVars
<1>13. HonestLedgersHold'
  <2> SUFFICES ASSUME Honest(redemption.tokens), NEW n \in DOMAIN redemption.tokens
               PROVE  LET l == Reports[redemption.tokens[n]]
                      IN  /\ n > Current => backing'[l] >= redemption.balances[n]
                          /\ n <= Current =>
                               backing'[l] >= redemption.balances[n] - redemption.payouts[n]
    BY <1>8 DEF HonestLedgersHold, Honest, Balance
  <2>1. /\ n > redemption.paid => Balance(redemption.tokens[n]) >= redemption.balances[n]
        /\ n <= redemption.paid =>
             Balance(redemption.tokens[n]) >= redemption.balances[n] - redemption.payouts[n]
    BY <1>6 DEF FundInv, HonestLedgersHold
  <2>2. /\ n \in Nat
        /\ redemption.paid \in Nat
        /\ Current = redemption.paid + 1
        /\ redemption.tokens[n] \in Tokens
        /\ redemption.balances[n] \in Nat
        /\ redemption.payouts[n] \in Nat
        /\ Balance(redemption.tokens[n]) \in Nat
    BY <1>6, OpenCall DEF Current
  <2>3. CASE n = Current
    <3>1. /\ redemption.tokens[n] = token
          /\ redemption.payouts[n] = payout
      BY <2>3 DEF token, payout
    <3>2. backing'[Reports[redemption.tokens[n]]]
            = Balance(redemption.tokens[n]) - redemption.payouts[n]
      BY <1>2, <1>3, <1>4, <3>1 DEF Balance, Debited
    <3> QED
      BY <1>4, <2>2, <2>3, <3>2, <3>1
  <2>4. CASE n # Current
    <3>1. /\ AlsoDebits[token] = {}
          /\ Reports[token] # Reports[redemption.tokens[n]]
      BY <1>1, <2>4 DEF Honest, token
    <3>2. backing'[Reports[redemption.tokens[n]]] = Balance(redemption.tokens[n])
      BY <1>2, <1>3, <1>4, <2>2, <3>1 DEF Balance, Debited
    <3> QED
      BY <2>1, <2>2, <2>4, <3>2
  <2> QED
    BY <2>3, <2>4
<1> QED
  BY <1>9, <1>10, <1>11, <1>12, <1>13 DEF FundInv

LEMMA RedeemEndStep == FundInv /\ RedeemEnd => FundInv'
<1> SUFFICES ASSUME FundInv, RedeemEnd PROVE FundInv'
  OBVIOUS
<1>1. StateSound'
  BY DEF FundInv, StateSound, Sound, RedeemEnd, stateVars, gbxVars
<1> QED
  BY <1>1, NotRedeemingInv DEF RedeemEnd, Redeeming

LEMMA RevertStep == FundInv /\ Revert => FundInv'
<1> SUFFICES ASSUME FundInv, Revert PROVE FundInv'
  OBVIOUS
<1>1. StateSound'
  BY DEF FundInv, BeforeSound, StateSound, Sound, Revert
<1> QED
  BY <1>1, NotRedeemingInv DEF Revert, Redeeming

\* Arithmetic: a bound on a supply and an open call's amount outlives a fall of
\* the supply.
LEMMA StillCovered ==
  ASSUME NEW u \in Nat, NEW p \in Nat, NEW v \in Nat, NEW q \in Nat,
         NEW g \in Nat, NEW s \in Nat,
         u + p + g <= s, v + q <= u + p
  PROVE  v + q + g <= s
OBVIOUS

-----------------------------------------------------------------------------
(* What others do leaves the open call as it is: the supply with what is    *)
(* pending does not grow, and no ledger falls.                              *)
LEMMA CallKept ==
  ASSUME FundInv, StateSound',
         redemption' = redemption, before' = before,
         totalSupply' + pendingEmission' <= totalSupply + pendingEmission,
         \A l \in Ledgers : backing'[l] >= backing[l]
  PROVE  FundInv'
<1>1. BeforeSound'
  BY DEF FundInv, BeforeSound, Redeeming
<1>2. CallTypeOK'
  BY DEF FundInv, CallTypeOK, Redeeming
<1>3. CASE ~Redeeming
  BY <1>3, NotRedeemingInv DEF Redeeming
<1>4. CASE Redeeming
  <2>1. CallIsPriced'
    <3>1. /\ totalSupply \in Nat /\ pendingEmission \in Nat
          /\ totalSupply' \in Nat /\ pendingEmission' \in Nat
      BY SupplyIsNatural DEF FundInv
    <3>2. /\ redemption.gbxAmount \in Nat /\ redemption.supply \in Nat
          /\ totalSupply + pendingEmission + redemption.gbxAmount <= redemption.supply
      BY <1>4, OpenCall DEF FundInv, CallIsPriced
    <3>3. totalSupply' + pendingEmission' + redemption.gbxAmount <= redemption.supply
      BY <3>1, <3>2, StillCovered
    <3> QED
      BY <1>4, <3>3 DEF FundInv, CallIsPriced
  <2>2. HonestLedgersHold'
    <3> SUFFICES ASSUME Honest(redemption.tokens), NEW n \in DOMAIN redemption.tokens
                 PROVE  LET l == Reports[redemption.tokens[n]]
                        IN  /\ n > redemption.paid => backing'[l] >= redemption.balances[n]
                            /\ n <= redemption.paid =>
                                 backing'[l] >= redemption.balances[n] - redemption.payouts[n]
      BY DEF HonestLedgersHold, Honest, Balance
    <3> DEFINE l == Reports[redemption.tokens[n]]
    <3>1. /\ l \in Ledgers
          /\ Balance(redemption.tokens[n]) = backing[l]
      BY <1>4, OpenCall, FundConstants DEF Balance
    <3>2. backing[l] \in Nat /\ backing'[l] \in Nat /\ backing'[l] >= backing[l]
      BY <3>1 DEF FundInv, StateSound, Sound
    <3>3. /\ n > redemption.paid => backing[l] >= redemption.balances[n]
          /\ n <= redemption.paid => backing[l] >= redemption.balances[n] - redemption.payouts[n]
      BY <1>4, <3>1 DEF FundInv, HonestLedgersHold
    <3>4. redemption.balances[n] \in Nat /\ redemption.payouts[n] \in Nat
      BY <1>4, OpenCall
    <3> QED
      BY <3>2, <3>3, <3>4
  <2> QED
    BY <1>1, <1>2, <2>1, <2>2 DEF FundInv
<1> QED
  BY <1>3, <1>4

LEMMA BurnGBXStep ==
  ASSUME FundInv, NEW amount \in BurnAmounts, BurnGBX(amount)
  PROVE  FundInv'
<1>1. StateSound'
  BY BurnKeepsSound, FundConstants DEF FundInv, BurnGBX
<1> QED
  BY <1>1, NotRedeemingInv DEF BurnGBX, Redeeming

LEMMA HolderBurnsStep ==
  ASSUME FundInv, NEW account \in Accounts, NEW amount \in BurnAmounts,
         HolderBurns(account, amount)
  PROVE  FundInv'
<1>1. /\ StateSound
      /\ account \in GBXHolders
      /\ amount \in Nat
      /\ Burn(account, amount)
      /\ UNCHANGED <<pendingEmission, backing, redemption, before>>
  BY FundConstants DEF FundInv, HolderBurns
<1>2. StateSound' /\ totalSupply' = totalSupply - amount
  BY <1>1, BurnKeepsSound
<1>3. totalSupply' + pendingEmission' <= totalSupply + pendingEmission
  BY <1>1, <1>2, SupplyIsNatural
<1>4. \A l \in Ledgers : backing'[l] >= backing[l]
  BY <1>1 DEF StateSound, Sound
<1> QED
  BY <1>1, <1>2, <1>3, <1>4, CallKept

LEMMA SendGBXToFundStep ==
  ASSUME FundInv, NEW account \in Accounts, NEW amount \in BurnAmounts,
         SendGBXToFund(account, amount)
  PROVE  FundInv'
<1>1. /\ StateSound
      /\ account \in GBXHolders
      /\ FundHolder \in GBXHolders \ {account}
      /\ amount \in Nat
      /\ amount <= gbxBalance[account]
      /\ UNCHANGED <<minter, minterLocked, totalSupply, lifetimeMinted, lifetimeBurned,
                     pendingEmission, backing, redemption, before>>
      /\ gbxBalance \in [GBXHolders -> Nat]
      /\ totalSupply = PartialSum(gbxBalance, NumGBXHolders)
  BY FundConstants DEF FundInv, SendGBXToFund, StateSound, Sound
<1> DEFINE less == [gbxBalance EXCEPT ![account] = @ - amount]
           sent == [less EXCEPT ![FundHolder] = @ + amount]
<1>2. /\ less \in [GBXHolders -> Nat]
      /\ PartialSum(gbxBalance, NumGBXHolders) \in Nat
      /\ PartialSum(less, NumGBXHolders) = PartialSum(gbxBalance, NumGBXHolders) - amount
  BY <1>1, BurnedSupply
<1>3. gbxBalance' = sent
  BY <1>1 DEF SendGBXToFund
<1> HIDE DEF less
<1>4. /\ PartialSum(sent, NumGBXHolders) = PartialSum(less, NumGBXHolders) + amount
      /\ sent \in [GBXHolders -> Nat]
  BY <1>1, <1>2, MintedSupply
<1>5. PartialSum(sent, NumGBXHolders) = totalSupply
  BY <1>1, <1>2, <1>4
<1>6. StateSound'
  BY <1>1, <1>3, <1>4, <1>5 DEF StateSound, Sound
<1>7. totalSupply' + pendingEmission' <= totalSupply + pendingEmission
  BY <1>1, SupplyIsNatural
<1>8. \A l \in Ledgers : backing'[l] >= backing[l]
  BY <1>1 DEF StateSound, Sound
<1> QED
  BY <1>1, <1>6, <1>7, <1>8, CallKept

LEMMA DepositStep ==
  ASSUME FundInv, NEW ledger \in Ledgers, NEW amount \in DepositAmounts,
         Deposit(ledger, amount)
  PROVE  FundInv'
<1>1. /\ StateSound
      /\ amount \in Nat
      /\ backing' = [backing EXCEPT ![ledger] = @ + amount]
      /\ UNCHANGED <<gbxVars, pendingEmission, redemption, before>>
  BY FundConstants DEF FundInv, Deposit
<1>2. /\ backing' \in [Ledgers -> Nat]
      /\ \A l \in Ledgers : backing'[l] >= backing[l]
  BY <1>1 DEF StateSound, Sound
<1>3. StateSound'
  BY <1>1, <1>2 DEF StateSound, Sound, gbxVars
<1>4. totalSupply' + pendingEmission' <= totalSupply + pendingEmission
  BY <1>1, SupplyIsNatural DEF gbxVars
<1> QED
  BY <1>1, <1>2, <1>3, <1>4, CallKept

LEMMA SettleTenureStep ==
  ASSUME FundInv, NEW account \in Accounts, SettleTenure(account, 1)
  PROVE  FundInv'
<1>1. /\ StateSound
      /\ account \in GBXHolders
      /\ 1 <= pendingEmission
      /\ Mint(MineAddr, account, 1)
      /\ pendingEmission' = pendingEmission - 1
      /\ UNCHANGED <<backing, redemption, before>>
      /\ gbxBalance \in [GBXHolders -> Nat]
      /\ totalSupply = PartialSum(gbxBalance, NumGBXHolders)
  BY FundConstants DEF FundInv, SettleTenure, StateSound, Sound
<1>2. totalSupply \in Nat /\ pendingEmission \in Nat
  BY <1>1, SupplyIsNatural
<1>3. /\ gbxBalance' \in [GBXHolders -> Nat]
      /\ totalSupply' = PartialSum(gbxBalance', NumGBXHolders)
      /\ totalSupply' = totalSupply + 1
  BY <1>1, MintedSupply DEF Mint
<1>4. StateSound'
  BY <1>1, <1>2, <1>3 DEF StateSound, Sound, Mint
<1>5. totalSupply' + pendingEmission' <= totalSupply + pendingEmission
  BY <1>1, <1>2, <1>3
<1>6. \A l \in Ledgers : backing'[l] >= backing[l]
  BY <1>1 DEF StateSound, Sound
<1> QED
  BY <1>1, <1>4, <1>5, <1>6, CallKept

LEMMA AccrueStep == FundInv /\ Accrue => FundInv'
<1> SUFFICES ASSUME FundInv, Accrue PROVE FundInv'
  OBVIOUS
<1>1. StateSound'
  BY DEF FundInv, StateSound, Sound, Accrue, gbxVars
<1> QED
  BY <1>1, NotRedeemingInv DEF Accrue, Redeeming

-----------------------------------------------------------------------------
LEMMA FundNextInv == FundInv /\ [Next]_vars => FundInv'
<1> SUFFICES ASSUME FundInv, [Next]_vars PROVE FundInv'
  OBVIOUS
<1>1. ASSUME NEW account \in Accounts, NEW gbxAmount \in RedeemAmounts,
             NEW tokens \in Selections, RedeemBegin(account, gbxAmount, tokens)
      PROVE  FundInv'
  BY <1>1, RedeemBeginStep
<1>2. CASE PayToken
  BY <1>2, PayTokenStep
<1>3. CASE RedeemEnd
  BY <1>3, RedeemEndStep
<1>4. CASE Revert
  BY <1>4, RevertStep
<1>5. ASSUME NEW amount \in BurnAmounts, BurnGBX(amount) PROVE FundInv'
  BY <1>5, BurnGBXStep
<1>6. ASSUME NEW account \in Accounts, NEW amount \in BurnAmounts,
             HolderBurns(account, amount)
      PROVE  FundInv'
  BY <1>6, HolderBurnsStep
<1>7. ASSUME NEW account \in Accounts, NEW amount \in BurnAmounts,
             SendGBXToFund(account, amount)
      PROVE  FundInv'
  BY <1>7, SendGBXToFundStep
<1>8. ASSUME NEW ledger \in Ledgers, NEW amount \in DepositAmounts,
             Deposit(ledger, amount)
      PROVE  FundInv'
  BY <1>8, DepositStep
<1>9. ASSUME NEW account \in Accounts, SettleTenure(account, 1) PROVE FundInv'
  BY <1>9, SettleTenureStep
<1>10. CASE Accrue
  BY <1>10, AccrueStep
<1>11. CASE UNCHANGED vars
  BY <1>11 DEF vars, stateVars, gbxVars, FundInv, StateSound, BeforeSound, CallTypeOK,
               CallIsPriced, HonestLedgersHold, Redeeming, Balance, Honest
<1> QED
  BY <1>1, <1>2, <1>3, <1>4, <1>5, <1>6, <1>7, <1>8, <1>9, <1>10, <1>11 DEF Next

LEMMA FundInvariance == Spec => []FundInv
BY FundInitInv, FundNextInv, PTL DEF Spec

-----------------------------------------------------------------------------
(* Fund.redeem: a selection of tokens with a ledger of their own and no     *)
(* side effect passes the comparison with its snapshot, the exact transfer  *)
(* and the final pass, whatever others do in the calls.                     *)
THEOREM HonestSelectionsRedeem == Spec => []HonestTokensRedeem
<1>1. FundInv => HonestTokensRedeem
  <2> SUFFICES ASSUME FundInv PROVE HonestTokensRedeem
    OBVIOUS
  <2>1. FundTypeOK
    <3>1. GBXTypeOK /\ pendingEmission \in Nat /\ backing \in [Ledgers -> Nat]
      BY SupplyIsNatural DEF FundInv, StateSound, Sound, GBXTypeOK
    <3>2. ASSUME Redeeming
          PROVE  /\ redemption.tokens \in Selections
                 /\ redemption.paid \in 0 .. Len(redemption.tokens)
                 /\ redemption.supply \in Nat \ {0}
                 /\ \A n \in DOMAIN redemption.tokens :
                      redemption.payouts[n] \in 0 .. redemption.balances[n]
      <4>1. redemption.tokens \in Selections
        BY <3>2 DEF FundInv, CallTypeOK, RedemptionRecord
      <4> QED
        BY <3>2, <4>1, OpenCall
    <3> QED
      BY <3>1, <3>2 DEF FundTypeOK
  <2>2. ASSUME Redeeming, Honest(redemption.tokens), AllPaid
        PROVE  SelectedBalancesKept
    BY <2>2, OpenCall DEF FundInv, HonestLedgersHold, AllPaid, SelectedBalancesKept
  <2>3. ASSUME Redeeming, Honest(redemption.tokens), ~AllPaid
        PROVE  PaymentIsExact
    <3>1. Current \in DOMAIN redemption.tokens /\ Current > redemption.paid
      BY <2>3, OpenCall DEF AllPaid, Current
    <3>2. Balance(redemption.tokens[Current]) >= redemption.balances[Current]
      BY <2>3, <3>1 DEF FundInv, HonestLedgersHold
    <3>3. redemption.payouts[Current] <= Balance(redemption.tokens[Current])
      BY <2>3, <3>1, <3>2, OpenCall
    <3>4. Fee[redemption.tokens[Current]] = 0
      BY <2>3, <3>1 DEF Honest
    <3> QED
      BY <3>2, <3>3, <3>4 DEF PaymentIsExact
  <2> QED
    BY <2>1, <2>2, <2>3 DEF HonestTokensRedeem
<1> QED
  BY <1>1, FundInvariance, PTL

(* Fund.redeem: when it completes, every selected token has at least the    *)
(* backing per GBX it had when the balances were read, pending emission     *)
(* counted, whatever the transfers debited and whoever burned or minted in  *)
(* between.                                                                 *)
THEOREM RedemptionsNeverDilute == Spec => RedemptionDoesNotDilute
<1>1. ASSUME FundInv, RedeemEnd, NEW n \in DOMAIN redemption.tokens
      PROVE  Balance(redemption.tokens[n]) * redemption.supply
               >= redemption.balances[n] * (totalSupply + pendingEmission)
  <2> DEFINE left == Balance(redemption.tokens[n])
             b == redemption.balances[n]
             r == totalSupply + pendingEmission
  <2>1. Redeeming
    BY <1>1 DEF RedeemEnd, AllPaid
  <2>2. /\ left \in Nat /\ b \in Nat
        /\ redemption.supply \in Nat \ {0} /\ redemption.gbxAmount \in Nat
    BY <1>1, <2>1, OpenCall
  <2>3. r \in Nat
    BY <1>1, SupplyIsNatural DEF FundInv
  <2>4. /\ r + redemption.gbxAmount <= redemption.supply
        /\ redemption.payouts[n] = (b * redemption.gbxAmount) \div redemption.supply
    BY <1>1, <2>1 DEF FundInv, CallIsPriced
  <2>5. left >= b - redemption.payouts[n]
    BY <1>1 DEF RedeemEnd, SelectedBalancesKept
  <2> HIDE DEF left, b, r
  <2>6. left * redemption.supply >= b * r
    BY <2>2, <2>3, <2>4, <2>5, NoDilution
  <2> QED
    BY <2>6 DEF left, b, r
<1>2. FundInv /\ [Next]_vars =>
        [RedeemEnd =>
           \A n \in DOMAIN redemption.tokens :
             Balance(redemption.tokens[n]) * redemption.supply
               >= redemption.balances[n] * (totalSupply + pendingEmission)]_vars
  BY <1>1
<1> QED
  BY <1>2, FundInvariance, PTL DEF Spec, RedemptionDoesNotDilute
=============================================================================
