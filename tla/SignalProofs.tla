----------------------------- MODULE SignalProofs -----------------------------
(***************************************************************************)
(* SignalGBX, for every number of accounts and strategies and every amount *)
(* of signal: an account's sGBX is its signal, votes are the sGBX that is  *)
(* delegated, and every invariant of Resonance holds of the signal that    *)
(* SignalGBX brings it.                                                    *)
(***************************************************************************)
EXTENDS SignalGBX, ResonanceProofs

SignalInv == IInv /\ ReceiptsAreSignal /\ VotesAreDelegated

(* The signal of an account, strategy by strategy. *)
SignalTable(account) == [s \in Strategies |-> weightOf[s][account]]

(* What is delegated to d, account by account. *)
DelegatedTable(d) == [a \in Accounts |-> IF delegates[a] = d THEN receipts[a] ELSE 0]

LEMMA SignalTyped ==
  ASSUME SignalInv
  PROVE  /\ NumAccounts \in Nat /\ NumStrategies \in Nat
         /\ Accounts = 0 .. NumAccounts - 1 /\ Strategies = 0 .. NumStrategies - 1
         /\ gbxWallet \in [Accounts -> Nat] /\ escrow \in Nat
         /\ receipts \in [Accounts -> Nat]
         /\ delegates \in [Accounts -> Delegates]
         /\ votes \in [Accounts -> Nat]
         /\ resonanceSet \in BOOLEAN
         /\ weightOf \in [Strategies -> [Accounts -> Nat]]
         /\ \A a \in Accounts : receipts[a] = PartialSum(SignalTable(a), NumStrategies)
         /\ PartialSum(receipts, NumAccounts) <= escrow
         /\ PartialSum(receipts, NumAccounts) \in Nat
         /\ \A d \in Accounts : votes[d] = PartialSum(DelegatedTable(d), NumAccounts)
<1>1. /\ NumAccounts \in Nat /\ NumStrategies \in Nat
      /\ Accounts = 0 .. NumAccounts - 1 /\ Strategies = 0 .. NumStrategies - 1
  BY StrategiesAndAccounts
<1>2. receipts \in [Accounts -> Nat]
  BY DEF SignalInv, ReceiptsAreSignal, SignalTypeOK
<1>3. PartialSum(receipts, NumAccounts) \in Nat
  BY <1>1, <1>2, SumNatural
<1>4. weightOf \in [Strategies -> [Accounts -> Nat]]
  BY DEF SignalInv, IInv, BribeInv, BribeTypeOK
<1>5. \A a \in Accounts : receipts[a] = PartialSum(SignalTable(a), NumStrategies)
  BY DEF SignalInv, ReceiptsAreSignal, SignalOf, SignalTable
<1>6. \A d \in Accounts : votes[d] = PartialSum(DelegatedTable(d), NumAccounts)
  BY DEF SignalInv, VotesAreDelegated, DelegatedTable
<1> QED
  BY <1>1, <1>2, <1>3, <1>4, <1>5, <1>6 DEF SignalInv, ReceiptsAreSignal, SignalTypeOK

(***************************************************************************)
(* Votes follow when one account's balance or delegate changes, if what it *)
(* gave to its old delegate goes and what it gives to its new one comes.   *)
(***************************************************************************)
VotesOf(account, d) == IF delegates[account] = d THEN receipts[account] ELSE 0

VotesMove(account) ==
  /\ receipts' \in [Accounts -> Nat]
  /\ votes' \in [Accounts -> Int]
  /\ \A a \in Accounts : a # account => receipts'[a] = receipts[a] /\ delegates'[a] = delegates[a]
  /\ \A d \in Accounts : votes'[d] = votes[d] + (VotesOf(account, d)' - VotesOf(account, d))

LEMMA VotesFollow ==
  ASSUME SignalInv, NEW account \in Accounts, VotesMove(account)
  PROVE  VotesAreDelegated' /\ votes' \in [Accounts -> Nat]
<1> DEFINE n == NumAccounts
<1>1. /\ n \in Nat /\ Accounts = 0 .. n - 1
      /\ receipts \in [Accounts -> Nat] /\ receipts' \in [Accounts -> Nat]
      /\ \A d \in Accounts : votes[d] = PartialSum(DelegatedTable(d), n)
  BY SignalTyped DEF VotesMove
<1>2. ASSUME NEW d \in Accounts
      PROVE  /\ votes'[d] = PartialSum(DelegatedTable(d)', n)
             /\ PartialSum(DelegatedTable(d)', n) \in Nat
  <2> DEFINE f == DelegatedTable(d)
             g == DelegatedTable(d)'
  <2>1. f \in [0 .. n - 1 -> Nat] /\ g \in [0 .. n - 1 -> Nat]
    BY <1>1 DEF DelegatedTable
  <2>2. \A a \in 0 .. n - 1 : a # account => g[a] = f[a]
    BY <1>1 DEF DelegatedTable, VotesMove
  <2>3. f[account] = VotesOf(account, d) /\ g[account] = VotesOf(account, d)'
    BY DEF DelegatedTable, VotesOf
  <2>4. votes'[d] = votes[d] + (g[account] - f[account])
    BY <2>3 DEF VotesMove
  <2>5. votes[d] = PartialSum(f, n)
    BY <1>1
  <2> HIDE DEF f, g
  <2>6. SameExceptAt(f, g, account, n)
    BY <2>1, <2>2 DEF SameExceptAt
  <2>7. PartialSum(g, n) = PartialSum(f, n) + (g[account] - f[account])
    BY <1>1, <2>6, SumUpdate
  <2>8. PartialSum(g, n) \in Nat
    BY <1>1, <2>1, SumNatural
  <2> QED
    BY <2>4, <2>5, <2>7, <2>8 DEF g
<1>3. VotesAreDelegated'
  BY <1>2 DEF VotesAreDelegated, DelegatedTable
<1>4. votes' \in [Accounts -> Nat]
  BY <1>2 DEF VotesMove
<1> QED
  BY <1>3, <1>4

(* The signal of one account moves, and its receipts with it. *)
LEMMA ReceiptsFollow ==
  ASSUME SignalInv, NEW account \in Accounts, NEW moved \in [Strategies -> Int],
         weightOf' = [s \in Strategies |->
                        [weightOf[s] EXCEPT ![account] = weightOf[s][account] + moved[s]]],
         receipts' = [receipts EXCEPT
                        ![account] = receipts[account] + PartialSum(moved, NumStrategies)]
  PROVE  /\ \A a \in Accounts : receipts'[a] = SignalOf(a)'
         /\ PartialSum(receipts', NumAccounts)
              = PartialSum(receipts, NumAccounts) + PartialSum(moved, NumStrategies)
<1> DEFINE n == NumStrategies
           total == PartialSum(moved, n)
<1>1. /\ n \in Nat /\ NumAccounts \in Nat
      /\ Accounts = 0 .. NumAccounts - 1 /\ Strategies = 0 .. n - 1
      /\ weightOf \in [Strategies -> [Accounts -> Nat]]
      /\ receipts \in [Accounts -> Nat]
      /\ \A a \in Accounts : receipts[a] = PartialSum(SignalTable(a), n)
  BY SignalTyped
<1>2. total \in Int
  BY <1>1, SumInteger
<1>3. ASSUME NEW a \in Accounts PROVE receipts'[a] = SignalOf(a)'
  <2>1. CASE a = account
    <3> DEFINE f == SignalTable(account)
               h == [s \in Strategies |-> weightOf'[s][account]]
    <3>1. f \in [0 .. n - 1 -> Int] /\ moved \in [0 .. n - 1 -> Int]
      BY <1>1 DEF SignalTable
    <3>2. h \in [0 .. n - 1 -> Int] /\ \A s \in 0 .. n - 1 : h[s] = f[s] + moved[s]
      BY <1>1 DEF SignalTable
    <3>3. SignalOf(a)' = PartialSum(h, n)
      BY <2>1 DEF SignalOf
    <3>4. receipts[account] = PartialSum(f, n)
      BY <1>1
    <3> HIDE DEF f, h
    <3>5. IsSumOf(h, f, moved, n)
      BY <3>1, <3>2 DEF IsSumOf
    <3>6. PartialSum(h, n) = PartialSum(f, n) + PartialSum(moved, n)
      BY <1>1, <3>5, SumAdd
    <3>7. receipts'[account] = receipts[account] + PartialSum(moved, n)
      BY <1>1
    <3> QED
      BY <2>1, <3>3, <3>4, <3>6, <3>7
  <2>2. CASE a # account
    <3>1. \A s \in Strategies : weightOf'[s][a] = weightOf[s][a]
      BY <1>1, <2>2
    <3>2. [s \in Strategies |-> weightOf'[s][a]] = SignalTable(a)
      BY <3>1 DEF SignalTable
    <3>3. receipts'[a] = receipts[a]
      BY <1>1, <2>2
    <3> QED
      BY <1>1, <3>2, <3>3 DEF SignalOf
  <2> QED
    BY <2>1, <2>2
<1>4. PartialSum(receipts', NumAccounts) = PartialSum(receipts, NumAccounts) + total
  <2> DEFINE x == receipts[account] + total
             m == NumAccounts
             f == receipts
             g == receipts'
  <2>1. /\ f \in [0 .. m - 1 -> Int] /\ account \in 0 .. m - 1 /\ x \in Int /\ m \in Nat
        /\ g = [f EXCEPT ![account] = x]
    BY <1>1, <1>2
  <2>2. x - f[account] = total
    BY <1>1, <1>2
  <2> HIDE DEF x, m, total, f, g
  <2>3. PartialSum(g, m) = PartialSum(f, m) + (x - f[account])
    BY <2>1, SumShift
  <2> QED
    BY <2>2, <2>3 DEF m, f, g
<1> QED
  BY <1>3, <1>4

-----------------------------------------------------------------------------
(* The steps. *)

LEMMA SignalInitInv == SignalInit => SignalInv
<1> SUFFICES ASSUME SignalInit PROVE SignalInv
  OBVIOUS
<1> DEFINE zeros(n) == [p \in 0 .. n - 1 |-> 0]
<1>1. IInv
  BY InitIInv DEF SignalInit
<1>2. /\ receipts = zeros(NumAccounts) /\ votes = zeros(NumAccounts) /\ escrow = 0
      /\ delegates = [a \in Accounts |-> NoDelegate]
      /\ \A a \in Accounts : SignalTable(a) = zeros(NumStrategies)
  BY StrategiesAndAccounts DEF SignalInit, SignalTable, Init, BribeInit
<1>3. /\ PartialSum(zeros(NumAccounts), NumAccounts) = 0
      /\ PartialSum(zeros(NumStrategies), NumStrategies) = 0
  BY SumOfNothing, StrategiesAndAccounts
<1>4. \A d \in Accounts : DelegatedTable(d) = zeros(NumAccounts)
  BY <1>2, StrategiesAndAccounts DEF DelegatedTable
<1>5. SignalTypeOK
  <2>1. TypeOK
    BY <1>1 DEF IInv, ResonanceInv
  <2>2. InitialGBX \in Nat
    BY SignalConstants
  <2> QED
    BY <2>1, <2>2 DEF SignalInit, SignalTypeOK, Delegates
<1> HIDE DEF zeros
<1>6. ReceiptsAreSignal
  <2>1. \A a \in Accounts : receipts[a] = 0
    BY DEF SignalInit
  <2>2. \A a \in Accounts : SignalOf(a) = 0
    BY <1>2, <1>3 DEF SignalOf, SignalTable
  <2>3. PartialSum(receipts, NumAccounts) <= escrow
    BY <1>2, <1>3
  <2> QED
    BY <1>5, <2>1, <2>2, <2>3 DEF ReceiptsAreSignal
<1>7. VotesAreDelegated
  <2>1. \A d \in Accounts : votes[d] = 0
    BY DEF SignalInit
  <2> QED
    BY <1>3, <1>4, <2>1 DEF VotesAreDelegated, DelegatedTable
<1> QED
  BY <1>1, <1>6, <1>7 DEF SignalInv

LEMMA AddSignalManyStep ==
  ASSUME SignalInv, NEW account \in Accounts, NEW allocation \in [Strategies -> Nat],
         AddSignalMany(account, allocation)
  PROVE  SignalInv'
<1> DEFINE amount == TotalAmount(allocation)
<1>1. /\ NumAccounts \in Nat /\ NumStrategies \in Nat
      /\ Accounts = 0 .. NumAccounts - 1 /\ Strategies = 0 .. NumStrategies - 1
      /\ gbxWallet \in [Accounts -> Nat] /\ escrow \in Nat
      /\ receipts \in [Accounts -> Nat]
      /\ delegates \in [Accounts -> Delegates]
      /\ votes \in [Accounts -> Nat]
      /\ weightOf \in [Strategies -> [Accounts -> Nat]]
      /\ resonanceSet \in BOOLEAN
      /\ PartialSum(receipts, NumAccounts) <= escrow /\ PartialSum(receipts, NumAccounts) \in Nat
  BY SignalTyped
<1>2. IInv'
  BY AddSignalForStep DEF SignalInv, AddSignalMany
<1>3. amount \in Nat
  BY <1>1, SumNatural DEF TotalAmount
<1>4. /\ weightOf' = [s \in Strategies |->
                        [weightOf[s] EXCEPT ![account] = weightOf[s][account] + allocation[s]]]
      /\ receipts' = [receipts EXCEPT ![account] = receipts[account] + amount]
      /\ gbxWallet' = [gbxWallet EXCEPT ![account] = gbxWallet[account] - amount]
      /\ escrow' = escrow + amount
      /\ amount <= gbxWallet[account]
      /\ DepositVotes(account, amount)
      /\ resonanceSet' = resonanceSet
  BY DEF AddSignalMany, AddSignalFor, AddSignalWeight, DepositAndMint
<1>5. /\ \A a \in Accounts : receipts'[a] = SignalOf(a)'
      /\ PartialSum(receipts', NumAccounts) = PartialSum(receipts, NumAccounts) + amount
  <2>1. allocation \in [Strategies -> Int]
    OBVIOUS
  <2> QED
    BY <1>4, <2>1, ReceiptsFollow DEF TotalAmount
<1> HIDE DEF amount
<1>6. /\ receipts' \in [Accounts -> Nat] /\ gbxWallet' \in [Accounts -> Nat] /\ escrow' \in Nat
      /\ resonanceSet' \in BOOLEAN
  <2>1. receipts' \in [Accounts -> Nat]
    BY <1>1, <1>3, <1>4
  <2>2. gbxWallet' \in [Accounts -> Nat]
    BY <1>1, <1>3, <1>4
  <2>3. escrow' \in Nat
    BY <1>1, <1>3, <1>4
  <2>4. resonanceSet' \in BOOLEAN
    BY <1>1, <1>4
  <2> QED
    BY <2>1, <2>2, <2>3, <2>4
<1>7. delegates' \in [Accounts -> Delegates]
  <2>1. delegates' = delegates \/ delegates' = [delegates EXCEPT ![account] = account]
    BY <1>4 DEF DepositVotes
  <2>2. account \in Delegates
    BY DEF Delegates
  <2> QED
    BY <1>1, <2>1, <2>2
<1>8. VotesMove(account)
  <2>1. receipts'[account] = receipts[account] + amount /\ NoDelegate \notin Accounts
    BY <1>1, <1>4, SignalConstants
  <2>2. \A a \in Accounts : a # account => receipts'[a] = receipts[a] /\ delegates'[a] = delegates[a]
    BY <1>1, <1>4 DEF DepositVotes
  <2>3. CASE delegates[account] = NoDelegate
    <3>1. /\ delegates'[account] = account
          /\ votes' = [votes EXCEPT ![account] = votes[account] + receipts[account] + amount]
      BY <1>1, <1>4, <2>3 DEF DepositVotes
    <3>2. \A d \in Accounts :
            /\ VotesOf(account, d) = 0
            /\ VotesOf(account, d)' = IF d = account THEN receipts[account] + amount ELSE 0
      BY <2>1, <2>3, <3>1 DEF VotesOf
    <3>3. votes' \in [Accounts -> Int]
      BY <1>1, <1>3, <3>1
    <3>4. \A d \in Accounts : votes'[d] = votes[d] + (VotesOf(account, d)' - VotesOf(account, d))
      <4> TAKE d \in Accounts
      <4>1. votes[d] \in Nat /\ receipts[account] \in Nat
        BY <1>1
      <4>2. votes'[d] = IF d = account THEN votes[d] + receipts[account] + amount ELSE votes[d]
        BY <1>1, <3>1
      <4> QED
        BY <1>3, <3>2, <4>1, <4>2
    <3> QED
      BY <1>6, <2>2, <3>3, <3>4 DEF VotesMove
  <2>4. CASE delegates[account] # NoDelegate
    <3>1. /\ delegates[account] \in Accounts /\ delegates' = delegates
          /\ votes' = [votes EXCEPT ![delegates[account]] = votes[delegates[account]] + amount]
      BY <1>1, <1>4, <2>4 DEF DepositVotes, Delegates
    <3>2. \A d \in Accounts :
            VotesOf(account, d)' - VotesOf(account, d) = IF d = delegates[account] THEN amount ELSE 0
      <4> TAKE d \in Accounts
      <4>1. /\ VotesOf(account, d) = IF d = delegates[account] THEN receipts[account] ELSE 0
            /\ VotesOf(account, d)'
                 = IF d = delegates[account] THEN receipts[account] + amount ELSE 0
        BY <2>1, <3>1 DEF VotesOf
      <4>2. receipts[account] \in Nat /\ amount \in Nat
        BY <1>1, <1>3
      <4> QED
        BY <4>1, <4>2
    <3>3. votes' \in [Accounts -> Int]
      BY <1>1, <1>3, <3>1
    <3>4. \A d \in Accounts : votes'[d] = votes[d] + (VotesOf(account, d)' - VotesOf(account, d))
      <4> TAKE d \in Accounts
      <4>1. votes[d] \in Nat
        BY <1>1
      <4>2. votes'[d] = IF d = delegates[account] THEN votes[d] + amount ELSE votes[d]
        BY <1>1, <3>1
      <4> QED
        BY <1>3, <3>2, <4>1, <4>2
    <3> QED
      BY <1>6, <2>2, <3>3, <3>4 DEF VotesMove
  <2> QED
    BY <2>3, <2>4
<1>9. VotesAreDelegated' /\ votes' \in [Accounts -> Nat]
  BY <1>8, VotesFollow
<1>10. ReceiptsAreSignal'
  <2>1. PartialSum(receipts', NumAccounts) <= escrow'
    BY <1>1, <1>3, <1>4, <1>5
  <2>2. TypeOK'
    BY <1>2 DEF IInv, ResonanceInv
  <2> QED
    BY <1>5, <1>6, <1>7, <1>9, <2>1, <2>2 DEF ReceiptsAreSignal, SignalTypeOK
<1> QED
  BY <1>2, <1>9, <1>10 DEF SignalInv

LEMMA RemoveSignalManyStep ==
  ASSUME SignalInv, NEW account \in Accounts, NEW allocation \in [Strategies -> Nat],
         RemoveSignalMany(account, allocation)
  PROVE  SignalInv'
<1> DEFINE amount == TotalAmount(allocation)
           moved == [s \in Strategies |-> 0 - allocation[s]]
<1>1. /\ NumAccounts \in Nat /\ NumStrategies \in Nat
      /\ Accounts = 0 .. NumAccounts - 1 /\ Strategies = 0 .. NumStrategies - 1
      /\ gbxWallet \in [Accounts -> Nat] /\ escrow \in Nat
      /\ receipts \in [Accounts -> Nat]
      /\ delegates \in [Accounts -> Delegates]
      /\ votes \in [Accounts -> Nat]
      /\ weightOf \in [Strategies -> [Accounts -> Nat]]
      /\ resonanceSet \in BOOLEAN
      /\ PartialSum(receipts, NumAccounts) <= escrow /\ PartialSum(receipts, NumAccounts) \in Nat
  BY SignalTyped
<1>2. IInv'
  BY RemoveSignalForStep DEF SignalInv, RemoveSignalMany
<1>3. amount \in Nat
  BY <1>1, SumNatural DEF TotalAmount
<1>4. /\ weightOf' = [s \in Strategies |->
                        [weightOf[s] EXCEPT ![account] = weightOf[s][account] - allocation[s]]]
      /\ receipts' = [receipts EXCEPT ![account] = receipts[account] - amount]
      /\ gbxWallet' = [gbxWallet EXCEPT ![account] = gbxWallet[account] + amount]
      /\ escrow' = escrow - amount
      /\ amount <= receipts[account] /\ amount <= escrow
      /\ IF delegates[account] = NoDelegate THEN votes' = votes
         ELSE votes' = [votes EXCEPT ![delegates[account]] = votes[delegates[account]] - amount]
      /\ delegates' = delegates /\ resonanceSet' = resonanceSet
  BY DEF RemoveSignalMany, RemoveSignalFor, RemoveSignalWeight, BurnAndWithdraw
<1>5. PartialSum(moved, NumStrategies) = 0 - amount
  <2> DEFINE f == allocation
             n == NumStrategies
             z == [s \in 0 .. n - 1 |-> 0]
  <2>1. PartialSum(z, n) = 0
    BY <1>1, SumOfNothing
  <2>2. IsSumOf(z, f, moved, n)
    BY <1>1 DEF IsSumOf
  <2>3. PartialSum(f, n) \in Int /\ PartialSum(moved, n) \in Int
    BY <1>1, <2>2, SumInteger DEF IsSumOf
  <2> HIDE DEF moved, z, f
  <2>4. PartialSum(z, n) = PartialSum(f, n) + PartialSum(moved, n)
    BY <1>1, <2>2, SumAdd
  <2> QED
    BY <2>1, <2>3, <2>4 DEF TotalAmount, f
<1>6. /\ \A a \in Accounts : receipts'[a] = SignalOf(a)'
      /\ PartialSum(receipts', NumAccounts) = PartialSum(receipts, NumAccounts) - amount
  <2>1. moved \in [Strategies -> Int]
    OBVIOUS
  <2>2. weightOf' = [s \in Strategies |->
                       [weightOf[s] EXCEPT ![account] = weightOf[s][account] + moved[s]]]
    <3>1. \A s \in Strategies : weightOf[s][account] - allocation[s] = weightOf[s][account] + moved[s]
      BY <1>1
    <3> QED
      BY <1>1, <1>4, <3>1
  <2> HIDE DEF amount, moved
  <2>3. receipts' = [receipts EXCEPT
                       ![account] = receipts[account] + PartialSum(moved, NumStrategies)]
    <3>1. receipts[account] + PartialSum(moved, NumStrategies) = receipts[account] - amount
      BY <1>1, <1>3, <1>5
    <3> QED
      BY <1>4, <3>1
  <2>4. PartialSum(receipts', NumAccounts)
          = PartialSum(receipts, NumAccounts) + PartialSum(moved, NumStrategies)
    BY <2>1, <2>2, <2>3, ReceiptsFollow
  <2>5. \A a \in Accounts : receipts'[a] = SignalOf(a)'
    BY <2>1, <2>2, <2>3, ReceiptsFollow
  <2> QED
    BY <1>1, <1>3, <1>5, <2>4, <2>5
<1> HIDE DEF amount
<1>7. /\ receipts' \in [Accounts -> Nat] /\ gbxWallet' \in [Accounts -> Nat] /\ escrow' \in Nat
      /\ resonanceSet' \in BOOLEAN /\ delegates' \in [Accounts -> Delegates]
  <2>1. receipts' \in [Accounts -> Nat]
    BY <1>1, <1>3, <1>4
  <2>2. gbxWallet' \in [Accounts -> Nat]
    BY <1>1, <1>3, <1>4
  <2>3. escrow' \in Nat
    BY <1>1, <1>3, <1>4
  <2>4. resonanceSet' \in BOOLEAN /\ delegates' \in [Accounts -> Delegates]
    BY <1>1, <1>4
  <2> QED
    BY <2>1, <2>2, <2>3, <2>4
<1>8. VotesMove(account)
  <2>1. receipts'[account] = receipts[account] - amount /\ NoDelegate \notin Accounts
    BY <1>1, <1>4, SignalConstants
  <2>2. \A a \in Accounts : a # account => receipts'[a] = receipts[a] /\ delegates'[a] = delegates[a]
    BY <1>1, <1>4
  <2>3. CASE delegates[account] = NoDelegate
    <3>1. votes' = votes /\ delegates'[account] = NoDelegate
      BY <1>4, <2>3
    <3>2. \A d \in Accounts : VotesOf(account, d) = 0 /\ VotesOf(account, d)' = 0
      BY <2>1, <2>3, <3>1 DEF VotesOf
    <3> QED
      BY <1>1, <1>7, <2>2, <3>1, <3>2 DEF VotesMove
  <2>4. CASE delegates[account] # NoDelegate
    <3>1. /\ delegates[account] \in Accounts /\ delegates' = delegates
          /\ votes' = [votes EXCEPT ![delegates[account]] = votes[delegates[account]] - amount]
      BY <1>1, <1>4, <2>4 DEF Delegates
    <3>2. \A d \in Accounts :
            VotesOf(account, d)' - VotesOf(account, d)
              = IF d = delegates[account] THEN 0 - amount ELSE 0
      <4> TAKE d \in Accounts
      <4>1. /\ VotesOf(account, d) = IF d = delegates[account] THEN receipts[account] ELSE 0
            /\ VotesOf(account, d)'
                 = IF d = delegates[account] THEN receipts[account] - amount ELSE 0
        BY <2>1, <3>1 DEF VotesOf
      <4>2. receipts[account] \in Nat /\ amount \in Nat
        BY <1>1, <1>3
      <4> QED
        BY <4>1, <4>2
    <3>3. votes' \in [Accounts -> Int]
      BY <1>1, <1>3, <3>1
    <3>4. \A d \in Accounts : votes'[d] = votes[d] + (VotesOf(account, d)' - VotesOf(account, d))
      <4> TAKE d \in Accounts
      <4>1. votes[d] \in Nat
        BY <1>1
      <4>2. votes'[d] = IF d = delegates[account] THEN votes[d] - amount ELSE votes[d]
        BY <1>1, <3>1
      <4> QED
        BY <1>3, <3>2, <4>1, <4>2
    <3> QED
      BY <1>7, <2>2, <3>3, <3>4 DEF VotesMove
  <2> QED
    BY <2>3, <2>4
<1>9. VotesAreDelegated' /\ votes' \in [Accounts -> Nat]
  BY <1>8, VotesFollow
<1>10. ReceiptsAreSignal'
  <2>1. PartialSum(receipts', NumAccounts) <= escrow'
    BY <1>1, <1>3, <1>4, <1>6
  <2>2. TypeOK'
    BY <1>2 DEF IInv, ResonanceInv
  <2> QED
    BY <1>6, <1>7, <1>9, <2>1, <2>2 DEF ReceiptsAreSignal, SignalTypeOK
<1> QED
  BY <1>2, <1>9, <1>10 DEF SignalInv

(* Every other call of Resonance leaves the signal of every account alone. *)
OtherCalls == RevenueCalls \/ NewStrategies \/ OwnerCalls \/ RewardCalls \/ Tick

LEMMA SignalLeftAlone == OtherCalls => weightOf' = weightOf
<1>1. CASE RevenueCalls
  BY <1>1 DEF RevenueCalls, Route, DistributeRevenue, DepositRevenue, bribeVars
<1>2. CASE NewStrategies
  BY <1>2 DEF NewStrategies, AddStrategy, AddRewardToken
<1>3. CASE OwnerCalls
  BY <1>3 DEF OwnerCalls, SetResonanceRouter, SetBribeBps, KillStrategy, AddBribeRewardToken,
              AddRewardToken, bribeVars
<1>4. CASE RewardCalls
  BY <1>4 DEF RewardCalls, ClaimBribeRewards, ClaimBribeReward, FundBribe,
              ClaimRewards, ClaimReward, Claim, NotifyReward
<1>5. CASE Tick
  BY <1>5 DEF Tick, bribeVars
<1> QED
  BY <1>1, <1>2, <1>3, <1>4, <1>5 DEF OtherCalls

(* Nothing of SignalGBX changes, and no signal. *)
LEMMA SignalUntouchedStep ==
  ASSUME SignalInv, IInv', weightOf' = weightOf, UNCHANGED signalVars
  PROVE  SignalInv'
<1>1. TypeOK'
  BY DEF IInv, ResonanceInv
<1>2. SignalTypeOK'
  BY <1>1 DEF SignalInv, ReceiptsAreSignal, SignalTypeOK, signalVars, voteVars
<1>3. \A a \in Accounts : SignalOf(a)' = SignalOf(a)
  BY DEF SignalOf
<1>4. ReceiptsAreSignal'
  BY <1>2, <1>3 DEF SignalInv, ReceiptsAreSignal, signalVars
<1>5. VotesAreDelegated'
  BY DEF SignalInv, VotesAreDelegated, signalVars, voteVars
<1> QED
  BY <1>4, <1>5 DEF SignalInv

LEMMA OtherCallsStep ==
  ASSUME SignalInv, OtherCalls, UNCHANGED signalVars
  PROVE  SignalInv'
<1>1. IInv
  BY DEF SignalInv
<1>2. IInv'
  BY <1>1, TransactionStep, TickStep DEF OtherCalls
<1> QED
  BY <1>2, SignalLeftAlone, SignalUntouchedStep

(* A step that leaves all of Resonance alone. *)
LEMMA ResonanceUntouched ==
  ASSUME SignalInv, UNCHANGED vars
  PROVE  IInv' /\ weightOf' = weightOf
<1>1. IInv'
  BY NextIInv DEF SignalInv
<1> QED
  BY <1>1 DEF vars, bribeVars

LEMMA SetResonanceStep ==
  ASSUME SignalInv, SetResonance
  PROVE  SignalInv'
<1>1. /\ UNCHANGED vars /\ UNCHANGED <<gbxWallet, escrow, receipts, delegates, votes>>
      /\ resonanceSet' \in BOOLEAN
  BY DEF SetResonance, voteVars
<1>2. IInv' /\ weightOf' = weightOf
  BY <1>1, ResonanceUntouched
<1>3. TypeOK'
  BY <1>2 DEF IInv, ResonanceInv
<1>4. SignalTypeOK'
  BY <1>1, <1>3 DEF SignalInv, ReceiptsAreSignal, SignalTypeOK
<1>5. ReceiptsAreSignal'
  BY <1>1, <1>2, <1>4 DEF SignalInv, ReceiptsAreSignal, SignalOf
<1>6. VotesAreDelegated'
  BY <1>1 DEF SignalInv, VotesAreDelegated
<1> QED
  BY <1>2, <1>5, <1>6 DEF SignalInv

LEMMA DonateGBXStep ==
  ASSUME SignalInv, NEW account \in Accounts, NEW amount \in Nat, DonateGBX(account, amount)
  PROVE  SignalInv'
<1>1. /\ UNCHANGED vars /\ UNCHANGED <<receipts, delegates, votes, resonanceSet>>
      /\ amount <= gbxWallet[account]
      /\ gbxWallet' = [gbxWallet EXCEPT ![account] = gbxWallet[account] - amount]
      /\ escrow' = escrow + amount
  BY DEF DonateGBX, voteVars
<1>2. IInv' /\ weightOf' = weightOf
  BY <1>1, ResonanceUntouched
<1>3. TypeOK'
  BY <1>2 DEF IInv, ResonanceInv
<1>4. gbxWallet' \in [Accounts -> Nat] /\ escrow' \in Nat
  BY <1>1, SignalTyped
<1>5. SignalTypeOK'
  BY <1>1, <1>3, <1>4 DEF SignalInv, ReceiptsAreSignal, SignalTypeOK
<1>6. PartialSum(receipts', NumAccounts) <= escrow'
  BY <1>1, SignalTyped
<1>7. ReceiptsAreSignal'
  BY <1>1, <1>2, <1>5, <1>6 DEF SignalInv, ReceiptsAreSignal, SignalOf
<1>8. VotesAreDelegated'
  BY <1>1 DEF SignalInv, VotesAreDelegated
<1> QED
  BY <1>2, <1>7, <1>8 DEF SignalInv

LEMMA DelegateStep ==
  ASSUME SignalInv, NEW account \in Accounts, NEW delegatee \in Delegates,
         Delegate(account, delegatee)
  PROVE  SignalInv'
<1> DEFINE balance == receipts[account]
<1>1. /\ receipts \in [Accounts -> Nat] /\ votes \in [Accounts -> Nat]
      /\ delegates \in [Accounts -> Delegates]
      /\ balance \in Nat
  BY SignalTyped
<1>2. /\ UNCHANGED vars /\ UNCHANGED <<gbxWallet, escrow, receipts, resonanceSet>>
      /\ delegates' = [delegates EXCEPT ![account] = delegatee]
      /\ votes' = [d \in Accounts |-> votes[d] - (IF d = delegates[account] THEN balance ELSE 0)
                                               + (IF d = delegatee THEN balance ELSE 0)]
  BY DEF Delegate, MovedVotes
<1>3. IInv' /\ weightOf' = weightOf
  BY <1>2, ResonanceUntouched
<1>4. \A d \in Accounts :
        /\ VotesOf(account, d) = IF d = delegates[account] THEN balance ELSE 0
        /\ VotesOf(account, d)' = IF d = delegatee THEN balance ELSE 0
  BY <1>1, <1>2 DEF VotesOf
<1>5. \A a \in Accounts : a # account => receipts'[a] = receipts[a] /\ delegates'[a] = delegates[a]
  BY <1>1, <1>2
<1>6. VotesMove(account)
  <2> HIDE DEF balance
  <2>1. votes' \in [Accounts -> Int]
    BY <1>1, <1>2
  <2>2. \A d \in Accounts : votes'[d] = votes[d] + (VotesOf(account, d)' - VotesOf(account, d))
    <3> TAKE d \in Accounts
    <3>1. votes[d] \in Nat
      BY <1>1
    <3>2. votes'[d] = votes[d] - (IF d = delegates[account] THEN balance ELSE 0)
                        + (IF d = delegatee THEN balance ELSE 0)
      BY <1>2
    <3> QED
      BY <1>1, <1>4, <3>1, <3>2
  <2> QED
    BY <1>1, <1>2, <1>5, <2>1, <2>2 DEF VotesMove
<1>7. VotesAreDelegated' /\ votes' \in [Accounts -> Nat]
  BY <1>6, VotesFollow
<1>8. TypeOK'
  BY <1>3 DEF IInv, ResonanceInv
<1>9. SignalTypeOK'
  BY <1>1, <1>2, <1>7, <1>8 DEF SignalInv, ReceiptsAreSignal, SignalTypeOK
<1>10. ReceiptsAreSignal'
  BY <1>2, <1>3, <1>9 DEF SignalInv, ReceiptsAreSignal, SignalOf
<1> QED
  BY <1>3, <1>7, <1>10 DEF SignalInv

LEMMA SignalNextInv ==
  ASSUME SignalInv, [SignalNext]_allVars
  PROVE  SignalInv'
<1>1. \A x \in SignalAmounts : x \in Nat
  BY ResonanceConstants
<1>2. ASSUME NEW account \in Accounts, NEW allocation \in Allocations,
             AddSignalMany(account, allocation) \/ RemoveSignalMany(account, allocation)
      PROVE  SignalInv'
  <2>1. allocation \in [Strategies -> Nat]
    BY <1>1 DEF Allocations
  <2> QED
    BY <1>2, <2>1, AddSignalManyStep, RemoveSignalManyStep
<1>3. ASSUME NEW account \in Accounts, NEW amount \in SignalAmounts, DonateGBX(account, amount)
      PROVE  SignalInv'
  BY <1>1, <1>3, DonateGBXStep
<1>4. CASE UNCHANGED allVars
  <2>1. UNCHANGED vars /\ UNCHANGED signalVars
    BY <1>4 DEF allVars
  <2> QED
    BY <2>1, ResonanceUntouched, SignalUntouchedStep
<1> QED
  BY <1>2, <1>3, <1>4, SetResonanceStep, DelegateStep, OtherCallsStep DEF SignalNext, OtherCalls

LEMMA SignalInvariance == SignalSpec => []SignalInv
<1>1. SignalInv /\ [SignalNext]_allVars => SignalInv'
  BY SignalNextInv
<1> QED
  BY <1>1, SignalInitInv, PTL DEF SignalSpec

-----------------------------------------------------------------------------
(* Withdrawing. *)

(* What of its signal an account may ask for: not nothing. *)
OwnSignal(account) ==
  {allocation \in [Strategies -> Nat] :
     /\ TotalAmount(allocation) # 0
     /\ \A s \in Strategies : allocation[s] <= weightOf[s][account]}

ExitGuards(account, allocation) ==
  /\ resonanceSet
  /\ TotalAmount(allocation) # 0
  /\ TotalAmount(allocation) <= receipts[account]
  /\ TotalAmount(allocation) <= escrow
  /\ Touched(allocation) # {}
  /\ Touched(allocation) \subseteq registered
  /\ RevenueIndexFits
  /\ LiveAmount(allocation) <= totalSignalWeight
  /\ UpdateFits(Touched(allocation))
  /\ \A s \in Strategies : allocation[s] <= weightOf[s][account] /\ allocation[s] <= bribeWeight[s]

ExitTaken(account, allocation) ==
  /\ revenue' = RevenueSettled(Touched(allocation))
  /\ totalSignalWeight' = totalSignalWeight - LiveAmount(allocation)
  /\ reward' = RewardsSettledFor(account, Touched(allocation))
  /\ bribeWeight' = [s \in Strategies |-> bribeWeight[s] - allocation[s]]
  /\ weightOf' = [s \in Strategies |-> [weightOf[s] EXCEPT ![account] = @ - allocation[s]]]
  /\ receipts' = [receipts EXCEPT ![account] = @ - TotalAmount(allocation)]
  /\ escrow' = escrow - TotalAmount(allocation)
  /\ gbxWallet' = [gbxWallet EXCEPT ![account] = @ + TotalAmount(allocation)]
  /\ votes' = IF delegates[account] = NoDelegate THEN votes
              ELSE [votes EXCEPT ![delegates[account]] = @ - TotalAmount(allocation)]
  /\ UNCHANGED <<now, rewardTokens, bribeBalance, lifecycleVars, configVars, usdgVars,
                 delegates, resonanceSet>>

(* The guards are all that a withdrawal asks for. *)
LEMMA ExitIsItsGuards ==
  ASSUME NEW account, NEW allocation
  PROVE  RemoveSignalMany(account, allocation)
           <=> ExitGuards(account, allocation) /\ ExitTaken(account, allocation)
BY DEF RemoveSignalMany, RemoveSignalFor, RemoveSignalWeight, BurnAndWithdraw,
       ExitGuards, ExitTaken

(* Signal is only there once Resonance is bound, so its exit is too. *)
BoundBeforeReceipts == \A a \in Accounts : receipts[a] = 0 \/ resonanceSet

LEMMA BindingInvariance == SignalSpec => []BoundBeforeReceipts
<1>1. SignalInit => BoundBeforeReceipts
  BY DEF SignalInit, BoundBeforeReceipts
<1>2. BoundBeforeReceipts /\ [SignalNext]_allVars => BoundBeforeReceipts'
  <2> SUFFICES ASSUME BoundBeforeReceipts, [SignalNext]_allVars PROVE BoundBeforeReceipts'
    OBVIOUS
  <2>1. ASSUME NEW account \in Accounts, NEW allocation \in Allocations,
               AddSignalMany(account, allocation) \/ RemoveSignalMany(account, allocation)
        PROVE  BoundBeforeReceipts'
    BY <2>1 DEF AddSignalMany, RemoveSignalMany, BoundBeforeReceipts
  <2>2. CASE SetResonance
    BY <2>2 DEF SetResonance, BoundBeforeReceipts
  <2>3. ASSUME UNCHANGED <<receipts, resonanceSet>> PROVE BoundBeforeReceipts'
    BY <2>3 DEF BoundBeforeReceipts
  <2> QED
    BY <2>1, <2>2, <2>3 DEF SignalNext, Delegate, DonateGBX, signalVars, allVars
<1> QED
  BY <1>1, <1>2, PTL DEF SignalSpec

LEMMA ExitIsOpen ==
  ASSUME SignalInv, BoundBeforeReceipts, NEW a \in Accounts, NEW allocation \in OwnSignal(a)
  PROVE  ExitGuards(a, allocation)
<1> DEFINE n == NumStrategies
           table == SignalTable(a)
           shares == [s \in Strategies |-> IF s \in live THEN allocation[s] ELSE 0]
<1>1. /\ n \in Nat /\ NumAccounts \in Nat
      /\ Strategies = 0 .. n - 1 /\ Accounts = 0 .. NumAccounts - 1
      /\ receipts \in [Accounts -> Nat]
      /\ weightOf \in [Strategies -> [Accounts -> Nat]]
      /\ escrow \in Nat
      /\ receipts[a] = PartialSum(table, n)
      /\ PartialSum(receipts, NumAccounts) <= escrow
  BY SignalTyped
<1>2. /\ allocation \in [0 .. n - 1 -> Nat]
      /\ TotalAmount(allocation) # 0
      /\ \A s \in Strategies : allocation[s] <= weightOf[s][a]
  BY <1>1 DEF OwnSignal
<1>3. BribeInv /\ ResonanceInv /\ UpdatesFit
  BY PromisesKept DEF SignalInv, IInv, ResonancePromises
<1>4. TotalAmount(allocation) \in Nat /\ TotalAmount(allocation) <= receipts[a]
  <2>1. table \in [0 .. n - 1 -> Nat] /\ \A s \in 0 .. n - 1 : allocation[s] <= table[s]
    BY <1>1, <1>2 DEF SignalTable
  <2> HIDE DEF table, n
  <2>2. PartialSum(allocation, n) \in Nat /\ PartialSum(allocation, n) <= PartialSum(table, n)
    BY <1>1, <1>2, <2>1, SumMonotone
  <2> QED
    BY <1>1, <2>2 DEF TotalAmount, n
<1>5. resonanceSet
  BY <1>1, <1>2, <1>4 DEF BoundBeforeReceipts
<1>6. TotalAmount(allocation) <= escrow
  <2>1. PartialSum(receipts, NumAccounts) \in Nat /\ receipts[a] <= PartialSum(receipts, NumAccounts)
    BY <1>1, SumTerm
  <2> QED
    BY <1>1, <1>4, <2>1
<1>7. \A s \in Strategies : allocation[s] <= bribeWeight[s] /\ bribeWeight[s] \in Nat
  <2> TAKE s \in Strategies
  <2>1. weightOf[s] \in [0 .. NumAccounts - 1 -> Nat] /\ a \in 0 .. NumAccounts - 1
    BY <1>1
  <2>2. /\ PartialSum(weightOf[s], NumAccounts) \in Nat
        /\ weightOf[s][a] <= PartialSum(weightOf[s], NumAccounts)
    BY <1>1, <2>1, SumTerm
  <2>3. bribeWeight[s] = PartialSum(weightOf[s], NumAccounts)
    BY <1>3 DEF BribeInv, BribeWeightIsSum
  <2>4. allocation[s] \in Nat /\ weightOf[s][a] \in Nat /\ allocation[s] <= weightOf[s][a]
    BY <1>1, <1>2
  <2> QED
    BY <2>2, <2>3, <2>4
<1>8. Touched(allocation) # {}
  <2> SUFFICES ASSUME Touched(allocation) = {} PROVE FALSE
    OBVIOUS
  <2>1. \A s \in 0 .. n - 1 : allocation[s] = 0
    BY <1>1 DEF Touched
  <2>2. allocation \in [0 .. n - 1 -> Int]
    BY <1>2
  <2> HIDE DEF n
  <2>3. PartialSum(allocation, n) = 0
    BY <1>1, <2>1, <2>2, SumZero
  <2> QED
    BY <1>2, <2>3 DEF TotalAmount, n
<1>9. Touched(allocation) \subseteq registered
  <2> SUFFICES ASSUME NEW s \in Strategies, allocation[s] # 0, s \notin registered PROVE FALSE
    BY DEF Touched
  <2>1. bribeWeight[s] = 0 /\ allocation[s] \in Nat
    BY <1>1, <1>2, <1>3 DEF ResonanceInv
  <2> QED
    BY <1>7, <2>1
<1>10. LiveAmount(allocation) <= totalSignalWeight
  <2>1. shares \in [0 .. n - 1 -> Nat]
    BY <1>1, <1>2
  <2>2. ActiveWeights \in [0 .. n - 1 -> Nat] /\ totalSignalWeight = PartialSum(ActiveWeights, n)
    BY <1>3, RevenueFacts
  <2>3. \A s \in 0 .. n - 1 : shares[s] <= ActiveWeights[s]
    BY <1>1, <1>7 DEF ActiveWeights
  <2>4. LiveAmount(allocation) = PartialSum(shares, n)
    BY DEF LiveAmount
  <2> HIDE DEF shares, n
  <2>5. PartialSum(shares, n) <= PartialSum(ActiveWeights, n)
    BY <1>1, <2>1, <2>2, <2>3, SumMonotone
  <2> QED
    BY <2>2, <2>4, <2>5
<1>11. RevenueIndexFits /\ UpdateFits(Touched(allocation))
  <2>1. \A s \in Strategies : rewardTokens[s] \subseteq Tokens
    BY <1>3 DEF BribeInv, BribeTypeOK
  <2> QED
    BY <1>3, <2>1 DEF UpdatesFit, UpdateFits, Touched
<1> QED
  BY <1>2, <1>4, <1>5, <1>6, <1>7, <1>8, <1>9, <1>10, <1>11 DEF ExitGuards

-----------------------------------------------------------------------------
(* The theorems. *)

(* An account's sGBX is its signal over all strategies, dead ones included, *)
(* and SignalGBX holds the GBX behind every unit of it, whatever is         *)
(* deposited, withdrawn or donated in whatever batches (SignalGBX.sol:      *)
(* addSignalMany, removeSignalMany, _depositAndMint, _burnAndWithdraw).     *)
THEOREM ReceiptsStaySignal == SignalSpec => []ReceiptsAreSignal
<1>1. SignalInv => ReceiptsAreSignal
  BY DEF SignalInv
<1> QED
  BY <1>1, SignalInvariance, PTL

(* The votes of an account are the sGBX delegated to it, over deposits,     *)
(* withdrawals, redelegation and the automatic self-delegation.             *)
THEOREM VotesStayDelegated == SignalSpec => []VotesAreDelegated
<1>1. SignalInv => VotesAreDelegated
  BY DEF SignalInv
<1> QED
  BY <1>1, SignalInvariance, PTL

(* Every withdrawal of an account's own signal is open to it, in every      *)
(* reachable state, from live strategies and dead ones alike: none of the   *)
(* requires and checked subtractions of removeSignalMany and of what it     *)
(* calls in Resonance, the Bribes and the token can revert it.  ExitTaken   *)
(* only assigns, so this is what ExitsStayOpen says with ENABLED, and of    *)
(* every part of the signal, not only of the whole.                         *)
THEOREM ExitsAreNeverBlocked ==
  SignalSpec => [](\A a \in Accounts : \A allocation \in OwnSignal(a) : ExitGuards(a, allocation))
<1>1. SignalInv /\ BoundBeforeReceipts
        => \A a \in Accounts : \A allocation \in OwnSignal(a) : ExitGuards(a, allocation)
  BY ExitIsOpen
<1> QED
  BY <1>1, SignalInvariance, BindingInvariance, PTL

(* What Resonance and its Bribes promise of any signal, they keep for the   *)
(* signal that SignalGBX brings them.                                       *)
THEOREM ResonanceSoundUnderSignal == SignalSpec => []ResonancePromises
<1>1. SignalInv => ResonancePromises
  BY PromisesKept DEF SignalInv
<1> QED
  BY <1>1, SignalInvariance, PTL
=============================================================================
