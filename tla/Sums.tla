-------------------------------- MODULE Sums --------------------------------
(***************************************************************************)
(* Sums of the ledgers the contracts keep: one number per slot, account or *)
(* Strategy, the owners being numbered from zero.  The contracts store the *)
(* totals and never compute a sum, so this module models no code: it is    *)
(* the vocabulary in which the invariants compare a stored total with the  *)
(* entries it summarises.                                                  *)
(*                                                                         *)
(* The sum is a recursive function over an initial segment of Nat, rather  *)
(* than a fold over a set, because the facts about it are then provable;   *)
(* they follow it.  The induction they need is the one over a subset of    *)
(* Nat, which is first order: InductiveSet.  Each lemma applies it to the  *)
(* set of lengths for which the lemma holds.                               *)
(***************************************************************************)
EXTENDS Integers, WellFoundedInduction, TLAPS

(* f[0] + f[1] + ... + f[n - 1] *)
PartialSum(f, n) ==
  LET S[k \in 0 .. n] == IF k = 0 THEN 0 ELSE S[k - 1] + f[k - 1]
  IN  S[n]

(* The smaller of two integers: Solidity's Math.min. *)
Least(a, b) == IF a <= b THEN a ELSE b

-----------------------------------------------------------------------------
(* What sums do, for the proofs about the ledgers. *)

(***************************************************************************)
(* A well-founded relation that contains < has no infinite descent, so a   *)
(* set of naturals that is closed under successor and holds 0 is Nat.      *)
(***************************************************************************)
LEMMA InductiveSetOf ==
  ASSUME NEW R, IsWellFoundedOn(R, Nat),
         \A x, y \in Nat : x < y => <<x, y>> \in R,
         NEW T \in SUBSET Nat,
         0 \in T,
         \A n \in T : n + 1 \in T
  PROVE  T = Nat
<1> SUFFICES ASSUME Nat \ T # {} PROVE FALSE
  OBVIOUS
<1>1. PICK x \in Nat \ T : \A y \in Nat \ T : ~(<<y, x>> \in R)
  BY WFMin
<1>2. x - 1 \in Nat /\ x - 1 < x
  OBVIOUS
<1>3. x - 1 \in Nat \ T
  BY <1>2
<1> QED
  BY <1>1, <1>2, <1>3

LEMMA InductiveSet ==
  ASSUME NEW T \in SUBSET Nat, 0 \in T, \A n \in T : n + 1 \in T
  PROVE  T = Nat
<1>1. \A x, y \in Nat : x < y => <<x, y>> \in OpToRel(<, Nat)
  BY DEF OpToRel
<1> HIDE DEF OpToRel
<1> QED
  BY <1>1, InductiveSetOf, NatLessThanWellFounded

(***************************************************************************)
(* The recursive function in PartialSum exists and has one solution.       *)
(***************************************************************************)
LEMMA SumTable ==
  ASSUME NEW f
  PROVE  \A n \in Nat : \E S : S = [k \in 0 .. n |-> IF k = 0 THEN 0 ELSE S[k - 1] + f[k - 1]]
<1> DEFINE Table(S, n) == S = [k \in 0 .. n |-> IF k = 0 THEN 0 ELSE S[k - 1] + f[k - 1]]
           T == {n \in Nat : \E S : Table(S, n)}
<1>1. 0 \in T
  <2>1. Table([k \in 0 .. 0 |-> 0], 0)
    OBVIOUS
  <2> QED
    BY <2>1
<1>2. ASSUME NEW n \in T PROVE n + 1 \in T
  <2>1. PICK S : Table(S, n)
    OBVIOUS
  <2> DEFINE S1 == [k \in 0 .. n + 1 |-> IF k <= n THEN S[k] ELSE S[n] + f[n]]
  <2>2. \A k \in 0 .. n + 1 : S1[k] = IF k = 0 THEN 0 ELSE S1[k - 1] + f[k - 1]
    <3> TAKE k \in 0 .. n + 1
    <3>1. CASE k = 0
      BY <2>1, <3>1
    <3>2. CASE k \in 1 .. n
      BY <2>1, <3>2
    <3>3. CASE k = n + 1
      BY <3>3
    <3> QED
      BY <3>1, <3>2, <3>3
  <2>3. Table(S1, n + 1)
    BY <2>2
  <2>4. \E S2 : Table(S2, n + 1)
    BY <2>3
  <2> QED
    BY <2>4
<1> HIDE DEF T
<1>3. T = Nat
  <2>1. T \in SUBSET Nat
    BY DEF T
  <2> QED
    BY <1>1, <1>2, <2>1, InductiveSet
<1> QED
  BY <1>3 DEF T

IsSumTable(S, f, n) ==
  \A k \in 0 .. n : S[k] = IF k = 0 THEN 0 ELSE S[k - 1] + f[k - 1]

LEMMA SumTableUnique ==
  ASSUME NEW f, NEW m \in Nat, NEW n \in Nat, m <= n,
         NEW S, IsSumTable(S, f, m), NEW S2, IsSumTable(S2, f, n)
  PROVE  S[m] = S2[m]
<1> DEFINE T == {k \in Nat : k <= m => S[k] = S2[k]}
<1>1. 0 \in T
  BY DEF IsSumTable
<1>2. ASSUME NEW k \in T PROVE k + 1 \in T
  <2>1. CASE k + 1 <= m
    <3>1. S[k + 1] = S[k] + f[k]
      BY <2>1 DEF IsSumTable
    <3>2. S2[k + 1] = S2[k] + f[k]
      BY <2>1 DEF IsSumTable
    <3> QED
      BY <2>1, <3>1, <3>2
  <2> QED
    BY <2>1
<1> HIDE DEF T
<1>3. T = Nat
  <2>1. T \in SUBSET Nat
    BY DEF T
  <2> QED
    BY <1>1, <1>2, <2>1, InductiveSet
<1>4. \A k \in Nat : k <= m => S[k] = S2[k]
  BY <1>3 DEF T
<1> QED
  BY <1>4

(***************************************************************************)
(* The two equations that characterise the sum.                            *)
(***************************************************************************)
LEMMA SumStep ==
  ASSUME NEW f
  PROVE  /\ PartialSum(f, 0) = 0
         /\ \A n \in Nat : PartialSum(f, n + 1) = PartialSum(f, n) + f[n]
<1> DEFINE Table(S, n) == S = [k \in 0 .. n |-> IF k = 0 THEN 0 ELSE S[k - 1] + f[k - 1]]
           Sol(n) == CHOOSE S : Table(S, n)
<1>0. \A n \in Nat : Table(Sol(n), n)
  BY SumTable
<1>1. \A n \in Nat : IsSumTable(Sol(n), f, n)
  <2> SUFFICES ASSUME NEW n \in Nat, NEW k \in 0 .. n
               PROVE  Sol(n)[k] = IF k = 0 THEN 0 ELSE Sol(n)[k - 1] + f[k - 1]
    BY DEF IsSumTable
  <2> HIDE DEF Sol
  <2> QED
    BY <1>0
<1>2. \A n \in Nat : PartialSum(f, n) = Sol(n)[n]
  BY DEF PartialSum
<1> HIDE DEF Sol
<1>3. PartialSum(f, 0) = 0
  BY <1>1, <1>2 DEF IsSumTable
<1>4. ASSUME NEW n \in Nat
      PROVE  PartialSum(f, n + 1) = PartialSum(f, n) + f[n]
  <2>1. Sol(n + 1)[n + 1] = Sol(n + 1)[n] + f[n]
    BY <1>1 DEF IsSumTable
  <2>2. Sol(n)[n] = Sol(n + 1)[n]
    <3>1. n \in Nat /\ n + 1 \in Nat /\ n <= n + 1
      OBVIOUS
    <3>2. IsSumTable(Sol(n), f, n) /\ IsSumTable(Sol(n + 1), f, n + 1)
      BY <1>1
    <3> QED
      BY <3>1, <3>2, SumTableUnique
  <2> QED
    BY <1>2, <2>1, <2>2
<1> QED
  BY <1>3, <1>4

(***************************************************************************)
(* Induction over the length of a sum.                                     *)
(***************************************************************************)
LEMMA SumType ==
  ASSUME NEW N \in Nat, NEW f \in [0 .. N - 1 -> Int]
  PROVE  \A n \in 0 .. N : PartialSum(f, n) \in Int
<1> DEFINE P(n) == PartialSum(f, n) \in Int
           T == {n \in Nat : n <= N => P(n)}
<1>1. 0 \in T
  BY SumStep
<1>2. ASSUME NEW n \in T PROVE n + 1 \in T
  <2> SUFFICES ASSUME n + 1 <= N PROVE P(n + 1)
    OBVIOUS
  <2>1. PartialSum(f, n + 1) = PartialSum(f, n) + f[n]
    BY SumStep
  <2> QED
    BY <2>1
<1> HIDE DEF T
<1>3. T = Nat
  <2>1. T \in SUBSET Nat
    BY DEF T
  <2> QED
    BY <1>1, <1>2, <2>1, InductiveSet
<1> QED
  BY <1>3 DEF T

(* A sum of terms between 0 and a bound lies between 0 and that many times  *)
(* the bound.                                                               *)
LEMMA SumBounds ==
  ASSUME NEW N \in Nat, NEW f \in [0 .. N - 1 -> Nat], NEW b \in Nat,
         \A i \in 0 .. N - 1 : f[i] <= b
  PROVE  PartialSum(f, N) \in Nat /\ PartialSum(f, N) <= N * b
<1> DEFINE P(n) == PartialSum(f, n) \in Nat /\ PartialSum(f, n) <= n * b
           T == {n \in Nat : n <= N => P(n)}
<1>1. 0 \in T
  BY SumStep
<1>2. ASSUME NEW n \in T PROVE n + 1 \in T
  <2> SUFFICES ASSUME n + 1 <= N PROVE P(n + 1)
    OBVIOUS
  <2>1. PartialSum(f, n + 1) = PartialSum(f, n) + f[n]
    BY SumStep
  <2>2. (n + 1) * b = n * b + b
    OBVIOUS
  <2> QED
    BY <2>1, <2>2
<1> HIDE DEF T
<1>3. T = Nat
  <2>1. T \in SUBSET Nat
    BY DEF T
  <2> QED
    BY <1>1, <1>2, <2>1, InductiveSet
<1> QED
  BY <1>3 DEF T

(* No term exceeds a sum of naturals. *)
LEMMA SumTerm ==
  ASSUME NEW N \in Nat, NEW f \in [0 .. N - 1 -> Nat], NEW j \in 0 .. N - 1
  PROVE  PartialSum(f, N) \in Nat /\ f[j] <= PartialSum(f, N)
<1> DEFINE P(n) == PartialSum(f, n) \in Nat /\ (j < n => f[j] <= PartialSum(f, n))
           T == {n \in Nat : n <= N => P(n)}
<1>1. 0 \in T
  BY SumStep
<1>2. ASSUME NEW n \in T PROVE n + 1 \in T
  <2> SUFFICES ASSUME n + 1 <= N PROVE P(n + 1)
    OBVIOUS
  <2>1. PartialSum(f, n + 1) = PartialSum(f, n) + f[n]
    BY SumStep
  <2> QED
    BY <2>1
<1> HIDE DEF T
<1>3. T = Nat
  <2>1. T \in SUBSET Nat
    BY DEF T
  <2> QED
    BY <1>1, <1>2, <2>1, InductiveSet
<1> QED
  BY <1>3 DEF T

(***************************************************************************)
(* Changing one entry of a ledger changes its sum by the difference.       *)
(***************************************************************************)
SameExceptAt(f, g, j, N) ==
  /\ f \in [0 .. N - 1 -> Int]
  /\ g \in [0 .. N - 1 -> Int]
  /\ \A i \in 0 .. N - 1 : i # j => g[i] = f[i]

LEMMA SumUpdate ==
  ASSUME NEW N \in Nat, NEW j \in 0 .. N - 1, NEW f, NEW g,
         SameExceptAt(f, g, j, N)
  PROVE  PartialSum(g, N) = PartialSum(f, N) + (g[j] - f[j])
<1>0. f \in [0 .. N - 1 -> Int] /\ g \in [0 .. N - 1 -> Int]
  BY DEF SameExceptAt
<1> DEFINE P(n) == PartialSum(g, n) = PartialSum(f, n) + (IF j < n THEN g[j] - f[j] ELSE 0)
           T == {n \in Nat : n <= N => P(n)}
<1>1. 0 \in T
  BY <1>0, SumStep
<1>2. ASSUME NEW n \in T PROVE n + 1 \in T
  <2> SUFFICES ASSUME n + 1 <= N PROVE P(n + 1)
    OBVIOUS
  <2>1. /\ PartialSum(f, n + 1) = PartialSum(f, n) + f[n]
        /\ PartialSum(g, n + 1) = PartialSum(g, n) + g[n]
    BY SumStep
  <2>2. PartialSum(f, n) \in Int /\ f[n] \in Int /\ f[j] \in Int /\ g[j] \in Int
    <3>1. n \in 0 .. N /\ n \in 0 .. N - 1
      OBVIOUS
    <3>2. PartialSum(f, n) \in Int
      BY <1>0, <3>1, SumType
    <3> QED
      BY <1>0, <3>1, <3>2
  <2>3. n # j => g[n] = f[n]
    BY DEF SameExceptAt
  <2> QED
    BY <2>1, <2>2, <2>3
<1> HIDE DEF T
<1>3. T = Nat
  <2>1. T \in SUBSET Nat
    BY DEF T
  <2> QED
    BY <1>1, <1>2, <2>1, InductiveSet
<1>4. N \in T
  BY <1>3
<1>5. P(N)
  BY <1>4 DEF T
<1> QED
  BY <1>5

(***************************************************************************)
(* The sum is additive.                                                    *)
(***************************************************************************)
IsSumOf(h, f, g, N) ==
  /\ f \in [0 .. N - 1 -> Int]
  /\ g \in [0 .. N - 1 -> Int]
  /\ h \in [0 .. N - 1 -> Int]
  /\ \A i \in 0 .. N - 1 : h[i] = f[i] + g[i]

LEMMA SumAdd ==
  ASSUME NEW N \in Nat, NEW f, NEW g, NEW h, IsSumOf(h, f, g, N)
  PROVE  PartialSum(h, N) = PartialSum(f, N) + PartialSum(g, N)
<1> DEFINE P(n) == PartialSum(h, n) = PartialSum(f, n) + PartialSum(g, n)
           T == {n \in Nat : n <= N => P(n)}
<1>0. /\ f \in [0 .. N - 1 -> Int]
      /\ g \in [0 .. N - 1 -> Int]
      /\ h \in [0 .. N - 1 -> Int]
      /\ \A i \in 0 .. N - 1 : h[i] = f[i] + g[i]
  BY DEF IsSumOf
<1>1. 0 \in T
  BY SumStep
<1>2. ASSUME NEW n \in T PROVE n + 1 \in T
  <2> SUFFICES ASSUME n + 1 <= N PROVE P(n + 1)
    OBVIOUS
  <2>1. /\ PartialSum(f, n + 1) = PartialSum(f, n) + f[n]
        /\ PartialSum(g, n + 1) = PartialSum(g, n) + g[n]
        /\ PartialSum(h, n + 1) = PartialSum(h, n) + h[n]
    BY SumStep
  <2>2. /\ PartialSum(f, n) \in Int
        /\ PartialSum(g, n) \in Int
        /\ PartialSum(h, n) \in Int
    <3>1. n \in 0 .. N
      OBVIOUS
    <3>2. PartialSum(f, n) \in Int
      BY <1>0, <3>1, SumType
    <3>3. PartialSum(g, n) \in Int
      BY <1>0, <3>1, SumType
    <3>4. PartialSum(h, n) \in Int
      BY <1>0, <3>1, SumType
    <3> QED
      BY <3>2, <3>3, <3>4
  <2>3. h[n] = f[n] + g[n] /\ f[n] \in Int /\ g[n] \in Int
    BY <1>0
  <2> QED
    BY <2>1, <2>2, <2>3
<1> HIDE DEF T
<1>3. T = Nat
  <2>1. T \in SUBSET Nat
    BY DEF T
  <2> QED
    BY <1>1, <1>2, <2>1, InductiveSet
<1> QED
  BY <1>3 DEF T

(* An empty ledger sums to zero. *)
LEMMA SumZero ==
  ASSUME NEW N \in Nat, NEW f \in [0 .. N - 1 -> Int],
         \A i \in 0 .. N - 1 : f[i] = 0
  PROVE  PartialSum(f, N) = 0
<1> DEFINE P(n) == PartialSum(f, n) = 0
           T == {n \in Nat : n <= N => P(n)}
<1>1. 0 \in T
  BY SumStep
<1>2. ASSUME NEW n \in T PROVE n + 1 \in T
  <2> SUFFICES ASSUME n + 1 <= N PROVE P(n + 1)
    OBVIOUS
  <2>1. PartialSum(f, n + 1) = PartialSum(f, n) + f[n]
    BY SumStep
  <2> QED
    BY <2>1
<1> HIDE DEF T
<1>3. T = Nat
  <2>1. T \in SUBSET Nat
    BY DEF T
  <2> QED
    BY <1>1, <1>2, <2>1, InductiveSet
<1> QED
  BY <1>3 DEF T
=============================================================================
