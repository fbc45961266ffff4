---------------------------- MODULE ResonanceProofs ----------------------------
(***************************************************************************)
(* Resonance and its Bribes, for every number of strategies, accounts and  *)
(* tokens, every amount and every value of the configuration.              *)
(*                                                                         *)
(* The first part is about the stream and index that both are built from.  *)
(* What a participant has earned by now is rounded, so the solvency of a   *)
(* stream at a timestamp is not inductive: time alone may lift several     *)
(* roundings at once.  The invariant of a stream is stated at its last     *)
(* update instead, where nothing moves while time passes, and in units of  *)
(* 1 / PRECISION, where nothing has been rounded yet: what is owed, what   *)
(* the weights are behind the stored index, and all that is to stream.     *)
(*                                                                         *)
(* Nor are RevenueBacked and RewardsBacked, which speak of what could be   *)
(* claimed now: the invariant IInv says instead that every stream is sound *)
(* for the weights its revenue or reward is shared out by.  That these     *)
(* weights add up to the total the contract divides by, SignalTotals, is   *)
(* what makes an update of the index sound, and is part of the invariant;  *)
(* so is that a token, or a strategy, that has not been added yet has      *)
(* nothing that an update would have to settle.                            *)
(***************************************************************************)
EXTENDS Resonance, FiniteSetTheorems

-----------------------------------------------------------------------------
(* One stream.                                                             *)

(* What the books hold for each participant at the stored index. *)
Booked(k, w) ==
  [p \in DOMAIN k.owed |-> REWARD_PRECISION * k.owed[p] + w[p] * (k.stored - k.paid[p])]

(* What streams after the last update. *)
Unstreamed(k) == (k.finish - k.updated) * k.rate

StreamClocks(k, t) == k.updated <= k.finish /\ k.updated <= t

IndexesBehind(k) == \A p \in DOMAIN k.paid : k.paid[p] <= k.stored

Backed(k, w, n, balance) ==
  PartialSum(Booked(k, w), n) + REWARD_PRECISION * Unstreamed(k) <= REWARD_PRECISION * balance

(* The index grows by no more than all that was ever notified. *)
IndexBounded(k) ==
  /\ k.stored + REWARD_PRECISION * Unstreamed(k) <= REWARD_PRECISION * k.notified
  /\ k.notified <= MAX_LIFETIME_AMOUNT

(* The invariant of one stream of n participants with weights w, whose      *)
(* contract holds balance.                                                  *)
StreamSound(k, t, w, n, balance) ==
  /\ k \in Stream(0 .. n - 1)
  /\ w \in [0 .. n - 1 -> Nat]
  /\ StreamClocks(k, t)
  /\ IndexesBehind(k)
  /\ Backed(k, w, n, balance)
  /\ IndexBounded(k)

-----------------------------------------------------------------------------
(* Arithmetic. *)

LEMMA FloorBounds ==
  ASSUME NEW a \in Nat, NEW b \in Nat, b > 0
  PROVE  a \div b \in Nat /\ a \div b <= a /\ b * (a \div b) <= a
OBVIOUS

LEMMA ProductType ==
  ASSUME NEW a \in Nat, NEW b \in Nat
  PROVE  a * b \in Nat
OBVIOUS

LEMMA ProductMonotone ==
  ASSUME NEW a \in Nat, NEW b \in Nat, NEW c \in Nat, a <= b
  PROVE  a * c <= b * c /\ c * a <= c * b
OBVIOUS

LEMMA ProductDistributes ==
  ASSUME NEW a \in Int, NEW b \in Int, NEW c \in Int
  PROVE  /\ a * (b + c) = a * b + a * c
         /\ a * (b - c) = a * b - a * c
         /\ (b + c) * a = b * a + c * a
         /\ (b - c) * a = b * a - c * a
OBVIOUS

LEMMA Telescope ==
  ASSUME NEW a \in Int, NEW b \in Int, NEW c \in Int, NEW d \in Int
  PROVE  /\ a * (b - c) = a * (d - c) + a * (b - d)
         /\ a * (d - c) \in Int
         /\ a * (b - d) \in Int
OBVIOUS

LEMMA ScaledSum ==
  ASSUME NEW a \in Nat, NEW b \in Nat, NEW c \in Nat, NEW d \in Nat, c * b <= d
  PROVE  c * (a + b) <= c * a + d
<1>1. c * (a + b) = c * a + c * b /\ c * a \in Nat /\ c * b \in Nat
  OBVIOUS
<1> QED
  BY <1>1

LEMMA SumNatural ==
  ASSUME NEW n \in Nat, NEW f \in [0 .. n - 1 -> Nat]
  PROVE  PartialSum(f, n) \in Nat
<1>1. CASE n = 0
  BY <1>1, SumStep
<1>2. CASE n # 0
  <2>1. 0 \in 0 .. n - 1
    BY <1>2
  <2> QED
    BY <2>1, SumTerm
<1> QED
  BY <1>1, <1>2

LEMMA SumInteger ==
  ASSUME NEW n \in Nat, NEW f \in [0 .. n - 1 -> Int]
  PROVE  PartialSum(f, n) \in Int
<1>1. n \in 0 .. n
  OBVIOUS
<1> QED
  BY <1>1, SumType

(* Larger terms, larger sum. *)
LEMMA SumMonotone ==
  ASSUME NEW n \in Nat, NEW f \in [0 .. n - 1 -> Nat], NEW g \in [0 .. n - 1 -> Nat],
         \A p \in 0 .. n - 1 : f[p] <= g[p]
  PROVE  PartialSum(f, n) \in Nat /\ PartialSum(g, n) \in Nat /\ PartialSum(f, n) <= PartialSum(g, n)
<1> DEFINE d == [p \in 0 .. n - 1 |-> g[p] - f[p]]
<1>1. d \in [0 .. n - 1 -> Nat]
  OBVIOUS
<1>2. IsSumOf(g, f, d, n)
  BY DEF IsSumOf
<1> HIDE DEF d
<1>3. PartialSum(g, n) = PartialSum(f, n) + PartialSum(d, n)
  BY <1>2, SumAdd
<1>4. PartialSum(f, n) \in Nat /\ PartialSum(g, n) \in Nat /\ PartialSum(d, n) \in Nat
  BY <1>1, SumNatural
<1> QED
  BY <1>3, <1>4

(* A common factor of the two sides may be cancelled. *)
LEMMA Cancel ==
  ASSUME NEW a \in Int, NEW b \in Int, NEW c \in Nat \ {0}, c * a <= c * b
  PROVE  a <= b
<1> SUFFICES ASSUME a >= b + 1 PROVE FALSE
  OBVIOUS
<1>1. c * a >= c * b + c
  <2>1. a - b - 1 \in Nat
    OBVIOUS
  <2>2. c * (a - b - 1) \in Nat
    BY <2>1, ProductType
  <2>3. c * (a - b - 1) = c * a - c * b - c
    OBVIOUS
  <2> QED
    BY <2>2, <2>3
<1> QED
  BY <1>1

LEMMA GrowthStep ==
  ASSUME NEW F \in Int, NEW G \in Int, NEW W \in Int,
         NEW f \in Int, NEW g \in Int, NEW w \in Int, NEW c \in Int,
         G <= F + W * c, g <= f + w * c
  PROVE  G + g <= (F + f) + (W + w) * c
<1>1. (W + w) * c = W * c + w * c /\ W * c \in Int /\ w * c \in Int
  OBVIOUS
<1> QED
  BY <1>1

(* A sum whose terms grow by at most c times the weights grows by at most c *)
(* times the sum of the weights.                                            *)
LEMMA SumGrowth ==
  ASSUME NEW n \in Nat, NEW c \in Int,
         NEW f \in [0 .. n - 1 -> Int], NEW g \in [0 .. n - 1 -> Int],
         NEW w \in [0 .. n - 1 -> Int],
         \A p \in 0 .. n - 1 : g[p] <= f[p] + w[p] * c
  PROVE  PartialSum(g, n) <= PartialSum(f, n) + PartialSum(w, n) * c
<1> DEFINE P(m) == PartialSum(g, m) <= PartialSum(f, m) + PartialSum(w, m) * c
           T == {m \in Nat : m <= n => P(m)}
<1>1. 0 \in T
  BY SumStep
<1>2. ASSUME NEW m \in T PROVE m + 1 \in T
  <2> SUFFICES ASSUME m + 1 <= n PROVE P(m + 1)
    OBVIOUS
  <2>1. /\ PartialSum(f, m + 1) = PartialSum(f, m) + f[m]
        /\ PartialSum(g, m + 1) = PartialSum(g, m) + g[m]
        /\ PartialSum(w, m + 1) = PartialSum(w, m) + w[m]
    BY SumStep
  <2>2. /\ PartialSum(f, m) \in Int
        /\ PartialSum(g, m) \in Int
        /\ PartialSum(w, m) \in Int
    <3>1. m \in 0 .. n
      OBVIOUS
    <3> QED
      BY <3>1, SumType
  <2>3. f[m] \in Int /\ g[m] \in Int /\ w[m] \in Int /\ g[m] <= f[m] + w[m] * c
    OBVIOUS
  <2>4. PartialSum(g, m) <= PartialSum(f, m) + PartialSum(w, m) * c
    OBVIOUS
  <2> HIDE DEF P
  <2>5. PartialSum(g, m) + g[m]
          <= (PartialSum(f, m) + f[m]) + (PartialSum(w, m) + w[m]) * c
    BY <2>2, <2>3, <2>4, GrowthStep
  <2> QED
    BY <2>1, <2>5 DEF P
<1> HIDE DEF T
<1>3. T = Nat
  <2>1. T \in SUBSET Nat
    BY DEF T
  <2> QED
    BY <1>1, <1>2, <2>1, InductiveSet
<1>4. P(n)
  <2>1. n \in T
    BY <1>3
  <2> QED
    BY <2>1 DEF T
<1> QED
  BY <1>4

-----------------------------------------------------------------------------
(* The clock and the index of a stream. *)

LEMMA StreamFields ==
  ASSUME NEW n \in Nat, NEW k \in Stream(0 .. n - 1)
  PROVE  /\ k.finish \in Nat /\ k.rate \in Nat /\ k.updated \in Nat
         /\ k.stored \in Nat /\ k.notified \in Nat
         /\ k.paid \in [0 .. n - 1 -> Nat]
         /\ k.owed \in [0 .. n - 1 -> Nat]
BY DEF Stream

LEMMA ClockBounds ==
  ASSUME NEW n \in Nat, NEW k \in Stream(0 .. n - 1), NEW t \in Nat, StreamClocks(k, t)
  PROVE  /\ LastApplicable(k, t) \in Nat
         /\ k.updated <= LastApplicable(k, t)
         /\ LastApplicable(k, t) <= k.finish
         /\ LastApplicable(k, t) <= t
         /\ Remaining(k, t) = (k.finish - LastApplicable(k, t)) * k.rate
         /\ Remaining(k, t) \in Nat
<1>1. k.finish \in Nat /\ k.rate \in Nat /\ k.updated \in Nat
  BY StreamFields
<1>2. /\ LastApplicable(k, t) \in Nat
      /\ k.updated <= LastApplicable(k, t)
      /\ LastApplicable(k, t) <= k.finish
      /\ LastApplicable(k, t) <= t
  BY <1>1 DEF LastApplicable, StreamClocks
<1>3. Remaining(k, t) = (k.finish - LastApplicable(k, t)) * k.rate
  BY <1>1 DEF Remaining, LastApplicable
<1>4. k.finish - LastApplicable(k, t) \in Nat
  BY <1>1, <1>2
<1>5. (k.finish - LastApplicable(k, t)) * k.rate \in Nat
  BY <1>1, <1>4, ProductType
<1> QED
  BY <1>2, <1>3, <1>5

(* What streams between the last update and t. *)
Elapsed(k, t) == (LastApplicable(k, t) - k.updated) * k.rate

LEMMA UnstreamedSplits ==
  ASSUME NEW n \in Nat, NEW k \in Stream(0 .. n - 1), NEW t \in Nat, StreamClocks(k, t)
  PROVE  /\ Elapsed(k, t) \in Nat
         /\ Unstreamed(k) \in Nat
         /\ Unstreamed(k) = Elapsed(k, t) + Remaining(k, t)
<1> DEFINE L == LastApplicable(k, t)
<1>1. k.finish \in Nat /\ k.rate \in Nat /\ k.updated \in Nat
  BY StreamFields
<1>2. /\ L \in Nat /\ k.updated <= L /\ L <= k.finish
      /\ Remaining(k, t) = (k.finish - L) * k.rate
      /\ Remaining(k, t) \in Nat
  BY ClockBounds
<1>3. Elapsed(k, t) = (L - k.updated) * k.rate
  BY DEF Elapsed
<1> HIDE DEF L
<1>4. L - k.updated \in Nat /\ k.finish - L \in Nat
  BY <1>1, <1>2
<1>5. (L - k.updated) * k.rate \in Nat
  BY <1>1, <1>4, ProductType
<1>6. (k.finish - k.updated) * k.rate = (L - k.updated) * k.rate + (k.finish - L) * k.rate
  BY <1>1, <1>2
<1> QED
  BY <1>2, <1>3, <1>5, <1>6 DEF Unstreamed

(* An update moves the index up, by no more than what streams since the     *)
(* last one shared out over the weight.                                     *)
LEMMA IndexGrowth ==
  ASSUME NEW n \in Nat, NEW k \in Stream(0 .. n - 1), NEW t \in Nat, NEW total \in Nat,
         StreamClocks(k, t)
  PROVE  /\ Index(k, t, total) \in Nat
         /\ k.stored <= Index(k, t, total)
         /\ total * (Index(k, t, total) - k.stored) <= REWARD_PRECISION * Elapsed(k, t)
         /\ Index(k, t, total) - k.stored <= REWARD_PRECISION * Elapsed(k, t)
<1> DEFINE moved == Elapsed(k, t) * REWARD_PRECISION
<1>1. k.stored \in Nat /\ Elapsed(k, t) \in Nat
  BY StreamFields, UnstreamedSplits
<1>2. moved \in Nat /\ moved = REWARD_PRECISION * Elapsed(k, t)
  BY <1>1, ProductType, StreamConstants
<1>3. CASE total = 0
  <2>1. Index(k, t, total) = k.stored
    BY <1>3 DEF Index
  <2> QED
    BY <1>1, <1>2, <1>3, <2>1
<1>4. CASE total # 0
  <2>1. Index(k, t, total) = k.stored + moved \div total
    BY <1>4 DEF Index, Elapsed
  <2> HIDE DEF moved
  <2>2. moved \div total \in Nat /\ moved \div total <= moved /\ total * (moved \div total) <= moved
    BY <1>2, <1>4, FloorBounds
  <2>3. Index(k, t, total) - k.stored = moved \div total
    BY <1>1, <2>1, <2>2
  <2> QED
    BY <1>1, <1>2, <2>1, <2>2, <2>3
<1> QED
  BY <1>3, <1>4

(* The cap on the lifetime amount keeps every update of the index within a  *)
(* word: _updateRevenue and _updateReward never revert.                     *)
LEMMA IndexAlwaysFits ==
  ASSUME NEW n \in Nat, NEW k \in Stream(0 .. n - 1), NEW t \in Nat, NEW total \in Nat,
         StreamClocks(k, t), IndexBounded(k)
  PROVE  IndexFits(k, t, total)
<1> DEFINE I == Index(k, t, total)
           P == REWARD_PRECISION
           E == Elapsed(k, t)
           R == Remaining(k, t)
           M == MAX_LIFETIME_AMOUNT
<1> USE StreamConstants
<1>1. k.stored \in Nat /\ k.notified \in Nat
  BY StreamFields
<1>2. I \in Nat /\ I - k.stored <= P * E
  BY IndexGrowth
<1>3. E \in Nat /\ R \in Nat /\ Unstreamed(k) = E + R
  BY ClockBounds, UnstreamedSplits
<1>4. k.stored + P * Unstreamed(k) <= P * k.notified /\ k.notified <= M
  BY DEF IndexBounded
<1>5. M \in Nat /\ P * M <= WORD_MAX
  BY FloorBounds DEF MAX_LIFETIME_AMOUNT
<1> HIDE DEF I, P, E, R, M
<1>6. P \in Nat
  BY DEF P
<1>7. P * Unstreamed(k) = P * E + P * R /\ P * E \in Nat /\ P * R \in Nat
  BY <1>3, <1>6, ProductType, ProductDistributes
<1>8. P * k.notified <= P * M /\ P * k.notified \in Nat /\ P * M \in Nat
  BY <1>1, <1>4, <1>5, <1>6, ProductMonotone, ProductType
<1>9. I <= WORD_MAX
  BY <1>1, <1>2, <1>4, <1>5, <1>7, <1>8
<1> QED
  BY <1>9 DEF IndexFits, I

(* What a participant accrues is rounded down. *)
LEMMA AccruedBounds ==
  ASSUME NEW n \in Nat, NEW k \in Stream(0 .. n - 1), NEW t \in Nat, NEW total \in Nat,
         NEW w \in [0 .. n - 1 -> Nat], NEW p \in 0 .. n - 1,
         StreamClocks(k, t), IndexesBehind(k)
  PROVE  /\ Accrued(k, t, total, w, p) \in Nat
         /\ Earned(k, t, total, w, p) \in Nat
         /\ Earned(k, t, total, w, p) = k.owed[p] + Accrued(k, t, total, w, p)
         /\ REWARD_PRECISION * Earned(k, t, total, w, p)
              <= REWARD_PRECISION * k.owed[p] + w[p] * (Index(k, t, total) - k.paid[p])
<1> DEFINE I == Index(k, t, total)
           behind == w[p] * (I - k.paid[p])
<1> USE StreamConstants
<1>1. k.stored \in Nat /\ k.paid[p] \in Nat /\ k.owed[p] \in Nat /\ w[p] \in Nat
  BY StreamFields
<1>2. I \in Nat /\ k.stored <= I
  BY IndexGrowth
<1>3. k.paid[p] <= k.stored
  <2>1. p \in DOMAIN k.paid
    BY StreamFields
  <2> QED
    BY <2>1 DEF IndexesBehind
<1>4. Accrued(k, t, total, w, p) = behind \div REWARD_PRECISION
  BY DEF Accrued
<1> HIDE DEF I
<1>5. I - k.paid[p] \in Nat
  BY <1>1, <1>2, <1>3
<1>6. behind \in Nat
  BY <1>1, <1>5, ProductType
<1> HIDE DEF behind
<1>7. /\ behind \div REWARD_PRECISION \in Nat
      /\ REWARD_PRECISION * (behind \div REWARD_PRECISION) <= behind
  BY <1>6, FloorBounds
<1>8. Earned(k, t, total, w, p) = k.owed[p] + behind \div REWARD_PRECISION
  BY <1>4 DEF Earned
<1>9. REWARD_PRECISION * (k.owed[p] + behind \div REWARD_PRECISION)
        <= REWARD_PRECISION * k.owed[p] + behind
  BY <1>1, <1>6, <1>7, ScaledSum
<1>10. REWARD_PRECISION * Earned(k, t, total, w, p) <= REWARD_PRECISION * k.owed[p] + behind
  BY <1>8, <1>9
<1> QED
  BY <1>1, <1>4, <1>7, <1>8, <1>10 DEF behind, I

-----------------------------------------------------------------------------
(* Settling. *)

(* What Settled does to each field. *)
IsSettled(k2, k, t, total, w, who, n) ==
  /\ k2 \in Stream(0 .. n - 1)
  /\ k2.finish = k.finish
  /\ k2.rate = k.rate
  /\ k2.notified = k.notified
  /\ k2.updated = LastApplicable(k, t)
  /\ k2.stored = Index(k, t, total)
  /\ \A p \in 0 .. n - 1 :
       /\ k2.owed[p] = IF p \in who THEN Earned(k, t, total, w, p) ELSE k.owed[p]
       /\ k2.paid[p] = IF p \in who THEN Index(k, t, total) ELSE k.paid[p]

LEMMA SettledFields ==
  ASSUME NEW n \in Nat, NEW k \in Stream(0 .. n - 1), NEW t \in Nat, NEW total \in Nat,
         NEW w \in [0 .. n - 1 -> Nat], NEW who,
         StreamClocks(k, t), IndexesBehind(k)
  PROVE  IsSettled(Settled(k, t, total, w, who), k, t, total, w, who, n)
<1> DEFINE k2 == Settled(k, t, total, w, who)
<1>1. LastApplicable(k, t) \in Nat /\ Index(k, t, total) \in Nat
  BY ClockBounds, IndexGrowth
<1>2. \A p \in 0 .. n - 1 : Earned(k, t, total, w, p) \in Nat
  BY AccruedBounds
<1> DEFINE owed2 == [p \in 0 .. n - 1 |-> IF p \in who THEN Earned(k, t, total, w, p) ELSE k.owed[p]]
           paid2 == [p \in 0 .. n - 1 |-> IF p \in who THEN Index(k, t, total) ELSE k.paid[p]]
<1>3. k.owed \in [0 .. n - 1 -> Nat] /\ k.paid \in [0 .. n - 1 -> Nat]
  BY StreamFields
<1>4. owed2 \in [0 .. n - 1 -> Nat] /\ paid2 \in [0 .. n - 1 -> Nat]
  BY <1>1, <1>2, <1>3
<1>5. k2 = [k EXCEPT !.stored = Index(k, t, total), !.updated = LastApplicable(k, t),
                     !.owed = owed2, !.paid = paid2]
  BY <1>3 DEF Settled
<1>6. \A p \in 0 .. n - 1 :
        /\ owed2[p] = IF p \in who THEN Earned(k, t, total, w, p) ELSE k.owed[p]
        /\ paid2[p] = IF p \in who THEN Index(k, t, total) ELSE k.paid[p]
  OBVIOUS
<1> HIDE DEF owed2, paid2
<1> QED
  BY <1>1, <1>4, <1>5, <1>6 DEF Stream, IsSettled

(* The entries of the books are integers, and naturals when no participant  *)
(* is ahead of the index.                                                   *)
LEMMA BookedType ==
  ASSUME NEW n \in Nat, NEW k \in Stream(0 .. n - 1), NEW w \in [0 .. n - 1 -> Nat],
         IndexesBehind(k)
  PROVE  /\ Booked(k, w) \in [0 .. n - 1 -> Nat]
         /\ \A p \in 0 .. n - 1 :
              /\ Booked(k, w)[p] = REWARD_PRECISION * k.owed[p] + w[p] * (k.stored - k.paid[p])
              /\ REWARD_PRECISION * k.owed[p] \in Nat
              /\ w[p] * (k.stored - k.paid[p]) \in Nat
<1> USE StreamConstants
<1>1. /\ k.stored \in Nat /\ k.paid \in [0 .. n - 1 -> Nat] /\ k.owed \in [0 .. n - 1 -> Nat]
  BY StreamFields
<1>2. ASSUME NEW p \in 0 .. n - 1
      PROVE  /\ Booked(k, w)[p] = REWARD_PRECISION * k.owed[p] + w[p] * (k.stored - k.paid[p])
             /\ REWARD_PRECISION * k.owed[p] \in Nat
             /\ w[p] * (k.stored - k.paid[p]) \in Nat
             /\ Booked(k, w)[p] \in Nat
  <2>1. k.owed[p] \in Nat /\ w[p] \in Nat /\ k.stored - k.paid[p] \in Nat
    BY <1>1 DEF IndexesBehind
  <2>2. REWARD_PRECISION * k.owed[p] \in Nat /\ w[p] * (k.stored - k.paid[p]) \in Nat
    BY <2>1, ProductType
  <2>3. REWARD_PRECISION * k.owed[p] + w[p] * (k.stored - k.paid[p]) \in Nat
    <3> DEFINE x == REWARD_PRECISION * k.owed[p]
               y == w[p] * (k.stored - k.paid[p])
    <3>1. x \in Nat /\ y \in Nat
      BY <2>2
    <3> HIDE DEF x, y
    <3>2. x + y \in Nat
      BY <3>1
    <3> QED
      BY <3>2 DEF x, y
  <2>4. Booked(k, w)[p] = REWARD_PRECISION * k.owed[p] + w[p] * (k.stored - k.paid[p])
    BY <1>1 DEF Booked
  <2> QED
    BY <2>2, <2>3, <2>4
<1>3. DOMAIN Booked(k, w) = 0 .. n - 1 /\ Booked(k, w) = [p \in 0 .. n - 1 |-> Booked(k, w)[p]]
  BY <1>1 DEF Booked
<1> QED
  BY <1>2, <1>3

(* Settling never adds more to the books than has streamed. *)
LEMMA SettledSound ==
  ASSUME NEW n \in Nat, NEW k, NEW t \in Nat, NEW w, NEW balance \in Nat, NEW who, NEW total, NEW k2,
         StreamSound(k, t, w, n, balance),
         total = PartialSum(w, n),
         k2 = Settled(k, t, total, w, who)
  PROVE  StreamSound(k2, t, w, n, balance)
<1> DEFINE I == Index(k, t, total)
           P == REWARD_PRECISION
           E == Elapsed(k, t)
           R == Remaining(k, t)
<1>1. /\ k \in Stream(0 .. n - 1) /\ w \in [0 .. n - 1 -> Nat]
      /\ StreamClocks(k, t) /\ IndexesBehind(k)
      /\ Backed(k, w, n, balance) /\ IndexBounded(k)
  BY DEF StreamSound
<1>2. total \in Nat
  BY <1>1, SumNatural
<1>3. IsSettled(k2, k, t, total, w, who, n)
  BY <1>1, <1>2, SettledFields
<1>4. /\ k2 \in Stream(0 .. n - 1)
      /\ k2.finish = k.finish /\ k2.rate = k.rate /\ k2.notified = k.notified
      /\ k2.updated = LastApplicable(k, t)
      /\ k2.stored = I
      /\ \A p \in 0 .. n - 1 :
           /\ k2.owed[p] = IF p \in who THEN Earned(k, t, total, w, p) ELSE k.owed[p]
           /\ k2.paid[p] = IF p \in who THEN I ELSE k.paid[p]
  BY <1>3 DEF IsSettled
<1>5. /\ k.finish \in Nat /\ k.rate \in Nat /\ k.updated \in Nat /\ k.stored \in Nat
      /\ k.paid \in [0 .. n - 1 -> Nat] /\ k.owed \in [0 .. n - 1 -> Nat] /\ k.notified \in Nat
  BY <1>1, StreamFields
<1>6. I \in Nat /\ k.stored <= I
  BY <1>1, <1>2, IndexGrowth
<1>7. total * (I - k.stored) <= P * E /\ I - k.stored <= P * E
  BY <1>1, <1>2, IndexGrowth
<1>8. E \in Nat /\ R \in Nat /\ Unstreamed(k) = E + R
  BY <1>1, ClockBounds, UnstreamedSplits
<1>9. Unstreamed(k2) = R
  BY <1>1, <1>4, ClockBounds DEF Unstreamed
<1> HIDE DEF I, P, E, R
<1>10. StreamClocks(k2, t)
  BY <1>1, <1>4, ClockBounds DEF StreamClocks
<1>11. IndexesBehind(k2)
  <2>1. DOMAIN k2.paid = 0 .. n - 1
    BY <1>4, StreamFields
  <2>2. \A p \in 0 .. n - 1 : k.paid[p] <= k.stored /\ k.paid[p] \in Nat
    BY <1>1, <1>5 DEF IndexesBehind
  <2>3. ASSUME NEW p \in 0 .. n - 1 PROVE k2.paid[p] <= k2.stored
    <3>1. CASE p \in who
      <4>1. k2.paid[p] = I /\ k2.stored = I
        BY <1>4, <3>1
      <4> QED
        BY <1>6, <4>1
    <3>2. CASE p \notin who
      <4>1. k2.paid[p] = k.paid[p] /\ k2.stored = I
        BY <1>4, <3>2
      <4> QED
        BY <1>5, <1>6, <2>2, <4>1
    <3> QED
      BY <3>1, <3>2
  <2> QED
    BY <2>1, <2>3 DEF IndexesBehind
<1>12. P \in Nat /\ P * Unstreamed(k) = P * E + P * R /\ P * E \in Nat /\ P * R \in Nat
  BY <1>8, ProductType, ProductDistributes, StreamConstants DEF P
<1>13. /\ Booked(k, w) \in [0 .. n - 1 -> Nat]
       /\ \A p \in 0 .. n - 1 :
            /\ Booked(k, w)[p] = REWARD_PRECISION * k.owed[p] + w[p] * (k.stored - k.paid[p])
            /\ REWARD_PRECISION * k.owed[p] \in Nat
  BY <1>1, BookedType
<1>14. /\ Booked(k2, w) \in [0 .. n - 1 -> Nat]
       /\ \A p \in 0 .. n - 1 :
            /\ Booked(k2, w)[p] = REWARD_PRECISION * k2.owed[p] + w[p] * (k2.stored - k2.paid[p])
            /\ REWARD_PRECISION * k2.owed[p] \in Nat
  BY <1>1, <1>4, <1>11, BookedType
<1>15. \A p \in 0 .. n - 1 : Booked(k2, w)[p] <= Booked(k, w)[p] + w[p] * (I - k.stored)
  <2> TAKE p \in 0 .. n - 1
  <2>1. Booked(k, w)[p] = P * k.owed[p] + w[p] * (k.stored - k.paid[p]) /\ P * k.owed[p] \in Nat
    BY <1>13 DEF P
  <2>2. Booked(k2, w)[p] = P * k2.owed[p] + w[p] * (k2.stored - k2.paid[p]) /\ P * k2.owed[p] \in Nat
    BY <1>14 DEF P
  <2>3. k.owed[p] \in Nat /\ k.paid[p] \in Nat /\ w[p] \in Nat
    BY <1>1, <1>5
  <2>4. /\ w[p] * (I - k.paid[p]) = w[p] * (k.stored - k.paid[p]) + w[p] * (I - k.stored)
        /\ w[p] * (k.stored - k.paid[p]) \in Int
        /\ w[p] * (I - k.stored) \in Int
    <3>1. w[p] \in Int /\ I \in Int /\ k.paid[p] \in Int /\ k.stored \in Int
      BY <1>5, <1>6, <2>3
    <3> DEFINE x == w[p]
               y == k.paid[p]
               z == k.stored
    <3>2. x \in Int /\ y \in Int /\ z \in Int /\ I \in Int
      BY <3>1
    <3> HIDE DEF x, y, z
    <3>3. x * (I - y) = x * (z - y) + x * (I - z) /\ x * (z - y) \in Int /\ x * (I - z) \in Int
      BY <3>2
    <3> QED
      BY <3>3 DEF x, y, z
  <2>5. CASE p \in who
    <3>1. k2.owed[p] = Earned(k, t, total, w, p) /\ k2.stored - k2.paid[p] = 0
      BY <1>4, <1>6, <2>5
    <3>2. P * Earned(k, t, total, w, p) <= P * k.owed[p] + w[p] * (I - k.paid[p])
      BY <1>1, <1>2, AccruedBounds DEF P, I
    <3>3. w[p] * (k2.stored - k2.paid[p]) = 0
      BY <2>3, <3>1
    <3>4. P * k2.owed[p] <= P * k.owed[p] + w[p] * (I - k.paid[p])
      BY <3>1, <3>2
    <3> QED
      BY <2>1, <2>2, <2>4, <3>3, <3>4
  <2>6. CASE p \notin who
    <3>1. k2.owed[p] = k.owed[p] /\ k2.stored - k2.paid[p] = I - k.paid[p]
      BY <1>4, <2>6
    <3>2. Booked(k2, w)[p] = P * k.owed[p] + w[p] * (I - k.paid[p])
      BY <2>2, <3>1
    <3> QED
      BY <2>1, <2>4, <3>2
  <2> QED
    BY <2>5, <2>6
<1>16. Backed(k2, w, n, balance)
  <2>0. Booked(k, w) \in [0 .. n - 1 -> Int] /\ Booked(k2, w) \in [0 .. n - 1 -> Int]
    BY <1>13, <1>14
  <2>1. PartialSum(Booked(k2, w), n) <= PartialSum(Booked(k, w), n) + PartialSum(w, n) * (I - k.stored)
    <3>1. I - k.stored \in Int
      BY <1>5, <1>6
    <3>2. w \in [0 .. n - 1 -> Int]
      BY <1>1
    <3> QED
      BY <1>15, <2>0, <3>1, <3>2, SumGrowth
  <2>2. PartialSum(Booked(k, w), n) \in Int /\ PartialSum(Booked(k2, w), n) \in Int
    BY <2>0, SumInteger
  <2>3. PartialSum(Booked(k, w), n) + P * Unstreamed(k) <= P * balance
    BY <1>1 DEF Backed, P
  <2>4. P * balance \in Nat
    BY <1>12, ProductType
  <2>5. PartialSum(w, n) * (I - k.stored) <= P * E /\ PartialSum(w, n) * (I - k.stored) \in Int
    BY <1>2, <1>5, <1>6, <1>7
  <2>6. PartialSum(Booked(k2, w), n) + P * R <= P * balance
    BY <1>12, <2>1, <2>2, <2>3, <2>4, <2>5
  <2> QED
    BY <1>9, <2>6 DEF Backed, P
<1>17. IndexBounded(k2)
  <2>1. k.stored + P * Unstreamed(k) <= P * k.notified /\ k.notified <= MAX_LIFETIME_AMOUNT
    BY <1>1 DEF IndexBounded, P
  <2>2. P * k.notified \in Nat
    BY <1>5, <1>12, ProductType
  <2>3. I + P * R <= P * k.notified
    BY <1>5, <1>6, <1>12, <1>7, <2>1, <2>2
  <2> QED
    BY <1>4, <1>9, <2>1, <2>3 DEF IndexBounded, P
<1> QED
  BY <1>1, <1>4, <1>10, <1>11, <1>16, <1>17 DEF StreamSound

-----------------------------------------------------------------------------
(* The other steps of a stream. *)

LEMMA NewStreamSound ==
  ASSUME NEW n \in Nat, NEW t \in Nat, NEW w \in [0 .. n - 1 -> Nat]
  PROVE  StreamSound(NewStream(0 .. n - 1), t, w, n, 0)
<1> DEFINE k == NewStream(0 .. n - 1)
<1>1. /\ k \in Stream(0 .. n - 1)
      /\ k.finish = 0 /\ k.rate = 0 /\ k.updated = 0 /\ k.stored = 0 /\ k.notified = 0
      /\ k.paid = [p \in 0 .. n - 1 |-> 0] /\ k.owed = [p \in 0 .. n - 1 |-> 0]
  BY DEF NewStream, Stream
<1> HIDE DEF k
<1>2. StreamClocks(k, t) /\ IndexesBehind(k)
  BY <1>1 DEF StreamClocks, IndexesBehind
<1>3. Unstreamed(k) = 0
  BY <1>1 DEF Unstreamed
<1>4. PartialSum(Booked(k, w), n) = 0
  <2>1. Booked(k, w) \in [0 .. n - 1 -> Int]
    BY <1>1, <1>2, BookedType
  <2>2. ASSUME NEW p \in 0 .. n - 1 PROVE Booked(k, w)[p] = 0
    <3>1. k.owed[p] = 0 /\ k.stored - k.paid[p] = 0 /\ w[p] \in Nat
      BY <1>1
    <3>2. Booked(k, w)[p] = REWARD_PRECISION * k.owed[p] + w[p] * (k.stored - k.paid[p])
      BY <1>1 DEF Booked
    <3> QED
      BY <3>1, <3>2, StreamConstants
  <2> QED
    BY <2>1, <2>2, SumZero
<1>5. Backed(k, w, n, 0)
  BY <1>3, <1>4, StreamConstants DEF Backed
<1>6. MAX_LIFETIME_AMOUNT \in Nat
  BY FloorBounds, StreamConstants DEF MAX_LIFETIME_AMOUNT
<1>7. IndexBounded(k)
  BY <1>1, <1>3, <1>6, StreamConstants DEF IndexBounded
<1>8. StreamSound(k, t, w, n, 0)
  BY <1>1, <1>2, <1>5, <1>7 DEF StreamSound
<1> QED
  BY <1>8 DEF k

(* Time moves nothing. *)
LEMMA TimeSound ==
  ASSUME NEW n \in Nat, NEW k, NEW t \in Nat, NEW t2 \in Nat, NEW w, NEW balance,
         t <= t2, StreamSound(k, t, w, n, balance)
  PROVE  StreamSound(k, t2, w, n, balance)
<1>1. k \in Stream(0 .. n - 1) /\ StreamClocks(k, t)
  BY DEF StreamSound
<1>2. StreamClocks(k, t2)
  BY <1>1, StreamFields DEF StreamClocks
<1> QED
  BY <1>2 DEF StreamSound

(* The books depend on the weight of a participant only through the index   *)
(* it is behind, so the weight of one that has just been settled may        *)
(* change.                                                                  *)
LEMMA WeightSound ==
  ASSUME NEW n \in Nat, NEW k, NEW t, NEW w, NEW w2 \in [0 .. n - 1 -> Nat], NEW balance,
         StreamSound(k, t, w, n, balance),
         \A p \in 0 .. n - 1 : w2[p] = w[p] \/ k.paid[p] = k.stored
  PROVE  StreamSound(k, t, w2, n, balance)
<1>1. /\ k \in Stream(0 .. n - 1) /\ w \in [0 .. n - 1 -> Nat]
      /\ IndexesBehind(k) /\ Backed(k, w, n, balance)
  BY DEF StreamSound
<1>2. /\ Booked(k, w) \in [0 .. n - 1 -> Nat]
      /\ \A p \in 0 .. n - 1 :
           Booked(k, w)[p] = REWARD_PRECISION * k.owed[p] + w[p] * (k.stored - k.paid[p])
  BY <1>1, BookedType
<1>3. /\ Booked(k, w2) \in [0 .. n - 1 -> Nat]
      /\ \A p \in 0 .. n - 1 :
           Booked(k, w2)[p] = REWARD_PRECISION * k.owed[p] + w2[p] * (k.stored - k.paid[p])
  BY <1>1, BookedType
<1>4. ASSUME NEW p \in 0 .. n - 1 PROVE Booked(k, w2)[p] = Booked(k, w)[p]
  <2>1. CASE w2[p] = w[p]
    BY <1>2, <1>3, <2>1
  <2>2. CASE k.paid[p] = k.stored
    <3>1. k.stored \in Nat /\ w[p] \in Nat /\ w2[p] \in Nat
      BY <1>1, StreamFields
    <3>2. w[p] * (k.stored - k.paid[p]) = 0 /\ w2[p] * (k.stored - k.paid[p]) = 0
      BY <2>2, <3>1
    <3> QED
      BY <1>2, <1>3, <3>2
  <2> QED
    BY <2>1, <2>2
<1>5. Booked(k, w2) = Booked(k, w)
  BY <1>2, <1>3, <1>4
<1>6. Backed(k, w2, n, balance)
  BY <1>1, <1>5 DEF Backed
<1> QED
  BY <1>6 DEF StreamSound

(* A participant that joins starts at the stored index. *)
LEMMA JoinSound ==
  ASSUME NEW n \in Nat, NEW k, NEW t, NEW w, NEW balance, NEW s \in 0 .. n - 1,
         StreamSound(k, t, w, n, balance), w[s] = 0
  PROVE  StreamSound([k EXCEPT !.paid[s] = k.stored], t, w, n, balance)
<1> DEFINE k2 == [k EXCEPT !.paid[s] = k.stored]
<1>1. /\ k \in Stream(0 .. n - 1) /\ w \in [0 .. n - 1 -> Nat]
      /\ StreamClocks(k, t) /\ IndexesBehind(k) /\ Backed(k, w, n, balance) /\ IndexBounded(k)
  BY DEF StreamSound
<1>2. /\ k.stored \in Nat /\ k.paid \in [0 .. n - 1 -> Nat] /\ k.owed \in [0 .. n - 1 -> Nat]
  BY <1>1, StreamFields
<1>3. /\ k2 \in Stream(0 .. n - 1)
      /\ k2.finish = k.finish /\ k2.rate = k.rate /\ k2.updated = k.updated
      /\ k2.stored = k.stored /\ k2.notified = k.notified /\ k2.owed = k.owed
      /\ k2.paid = [k.paid EXCEPT ![s] = k.stored]
  BY <1>1, <1>2 DEF Stream
<1> HIDE DEF k2
<1>4. StreamClocks(k2, t) /\ IndexBounded(k2) /\ Unstreamed(k2) = Unstreamed(k)
  BY <1>1, <1>3 DEF StreamClocks, IndexBounded, Unstreamed
<1>5. IndexesBehind(k2)
  BY <1>1, <1>2, <1>3 DEF IndexesBehind
<1>6. /\ Booked(k, w) \in [0 .. n - 1 -> Nat]
      /\ \A p \in 0 .. n - 1 :
           Booked(k, w)[p] = REWARD_PRECISION * k.owed[p] + w[p] * (k.stored - k.paid[p])
  BY <1>1, BookedType
<1>7. /\ Booked(k2, w) \in [0 .. n - 1 -> Nat]
      /\ \A p \in 0 .. n - 1 :
           Booked(k2, w)[p] = REWARD_PRECISION * k2.owed[p] + w[p] * (k2.stored - k2.paid[p])
  <2>1. k2 \in Stream(0 .. n - 1) /\ w \in [0 .. n - 1 -> Nat] /\ IndexesBehind(k2)
    BY <1>1, <1>3, <1>5
  <2> QED
    BY <2>1, BookedType
<1>8. ASSUME NEW p \in 0 .. n - 1 PROVE Booked(k2, w)[p] = Booked(k, w)[p]
  <2>1. CASE p = s
    <3>1. k.stored - k.paid[p] \in Int /\ k2.stored - k2.paid[p] \in Int /\ w[p] = 0
      BY <1>2, <1>3, <2>1
    <3>2. w[p] * (k.stored - k.paid[p]) = 0 /\ w[p] * (k2.stored - k2.paid[p]) = 0
      BY <3>1
    <3> QED
      BY <1>3, <1>6, <1>7, <3>2
  <2>2. CASE p # s
    <3>1. k2.paid[p] = k.paid[p] /\ k2.stored = k.stored /\ k2.owed[p] = k.owed[p]
      BY <1>2, <1>3, <2>2
    <3> QED
      BY <1>6, <1>7, <3>1
  <2> QED
    BY <2>1, <2>2
<1>9. Booked(k2, w) = Booked(k, w)
  BY <1>6, <1>7, <1>8
<1>10. Backed(k2, w, n, balance)
  BY <1>1, <1>4, <1>9 DEF Backed
<1>11. StreamSound(k2, t, w, n, balance)
  BY <1>1, <1>3, <1>4, <1>5, <1>10 DEF StreamSound
<1> QED
  BY <1>11 DEF k2

(* A participant is paid exactly what it is owed. *)
LEMMA PaidSound ==
  ASSUME NEW n \in Nat, NEW k, NEW t, NEW w, NEW balance \in Nat, NEW s \in 0 .. n - 1,
         StreamSound(k, t, w, n, balance)
  PROVE  StreamSound(Paid(k, s), t, w, n, balance - k.owed[s])
<1> DEFINE k2 == Paid(k, s)
<1>1. /\ k \in Stream(0 .. n - 1) /\ w \in [0 .. n - 1 -> Nat]
      /\ StreamClocks(k, t) /\ IndexesBehind(k) /\ Backed(k, w, n, balance) /\ IndexBounded(k)
  BY DEF StreamSound
<1>2. /\ k.stored \in Nat /\ k.paid \in [0 .. n - 1 -> Nat] /\ k.owed \in [0 .. n - 1 -> Nat]
  BY <1>1, StreamFields
<1>3. /\ k2 \in Stream(0 .. n - 1)
      /\ k2.finish = k.finish /\ k2.rate = k.rate /\ k2.updated = k.updated
      /\ k2.stored = k.stored /\ k2.notified = k.notified /\ k2.paid = k.paid
      /\ k2.owed = [k.owed EXCEPT ![s] = 0]
  BY <1>1, <1>2 DEF Stream, Paid
<1> HIDE DEF k2
<1>4. StreamClocks(k2, t) /\ IndexBounded(k2) /\ Unstreamed(k2) = Unstreamed(k) /\ IndexesBehind(k2)
  BY <1>1, <1>3 DEF StreamClocks, IndexBounded, Unstreamed, IndexesBehind
<1>5. /\ Booked(k, w) \in [0 .. n - 1 -> Nat]
      /\ \A p \in 0 .. n - 1 :
           /\ Booked(k, w)[p] = REWARD_PRECISION * k.owed[p] + w[p] * (k.stored - k.paid[p])
           /\ REWARD_PRECISION * k.owed[p] \in Nat
           /\ w[p] * (k.stored - k.paid[p]) \in Nat
  BY <1>1, BookedType
<1>6. /\ Booked(k2, w) \in [0 .. n - 1 -> Nat]
      /\ \A p \in 0 .. n - 1 :
           Booked(k2, w)[p] = REWARD_PRECISION * k2.owed[p] + w[p] * (k2.stored - k2.paid[p])
  <2>1. k2 \in Stream(0 .. n - 1) /\ w \in [0 .. n - 1 -> Nat] /\ IndexesBehind(k2)
    BY <1>1, <1>3, <1>4
  <2> QED
    BY <2>1, BookedType
<1>7. ASSUME NEW p \in 0 .. n - 1, p # s PROVE Booked(k2, w)[p] = Booked(k, w)[p]
  <2>1. k2.owed[p] = k.owed[p] /\ k2.stored = k.stored /\ k2.paid[p] = k.paid[p]
    BY <1>2, <1>3, <1>7
  <2> QED
    BY <1>5, <1>6, <2>1
<1>8. Booked(k2, w)[s] - Booked(k, w)[s] = 0 - REWARD_PRECISION * k.owed[s]
  <2>1. k2.owed[s] = 0 /\ k2.stored = k.stored /\ k2.paid[s] = k.paid[s]
    BY <1>2, <1>3
  <2>2. Booked(k2, w)[s] = REWARD_PRECISION * 0 + w[s] * (k.stored - k.paid[s])
    BY <1>6, <2>1
  <2>3. REWARD_PRECISION * 0 = 0
    BY StreamConstants
  <2> QED
    BY <1>5, <2>2, <2>3
<1>9. PartialSum(Booked(k2, w), n) = PartialSum(Booked(k, w), n) - REWARD_PRECISION * k.owed[s]
  <2>1. SameExceptAt(Booked(k, w), Booked(k2, w), s, n)
    BY <1>5, <1>6, <1>7 DEF SameExceptAt
  <2>2. PartialSum(Booked(k2, w), n)
          = PartialSum(Booked(k, w), n) + (Booked(k2, w)[s] - Booked(k, w)[s])
    BY <2>1, SumUpdate
  <2>3. PartialSum(Booked(k, w), n) \in Nat
    BY <1>5, SumNatural
  <2> QED
    BY <1>5, <1>8, <2>2, <2>3
<1>10. Backed(k2, w, n, balance - k.owed[s])
  <2>1. PartialSum(Booked(k, w), n) + REWARD_PRECISION * Unstreamed(k) <= REWARD_PRECISION * balance
    BY <1>1 DEF Backed
  <2>2. k.owed[s] \in Nat
    BY <1>2
  <2>3. REWARD_PRECISION * (balance - k.owed[s])
          = REWARD_PRECISION * balance - REWARD_PRECISION * k.owed[s]
    BY <2>2, ProductDistributes, StreamConstants
  <2>4. Unstreamed(k) \in Int
    BY <1>1, StreamFields DEF Unstreamed
  <2>5. /\ REWARD_PRECISION * Unstreamed(k) \in Int
        /\ REWARD_PRECISION * balance \in Int
        /\ REWARD_PRECISION * k.owed[s] \in Int
    BY <2>2, <2>4, StreamConstants
  <2>6. PartialSum(Booked(k, w), n) \in Int
    BY <1>5, SumNatural
  <2>7. PartialSum(Booked(k2, w), n) + REWARD_PRECISION * Unstreamed(k)
          <= REWARD_PRECISION * (balance - k.owed[s])
    BY <1>9, <2>1, <2>3, <2>5, <2>6
  <2> QED
    BY <1>4, <2>7 DEF Backed
<1>11. StreamSound(k2, t, w, n, balance - k.owed[s])
  BY <1>1, <1>3, <1>4, <1>10 DEF StreamSound
<1> QED
  BY <1>11 DEF k2

(* A new period streams no more than the amount and what was left.          *)
LEMMA NotifiedSound ==
  ASSUME NEW n \in Nat, NEW k, NEW t \in Nat, NEW w, NEW balance \in Nat, NEW total,
         NEW amount \in Nat,
         StreamSound(k, t, w, n, balance),
         total = PartialSum(w, n),
         WithinLifetime(k, amount)
  PROVE  StreamSound(Notified(k, t, total, w, amount), t, w, n, balance + amount)
<1> DEFINE m == Settled(k, t, total, w, {})
           R == Remaining(k, t)
           q == (amount + R) \div REWARD_DURATION
           P == REWARD_PRECISION
           D == REWARD_DURATION
           k2 == Notified(k, t, total, w, amount)
<1>1. /\ k \in Stream(0 .. n - 1) /\ w \in [0 .. n - 1 -> Nat]
      /\ StreamClocks(k, t) /\ IndexesBehind(k)
  BY DEF StreamSound
<1>2. total \in Nat
  BY <1>1, SumNatural
<1>3. StreamSound(m, t, w, n, balance)
  BY SettledSound
<1>4. IsSettled(m, k, t, total, w, {}, n)
  BY <1>1, <1>2, SettledFields
<1>5. k2 = [m EXCEPT !.rate = q, !.updated = t, !.finish = t + D, !.notified = k.notified + amount]
  BY DEF Notified
<1>6. R \in Nat /\ Unstreamed(m) = R
  <2>1. m.finish = k.finish /\ m.rate = k.rate /\ m.updated = LastApplicable(k, t)
    BY <1>4 DEF IsSettled
  <2> QED
    BY <1>1, <2>1, ClockBounds DEF Unstreamed
<1>7. P \in Nat /\ D \in Nat \ {0}
  BY StreamConstants
<1>8. q \in Nat /\ D * q <= amount + R
  BY <1>6, <1>7, FloorBounds
<1>9. m.notified = k.notified /\ k.notified \in Nat
  BY <1>1, <1>4, StreamFields DEF IsSettled
<1> HIDE DEF m, R, q, P, D, k2
<1>10. /\ m \in Stream(0 .. n - 1) /\ IndexesBehind(m)
       /\ Backed(m, w, n, balance) /\ IndexBounded(m)
  BY <1>3 DEF StreamSound
<1>11. /\ k2 \in Stream(0 .. n - 1)
       /\ k2.finish = t + D /\ k2.rate = q /\ k2.updated = t
       /\ k2.stored = m.stored /\ k2.notified = k.notified + amount
       /\ k2.paid = m.paid /\ k2.owed = m.owed
  <2>1. m \in Stream(0 .. n - 1)
    BY <1>10
  <2>2. t + D \in Nat /\ q \in Nat /\ k.notified + amount \in Nat
    BY <1>7, <1>8, <1>9
  <2> QED
    BY <1>5, <2>1, <2>2 DEF Stream
<1>12. StreamClocks(k2, t)
  BY <1>7, <1>11 DEF StreamClocks
<1>13. IndexesBehind(k2)
  BY <1>10, <1>11 DEF IndexesBehind
<1>14. Booked(k2, w) = Booked(m, w)
  BY <1>11 DEF Booked
<1>15. Unstreamed(k2) = D * q
  BY <1>7, <1>8, <1>11 DEF Unstreamed
<1>16. /\ P * (D * q) <= P * (amount + R)
       /\ P * (amount + R) = P * amount + P * R
       /\ P * (D * q) \in Nat /\ P * amount \in Nat /\ P * R \in Nat
  <2>1. D * q \in Nat
    BY <1>7, <1>8, ProductType
  <2> DEFINE x == D * q
  <2>2. x \in Nat /\ x <= amount + R
    BY <1>8, <2>1
  <2> HIDE DEF x
  <2>3. P * x <= P * (amount + R) /\ P * x \in Nat
    BY <1>6, <1>7, <2>2, ProductMonotone, ProductType
  <2>4. P * (amount + R) = P * amount + P * R
    BY <1>6, <1>7, ProductDistributes
  <2> QED
    BY <1>6, <1>7, <2>3, <2>4, ProductType DEF x
<1>17. Backed(k2, w, n, balance + amount)
  <2>1. PartialSum(Booked(m, w), n) + P * R <= P * balance
    BY <1>6, <1>10 DEF Backed, P
  <2>2. PartialSum(Booked(m, w), n) \in Nat
    BY <1>1, <1>10, BookedType, SumNatural
  <2>3. P * (balance + amount) = P * balance + P * amount /\ P * balance \in Nat
    BY <1>7, ProductDistributes, ProductType
  <2>4. PartialSum(Booked(m, w), n) + P * (D * q) <= P * (balance + amount)
    BY <1>16, <2>1, <2>2, <2>3
  <2> QED
    BY <1>14, <1>15, <2>4 DEF Backed, P
<1>18. IndexBounded(k2)
  <2>1. m.stored + P * R <= P * k.notified
    BY <1>6, <1>9, <1>10 DEF IndexBounded, P
  <2>2. m.stored \in Nat
    BY <1>10, StreamFields
  <2>3. P * (k.notified + amount) = P * k.notified + P * amount /\ P * k.notified \in Nat
    BY <1>7, <1>9, ProductDistributes, ProductType
  <2>4. m.stored + P * (D * q) <= P * (k.notified + amount)
    BY <1>16, <2>1, <2>2, <2>3
  <2>5. k.notified + amount <= MAX_LIFETIME_AMOUNT
    <3>1. MAX_LIFETIME_AMOUNT \in Nat
      BY FloorBounds, StreamConstants DEF MAX_LIFETIME_AMOUNT
    <3> QED
      BY <1>9, <3>1 DEF WithinLifetime
  <2> QED
    BY <1>11, <1>15, <2>4, <2>5 DEF IndexBounded, P
<1>19. StreamSound(k2, t, w, n, balance + amount)
  BY <1>1, <1>11, <1>12, <1>13, <1>17, <1>18 DEF StreamSound
<1> QED
  BY <1>19 DEF k2

-----------------------------------------------------------------------------
(***************************************************************************)
(* A sound stream is solvent at every timestamp: the balance covers what   *)
(* every participant could claim now and what has still to stream.         *)
(***************************************************************************)
EarnedTable(k, t, total, w, n) == [p \in 0 .. n - 1 |-> Earned(k, t, total, w, p)]

LEMMA StreamSolvent ==
  ASSUME NEW n \in Nat, NEW k, NEW t \in Nat, NEW w, NEW balance \in Nat, NEW total,
         StreamSound(k, t, w, n, balance),
         total = PartialSum(w, n)
  PROVE  PartialSum(EarnedTable(k, t, total, w, n), n) + Remaining(k, t) <= balance
<1> DEFINE everyone == 0 .. n - 1
           m == Settled(k, t, total, w, everyone)
           R == Remaining(k, t)
           P == REWARD_PRECISION
           e == EarnedTable(k, t, total, w, n)
           z == [p \in 0 .. n - 1 |-> 0]
<1>1. /\ k \in Stream(0 .. n - 1) /\ w \in [0 .. n - 1 -> Nat]
      /\ StreamClocks(k, t) /\ IndexesBehind(k)
  BY DEF StreamSound
<1>2. total \in Nat
  BY <1>1, SumNatural
<1>3. StreamSound(m, t, w, n, balance)
  BY SettledSound
<1>4. IsSettled(m, k, t, total, w, everyone, n)
  BY <1>1, <1>2, SettledFields
<1>5. R \in Nat /\ Unstreamed(m) = R
  <2>1. m.finish = k.finish /\ m.rate = k.rate /\ m.updated = LastApplicable(k, t)
    BY <1>4 DEF IsSettled
  <2> QED
    BY <1>1, <2>1, ClockBounds DEF Unstreamed
<1>6. P \in Nat \ {0}
  BY StreamConstants
<1>7. ASSUME NEW p \in 0 .. n - 1
      PROVE  m.owed[p] = e[p] /\ m.paid[p] = m.stored /\ e[p] \in Nat
  <2>1. e[p] = Earned(k, t, total, w, p)
    BY DEF EarnedTable
  <2>2. Earned(k, t, total, w, p) \in Nat
    BY <1>1, <1>2, AccruedBounds
  <2> QED
    BY <1>4, <2>1, <2>2 DEF IsSettled
<1>8. e \in [0 .. n - 1 -> Nat]
  BY <1>7 DEF EarnedTable
<1> HIDE DEF m, R, P, e
<1>9. /\ m \in Stream(0 .. n - 1) /\ IndexesBehind(m) /\ Backed(m, w, n, balance)
  BY <1>3 DEF StreamSound
<1>10. /\ Booked(m, w) \in [0 .. n - 1 -> Nat]
       /\ \A p \in 0 .. n - 1 :
            Booked(m, w)[p] = REWARD_PRECISION * m.owed[p] + w[p] * (m.stored - m.paid[p])
  BY <1>1, <1>9, BookedType
<1>11. ASSUME NEW p \in 0 .. n - 1 PROVE z[p] <= Booked(m, w)[p] + e[p] * (0 - P)
  <2>1. m.stored - m.paid[p] = 0 /\ w[p] \in Nat /\ m.owed[p] = e[p] /\ e[p] \in Nat
    <3>1. m.stored \in Nat
      BY <1>9, StreamFields
    <3>2. m.owed[p] = e[p] /\ m.paid[p] = m.stored /\ e[p] \in Nat
      BY <1>7
    <3>3. w[p] \in Nat
      BY <1>1
    <3> QED
      BY <3>1, <3>2, <3>3
  <2>2. w[p] * (m.stored - m.paid[p]) = 0
    BY <2>1
  <2>3. Booked(m, w)[p] = P * e[p] + 0
    BY <1>10, <2>1, <2>2 DEF P
  <2>4. e[p] * (0 - P) = 0 - P * e[p] /\ P * e[p] \in Nat
    BY <1>6, <2>1
  <2> QED
    BY <2>3, <2>4
<1>12. PartialSum(z, n) <= PartialSum(Booked(m, w), n) + PartialSum(e, n) * (0 - P)
  <2>1. /\ 0 - P \in Int /\ z \in [0 .. n - 1 -> Int]
        /\ Booked(m, w) \in [0 .. n - 1 -> Int] /\ e \in [0 .. n - 1 -> Int]
    BY <1>6, <1>8, <1>10
  <2> HIDE DEF z
  <2> QED
    BY <1>11, <2>1, SumGrowth
<1>13. PartialSum(z, n) = 0
  <2>1. z \in [0 .. n - 1 -> Int] /\ \A p \in 0 .. n - 1 : z[p] = 0
    OBVIOUS
  <2> QED
    BY <2>1, SumZero
<1>14. PartialSum(e, n) \in Nat /\ PartialSum(Booked(m, w), n) \in Nat
  BY <1>8, <1>10, SumNatural
<1> HIDE DEF z
<1>15. PartialSum(Booked(m, w), n) + P * R <= P * balance
  BY <1>5, <1>9 DEF Backed, P
<1>16. P * (PartialSum(e, n) + R) <= P * balance
  <2> DEFINE x == PartialSum(e, n)
             y == PartialSum(Booked(m, w), n)
  <2>1. x \in Nat /\ y \in Nat /\ 0 <= y + x * (0 - P) /\ y + P * R <= P * balance
    BY <1>12, <1>13, <1>14, <1>15
  <2> HIDE DEF x, y
  <2>2. x * (0 - P) = 0 - P * x /\ P * x \in Nat
    BY <1>6, <2>1
  <2>3. P * (x + R) = P * x + P * R /\ P * R \in Nat /\ P * balance \in Nat
    BY <1>5, <1>6, <2>1, ProductDistributes, ProductType
  <2>4. P * (x + R) <= P * balance
    BY <2>1, <2>2, <2>3
  <2> QED
    BY <2>4 DEF x
<1>17. PartialSum(e, n) + R <= balance
  BY <1>5, <1>6, <1>14, <1>16, Cancel
<1> QED
  BY <1>17 DEF e, R

-----------------------------------------------------------------------------
(* What a participant has earned at one timestamp, before and after a step. *)

LEMMA IndexAtRest ==
  ASSUME NEW n \in Nat, NEW k \in Stream(0 .. n - 1), NEW t \in Nat, NEW total \in Nat,
         LastApplicable(k, t) = k.updated
  PROVE  Index(k, t, total) = k.stored
<1>1. k.stored \in Nat /\ k.updated \in Nat /\ k.rate \in Nat
  BY StreamFields
<1>2. (LastApplicable(k, t) - k.updated) * k.rate * REWARD_PRECISION = 0
  <2>1. LastApplicable(k, t) - k.updated = 0
    BY <1>1
  <2>2. 0 * k.rate = 0 /\ 0 * REWARD_PRECISION = 0
    BY <1>1, StreamConstants
  <2> QED
    BY <2>1, <2>2
<1>3. CASE total = 0
  BY <1>3 DEF Index
<1>4. CASE total # 0
  <2>1. Index(k, t, total) = k.stored + 0 \div total
    BY <1>2, <1>4 DEF Index
  <2>2. 0 \div total = 0
    BY <1>4
  <2> QED
    BY <1>1, <2>1, <2>2
<1> QED
  BY <1>3, <1>4

(* p has earned nothing since it was settled. *)
EarnsNothingMore(k, total, w, t, p) == Earned(k, t, total, w, p) = k.owed[p]

LEMMA WeightlessEarned ==
  ASSUME NEW n \in Nat, NEW k \in Stream(0 .. n - 1), NEW t \in Nat, NEW total \in Nat,
         NEW w \in [0 .. n - 1 -> Nat], NEW p \in 0 .. n - 1, StreamClocks(k, t), w[p] = 0
  PROVE  EarnsNothingMore(k, total, w, t, p)
<1>1. Index(k, t, total) \in Nat /\ k.paid[p] \in Nat /\ k.owed[p] \in Nat
  BY IndexGrowth, StreamFields
<1>2. w[p] * (Index(k, t, total) - k.paid[p]) = 0
  <2>1. Index(k, t, total) - k.paid[p] \in Int
    BY <1>1
  <2> QED
    BY <2>1
<1>3. 0 \div REWARD_PRECISION = 0
  BY StreamConstants
<1> QED
  BY <1>1, <1>2, <1>3 DEF EarnsNothingMore, Earned, Accrued

(* A participant that is settled to the index has nothing to accrue.        *)
LEMMA SettledEarned ==
  ASSUME NEW n \in Nat, NEW k \in Stream(0 .. n - 1), NEW t \in Nat, NEW total \in Nat,
         NEW w \in [0 .. n - 1 -> Nat], NEW p \in 0 .. n - 1,
         Index(k, t, total) = k.stored, k.paid[p] = k.stored
  PROVE  EarnsNothingMore(k, total, w, t, p)
<1>1. k.stored \in Nat /\ k.owed[p] \in Nat /\ w[p] \in Nat
  BY StreamFields
<1>2. w[p] * (Index(k, t, total) - k.paid[p]) = 0
  <2>1. Index(k, t, total) - k.paid[p] = 0
    BY <1>1
  <2> QED
    BY <1>1, <2>1
<1>3. 0 \div REWARD_PRECISION = 0
  BY StreamConstants
<1> QED
  BY <1>1, <1>2, <1>3 DEF EarnsNothingMore, Earned, Accrued

(* What p has earned at t is the same in two states of a stream.            *)
EarnsTheSame(k2, total2, w2, k, total, w, t, p) ==
  Earned(k2, t, total2, w2, p) = Earned(k, t, total, w, p)

(* Settling changes nothing that has been earned, whatever total and weight *)
(* a settled participant has afterwards.                                    *)
LEMMA EarnedAfterSettling ==
  ASSUME NEW n \in Nat, NEW k \in Stream(0 .. n - 1), NEW t \in Nat, NEW total \in Nat,
         NEW w \in [0 .. n - 1 -> Nat], NEW who, NEW k2,
         StreamClocks(k, t), IndexesBehind(k),
         IsSettled(k2, k, t, total, w, who, n),
         NEW total2 \in Nat, NEW w2 \in [0 .. n - 1 -> Nat], NEW p \in 0 .. n - 1,
         p \in who \/ w2[p] = w[p]
  PROVE  EarnsTheSame(k2, total2, w2, k, total, w, t, p)
<1>1. /\ k2 \in Stream(0 .. n - 1) /\ k2.finish = k.finish
      /\ k2.updated = LastApplicable(k, t)
      /\ k2.stored = Index(k, t, total)
      /\ k2.owed[p] = IF p \in who THEN Earned(k, t, total, w, p) ELSE k.owed[p]
      /\ k2.paid[p] = IF p \in who THEN Index(k, t, total) ELSE k.paid[p]
  BY DEF IsSettled
<1>2. LastApplicable(k2, t) = k2.updated
  BY <1>1 DEF LastApplicable
<1>3. Index(k2, t, total2) = k2.stored
  BY <1>1, <1>2, IndexAtRest
<1>4. CASE p \in who
  <2>1. k2 \in Stream(0 .. n - 1) /\ k2.paid[p] = k2.stored
    BY <1>1, <1>4
  <2>2. EarnsNothingMore(k2, total2, w2, t, p)
    BY <1>3, <2>1, SettledEarned
  <2> QED
    BY <1>1, <1>4, <2>2 DEF EarnsNothingMore, EarnsTheSame
<1>5. CASE p \notin who
  <2>1. /\ Index(k2, t, total2) = Index(k, t, total)
        /\ k2.paid[p] = k.paid[p] /\ k2.owed[p] = k.owed[p] /\ w2[p] = w[p]
    BY <1>1, <1>3, <1>5
  <2> QED
    BY <2>1 DEF EarnsTheSame, Earned, Accrued
<1> QED
  BY <1>4, <1>5

(* Nor does the start of a new period. *)
LEMMA EarnedAfterNotice ==
  ASSUME NEW n \in Nat, NEW k \in Stream(0 .. n - 1), NEW t \in Nat, NEW total \in Nat,
         NEW w \in [0 .. n - 1 -> Nat], NEW amount,
         StreamClocks(k, t), IndexesBehind(k),
         NEW k2 \in Stream(0 .. n - 1), k2 = Notified(k, t, total, w, amount),
         NEW p \in 0 .. n - 1
  PROVE  EarnsTheSame(k2, total, w, k, total, w, t, p)
<1> DEFINE m == Settled(k, t, total, w, {})
<1>1. IsSettled(m, k, t, total, w, {}, n)
  BY SettledFields
<1>2. /\ k2.finish = t + REWARD_DURATION /\ k2.updated = t
      /\ k2.stored = m.stored /\ k2.paid = m.paid /\ k2.owed = m.owed
  <2> DEFINE q == (amount + Remaining(k, t)) \div REWARD_DURATION
  <2>1. k2 = [m EXCEPT !.rate = q, !.updated = t, !.finish = t + REWARD_DURATION,
                       !.notified = k.notified + amount]
    BY DEF Notified
  <2>2. m \in Stream(0 .. n - 1)
    BY <1>1 DEF IsSettled
  <2> HIDE DEF m, q
  <2> QED
    BY <2>1, <2>2 DEF Stream
<1> HIDE DEF m
<1>3. /\ m.stored = Index(k, t, total)
      /\ m.owed[p] = k.owed[p] /\ m.paid[p] = k.paid[p]
  BY <1>1 DEF IsSettled
<1>4. LastApplicable(k2, t) = k2.updated
  BY <1>2, StreamConstants DEF LastApplicable
<1>5. Index(k2, t, total) = Index(k, t, total)
  BY <1>2, <1>3, <1>4, IndexAtRest
<1> QED
  BY <1>2, <1>3, <1>5 DEF EarnsTheSame, Earned, Accrued

(* Of the participants only s has less after it has been paid, and that is  *)
(* nothing.                                                                 *)
OnlyPaid(k2, k, total, w, t, s, p) ==
  IF p = s THEN Earned(k2, t, total, w, p) = 0 ELSE EarnsTheSame(k2, total, w, k, total, w, t, p)

LEMMA EarnedAfterPayment ==
  ASSUME NEW n \in Nat, NEW k \in Stream(0 .. n - 1), NEW t \in Nat, NEW total \in Nat,
         NEW w \in [0 .. n - 1 -> Nat], NEW s \in 0 .. n - 1, NEW k2,
         StreamClocks(k, t), IndexesBehind(k),
         k2 = Paid(Settled(k, t, total, w, {s}), s),
         NEW p \in 0 .. n - 1
  PROVE  OnlyPaid(k2, k, total, w, t, s, p)
<1> DEFINE m == Settled(k, t, total, w, {s})
<1>1. IsSettled(m, k, t, total, w, {s}, n)
  BY SettledFields
<1>2. m \in Stream(0 .. n - 1)
  BY <1>1 DEF IsSettled
<1>3. /\ k2 \in Stream(0 .. n - 1)
      /\ k2.finish = m.finish /\ k2.updated = m.updated /\ k2.rate = m.rate
      /\ k2.stored = m.stored /\ k2.paid = m.paid
      /\ k2.owed = [m.owed EXCEPT ![s] = 0]
  <2>1. k2 = Paid(m, s)
    OBVIOUS
  <2> HIDE DEF m
  <2>2. m.owed \in [0 .. n - 1 -> Nat]
    BY <1>2, StreamFields
  <2>3. k2 = [m EXCEPT !.owed = [m.owed EXCEPT ![s] = 0]]
    BY <2>1 DEF Paid
  <2>4. [m.owed EXCEPT ![s] = 0] \in [0 .. n - 1 -> Nat]
    BY <2>2
  <2> QED
    BY <1>2, <2>3, <2>4 DEF Stream
<1> HIDE DEF m
<1>4. m.owed \in [0 .. n - 1 -> Nat]
  BY <1>2, StreamFields
<1>5. m.finish = k.finish /\ m.updated = LastApplicable(k, t)
  BY <1>1 DEF IsSettled
<1>6. LastApplicable(k2, t) = k2.updated
  BY <1>3, <1>5 DEF LastApplicable
<1>7. Index(k2, t, total) = k2.stored
  BY <1>3, <1>6, IndexAtRest
<1>8. CASE p = s
  <2>1. m.stored = Index(k, t, total) /\ m.paid[p] = Index(k, t, total)
    BY <1>1, <1>8 DEF IsSettled
  <2>2. k2.paid[p] = k2.stored /\ k2.owed[p] = 0
    BY <1>3, <1>4, <1>8, <2>1
  <2>3. EarnsNothingMore(k2, total, w, t, p)
    BY <1>3, <1>7, <2>2, SettledEarned
  <2> QED
    BY <1>8, <2>2, <2>3 DEF OnlyPaid, EarnsNothingMore
<1>9. CASE p # s
  <2>1. m.stored = Index(k, t, total) /\ m.paid[p] = k.paid[p] /\ m.owed[p] = k.owed[p]
    BY <1>1, <1>9 DEF IsSettled
  <2>2. /\ Index(k2, t, total) = Index(k, t, total)
        /\ k2.paid[p] = k.paid[p] /\ k2.owed[p] = k.owed[p]
    BY <1>3, <1>4, <1>7, <1>9, <2>1
  <2>3. Earned(k2, t, total, w, p) = Earned(k, t, total, w, p)
    BY <2>2 DEF Earned, Accrued
  <2> QED
    BY <1>9, <2>3 DEF OnlyPaid, EarnsTheSame
<1> QED
  BY <1>8, <1>9

(* Joining gives a participant nothing, and the others lose nothing.        *)
LEMMA EarnedAfterJoining ==
  ASSUME NEW n \in Nat, NEW k \in Stream(0 .. n - 1), NEW t \in Nat, NEW total \in Nat,
         NEW w \in [0 .. n - 1 -> Nat], NEW s \in 0 .. n - 1, NEW k2,
         StreamClocks(k, t), w[s] = 0,
         k2 = [k EXCEPT !.paid[s] = k.stored],
         NEW p \in 0 .. n - 1
  PROVE  EarnsTheSame(k2, total, w, k, total, w, t, p)
<1>1. k.stored \in Nat /\ k.paid \in [0 .. n - 1 -> Nat]
  BY StreamFields
<1>2. /\ k2 \in Stream(0 .. n - 1)
      /\ k2.finish = k.finish /\ k2.rate = k.rate /\ k2.updated = k.updated
      /\ k2.stored = k.stored /\ k2.owed = k.owed
      /\ k2.paid = [k.paid EXCEPT ![s] = k.stored]
  BY <1>1 DEF Stream
<1>3. Index(k2, t, total) = Index(k, t, total) /\ StreamClocks(k2, t)
  BY <1>2 DEF Index, LastApplicable, StreamClocks
<1>4. CASE p = s
  <2>1. EarnsNothingMore(k2, total, w, t, p)
    BY <1>2, <1>3, <1>4, WeightlessEarned
  <2>2. EarnsNothingMore(k, total, w, t, p)
    BY <1>4, WeightlessEarned
  <2> QED
    BY <1>2, <2>1, <2>2 DEF EarnsNothingMore, EarnsTheSame
<1>5. CASE p # s
  <2>1. k2.paid[p] = k.paid[p] /\ k2.owed[p] = k.owed[p]
    BY <1>1, <1>2, <1>5
  <2> QED
    BY <1>3, <2>1 DEF EarnsTheSame, Earned, Accrued
<1> QED
  BY <1>4, <1>5

-----------------------------------------------------------------------------
(* The steps that Resonance and the Bribes take with a sound stream.        *)

LEMMA SoundFields ==
  ASSUME NEW n \in Nat, NEW k, NEW t, NEW w, NEW balance, StreamSound(k, t, w, n, balance)
  PROVE  /\ k \in Stream(0 .. n - 1) /\ w \in [0 .. n - 1 -> Nat]
         /\ StreamClocks(k, t) /\ IndexesBehind(k) /\ IndexBounded(k)
         /\ PartialSum(w, n) \in Nat
BY SumNatural DEF StreamSound

(* Participants are settled, and then their weights may change. *)
LEMMA SettledStream ==
  ASSUME NEW n \in Nat, NEW k, NEW t \in Nat, NEW w, NEW balance \in Nat, NEW total,
         StreamSound(k, t, w, n, balance), total = PartialSum(w, n),
         NEW who, NEW w2 \in [0 .. n - 1 -> Nat],
         \A p \in 0 .. n - 1 : w2[p] = w[p] \/ p \in who
  PROVE  StreamSound(Settled(k, t, total, w, who), t, w2, n, balance)
<1> DEFINE k2 == Settled(k, t, total, w, who)
<1>1. /\ k \in Stream(0 .. n - 1) /\ w \in [0 .. n - 1 -> Nat]
      /\ StreamClocks(k, t) /\ IndexesBehind(k) /\ total \in Nat
  BY SoundFields
<1>2. StreamSound(k2, t, w, n, balance)
  BY SettledSound
<1>3. IsSettled(k2, k, t, total, w, who, n)
  BY <1>1, SettledFields
<1>4. \A p \in 0 .. n - 1 : w2[p] = w[p] \/ k2.paid[p] = k2.stored
  BY <1>3 DEF IsSettled
<1>5. StreamSound(k2, t, w2, n, balance)
  BY <1>2, <1>4, WeightSound
<1> QED
  BY <1>5

LEMMA SettledStreamEarned ==
  ASSUME NEW n \in Nat, NEW k, NEW t \in Nat, NEW w, NEW balance, NEW total,
         StreamSound(k, t, w, n, balance), total = PartialSum(w, n),
         NEW who, NEW w2 \in [0 .. n - 1 -> Nat], NEW total2 \in Nat,
         NEW p \in 0 .. n - 1, w2[p] = w[p] \/ p \in who
  PROVE  EarnsTheSame(Settled(k, t, total, w, who), total2, w2, k, total, w, t, p)
<1> DEFINE k2 == Settled(k, t, total, w, who)
<1>1. /\ k \in Stream(0 .. n - 1) /\ w \in [0 .. n - 1 -> Nat]
      /\ StreamClocks(k, t) /\ IndexesBehind(k) /\ total \in Nat
  BY SoundFields
<1>2. IsSettled(k2, k, t, total, w, who, n)
  BY <1>1, SettledFields
<1> HIDE DEF k2
<1>3. EarnsTheSame(k2, total2, w2, k, total, w, t, p)
  BY <1>1, <1>2, EarnedAfterSettling
<1> QED
  BY <1>3 DEF k2

(* One participant is settled and paid. *)
LEMMA PaidOutStream ==
  ASSUME NEW n \in Nat, NEW k, NEW t \in Nat, NEW w, NEW balance \in Nat, NEW total,
         StreamSound(k, t, w, n, balance), total = PartialSum(w, n),
         NEW s \in 0 .. n - 1
  PROVE  StreamSound(Paid(Settled(k, t, total, w, {s}), s), t, w, n,
                     balance - Earned(k, t, total, w, s))
<1> DEFINE m == Settled(k, t, total, w, {s})
<1>1. /\ k \in Stream(0 .. n - 1) /\ w \in [0 .. n - 1 -> Nat]
      /\ StreamClocks(k, t) /\ IndexesBehind(k) /\ total \in Nat
  BY SoundFields
<1>2. StreamSound(m, t, w, n, balance)
  BY SettledSound
<1>3. IsSettled(m, k, t, total, w, {s}, n)
  BY <1>1, SettledFields
<1> HIDE DEF m
<1>4. m.owed[s] = Earned(k, t, total, w, s)
  BY <1>3 DEF IsSettled
<1>5. StreamSound(Paid(m, s), t, w, n, balance - m.owed[s])
  BY <1>2, PaidSound
<1> QED
  BY <1>4, <1>5 DEF m

(* The weights of a stream on which nothing was ever notified are free.     *)
LEMMA IdleStream ==
  ASSUME NEW n \in Nat, NEW t, NEW w, NEW balance, NEW k, k = NewStream(0 .. n - 1),
         StreamSound(k, t, w, n, balance),
         NEW w2 \in [0 .. n - 1 -> Nat]
  PROVE  StreamSound(k, t, w2, n, balance)
<1>1. \A p \in 0 .. n - 1 : k.paid[p] = k.stored
  BY DEF NewStream
<1> QED
  BY <1>1, WeightSound

LEMMA IdleEarned ==
  ASSUME NEW n \in Nat, NEW t \in Nat, NEW k, k = NewStream(0 .. n - 1),
         NEW w \in [0 .. n - 1 -> Nat], NEW total \in Nat,
         NEW w2 \in [0 .. n - 1 -> Nat], NEW total2 \in Nat, NEW p \in 0 .. n - 1
  PROVE  EarnsTheSame(k, total2, w2, k, total, w, t, p)
<1>1. /\ k.finish = 0 /\ k.updated = 0 /\ k.stored = 0
      /\ k.paid[p] = 0 /\ k.owed[p] = 0
  BY DEF NewStream
<1>2. k \in Stream(0 .. n - 1)
  BY DEF NewStream, Stream
<1>3. LastApplicable(k, t) = k.updated
  BY <1>1 DEF LastApplicable
<1>4. \A total3 \in Nat : Index(k, t, total3) = k.stored
  BY <1>2, <1>3, IndexAtRest
<1>5. EarnsNothingMore(k, total, w, t, p) /\ EarnsNothingMore(k, total2, w2, t, p)
  BY <1>1, <1>2, <1>4, SettledEarned
<1> QED
  BY <1>5 DEF EarnsNothingMore, EarnsTheSame

(* A notice of at least REWARD_DURATION pays something every second.        *)
LEMMA NotifiedPays ==
  ASSUME NEW n \in Nat, NEW k, NEW t \in Nat, NEW w, NEW balance, NEW total \in Nat,
         NEW amount \in Nat,
         StreamSound(k, t, w, n, balance), amount >= REWARD_DURATION
  PROVE  Notified(k, t, total, w, amount).rate > 0
<1> DEFINE m == Settled(k, t, total, w, {})
           a == amount + Remaining(k, t)
           d == REWARD_DURATION
           q == a \div d
<1>1. /\ k \in Stream(0 .. n - 1) /\ w \in [0 .. n - 1 -> Nat]
      /\ StreamClocks(k, t) /\ IndexesBehind(k)
  BY SoundFields
<1>2. IsSettled(m, k, t, total, w, {}, n)
  BY <1>1, SettledFields
<1>3. Notified(k, t, total, w, amount).rate = q
  <2>1. m \in Stream(0 .. n - 1)
    BY <1>2 DEF IsSettled
  <2>2. Notified(k, t, total, w, amount)
          = [m EXCEPT !.rate = q, !.updated = t, !.finish = t + REWARD_DURATION,
                      !.notified = k.notified + amount]
    BY DEF Notified
  <2> HIDE DEF m, q
  <2> QED
    BY <2>1, <2>2 DEF Stream
<1>4. Remaining(k, t) \in Nat
  BY <1>1, ClockBounds
<1>5. a \in Nat /\ d \in Nat \ {0} /\ a >= d
  BY <1>4, StreamConstants
<1> HIDE DEF a, d
<1>6. a \div d > 0
  BY <1>5
<1> QED
  BY <1>3, <1>6

-----------------------------------------------------------------------------
(* The contracts.                                                          *)

RevenueSound == StreamSound(revenue, now, ActiveWeights, NumStrategies, resonanceUSDG)

RewardSound(s, t) ==
  StreamSound(reward[s][t], now, weightOf[s], NumAccounts, bribeBalance[s][t])

(* A Bribe settles the tokens that are registered: the others must have     *)
(* nothing to settle.                                                       *)
IdleUntilAdded ==
  \A s \in Strategies : \A t \in Tokens \ rewardTokens[s] : reward[s][t] = NewStream(Accounts)

BribeInv ==
  /\ BribeTypeOK
  /\ BribeWeightIsSum
  /\ \A s \in Strategies, t \in Tokens : RewardSound(s, t)
  /\ IdleUntilAdded

ResonanceInv ==
  /\ TypeOK
  /\ liveStrategyCount = Cardinality(live)
  /\ totalSignalWeight = PartialSum(ActiveWeights, NumStrategies)
  /\ \A s \in Strategies \ registered : bribeWeight[s] = 0
  /\ RevenueSound
  /\ RoutedStreamsPay

IInv == BribeInv /\ ResonanceInv

-----------------------------------------------------------------------------
(* Initially nothing has happened. *)

LEMMA StrategiesAndAccounts ==
  /\ NumStrategies \in Nat /\ NumAccounts \in Nat
  /\ Strategies = 0 .. NumStrategies - 1 /\ Accounts = 0 .. NumAccounts - 1
BY BribeConstants DEF Strategies, Accounts

LEMMA SumOfNothing ==
  ASSUME NEW n \in Nat
  PROVE  PartialSum([p \in 0 .. n - 1 |-> 0], n) = 0
<1> DEFINE f == [p \in 0 .. n - 1 |-> 0]
<1>1. f \in [0 .. n - 1 -> Int] /\ \A p \in 0 .. n - 1 : f[p] = 0
  OBVIOUS
<1> HIDE DEF f
<1>2. PartialSum(f, n) = 0
  BY <1>1, SumZero
<1> QED
  BY <1>2 DEF f

LEMMA NewStreamType ==
  ASSUME NEW n \in Nat
  PROVE  NewStream(0 .. n - 1) \in Stream(0 .. n - 1)
BY DEF NewStream, Stream

LEMMA InitBribeInv == BribeInit => BribeInv
<1> SUFFICES ASSUME BribeInit PROVE BribeInv
  OBVIOUS
<1> DEFINE none == [a \in Accounts |-> 0]
<1>1. /\ now = 0
      /\ \A s \in Strategies : weightOf[s] = none /\ bribeWeight[s] = 0
      /\ \A s \in Strategies, t \in Tokens :
           reward[s][t] = NewStream(Accounts) /\ bribeBalance[s][t] = 0
  BY DEF BribeInit
<1>2. NewStream(Accounts) \in Stream(Accounts)
  BY NewStreamType, StrategiesAndAccounts
<1>3. BribeTypeOK
  <2>1. now \in Times
    BY <1>1, BribeConstants DEF Times
  <2>2. reward \in [Strategies -> [Tokens -> Stream(Accounts)]]
    BY <1>2 DEF BribeInit
  <2> QED
    BY <2>1, <2>2 DEF BribeTypeOK, BribeInit
<1>4. BribeWeightIsSum
  <2>1. PartialSum(none, NumAccounts) = 0
    BY SumOfNothing, StrategiesAndAccounts
  <2> QED
    BY <1>1, <2>1 DEF BribeWeightIsSum
<1>5. \A s \in Strategies, t \in Tokens : RewardSound(s, t)
  <2>1. none \in [0 .. NumAccounts - 1 -> Nat]
    BY StrategiesAndAccounts
  <2> HIDE DEF none
  <2>2. StreamSound(NewStream(Accounts), 0, none, NumAccounts, 0)
    BY <2>1, NewStreamSound, StrategiesAndAccounts
  <2> QED
    BY <1>1, <2>2 DEF RewardSound
<1>6. IdleUntilAdded
  BY <1>1 DEF IdleUntilAdded
<1> QED
  BY <1>3, <1>4, <1>5, <1>6 DEF BribeInv

LEMMA InitResonanceInv == Init => ResonanceInv
<1> SUFFICES ASSUME Init PROVE ResonanceInv
  OBVIOUS
<1>1. BribeTypeOK
  BY InitBribeInv DEF Init, BribeInv
<1>2. TypeOK
  <2>1. revenue \in Stream(Strategies)
    BY NewStreamType, StrategiesAndAccounts DEF Init
  <2>2. bribeBps \in 0 .. MAX_BRIBE_BPS
    BY ResonanceConstants DEF Init
  <2> QED
    BY <1>1, <2>1, <2>2 DEF TypeOK, Init
<1>3. liveStrategyCount = Cardinality(live)
  BY FS_EmptySet DEF Init
<1>4. ActiveWeights = [s \in 0 .. NumStrategies - 1 |-> 0]
  BY StrategiesAndAccounts DEF ActiveWeights, Init
<1>5. totalSignalWeight = PartialSum(ActiveWeights, NumStrategies)
  BY <1>4, SumOfNothing, StrategiesAndAccounts DEF Init
<1>6. \A s \in Strategies \ registered : bribeWeight[s] = 0
  BY DEF Init, BribeInit
<1>7. RevenueSound
  <2>1. ActiveWeights \in [0 .. NumStrategies - 1 -> Nat]
    BY <1>4
  <2>2. now = 0 /\ resonanceUSDG = 0 /\ revenue = NewStream(Strategies)
    BY DEF Init, BribeInit
  <2> HIDE DEF Init
  <2>3. StreamSound(NewStream(Strategies), 0, ActiveWeights, NumStrategies, 0)
    BY <2>1, NewStreamSound, StrategiesAndAccounts
  <2> QED
    BY <2>2, <2>3 DEF RevenueSound
<1>8. RoutedStreamsPay
  BY DEF RoutedStreamsPay, Init, BribeInit, NewStream
<1> QED
  BY <1>2, <1>3, <1>5, <1>6, <1>7, <1>8 DEF ResonanceInv

-----------------------------------------------------------------------------
(* The steps of the Bribes. *)

LEMMA RewardFacts ==
  ASSUME BribeInv, NEW s \in Strategies, NEW t \in Tokens
  PROVE  /\ now \in Nat
         /\ bribeWeight[s] = PartialSum(weightOf[s], NumAccounts)
         /\ bribeWeight[s] \in Nat
         /\ weightOf[s] \in [0 .. NumAccounts - 1 -> Nat]
         /\ reward[s][t] \in Stream(0 .. NumAccounts - 1)
         /\ bribeBalance[s][t] \in Nat
         /\ StreamSound(reward[s][t], now, weightOf[s], NumAccounts, bribeBalance[s][t])
         /\ t \notin rewardTokens[s] => reward[s][t] = NewStream(0 .. NumAccounts - 1)
BY StrategiesAndAccounts, BribeConstants
   DEF BribeInv, BribeTypeOK, BribeWeightIsSum, RewardSound, IdleUntilAdded, Times

(* The update of a Bribe's index never reverts.                             *)
LEMMA BribeUpdateFits ==
  ASSUME BribeInv, NEW s \in Strategies, NEW t \in Tokens
  PROVE  BribeIndexFits(s, t)
<1>1. /\ NumAccounts \in Nat /\ now \in Nat /\ bribeWeight[s] \in Nat
      /\ reward[s][t] \in Stream(0 .. NumAccounts - 1)
      /\ StreamClocks(reward[s][t], now) /\ IndexBounded(reward[s][t])
  BY RewardFacts, SoundFields, StrategiesAndAccounts
<1> QED
  BY <1>1, IndexAlwaysFits DEF BribeIndexFits

(* What the books of one reward have to keep for BribeInv. *)
RewardKept(s, t) ==
  /\ reward'[s][t] \in Stream(Accounts)
  /\ bribeBalance'[s][t] \in Nat
  /\ StreamSound(reward'[s][t], now', weightOf'[s], NumAccounts, bribeBalance'[s][t])
  /\ t \notin rewardTokens'[s] => reward'[s][t] = NewStream(Accounts)

(* What a step at one timestamp may do to what an account has earned. *)
EarningsKept(s, t, a) ==
  \/ RewardEarned(s, t, a)' = RewardEarned(s, t, a)
  \/ /\ RewardEarned(s, t, a)' = 0
     /\ bribeBalance'[s][t] = bribeBalance[s][t] - RewardEarned(s, t, a)

LEMMA BribeInvKept ==
  ASSUME now' \in Times,
         weightOf' \in [Strategies -> [Accounts -> Nat]],
         bribeWeight' \in [Strategies -> Nat],
         rewardTokens' \in [Strategies -> SUBSET Tokens],
         reward' = [s \in Strategies |-> [t \in Tokens |-> reward'[s][t]]],
         bribeBalance' = [s \in Strategies |-> [t \in Tokens |-> bribeBalance'[s][t]]],
         \A s \in Strategies : bribeWeight'[s] = PartialSum(weightOf'[s], NumAccounts),
         \A s \in Strategies, t \in Tokens : RewardKept(s, t)
  PROVE  BribeInv'
<1>1. BribeTypeOK'
  <2>1. \A s \in Strategies, t \in Tokens :
          reward'[s][t] \in Stream(Accounts) /\ bribeBalance'[s][t] \in Nat
    BY DEF RewardKept
  <2>2. reward' \in [Strategies -> [Tokens -> Stream(Accounts)]]
    BY <2>1
  <2>3. bribeBalance' \in [Strategies -> [Tokens -> Nat]]
    BY <2>1
  <2> QED
    BY <2>2, <2>3 DEF BribeTypeOK
<1>2. BribeWeightIsSum'
  BY DEF BribeWeightIsSum
<1>3. \A s \in Strategies, t \in Tokens : RewardSound(s, t)'
  BY DEF RewardKept, RewardSound
<1>4. IdleUntilAdded'
  BY DEF IdleUntilAdded, RewardKept
<1> QED
  BY <1>1, <1>2, <1>3, <1>4 DEF BribeInv

(* A step that leaves a Bribe's streams, weights and balances alone. *)
LEMMA RewardUntouched ==
  ASSUME BribeInv, now' = now, NEW s \in Strategies, NEW t \in Tokens,
         reward'[s][t] = reward[s][t], bribeBalance'[s][t] = bribeBalance[s][t],
         weightOf'[s] = weightOf[s], bribeWeight'[s] = bribeWeight[s],
         rewardTokens[s] \subseteq rewardTokens'[s]
  PROVE  /\ RewardKept(s, t)
         /\ \A a \in Accounts : RewardEarned(s, t, a)' = RewardEarned(s, t, a)
<1>1. RewardKept(s, t)
  BY RewardFacts, StrategiesAndAccounts DEF RewardKept
<1>2. \A a \in Accounts : RewardEarned(s, t, a)' = RewardEarned(s, t, a)
  BY DEF RewardEarned
<1> QED
  BY <1>1, <1>2

LEMMA BribeShapes ==
  ASSUME BribeInv
  PROVE  /\ reward = [s \in Strategies |-> [t \in Tokens |-> reward[s][t]]]
         /\ bribeBalance = [s \in Strategies |-> [t \in Tokens |-> bribeBalance[s][t]]]
<1>1. /\ reward \in [Strategies -> [Tokens -> Stream(Accounts)]]
      /\ bribeBalance \in [Strategies -> [Tokens -> Nat]]
  BY DEF BribeInv, BribeTypeOK
<1>2. reward = [s \in Strategies |-> [t \in Tokens |-> reward[s][t]]]
  BY <1>1
<1>3. bribeBalance = [s \in Strategies |-> [t \in Tokens |-> bribeBalance[s][t]]]
  BY <1>1
<1> QED
  BY <1>2, <1>3

LEMMA SumShift ==
  ASSUME NEW n \in Nat, NEW w \in [0 .. n - 1 -> Int], NEW j \in 0 .. n - 1, NEW x \in Int,
         NEW w2, w2 = [w EXCEPT ![j] = x]
  PROVE  PartialSum(w2, n) = PartialSum(w, n) + (x - w[j])
<1>1. SameExceptAt(w, w2, j, n) /\ w2[j] = x
  BY DEF SameExceptAt
<1> QED
  BY <1>1, SumUpdate

(***************************************************************************)
(* The weight of one account changes in some Bribes, in which its rewards  *)
(* have just been settled.                                                 *)
(***************************************************************************)
Reweighed(account, bribes) ==
  /\ now' = now
  /\ bribes \subseteq Strategies
  /\ reward' = RewardsSettledFor(account, bribes)
  /\ UNCHANGED <<rewardTokens, bribeBalance>>
  /\ weightOf' \in [Strategies -> [Accounts -> Nat]]
  /\ \A s \in Strategies : bribeWeight'[s] = PartialSum(weightOf'[s], NumAccounts)
  /\ \A s \in Strategies, a \in Accounts :
       (s \in bribes /\ a = account) \/ weightOf'[s][a] = weightOf[s][a]

LEMMA RewardReweighed ==
  ASSUME BribeInv, NEW account \in Accounts, NEW bribes, Reweighed(account, bribes),
         NEW s \in Strategies, NEW t \in Tokens
  PROVE  /\ RewardKept(s, t)
         /\ \A a \in Accounts : RewardEarned(s, t, a)' = RewardEarned(s, t, a)
<1> DEFINE k == reward[s][t]
           n == NumAccounts
           w == weightOf[s]
           w2 == weightOf'[s]
           total == bribeWeight[s]
           total2 == bribeWeight'[s]
           balance == bribeBalance[s][t]
<1>1. /\ n \in Nat /\ now \in Nat /\ Accounts = 0 .. n - 1
      /\ total = PartialSum(w, n) /\ total \in Nat
      /\ w \in [0 .. n - 1 -> Nat] /\ k \in Stream(0 .. n - 1) /\ balance \in Nat
      /\ StreamSound(k, now, w, n, balance)
      /\ t \notin rewardTokens[s] => k = NewStream(0 .. n - 1)
  BY RewardFacts, StrategiesAndAccounts
<1> USE DEF Reweighed
<1>2. w2 \in [0 .. n - 1 -> Nat]
  BY <1>1
<1>3. total2 = PartialSum(w2, n) /\ total2 \in Nat
  BY <1>1, <1>2, SumNatural
<1>4. \A a \in 0 .. n - 1 : w2[a] = w[a] \/ (s \in bribes /\ a = account)
  BY <1>1
<1>5. CASE s \notin bribes
  <2>1. w2 = w
    BY <1>1, <1>2, <1>4, <1>5
  <2>2. reward'[s] = reward[s]
    BY <1>5 DEF RewardsSettledFor
  <2>3. total2 = total
    BY <1>1, <1>3, <2>1
  <2> QED
    BY <2>1, <2>2, <2>3, RewardUntouched
<1>6. CASE s \in bribes /\ t \notin rewardTokens[s]
  <2>1. reward'[s][t] = k
    BY <1>6 DEF RewardsSettledFor, AllRewardsSettled
  <2>2. k = NewStream(0 .. n - 1)
    BY <1>1, <1>6
  <2> HIDE DEF k, w, w2, total, total2, n, balance
  <2>3. StreamSound(k, now, w2, n, balance)
    BY <1>1, <1>2, <2>2, IdleStream
  <2>4. RewardKept(s, t)
    BY <1>1, <2>1, <2>2, <2>3 DEF RewardKept, w2, n, balance
  <2>5. \A a \in 0 .. n - 1 : EarnsTheSame(k, total2, w2, k, total, w, now, a)
    BY <1>1, <1>2, <1>3, <2>2, IdleEarned
  <2>6. \A a \in Accounts : RewardEarned(s, t, a)' = RewardEarned(s, t, a)
    BY <1>1, <2>1, <2>5 DEF RewardEarned, EarnsTheSame, k, w, w2, total, total2
  <2> QED
    BY <2>4, <2>6
<1>7. CASE s \in bribes /\ t \in rewardTokens[s]
  <2> DEFINE k2 == Settled(k, now, total, w, {account})
  <2>1. reward'[s][t] = k2
    BY <1>7 DEF RewardsSettledFor, AllRewardsSettled, RewardSettled
  <2> HIDE DEF k, w, w2, total, total2, n, balance
  <2>2. \A a \in 0 .. n - 1 : w2[a] = w[a] \/ a \in {account}
    BY <1>4
  <2>3. StreamSound(k2, now, w2, n, balance)
    BY <1>1, <1>2, <2>2, SettledStream
  <2>4. \A a \in 0 .. n - 1 : EarnsTheSame(k2, total2, w2, k, total, w, now, a)
    BY <1>1, <1>2, <1>3, <2>2, SettledStreamEarned
  <2> HIDE DEF k2
  <2>5. RewardKept(s, t)
    <3>1. k2 \in Stream(0 .. n - 1)
      BY <1>1, <2>3, SoundFields
    <3> QED
      BY <1>1, <1>7, <2>1, <2>3, <3>1 DEF RewardKept, w2, n, balance
  <2>6. \A a \in Accounts : RewardEarned(s, t, a)' = RewardEarned(s, t, a)
    BY <1>1, <2>1, <2>4 DEF RewardEarned, EarnsTheSame, k, w, w2, total, total2
  <2> QED
    BY <2>5, <2>6
<1> QED
  BY <1>5, <1>6, <1>7

EarningsStand == \A s \in Strategies, t \in Tokens, a \in Accounts : EarningsKept(s, t, a)

(* Signal is added to, or taken from, the weights of one account. *)
SignalMoves(account, allocation, moved) ==
  /\ now' = now
  /\ reward' = RewardsSettledFor(account, Touched(allocation))
  /\ UNCHANGED <<rewardTokens, bribeBalance>>
  /\ \A s \in Strategies : allocation[s] = 0 => moved[s] = 0
  /\ \A s \in Strategies : weightOf[s][account] + moved[s] \in Nat
  /\ weightOf' = [s \in Strategies |->
                    [weightOf[s] EXCEPT ![account] = weightOf[s][account] + moved[s]]]
  /\ bribeWeight' = [s \in Strategies |-> bribeWeight[s] + moved[s]]

LEMMA ReweighStep ==
  ASSUME BribeInv, NEW account \in Accounts, NEW allocation,
         NEW moved \in [Strategies -> Int], SignalMoves(account, allocation, moved)
  PROVE  BribeInv' /\ EarningsStand
<1> USE DEF SignalMoves
<1>1. /\ NumAccounts \in Nat /\ Accounts = 0 .. NumAccounts - 1
      /\ weightOf \in [Strategies -> [Accounts -> Nat]]
      /\ bribeWeight \in [Strategies -> Nat]
      /\ rewardTokens \in [Strategies -> SUBSET Tokens]
      /\ now \in Times
  BY StrategiesAndAccounts DEF BribeInv, BribeTypeOK
<1>2. \A s \in Strategies :
        weightOf'[s] = [weightOf[s] EXCEPT ![account] = weightOf[s][account] + moved[s]]
  OBVIOUS
<1>3. weightOf' \in [Strategies -> [Accounts -> Nat]]
  BY <1>1
<1>4. \A s \in Strategies : bribeWeight'[s] = PartialSum(weightOf'[s], NumAccounts)
  <2> TAKE s \in Strategies
  <2> DEFINE w == weightOf[s]
             w2 == weightOf'[s]
             x == w[account] + moved[s]
  <2>1. w \in [0 .. NumAccounts - 1 -> Int] /\ account \in 0 .. NumAccounts - 1 /\ x \in Int
    BY <1>1
  <2>2. w2 = [w EXCEPT ![account] = x]
    BY <1>2
  <2>3. w[account] \in Int /\ moved[s] \in Int
    BY <1>1
  <2>4. bribeWeight[s] = PartialSum(w, NumAccounts) /\ bribeWeight[s] \in Nat
    BY <1>1 DEF BribeInv, BribeWeightIsSum
  <2>5. x - w[account] = moved[s]
    BY <2>3
  <2> HIDE DEF w, w2, x
  <2>6. PartialSum(w2, NumAccounts) = PartialSum(w, NumAccounts) + (x - w[account])
    BY <1>1, <2>1, <2>2, SumShift
  <2> QED
    BY <2>4, <2>5, <2>6 DEF w2
<1>5. \A s \in Strategies, a \in Accounts :
        (s \in Touched(allocation) /\ a = account) \/ weightOf'[s][a] = weightOf[s][a]
  <2> TAKE s \in Strategies, a \in Accounts
  <2>1. CASE a # account
    BY <1>1, <1>2, <2>1
  <2>2. CASE allocation[s] # 0
    <3>1. s \in Touched(allocation)
      BY <2>2 DEF Touched
    <3> QED
      BY <2>1, <3>1
  <2>3. CASE a = account /\ allocation[s] = 0
    <3>1. weightOf[s][a] \in Nat /\ moved[s] = 0
      BY <1>1, <2>3
    <3>2. weightOf'[s][a] = weightOf[s][a] + moved[s]
      BY <1>1, <1>2, <2>3
    <3> QED
      BY <3>1, <3>2
  <2> QED
    BY <2>1, <2>2, <2>3
<1>6. \A s \in Strategies, t \in Tokens :
        RewardKept(s, t) /\ \A a \in Accounts : RewardEarned(s, t, a)' = RewardEarned(s, t, a)
  <2>1. Touched(allocation) \subseteq Strategies
    BY DEF Touched
  <2>2. Reweighed(account, Touched(allocation))
    BY <1>3, <1>4, <1>5, <2>1 DEF Reweighed
  <2> QED
    BY <2>2, RewardReweighed
<1>7. bribeWeight' \in [Strategies -> Nat]
  <2>1. \A s \in Strategies : weightOf'[s] \in [0 .. NumAccounts - 1 -> Nat]
    BY <1>1, <1>3
  <2>2. \A s \in Strategies : PartialSum(weightOf'[s], NumAccounts) \in Nat
    BY <1>1, <2>1, SumNatural
  <2>3. \A s \in Strategies : bribeWeight'[s] \in Nat
    BY <1>4, <2>2
  <2> QED
    BY <2>3
<1>8. /\ reward' = [s \in Strategies |-> [t \in Tokens |-> reward'[s][t]]]
      /\ bribeBalance' = [s \in Strategies |-> [t \in Tokens |-> bribeBalance'[s][t]]]
  <2>1. \A s \in Strategies : reward[s] = [t \in Tokens |-> reward[s][t]]
    BY DEF BribeInv, BribeTypeOK
  <2>2. \A s \in Strategies : reward'[s] = [t \in Tokens |-> reward'[s][t]]
    BY <2>1 DEF RewardsSettledFor, AllRewardsSettled
  <2>3. reward' = [s \in Strategies |-> reward'[s]]
    BY DEF RewardsSettledFor
  <2> QED
    BY <2>2, <2>3, BribeShapes
<1>9. BribeInv'
  BY <1>1, <1>3, <1>4, <1>6, <1>7, <1>8, BribeInvKept
<1>10. EarningsStand
  BY <1>6 DEF EarningsStand, EarningsKept
<1> QED
  BY <1>9, <1>10

LEMMA AddSignalWeightStep ==
  ASSUME BribeInv, now' = now, NEW account \in Accounts, NEW allocation \in [Strategies -> Nat],
         AddSignalWeight(account, allocation)
  PROVE  BribeInv' /\ EarningsStand
<1>1. weightOf \in [Strategies -> [Accounts -> Nat]] /\ bribeWeight \in [Strategies -> Nat]
  BY DEF BribeInv, BribeTypeOK
<1>2. allocation \in [Strategies -> Int]
  OBVIOUS
<1>3. \A s \in Strategies : weightOf[s][account] + allocation[s] \in Nat
  BY <1>1
<1>4. SignalMoves(account, allocation, allocation)
  BY <1>3 DEF AddSignalWeight, SignalMoves
<1> QED
  BY <1>2, <1>4, ReweighStep

LEMMA RemoveSignalWeightStep ==
  ASSUME BribeInv, now' = now, NEW account \in Accounts, NEW allocation \in [Strategies -> Nat],
         RemoveSignalWeight(account, allocation)
  PROVE  BribeInv' /\ EarningsStand
<1> DEFINE moved == [s \in Strategies |-> 0 - allocation[s]]
<1>1. weightOf \in [Strategies -> [Accounts -> Nat]] /\ bribeWeight \in [Strategies -> Nat]
  BY DEF BribeInv, BribeTypeOK
<1>2. moved \in [Strategies -> Int]
  OBVIOUS
<1>3. \A s \in Strategies :
        /\ weightOf[s][account] + moved[s] = weightOf[s][account] - allocation[s]
        /\ weightOf[s][account] + moved[s] \in Nat
        /\ bribeWeight[s] + moved[s] = bribeWeight[s] - allocation[s]
  BY <1>1 DEF RemoveSignalWeight
<1>4. /\ weightOf' = [s \in Strategies |->
                        [weightOf[s] EXCEPT ![account] = weightOf[s][account] + moved[s]]]
      /\ bribeWeight' = [s \in Strategies |-> bribeWeight[s] + moved[s]]
  BY <1>1, <1>3 DEF RemoveSignalWeight
<1>5. /\ reward' = RewardsSettledFor(account, Touched(allocation))
      /\ UNCHANGED <<rewardTokens, bribeBalance>>
  BY DEF RemoveSignalWeight
<1>6. \A s \in Strategies : allocation[s] = 0 => moved[s] = 0
  OBVIOUS
<1>7. \A s \in Strategies : weightOf[s][account] + moved[s] \in Nat
  BY <1>3
<1> HIDE DEF moved
<1>8. SignalMoves(account, allocation, moved)
  BY <1>4, <1>5, <1>6, <1>7 DEF SignalMoves
<1> QED
  BY <1>2, <1>8, ReweighStep

(* A step that changes no stream, balance or weight of the Bribes. *)
LEMMA BribesUntouchedStep ==
  ASSUME BribeInv, now' = now, UNCHANGED <<weightOf, bribeWeight, reward, bribeBalance>>,
         rewardTokens' \in [Strategies -> SUBSET Tokens],
         \A s \in Strategies : rewardTokens[s] \subseteq rewardTokens'[s]
  PROVE  BribeInv' /\ EarningsStand
<1>1. /\ now \in Times
      /\ weightOf \in [Strategies -> [Accounts -> Nat]]
      /\ bribeWeight \in [Strategies -> Nat]
      /\ \A s \in Strategies : bribeWeight[s] = PartialSum(weightOf[s], NumAccounts)
  BY DEF BribeInv, BribeTypeOK, BribeWeightIsSum
<1>2. \A s \in Strategies, t \in Tokens :
        RewardKept(s, t) /\ \A a \in Accounts : RewardEarned(s, t, a)' = RewardEarned(s, t, a)
  BY RewardUntouched
<1>3. /\ reward' = [s \in Strategies |-> [t \in Tokens |-> reward'[s][t]]]
      /\ bribeBalance' = [s \in Strategies |-> [t \in Tokens |-> bribeBalance'[s][t]]]
  BY BribeShapes
<1>4. BribeInv'
  BY <1>1, <1>2, <1>3, BribeInvKept
<1>5. EarningsStand
  BY <1>2 DEF EarningsStand, EarningsKept
<1> QED
  BY <1>4, <1>5

LEMMA BribesUnchanged ==
  ASSUME BribeInv, now' = now, UNCHANGED bribeVars
  PROVE  BribeInv' /\ EarningsStand
<1>1. rewardTokens \in [Strategies -> SUBSET Tokens]
  BY DEF BribeInv, BribeTypeOK
<1> QED
  BY <1>1, BribesUntouchedStep DEF bribeVars

LEMMA AddRewardTokenStep ==
  ASSUME BribeInv, now' = now, NEW s \in Strategies, NEW t \in Tokens, AddRewardToken(s, t)
  PROVE  BribeInv' /\ EarningsStand
<1>1. rewardTokens \in [Strategies -> SUBSET Tokens]
  BY DEF BribeInv, BribeTypeOK
<1>2. /\ rewardTokens' \in [Strategies -> SUBSET Tokens]
      /\ \A z \in Strategies : rewardTokens[z] \subseteq rewardTokens'[z]
  BY <1>1 DEF AddRewardToken
<1> QED
  BY <1>2, BribesUntouchedStep DEF AddRewardToken

LEMMA NotifyRewardStep ==
  ASSUME BribeInv, now' = now, NEW s \in Strategies, NEW t \in Tokens, NEW amount \in Nat,
         NotifyReward(s, t, amount)
  PROVE  BribeInv' /\ EarningsStand
<1> DEFINE n == NumAccounts
           k == reward[s][t]
           w == weightOf[s]
           total == bribeWeight[s]
           balance == bribeBalance[s][t]
           k2 == Notified(k, now, total, w, amount)
<1>1. /\ n \in Nat /\ now \in Nat /\ Accounts = 0 .. n - 1
      /\ total = PartialSum(w, n) /\ total \in Nat
      /\ w \in [0 .. n - 1 -> Nat] /\ k \in Stream(0 .. n - 1) /\ balance \in Nat
      /\ StreamSound(k, now, w, n, balance)
  BY RewardFacts, StrategiesAndAccounts
<1>2. /\ now \in Times
      /\ weightOf \in [Strategies -> [Accounts -> Nat]]
      /\ bribeWeight \in [Strategies -> Nat]
      /\ rewardTokens \in [Strategies -> SUBSET Tokens]
      /\ reward \in [Strategies -> [Tokens -> Stream(Accounts)]]
      /\ bribeBalance \in [Strategies -> [Tokens -> Nat]]
      /\ \A z \in Strategies : bribeWeight[z] = PartialSum(weightOf[z], NumAccounts)
  BY DEF BribeInv, BribeTypeOK, BribeWeightIsSum
<1>3. /\ t \in rewardTokens[s]
      /\ WithinLifetime(k, amount)
      /\ reward' = [reward EXCEPT ![s][t] = k2]
      /\ bribeBalance' = [bribeBalance EXCEPT ![s][t] = balance + amount]
      /\ weightOf' = weightOf /\ bribeWeight' = bribeWeight /\ rewardTokens' = rewardTokens
  BY DEF NotifyReward
<1> HIDE DEF k2
<1>4. /\ reward'[s][t] = k2 /\ bribeBalance'[s][t] = balance + amount
      /\ \A z \in Strategies, u \in Tokens :
           z # s \/ u # t => /\ reward'[z][u] = reward[z][u]
                             /\ bribeBalance'[z][u] = bribeBalance[z][u]
  BY <1>2, <1>3
<1>5. /\ reward' = [z \in Strategies |-> [u \in Tokens |-> reward'[z][u]]]
      /\ bribeBalance' = [z \in Strategies |-> [u \in Tokens |-> bribeBalance'[z][u]]]
  BY <1>2, <1>3
<1>6. ASSUME NEW z \in Strategies, NEW u \in Tokens, z # s \/ u # t
      PROVE  RewardKept(z, u) /\ \A a \in Accounts : RewardEarned(z, u, a)' = RewardEarned(z, u, a)
  BY <1>3, <1>4, <1>6, RewardUntouched
<1>7. RewardKept(s, t) /\ \A a \in Accounts : RewardEarned(s, t, a)' = RewardEarned(s, t, a)
  <2> HIDE DEF n, k, w, total, balance
  <2>1. StreamSound(k2, now, w, n, balance + amount)
    BY <1>1, <1>3, NotifiedSound DEF k2
  <2>2. /\ k2 \in Stream(0 .. n - 1) /\ balance + amount \in Nat
        /\ StreamClocks(k, now) /\ IndexesBehind(k)
    BY <1>1, <2>1, SoundFields
  <2>3. RewardKept(s, t)
    BY <1>1, <1>3, <1>4, <2>1, <2>2 DEF RewardKept, n, w
  <2>4. \A a \in 0 .. n - 1 : EarnsTheSame(k2, total, w, k, total, w, now, a)
    BY <1>1, <2>2, EarnedAfterNotice DEF k2
  <2>5. \A a \in Accounts : RewardEarned(s, t, a)' = RewardEarned(s, t, a)
    BY <1>1, <1>3, <1>4, <2>4 DEF RewardEarned, EarnsTheSame, k, w, total
  <2> QED
    BY <2>3, <2>5
<1>8. \A z \in Strategies, u \in Tokens :
        RewardKept(z, u) /\ \A a \in Accounts : RewardEarned(z, u, a)' = RewardEarned(z, u, a)
  BY <1>6, <1>7
<1>9. BribeInv'
  BY <1>2, <1>3, <1>5, <1>8, BribeInvKept
<1>10. EarningsStand
  BY <1>8 DEF EarningsStand, EarningsKept
<1> QED
  BY <1>9, <1>10

LEMMA ClaimStep ==
  ASSUME BribeInv, now' = now, NEW account \in Accounts, NEW claims,
         \A s \in Strategies : claims[s] \subseteq rewardTokens[s],
         Claim(account, claims)
  PROVE  BribeInv' /\ EarningsStand
<1> DEFINE n == NumAccounts
<1>1. /\ n \in Nat /\ now \in Nat /\ Accounts = 0 .. n - 1 /\ now \in Times
      /\ weightOf \in [Strategies -> [Accounts -> Nat]]
      /\ bribeWeight \in [Strategies -> Nat]
      /\ rewardTokens \in [Strategies -> SUBSET Tokens]
      /\ \A z \in Strategies : bribeWeight[z] = PartialSum(weightOf[z], NumAccounts)
  BY StrategiesAndAccounts, BribeConstants DEF BribeInv, BribeTypeOK, BribeWeightIsSum, Times
<1>2. weightOf' = weightOf /\ bribeWeight' = bribeWeight /\ rewardTokens' = rewardTokens
  BY DEF Claim
<1>3. ASSUME NEW s \in Strategies, NEW t \in Tokens
      PROVE  RewardKept(s, t) /\ \A a \in Accounts : EarningsKept(s, t, a)
  <2> DEFINE k == reward[s][t]
             w == weightOf[s]
             total == bribeWeight[s]
             balance == bribeBalance[s][t]
             earned == Earned(k, now, total, w, account)
             k2 == Paid(Settled(k, now, total, w, {account}), account)
  <2>1. /\ total = PartialSum(w, n) /\ total \in Nat
        /\ w \in [0 .. n - 1 -> Nat] /\ k \in Stream(0 .. n - 1) /\ balance \in Nat
        /\ StreamSound(k, now, w, n, balance)
    BY RewardFacts
  <2>2. CASE t \notin claims[s]
    <3>1. reward'[s][t] = reward[s][t] /\ bribeBalance'[s][t] = bribeBalance[s][t]
      BY <2>2 DEF Claim
    <3> QED
      BY <1>2, <3>1, RewardUntouched DEF EarningsKept
  <2>3. CASE t \in claims[s]
    <3>1. /\ reward'[s][t] = k2
          /\ bribeBalance'[s][t] = balance - earned
          /\ earned <= balance
      BY <2>3 DEF Claim, RewardSettled, RewardEarned
    <3>2. t \in rewardTokens'[s]
      BY <1>2, <2>3
    <3> HIDE DEF k, w, total, balance, n
    <3>3. StreamSound(k2, now, w, n, balance - earned)
      BY <1>1, <2>1, PaidOutStream
    <3>4. StreamClocks(k, now) /\ IndexesBehind(k)
      BY <1>1, <2>1, SoundFields
    <3>5. earned \in Nat
      BY <1>1, <2>1, <3>4, AccruedBounds
    <3>6. \A a \in 0 .. n - 1 : OnlyPaid(k2, k, total, w, now, account, a)
      BY <1>1, <2>1, <3>4, EarnedAfterPayment
    <3> HIDE DEF k2
    <3>7. k2 \in Stream(0 .. n - 1)
      BY <1>1, <3>3, SoundFields
    <3>8. RewardKept(s, t)
      <4>1. balance - earned \in Nat
        BY <2>1, <3>1, <3>5
      <4> HIDE DEF earned
      <4> QED
        BY <1>1, <1>2, <3>1, <3>2, <3>3, <3>7, <4>1 DEF RewardKept, n, w
    <3>9. ASSUME NEW a \in Accounts PROVE EarningsKept(s, t, a)
      <4>1. RewardEarned(s, t, a)' = Earned(k2, now, total, w, a)
        BY <1>2, <3>1 DEF RewardEarned, total, w
      <4>2. RewardEarned(s, t, a) = Earned(k, now, total, w, a)
        BY DEF RewardEarned, k, w, total
      <4>3. CASE a = account
        <5>1. Earned(k2, now, total, w, a) = 0
          BY <1>1, <3>6, <4>3 DEF OnlyPaid
        <5>2. bribeBalance'[s][t] = bribeBalance[s][t] - RewardEarned(s, t, a)
          BY <3>1, <4>2, <4>3 DEF balance
        <5> QED
          BY <4>1, <5>1, <5>2 DEF EarningsKept
      <4>4. CASE a # account
        <5>1. EarnsTheSame(k2, total, w, k, total, w, now, a)
          BY <1>1, <3>6, <4>4 DEF OnlyPaid
        <5> QED
          BY <4>1, <4>2, <5>1 DEF EarningsKept, EarnsTheSame
      <4> QED
        BY <4>3, <4>4
    <3> QED
      BY <3>8, <3>9
  <2> QED
    BY <2>2, <2>3
<1>4. /\ reward' = [s \in Strategies |-> [t \in Tokens |-> reward'[s][t]]]
      /\ bribeBalance' = [s \in Strategies |-> [t \in Tokens |-> bribeBalance'[s][t]]]
  BY DEF Claim
<1>5. BribeInv'
  BY <1>1, <1>2, <1>3, <1>4, BribeInvKept
<1>6. EarningsStand
  BY <1>3 DEF EarningsStand
<1> QED
  BY <1>5, <1>6

LEMMA ClaimRewardStep ==
  ASSUME BribeInv, now' = now, NEW account \in Accounts, NEW s \in Strategies, NEW t \in Tokens,
         ClaimReward(account, s, t)
  PROVE  BribeInv' /\ EarningsStand
<1> DEFINE claims == [z \in Strategies |-> IF z = s THEN {t} ELSE {}]
<1>1. \A z \in Strategies : claims[z] \subseteq rewardTokens[z]
  BY DEF ClaimReward
<1>2. Claim(account, claims)
  BY DEF ClaimReward
<1> HIDE DEF claims
<1> QED
  BY <1>1, <1>2, ClaimStep

LEMMA ClaimRewardsStep ==
  ASSUME BribeInv, now' = now, NEW account \in Accounts, NEW bribes, ClaimRewards(account, bribes)
  PROVE  BribeInv' /\ EarningsStand
<1> DEFINE claims == [s \in Strategies |-> IF s \in bribes THEN rewardTokens[s] ELSE {}]
<1>1. \A s \in Strategies : claims[s] \subseteq rewardTokens[s]
  OBVIOUS
<1>2. Claim(account, claims)
  BY DEF ClaimRewards
<1> HIDE DEF claims
<1> QED
  BY <1>1, <1>2, ClaimStep

(* Time leaves the Bribes alone. *)
LEMMA TimeStep ==
  ASSUME BribeInv, now' \in Times, now <= now', UNCHANGED bribeVars
  PROVE  BribeInv'
<1>1. now \in Nat /\ now' \in Nat
  BY BribeConstants DEF BribeInv, BribeTypeOK, Times
<1>2. /\ weightOf \in [Strategies -> [Accounts -> Nat]]
      /\ bribeWeight \in [Strategies -> Nat]
      /\ rewardTokens \in [Strategies -> SUBSET Tokens]
      /\ \A s \in Strategies : bribeWeight[s] = PartialSum(weightOf[s], NumAccounts)
  BY DEF BribeInv, BribeTypeOK, BribeWeightIsSum
<1>3. weightOf' = weightOf /\ bribeWeight' = bribeWeight /\ rewardTokens' = rewardTokens
      /\ reward' = reward /\ bribeBalance' = bribeBalance
  BY DEF bribeVars
<1>4. ASSUME NEW s \in Strategies, NEW t \in Tokens PROVE RewardKept(s, t)
  <2>1. /\ StreamSound(reward[s][t], now, weightOf[s], NumAccounts, bribeBalance[s][t])
        /\ reward[s][t] \in Stream(Accounts) /\ bribeBalance[s][t] \in Nat
        /\ t \notin rewardTokens[s] => reward[s][t] = NewStream(Accounts)
    BY RewardFacts, StrategiesAndAccounts
  <2>2. StreamSound(reward[s][t], now', weightOf[s], NumAccounts, bribeBalance[s][t])
    BY <1>1, <2>1, TimeSound, StrategiesAndAccounts
  <2> QED
    BY <1>3, <2>1, <2>2 DEF RewardKept
<1>5. /\ reward' = [s \in Strategies |-> [t \in Tokens |-> reward'[s][t]]]
      /\ bribeBalance' = [s \in Strategies |-> [t \in Tokens |-> bribeBalance'[s][t]]]
  BY <1>3, BribeShapes
<1> QED
  BY <1>2, <1>3, <1>4, <1>5, BribeInvKept

-----------------------------------------------------------------------------
(* The steps of Resonance. *)

LEMMA RevenueFacts ==
  ASSUME ResonanceInv
  PROVE  /\ now \in Nat
         /\ totalSignalWeight = PartialSum(ActiveWeights, NumStrategies)
         /\ totalSignalWeight \in Nat
         /\ ActiveWeights \in [0 .. NumStrategies - 1 -> Nat]
         /\ revenue \in Stream(0 .. NumStrategies - 1)
         /\ StreamClocks(revenue, now) /\ IndexesBehind(revenue) /\ IndexBounded(revenue)
         /\ resonanceUSDG \in Nat
         /\ StreamSound(revenue, now, ActiveWeights, NumStrategies, resonanceUSDG)
<1>1. now \in Nat
  BY BribeConstants DEF ResonanceInv, TypeOK, BribeTypeOK, Times
<1>2. /\ StreamSound(revenue, now, ActiveWeights, NumStrategies, resonanceUSDG)
      /\ resonanceUSDG \in Nat
      /\ totalSignalWeight = PartialSum(ActiveWeights, NumStrategies)
  BY DEF ResonanceInv, RevenueSound, TypeOK
<1> QED
  BY <1>1, <1>2, SoundFields, StrategiesAndAccounts

LEMMA RevenueUpdateFits ==
  ASSUME ResonanceInv
  PROVE  RevenueIndexFits
<1>1. NumStrategies \in Nat
  BY StrategiesAndAccounts
<1> QED
  BY <1>1, RevenueFacts, IndexAlwaysFits DEF RevenueIndexFits

(* Resonance can always pay what it would distribute.                       *)
LEMMA RevenueSolvent ==
  ASSUME ResonanceInv
  PROVE  /\ PartialSum([s \in Strategies |-> RevenueEarned(s)], NumStrategies)
              + Remaining(revenue, now) <= resonanceUSDG
         /\ \A s \in Strategies : RevenueEarned(s) \in Nat /\ RevenueEarned(s) <= resonanceUSDG
<1> DEFINE n == NumStrategies
           w == ActiveWeights
           total == totalSignalWeight
           e == EarnedTable(revenue, now, total, w, n)
<1>1. /\ n \in Nat /\ Strategies = 0 .. n - 1 /\ now \in Nat /\ resonanceUSDG \in Nat
      /\ total = PartialSum(w, n) /\ total \in Nat /\ w \in [0 .. n - 1 -> Nat]
      /\ revenue \in Stream(0 .. n - 1) /\ StreamClocks(revenue, now) /\ IndexesBehind(revenue)
      /\ StreamSound(revenue, now, w, n, resonanceUSDG)
  BY RevenueFacts, StrategiesAndAccounts
<1>2. e = [s \in Strategies |-> RevenueEarned(s)]
  BY <1>1 DEF EarnedTable, RevenueEarned
<1> HIDE DEF w, total
<1>3. PartialSum(e, n) + Remaining(revenue, now) <= resonanceUSDG
  BY <1>1, StreamSolvent
<1>4. \A s \in 0 .. n - 1 : Earned(revenue, now, total, w, s) \in Nat
  BY <1>1, AccruedBounds
<1>5. e \in [0 .. n - 1 -> Nat] /\ \A s \in 0 .. n - 1 : e[s] = RevenueEarned(s)
  BY <1>4 DEF EarnedTable, RevenueEarned, w, total
<1>6. Remaining(revenue, now) \in Nat
  BY <1>1, ClockBounds
<1> HIDE DEF e
<1>7. \A s \in 0 .. n - 1 : e[s] \in Nat /\ PartialSum(e, n) \in Nat /\ e[s] <= PartialSum(e, n)
  BY <1>1, <1>5, SumTerm
<1>8. ASSUME NEW s \in Strategies PROVE RevenueEarned(s) \in Nat /\ RevenueEarned(s) <= resonanceUSDG
  <2>1. /\ e[s] = RevenueEarned(s) /\ e[s] \in Nat
        /\ PartialSum(e, n) \in Nat /\ e[s] <= PartialSum(e, n)
    BY <1>1, <1>5, <1>7
  <2> QED
    BY <1>1, <1>3, <1>6, <2>1
<1> QED
  BY <1>2, <1>3, <1>8

(* What a step at one timestamp may do to what a strategy has earned. *)
RevenueStands ==
  \A s \in Strategies :
    \/ RevenueEarned(s)' = RevenueEarned(s)
    \/ /\ RevenueEarned(s)' = 0
       /\ strategyUSDG'[s] = strategyUSDG[s] + RevenueEarned(s)

LEMMA ResonanceInvKept ==
  ASSUME BribeInv', RevenueSound', RoutedStreamsPay',
         totalSignalWeight' = PartialSum(ActiveWeights', NumStrategies),
         \A s \in Strategies \ registered' : bribeWeight'[s] = 0,
         registered' \subseteq Strategies, live' \subseteq registered',
         liveStrategyCount' = Cardinality(live'),
         paymentToken' \in [Strategies -> PaymentTokens \cup {NoToken}],
         routerBound' \in BOOLEAN, bribeBps' \in 0 .. MAX_BRIBE_BPS,
         resonanceUSDG' \in Nat, routerUSDG' \in Nat, strategyUSDG' \in [Strategies -> Nat]
  PROVE  IInv'
<1>1. revenue' \in Stream(Strategies) /\ totalSignalWeight' \in Nat
  BY SoundFields, StrategiesAndAccounts DEF RevenueSound
<1>2. liveStrategyCount' \in Nat
  <2>1. IsFiniteSet(Strategies)
    BY FS_Interval, StrategiesAndAccounts
  <2>2. IsFiniteSet(live')
    BY <2>1, FS_Subset
  <2> QED
    BY <2>2, FS_CardinalityType
<1>3. TypeOK'
  BY <1>1, <1>2 DEF TypeOK, BribeInv
<1> QED
  BY <1>3 DEF ResonanceInv, IInv

(***************************************************************************)
(* Some strategies are settled, and then their weights may change.         *)
(***************************************************************************)
RevenueReweighed(strategies) ==
  /\ now' = now
  /\ revenue' = RevenueSettled(strategies)
  /\ resonanceUSDG' = resonanceUSDG
  /\ ActiveWeights' \in [Strategies -> Nat]
  /\ totalSignalWeight' = PartialSum(ActiveWeights', NumStrategies)
  /\ \A s \in Strategies : ActiveWeights'[s] = ActiveWeights[s] \/ s \in strategies

LEMMA ReweighedRevenue ==
  ASSUME ResonanceInv, NEW strategies, RevenueReweighed(strategies)
  PROVE  /\ RevenueSound' /\ RoutedStreamsPay'
         /\ \A s \in Strategies : RevenueEarned(s)' = RevenueEarned(s)
<1> DEFINE n == NumStrategies
           k == revenue
           w == ActiveWeights
           w2 == ActiveWeights'
           total == totalSignalWeight
           total2 == totalSignalWeight'
           k2 == Settled(k, now, total, w, strategies)
<1>1. /\ n \in Nat /\ Strategies = 0 .. n - 1 /\ now \in Nat /\ resonanceUSDG \in Nat
      /\ total = PartialSum(w, n) /\ total \in Nat /\ w \in [0 .. n - 1 -> Nat]
      /\ k \in Stream(0 .. n - 1) /\ StreamClocks(k, now) /\ IndexesBehind(k)
      /\ StreamSound(k, now, w, n, resonanceUSDG)
  BY RevenueFacts, StrategiesAndAccounts
<1>2. /\ w2 \in [0 .. n - 1 -> Nat]
      /\ total2 = PartialSum(w2, n)
      /\ \A s \in 0 .. n - 1 : w2[s] = w[s] \/ s \in strategies
  BY <1>1 DEF RevenueReweighed
<1>3. revenue' = k2 /\ now' = now /\ resonanceUSDG' = resonanceUSDG
  BY DEF RevenueReweighed, RevenueSettled
<1> HIDE DEF k, w, w2, total, total2
<1>4. total2 \in Nat
  BY <1>1, <1>2, SumNatural
<1>5. StreamSound(k2, now, w2, n, resonanceUSDG)
  BY <1>1, <1>2, SettledStream
<1>6. \A s \in 0 .. n - 1 : EarnsTheSame(k2, total2, w2, k, total, w, now, s)
  BY <1>1, <1>2, <1>4, SettledStreamEarned
<1>7. k2.finish = k.finish /\ k2.rate = k.rate
  BY <1>1, SettledFields DEF IsSettled
<1> HIDE DEF k2
<1>8. RevenueSound'
  BY <1>3, <1>5 DEF RevenueSound, w2
<1>9. RoutedStreamsPay'
  BY <1>3, <1>7 DEF ResonanceInv, RoutedStreamsPay, k
<1>10. \A s \in Strategies : RevenueEarned(s)' = RevenueEarned(s)
  BY <1>1, <1>3, <1>6 DEF RevenueEarned, EarnsTheSame, k, w, w2, total, total2
<1> QED
  BY <1>8, <1>9, <1>10

(* One strategy is settled and paid. *)
RevenuePaid(s) ==
  /\ now' = now
  /\ revenue' = DistributedRevenue(s)
  /\ resonanceUSDG' = resonanceUSDG - RevenueEarned(s)
  /\ ActiveWeights' = ActiveWeights
  /\ totalSignalWeight' = totalSignalWeight

LEMMA PaidRevenue ==
  ASSUME ResonanceInv, NEW s \in Strategies, RevenuePaid(s)
  PROVE  /\ RevenueSound' /\ RoutedStreamsPay'
         /\ resonanceUSDG' \in Nat
         /\ RevenueEarned(s)' = 0
         /\ \A z \in Strategies : z # s => RevenueEarned(z)' = RevenueEarned(z)
<1> DEFINE n == NumStrategies
           k == revenue
           w == ActiveWeights
           total == totalSignalWeight
           m == Settled(k, now, total, w, {s})
           k2 == Paid(m, s)
<1>1. /\ n \in Nat /\ Strategies = 0 .. n - 1 /\ now \in Nat /\ resonanceUSDG \in Nat
      /\ total = PartialSum(w, n) /\ total \in Nat /\ w \in [0 .. n - 1 -> Nat]
      /\ k \in Stream(0 .. n - 1) /\ StreamClocks(k, now) /\ IndexesBehind(k)
      /\ StreamSound(k, now, w, n, resonanceUSDG)
  BY RevenueFacts, StrategiesAndAccounts
<1>2. /\ revenue' = k2 /\ now' = now
      /\ ActiveWeights' = w /\ totalSignalWeight' = total
      /\ resonanceUSDG' = resonanceUSDG - Earned(k, now, total, w, s)
  BY DEF RevenuePaid, DistributedRevenue, RevenueSettled, RevenueEarned
<1>3. resonanceUSDG' \in Nat
  BY <1>1, RevenueSolvent DEF RevenuePaid
<1> HIDE DEF k, w, total
<1>4. StreamSound(k2, now, w, n, resonanceUSDG - Earned(k, now, total, w, s))
  BY <1>1, PaidOutStream
<1>5. \A z \in 0 .. n - 1 : OnlyPaid(k2, k, total, w, now, s, z)
  BY <1>1, EarnedAfterPayment
<1>6. k2.finish = k.finish /\ k2.rate = k.rate
  <2>1. m \in Stream(0 .. n - 1) /\ m.finish = k.finish /\ m.rate = k.rate
    BY <1>1, SettledFields DEF IsSettled
  <2> HIDE DEF m
  <2> QED
    BY <2>1 DEF Paid, Stream
<1> HIDE DEF k2
<1>7. RevenueSound'
  BY <1>2, <1>4 DEF RevenueSound
<1>8. RoutedStreamsPay'
  BY <1>2, <1>6 DEF ResonanceInv, RoutedStreamsPay, k
<1>9. RevenueEarned(s)' = 0
  BY <1>1, <1>2, <1>5 DEF RevenueEarned, OnlyPaid
<1>10. \A z \in Strategies : z # s => RevenueEarned(z)' = RevenueEarned(z)
  BY <1>1, <1>2, <1>5 DEF RevenueEarned, OnlyPaid, EarnsTheSame, k, w, total
<1> QED
  BY <1>3, <1>7, <1>8, <1>9, <1>10

ResonanceTypes ==
  /\ registered \subseteq Strategies /\ live \subseteq registered
  /\ paymentToken \in [Strategies -> PaymentTokens \cup {NoToken}]
  /\ routerBound \in BOOLEAN /\ bribeBps \in 0 .. MAX_BRIBE_BPS
  /\ resonanceUSDG \in Nat /\ routerUSDG \in Nat /\ strategyUSDG \in [Strategies -> Nat]
  /\ bribeWeight \in [Strategies -> Nat]
  /\ liveStrategyCount = Cardinality(live)
  /\ \A s \in Strategies \ registered : bribeWeight[s] = 0
  /\ IsFiniteSet(live)

LEMMA ResonanceTyped ==
  ASSUME ResonanceInv
  PROVE  ResonanceTypes
<1>1. IsFiniteSet(Strategies)
  BY FS_Interval, StrategiesAndAccounts
<1>2. live \subseteq Strategies
  BY DEF ResonanceInv, TypeOK
<1>3. IsFiniteSet(live)
  BY <1>1, <1>2, FS_Subset
<1> QED
  BY <1>3 DEF ResonanceTypes, ResonanceInv, TypeOK, BribeTypeOK

(* The weights of some registered strategies change with the signal for     *)
(* them; nothing else does.                                                 *)
Reallocated(strategies) ==
  /\ now' = now
  /\ strategies \subseteq registered
  /\ revenue' = RevenueSettled(strategies)
  /\ \A s \in Strategies : bribeWeight'[s] = bribeWeight[s] \/ s \in strategies
  /\ totalSignalWeight' = PartialSum(ActiveWeights', NumStrategies)
  /\ UNCHANGED <<lifecycleVars, configVars, usdgVars>>

LEMMA ReallocateStep ==
  ASSUME IInv, NEW strategies, Reallocated(strategies), BribeInv'
  PROVE  IInv' /\ RevenueStands
<1>1. ResonanceInv /\ ResonanceTypes
  BY ResonanceTyped DEF IInv
<1>2. bribeWeight' \in [Strategies -> Nat]
  BY DEF BribeInv, BribeTypeOK
<1>3. UNCHANGED <<registered, live, liveStrategyCount, paymentToken, routerBound, bribeBps,
                  resonanceUSDG, routerUSDG, strategyUSDG>>
  BY DEF Reallocated, lifecycleVars, configVars, usdgVars
<1>4. ActiveWeights' \in [Strategies -> Nat]
  BY <1>2 DEF ActiveWeights
<1>5. \A s \in Strategies : ActiveWeights'[s] = ActiveWeights[s] \/ s \in strategies
  BY <1>3 DEF ActiveWeights, Reallocated
<1>6. RevenueReweighed(strategies)
  BY <1>3, <1>4, <1>5 DEF RevenueReweighed, Reallocated
<1>7. /\ RevenueSound' /\ RoutedStreamsPay'
      /\ \A s \in Strategies : RevenueEarned(s)' = RevenueEarned(s)
  BY <1>1, <1>6, ReweighedRevenue
<1>8. \A s \in Strategies \ registered' : bribeWeight'[s] = 0
  BY <1>1, <1>3 DEF Reallocated, ResonanceTypes
<1>9. totalSignalWeight' = PartialSum(ActiveWeights', NumStrategies)
  BY DEF Reallocated
<1>10. IInv'
  BY <1>1, <1>3, <1>7, <1>8, <1>9, ResonanceInvKept DEF ResonanceTypes
<1>11. RevenueStands
  BY <1>7 DEF RevenueStands
<1> QED
  BY <1>10, <1>11

(* What an allocation gives to live strategies. *)
LiveAllocation(allocation) == [s \in Strategies |-> IF s \in live THEN allocation[s] ELSE 0]

LEMMA AddSignalForStep ==
  ASSUME IInv, NEW account \in Accounts, NEW allocation \in [Strategies -> Nat],
         AddSignalFor(account, allocation)
  PROVE  IInv' /\ EarningsStand /\ RevenueStands
<1> DEFINE n == NumStrategies
           who == Touched(allocation)
           share == LiveAllocation(allocation)
<1>1. ResonanceInv /\ ResonanceTypes /\ BribeInv
  BY ResonanceTyped DEF IInv
<1>2. /\ now' = now /\ AddSignalWeight(account, allocation)
      /\ who \subseteq live /\ revenue' = RevenueSettled(who)
      /\ totalSignalWeight' = totalSignalWeight + PartialSum(share, n)
      /\ UNCHANGED <<lifecycleVars, configVars, usdgVars>>
      /\ live' = live
  BY DEF AddSignalFor, LiveAmount, LiveAllocation, lifecycleVars
<1>3. BribeInv' /\ EarningsStand
  BY <1>1, <1>2, AddSignalWeightStep
<1>4. bribeWeight' = [s \in Strategies |-> bribeWeight[s] + allocation[s]]
  BY <1>2 DEF AddSignalWeight
<1>5. IsSumOf(ActiveWeights', ActiveWeights, share, n)
  <2>1. \A s \in 0 .. n - 1 : ActiveWeights'[s] = ActiveWeights[s] + share[s]
    BY <1>1, <1>2, <1>4, StrategiesAndAccounts DEF ActiveWeights, LiveAllocation, ResonanceTypes
  <2>2. /\ ActiveWeights \in [0 .. n - 1 -> Int] /\ share \in [0 .. n - 1 -> Int]
        /\ ActiveWeights' \in [0 .. n - 1 -> Int]
    BY <1>1, <1>2, <1>4, StrategiesAndAccounts DEF ActiveWeights, LiveAllocation, ResonanceTypes
  <2> HIDE DEF share
  <2> QED
    BY <2>1, <2>2 DEF IsSumOf
<1>6. totalSignalWeight' = PartialSum(ActiveWeights', n)
  <2>1. totalSignalWeight = PartialSum(ActiveWeights, n)
    BY <1>1, RevenueFacts
  <2>2. PartialSum(ActiveWeights', n) = PartialSum(ActiveWeights, n) + PartialSum(share, n)
    BY <1>5, SumAdd, StrategiesAndAccounts
  <2> QED
    BY <1>2, <2>1, <2>2
<1>7. \A s \in Strategies : bribeWeight'[s] = bribeWeight[s] \/ s \in who
  <2> TAKE s \in Strategies
  <2>1. CASE allocation[s] = 0
    BY <1>1, <1>4, <2>1 DEF ResonanceTypes
  <2>2. CASE allocation[s] # 0
    BY <2>2 DEF Touched
  <2> QED
    BY <2>1, <2>2
<1>8. Reallocated(who)
  BY <1>1, <1>2, <1>6, <1>7 DEF Reallocated, ResonanceTypes
<1> QED
  BY <1>3, <1>8, ReallocateStep

LEMMA RemoveSignalForStep ==
  ASSUME IInv, NEW account \in Accounts, NEW allocation \in [Strategies -> Nat],
         RemoveSignalFor(account, allocation)
  PROVE  IInv' /\ EarningsStand /\ RevenueStands
<1> DEFINE n == NumStrategies
           who == Touched(allocation)
           share == LiveAllocation(allocation)
<1>1. ResonanceInv /\ ResonanceTypes /\ BribeInv
  BY ResonanceTyped DEF IInv
<1>2. /\ now' = now /\ RemoveSignalWeight(account, allocation)
      /\ who \subseteq registered /\ revenue' = RevenueSettled(who)
      /\ totalSignalWeight' = totalSignalWeight - PartialSum(share, n)
      /\ UNCHANGED <<lifecycleVars, configVars, usdgVars>>
      /\ live' = live
  BY DEF RemoveSignalFor, LiveAmount, LiveAllocation, lifecycleVars
<1>3. BribeInv' /\ EarningsStand
  BY <1>1, <1>2, RemoveSignalWeightStep
<1>4. /\ bribeWeight' = [s \in Strategies |-> bribeWeight[s] - allocation[s]]
      /\ \A s \in Strategies : allocation[s] <= bribeWeight[s]
  BY <1>2 DEF RemoveSignalWeight
<1>5. IsSumOf(ActiveWeights, ActiveWeights', share, n)
  <2>1. \A s \in 0 .. n - 1 : ActiveWeights[s] = ActiveWeights'[s] + share[s]
    BY <1>1, <1>2, <1>4, StrategiesAndAccounts DEF ActiveWeights, LiveAllocation, ResonanceTypes
  <2>2. /\ ActiveWeights \in [0 .. n - 1 -> Int] /\ share \in [0 .. n - 1 -> Int]
        /\ ActiveWeights' \in [0 .. n - 1 -> Int]
    BY <1>1, <1>2, <1>4, StrategiesAndAccounts DEF ActiveWeights, LiveAllocation, ResonanceTypes
  <2> HIDE DEF share
  <2> QED
    BY <2>1, <2>2 DEF IsSumOf
<1>6. totalSignalWeight' = PartialSum(ActiveWeights', n)
  <2>1. totalSignalWeight = PartialSum(ActiveWeights, n)
    BY <1>1, RevenueFacts
  <2>2. PartialSum(ActiveWeights, n) = PartialSum(ActiveWeights', n) + PartialSum(share, n)
    BY <1>5, SumAdd, StrategiesAndAccounts
  <2>3. PartialSum(ActiveWeights', n) \in Int /\ PartialSum(share, n) \in Int
    BY <1>5, SumInteger, StrategiesAndAccounts DEF IsSumOf
  <2> QED
    BY <1>2, <2>1, <2>2, <2>3
<1>7. \A s \in Strategies : bribeWeight'[s] = bribeWeight[s] \/ s \in who
  <2> TAKE s \in Strategies
  <2>1. CASE allocation[s] = 0
    BY <1>1, <1>4, <2>1 DEF ResonanceTypes
  <2>2. CASE allocation[s] # 0
    BY <2>2 DEF Touched
  <2> QED
    BY <2>1, <2>2
<1>8. Reallocated(who)
  BY <1>2, <1>6, <1>7 DEF Reallocated
<1> QED
  BY <1>3, <1>8, ReallocateStep

(* A step at one timestamp that changes neither the revenue nor the signal. *)
LEMMA RevenueUntouchedStep ==
  ASSUME IInv, BribeInv', now' = now,
         UNCHANGED <<bribeWeight, revenue, totalSignalWeight, lifecycleVars,
                     resonanceUSDG, strategyUSDG>>,
         routerBound' \in BOOLEAN, bribeBps' \in 0 .. MAX_BRIBE_BPS, routerUSDG' \in Nat
  PROVE  IInv' /\ RevenueStands
<1>1. ResonanceInv /\ ResonanceTypes
  BY ResonanceTyped DEF IInv
<1>2. UNCHANGED <<registered, live, liveStrategyCount, paymentToken>>
  BY DEF lifecycleVars
<1>3. ActiveWeights' = ActiveWeights
  BY <1>2 DEF ActiveWeights
<1>4. RevenueSound' /\ totalSignalWeight' = PartialSum(ActiveWeights', NumStrategies)
  BY <1>1, <1>3, RevenueFacts DEF RevenueSound
<1>5. RoutedStreamsPay'
  BY <1>1 DEF RoutedStreamsPay, ResonanceInv
<1>6. IInv'
  BY <1>1, <1>2, <1>4, <1>5, ResonanceInvKept DEF ResonanceTypes
<1>7. RevenueStands
  BY <1>3 DEF RevenueStands, RevenueEarned
<1> QED
  BY <1>6, <1>7

(* A step of the Bribes in which Resonance takes no part. *)
LEMMA BribeCallStep ==
  ASSUME IInv, BribeInv', now' = now, bribeWeight' = bribeWeight, UNCHANGED resonanceVars
  PROVE  IInv' /\ RevenueStands
<1>1. ResonanceTypes
  BY ResonanceTyped DEF IInv
<1> QED
  BY <1>1, RevenueUntouchedStep DEF resonanceVars, configVars, usdgVars, ResonanceTypes

LEMMA ClaimBribeRewardsStep ==
  ASSUME IInv, NEW account \in Accounts, NEW strategies, ClaimBribeRewards(account, strategies)
  PROVE  IInv' /\ EarningsStand /\ RevenueStands
<1>1. /\ BribeInv /\ now' = now /\ UNCHANGED resonanceVars
      /\ ClaimRewards(account, strategies)
  BY DEF ClaimBribeRewards, IInv
<1>2. BribeInv' /\ EarningsStand
  BY <1>1, ClaimRewardsStep
<1>3. bribeWeight' = bribeWeight
  BY <1>1 DEF ClaimRewards, Claim
<1> QED
  BY <1>1, <1>2, <1>3, BribeCallStep

LEMMA ClaimBribeRewardStep ==
  ASSUME IInv, NEW account \in Accounts, NEW s \in Strategies, NEW t \in Tokens,
         ClaimBribeReward(account, s, t)
  PROVE  IInv' /\ EarningsStand /\ RevenueStands
<1>1. /\ BribeInv /\ now' = now /\ UNCHANGED resonanceVars
      /\ ClaimReward(account, s, t)
  BY DEF ClaimBribeReward, IInv
<1>2. BribeInv' /\ EarningsStand
  BY <1>1, ClaimRewardStep
<1>3. bribeWeight' = bribeWeight
  BY <1>1 DEF ClaimReward, Claim
<1> QED
  BY <1>1, <1>2, <1>3, BribeCallStep

LEMMA FundBribeStep ==
  ASSUME IInv, NEW s \in Strategies, NEW t \in Tokens, NEW amount \in Nat,
         FundBribe(s, t, amount)
  PROVE  IInv' /\ EarningsStand /\ RevenueStands
<1>1. /\ BribeInv /\ now' = now /\ UNCHANGED resonanceVars
      /\ NotifyReward(s, t, amount)
  BY DEF FundBribe, IInv
<1>2. BribeInv' /\ EarningsStand
  BY <1>1, NotifyRewardStep
<1>3. bribeWeight' = bribeWeight
  BY <1>1 DEF NotifyReward
<1> QED
  BY <1>1, <1>2, <1>3, BribeCallStep

LEMMA AddBribeRewardTokenStep ==
  ASSUME IInv, NEW s \in Strategies, NEW t \in Tokens, AddBribeRewardToken(s, t)
  PROVE  IInv' /\ EarningsStand /\ RevenueStands
<1>1. /\ BribeInv /\ now' = now /\ UNCHANGED resonanceVars
      /\ AddRewardToken(s, t)
  BY DEF AddBribeRewardToken, IInv
<1>2. BribeInv' /\ EarningsStand
  BY <1>1, AddRewardTokenStep
<1>3. bribeWeight' = bribeWeight
  BY <1>1 DEF AddRewardToken
<1> QED
  BY <1>1, <1>2, <1>3, BribeCallStep

LEMMA SetResonanceRouterStep ==
  ASSUME IInv, SetResonanceRouter
  PROVE  IInv' /\ EarningsStand /\ RevenueStands
<1>1. BribeInv /\ ResonanceTypes
  BY ResonanceTyped DEF IInv
<1>2. BribeInv' /\ EarningsStand
  BY <1>1, BribesUnchanged DEF SetResonanceRouter
<1> QED
  BY <1>1, <1>2, RevenueUntouchedStep DEF SetResonanceRouter, bribeVars, usdgVars, ResonanceTypes

LEMMA SetBribeBpsStep ==
  ASSUME IInv, NEW newBribeBps \in Nat, SetBribeBps(newBribeBps)
  PROVE  IInv' /\ EarningsStand /\ RevenueStands
<1>1. BribeInv /\ ResonanceTypes
  BY ResonanceTyped DEF IInv
<1>2. BribeInv' /\ EarningsStand
  BY <1>1, BribesUnchanged DEF SetBribeBps
<1>3. bribeBps' \in 0 .. MAX_BRIBE_BPS
  BY ResonanceConstants DEF SetBribeBps
<1> QED
  BY <1>1, <1>2, <1>3, RevenueUntouchedStep DEF SetBribeBps, bribeVars, usdgVars, ResonanceTypes

LEMMA DepositRevenueStep ==
  ASSUME IInv, NEW amount \in Nat, DepositRevenue(amount)
  PROVE  IInv' /\ EarningsStand /\ RevenueStands
<1>1. BribeInv /\ ResonanceTypes
  BY ResonanceTyped DEF IInv
<1>2. BribeInv' /\ EarningsStand
  BY <1>1, BribesUnchanged DEF DepositRevenue
<1>3. routerUSDG' \in Nat
  BY <1>1 DEF DepositRevenue, ResonanceTypes
<1> QED
  BY <1>1, <1>2, <1>3, RevenueUntouchedStep
     DEF DepositRevenue, bribeVars, configVars, ResonanceTypes

LEMMA DistributeRevenueStep ==
  ASSUME IInv, NEW s \in Strategies, DistributeRevenue(s)
  PROVE  IInv' /\ EarningsStand /\ RevenueStands
<1>1. BribeInv /\ ResonanceInv /\ ResonanceTypes
  BY ResonanceTyped DEF IInv
<1>2. BribeInv' /\ EarningsStand
  BY <1>1, BribesUnchanged DEF DistributeRevenue
<1>3. /\ UNCHANGED <<registered, live, liveStrategyCount, paymentToken, routerBound, bribeBps,
                     routerUSDG, bribeWeight>>
      /\ strategyUSDG' = [strategyUSDG EXCEPT ![s] = strategyUSDG[s] + RevenueEarned(s)]
  BY DEF DistributeRevenue, lifecycleVars, configVars, bribeVars
<1>4. ActiveWeights' = ActiveWeights
  BY <1>3 DEF ActiveWeights
<1>5. RevenuePaid(s)
  BY <1>4 DEF RevenuePaid, DistributeRevenue
<1>6. /\ RevenueSound' /\ RoutedStreamsPay'
      /\ resonanceUSDG' \in Nat
      /\ RevenueEarned(s)' = 0
      /\ \A z \in Strategies : z # s => RevenueEarned(z)' = RevenueEarned(z)
  BY <1>1, <1>5, PaidRevenue
<1>7. RevenueEarned(s) \in Nat
  BY <1>1, RevenueSolvent
<1>8. strategyUSDG' \in [Strategies -> Nat] /\ strategyUSDG'[s] = strategyUSDG[s] + RevenueEarned(s)
  BY <1>1, <1>3, <1>7 DEF ResonanceTypes
<1>9. totalSignalWeight' = PartialSum(ActiveWeights', NumStrategies)
  BY <1>1, <1>5, RevenueFacts DEF RevenuePaid
<1>10. IInv'
  BY <1>1, <1>2, <1>3, <1>6, <1>8, <1>9, ResonanceInvKept DEF ResonanceTypes
<1>11. RevenueStands
  BY <1>6, <1>8 DEF RevenueStands
<1> QED
  BY <1>2, <1>10, <1>11

LEMMA RouteStep ==
  ASSUME IInv, Route
  PROVE  IInv' /\ EarningsStand /\ RevenueStands
<1> DEFINE n == NumStrategies
           k == revenue
           w == ActiveWeights
           total == totalSignalWeight
           k2 == Notified(k, now, total, w, routerUSDG)
<1>1. BribeInv /\ ResonanceInv /\ ResonanceTypes
  BY ResonanceTyped DEF IInv
<1>2. BribeInv' /\ EarningsStand
  BY <1>1, BribesUnchanged DEF Route
<1>3. /\ UNCHANGED <<registered, live, liveStrategyCount, paymentToken, routerBound, bribeBps,
                     strategyUSDG, bribeWeight>>
      /\ now' = now /\ totalSignalWeight' = total
      /\ revenue' = k2 /\ resonanceUSDG' = resonanceUSDG + routerUSDG /\ routerUSDG' = 0
      /\ WithinLifetime(k, routerUSDG)
      /\ routerUSDG >= RouteMinimum
  BY DEF Route, NotifyRevenue, lifecycleVars, configVars, bribeVars
<1>4. /\ n \in Nat /\ Strategies = 0 .. n - 1 /\ now \in Nat
      /\ resonanceUSDG \in Nat /\ routerUSDG \in Nat
      /\ total = PartialSum(w, n) /\ total \in Nat /\ w \in [0 .. n - 1 -> Nat]
      /\ k \in Stream(0 .. n - 1) /\ StreamClocks(k, now) /\ IndexesBehind(k)
      /\ StreamSound(k, now, w, n, resonanceUSDG)
  BY <1>1, RevenueFacts, StrategiesAndAccounts DEF ResonanceTypes
<1>5. routerUSDG >= REWARD_DURATION
  <2>1. Remaining(revenue, now) \in Nat
    BY <1>4, ClockBounds
  <2> QED
    BY <1>3, <1>4, <2>1, StreamConstants DEF RouteMinimum
<1>6. ActiveWeights' = w
  BY <1>3 DEF ActiveWeights
<1> HIDE DEF k, w, total
<1>7. StreamSound(k2, now, w, n, resonanceUSDG + routerUSDG)
  BY <1>3, <1>4, NotifiedSound
<1>8. k2.rate > 0
  BY <1>4, <1>5, NotifiedPays
<1>9. k2 \in Stream(0 .. n - 1)
  BY <1>4, <1>7, SoundFields
<1>10. \A s \in 0 .. n - 1 : EarnsTheSame(k2, total, w, k, total, w, now, s)
  BY <1>4, <1>9, EarnedAfterNotice
<1> HIDE DEF k2
<1>11. RevenueSound'
  BY <1>3, <1>6, <1>7 DEF RevenueSound
<1>12. RoutedStreamsPay'
  BY <1>3, <1>8 DEF RoutedStreamsPay
<1>13. totalSignalWeight' = PartialSum(ActiveWeights', NumStrategies)
  BY <1>3, <1>4, <1>6
<1>14. resonanceUSDG' \in Nat /\ routerUSDG' \in Nat
  BY <1>3, <1>4
<1>15. IInv'
  BY <1>1, <1>2, <1>3, <1>11, <1>12, <1>13, <1>14, ResonanceInvKept DEF ResonanceTypes
<1>16. RevenueStands
  BY <1>3, <1>4, <1>6, <1>10 DEF RevenueStands, RevenueEarned, EarnsTheSame, k, w, total
<1> QED
  BY <1>2, <1>15, <1>16

LEMMA AddStrategyStep ==
  ASSUME IInv, NEW s \in Strategies, NEW token \in PaymentTokens, AddStrategy(s, token)
  PROVE  IInv' /\ EarningsStand /\ RevenueStands
<1> DEFINE n == NumStrategies
           k == revenue
           w == ActiveWeights
           total == totalSignalWeight
           k2 == [k EXCEPT !.paid[s] = k.stored]
<1>1. BribeInv /\ ResonanceInv /\ ResonanceTypes
  BY ResonanceTyped DEF IInv
<1>2. BribeInv' /\ EarningsStand
  <2>1. token \in Tokens
    BY ResonanceConstants
  <2> QED
    BY <1>1, <2>1, AddRewardTokenStep DEF AddStrategy
<1>3. /\ UNCHANGED <<routerBound, bribeBps, resonanceUSDG, routerUSDG, strategyUSDG, bribeWeight>>
      /\ now' = now /\ totalSignalWeight' = total /\ revenue' = k2
      /\ registered = 0 .. s - 1 /\ registered' = registered \cup {s}
      /\ live' = live \cup {s} /\ liveStrategyCount' = liveStrategyCount + 1
      /\ paymentToken' = [paymentToken EXCEPT ![s] = token]
  BY DEF AddStrategy, AddRewardToken, configVars, usdgVars
<1>4. s \notin registered /\ s \notin live
  BY <1>1, <1>3, StrategiesAndAccounts DEF ResonanceTypes
<1>5. bribeWeight[s] = 0
  BY <1>1, <1>4 DEF ResonanceTypes
<1>6. w[s] = 0 /\ ActiveWeights' = w
  BY <1>3, <1>4, <1>5 DEF ActiveWeights
<1>7. /\ n \in Nat /\ Strategies = 0 .. n - 1 /\ now \in Nat
      /\ total = PartialSum(w, n) /\ total \in Nat /\ w \in [0 .. n - 1 -> Nat]
      /\ k \in Stream(0 .. n - 1) /\ StreamClocks(k, now)
      /\ StreamSound(k, now, w, n, resonanceUSDG)
  BY <1>1, RevenueFacts, StrategiesAndAccounts
<1> HIDE DEF w, total, k
<1>8. StreamSound(k2, now, w, n, resonanceUSDG)
  BY <1>6, <1>7, JoinSound
<1>9. \A z \in 0 .. n - 1 : EarnsTheSame(k2, total, w, k, total, w, now, z)
  BY <1>6, <1>7, EarnedAfterJoining
<1>10. k2.finish = k.finish /\ k2.rate = k.rate
  BY <1>7 DEF Stream
<1> HIDE DEF k2
<1>11. RevenueSound'
  BY <1>3, <1>6, <1>8 DEF RevenueSound
<1>12. RoutedStreamsPay'
  BY <1>1, <1>3, <1>10 DEF RoutedStreamsPay, ResonanceInv, k
<1>13. liveStrategyCount' = Cardinality(live')
  BY <1>1, <1>3, <1>4, FS_AddElement DEF ResonanceTypes
<1>14. totalSignalWeight' = PartialSum(ActiveWeights', NumStrategies)
  BY <1>3, <1>6, <1>7
<1>15. /\ registered' \subseteq Strategies /\ live' \subseteq registered'
       /\ paymentToken' \in [Strategies -> PaymentTokens \cup {NoToken}]
       /\ \A z \in Strategies \ registered' : bribeWeight'[z] = 0
  BY <1>1, <1>3 DEF ResonanceTypes
<1>16. IInv'
  BY <1>1, <1>2, <1>3, <1>11, <1>12, <1>13, <1>14, <1>15, ResonanceInvKept DEF ResonanceTypes
<1>17. RevenueStands
  BY <1>3, <1>6, <1>7, <1>9 DEF RevenueStands, RevenueEarned, EarnsTheSame, k, w, total
<1> QED
  BY <1>2, <1>16, <1>17

LEMMA KillStrategyStep ==
  ASSUME IInv, NEW s \in Strategies, KillStrategy(s)
  PROVE  IInv' /\ EarningsStand /\ RevenueStands
<1> DEFINE n == NumStrategies
           w == ActiveWeights
           w2 == ActiveWeights'
<1>1. BribeInv /\ ResonanceInv /\ ResonanceTypes
  BY ResonanceTyped DEF IInv
<1>2. BribeInv' /\ EarningsStand
  BY <1>1, BribesUnchanged DEF KillStrategy
<1>3. /\ UNCHANGED <<registered, paymentToken, routerBound, bribeBps,
                     resonanceUSDG, routerUSDG, strategyUSDG, bribeWeight>>
      /\ now' = now /\ revenue' = RevenueSettled({s})
      /\ s \in live /\ live' = live \ {s}
      /\ liveStrategyCount' = liveStrategyCount - 1
      /\ totalSignalWeight' = totalSignalWeight - bribeWeight[s]
  BY DEF KillStrategy, configVars, usdgVars, bribeVars
<1>4. w \in [0 .. n - 1 -> Nat] /\ w[s] = bribeWeight[s]
  BY <1>1, <1>3, StrategiesAndAccounts DEF ActiveWeights, ResonanceTypes
<1>5. w2 \in [0 .. n - 1 -> Nat] /\ w2 = [w EXCEPT ![s] = 0]
  BY <1>1, <1>3, StrategiesAndAccounts DEF ActiveWeights, ResonanceTypes
<1>6. totalSignalWeight = PartialSum(w, n) /\ totalSignalWeight \in Nat
  BY <1>1, RevenueFacts
<1> HIDE DEF w, w2
<1>7. PartialSum(w2, n) = PartialSum(w, n) + (0 - w[s])
  <2> DEFINE x == 0
  <2>1. /\ n \in Nat /\ s \in 0 .. n - 1 /\ w \in [0 .. n - 1 -> Int] /\ x \in Int
        /\ w2 = [w EXCEPT ![s] = x]
    BY <1>4, <1>5, StrategiesAndAccounts
  <2> HIDE DEF x
  <2>2. PartialSum(w2, n) = PartialSum(w, n) + (x - w[s])
    BY <2>1, SumShift
  <2> QED
    BY <2>2 DEF x
<1>8. totalSignalWeight' = PartialSum(w2, n)
  <2>1. bribeWeight[s] \in Nat
    BY <1>1 DEF ResonanceTypes
  <2> QED
    BY <1>3, <1>4, <1>6, <1>7, <2>1
<1>9. \A z \in Strategies : w2[z] = w[z] \/ z \in {s}
  BY <1>4, <1>5, StrategiesAndAccounts
<1>10. RevenueReweighed({s})
  BY <1>3, <1>5, <1>8, <1>9, StrategiesAndAccounts DEF RevenueReweighed, w, w2
<1>11. /\ RevenueSound' /\ RoutedStreamsPay'
       /\ \A z \in Strategies : RevenueEarned(z)' = RevenueEarned(z)
  BY <1>1, <1>10, ReweighedRevenue
<1>12. liveStrategyCount' = Cardinality(live')
  BY <1>1, <1>3, FS_RemoveElement DEF ResonanceTypes
<1>13. totalSignalWeight' = PartialSum(ActiveWeights', NumStrategies)
  BY <1>8 DEF w2
<1>14. IInv'
  BY <1>1, <1>2, <1>3, <1>11, <1>12, <1>13, ResonanceInvKept DEF ResonanceTypes
<1>15. RevenueStands
  BY <1>11 DEF RevenueStands
<1> QED
  BY <1>2, <1>14, <1>15

LEMMA TickStep ==
  ASSUME IInv, Tick
  PROVE  IInv'
<1>1. BribeInv /\ ResonanceInv /\ ResonanceTypes
  BY ResonanceTyped DEF IInv
<1>2. UNCHANGED <<bribeVars, revenue, totalSignalWeight, registered, live, liveStrategyCount,
                  paymentToken, routerBound, bribeBps, resonanceUSDG, routerUSDG, strategyUSDG>>
  BY DEF Tick, resonanceVars, lifecycleVars, configVars, usdgVars
<1>3. now \in Nat /\ now' \in Nat /\ now <= now' /\ now' \in Times
  BY <1>1, BribeConstants DEF BribeInv, BribeTypeOK, Times, Tick
<1>4. BribeInv'
  BY <1>1, <1>2, <1>3, TimeStep
<1>5. ActiveWeights' = ActiveWeights /\ bribeWeight' = bribeWeight
  BY <1>2 DEF ActiveWeights, bribeVars
<1>6. RevenueSound'
  <2>1. StreamSound(revenue, now, ActiveWeights, NumStrategies, resonanceUSDG)
    BY <1>1, RevenueFacts
  <2>2. StreamSound(revenue, now', ActiveWeights, NumStrategies, resonanceUSDG)
    BY <1>3, <2>1, TimeSound, StrategiesAndAccounts
  <2> QED
    BY <1>2, <1>5, <2>2 DEF RevenueSound
<1>7. RoutedStreamsPay'
  <2>1. revenue.finish \in Nat
    BY <1>1, RevenueFacts, StreamFields, StrategiesAndAccounts
  <2> QED
    BY <1>1, <1>2, <1>3, <2>1 DEF RoutedStreamsPay, ResonanceInv
<1>8. totalSignalWeight' = PartialSum(ActiveWeights', NumStrategies)
  BY <1>1, <1>2, <1>5, RevenueFacts
<1> QED
  BY <1>1, <1>2, <1>4, <1>5, <1>6, <1>7, <1>8, ResonanceInvKept DEF ResonanceTypes

(* Every transaction keeps the invariant and what has been earned. *)
LEMMA TransactionStep ==
  ASSUME IInv, SignalCalls \/ RevenueCalls \/ NewStrategies \/ OwnerCalls \/ RewardCalls
  PROVE  now' = now /\ IInv' /\ EarningsStand /\ RevenueStands
<1>1. CASE SignalCalls
  <2>1. PICK account \in Accounts, allocation \in Allocations :
          AddSignalFor(account, allocation) \/ RemoveSignalFor(account, allocation)
    BY <1>1 DEF SignalCalls
  <2>2. allocation \in [Strategies -> Nat]
    <3>1. \A x \in SignalAmounts \cup {0} : x \in Nat
      BY ResonanceConstants
    <3>2. allocation \in [Strategies -> SignalAmounts \cup {0}]
      BY <2>1 DEF Allocations
    <3> QED
      BY <3>1, <3>2
  <2>3. now' = now
    BY <2>1 DEF AddSignalFor, RemoveSignalFor
  <2> QED
    BY <2>1, <2>2, <2>3, AddSignalForStep, RemoveSignalForStep
<1>2. CASE RevenueCalls
  <2>1. CASE Route
    BY <2>1, RouteStep DEF Route
  <2>2. ASSUME NEW s \in Strategies, DistributeRevenue(s)
        PROVE  now' = now /\ IInv' /\ EarningsStand /\ RevenueStands
    BY <2>2, DistributeRevenueStep DEF DistributeRevenue
  <2>3. ASSUME NEW amount \in RevenueAmounts, DepositRevenue(amount)
        PROVE  now' = now /\ IInv' /\ EarningsStand /\ RevenueStands
    <3>1. amount \in Nat
      BY ResonanceConstants
    <3> QED
      BY <2>3, <3>1, DepositRevenueStep DEF DepositRevenue
  <2> QED
    BY <1>2, <2>1, <2>2, <2>3 DEF RevenueCalls
<1>3. CASE NewStrategies
  <2>1. PICK s \in Strategies, token \in PaymentTokens : AddStrategy(s, token)
    BY <1>3 DEF NewStrategies
  <2> QED
    BY <2>1, AddStrategyStep DEF AddStrategy
<1>4. CASE OwnerCalls
  <2>1. CASE SetResonanceRouter
    BY <2>1, SetResonanceRouterStep DEF SetResonanceRouter
  <2>2. ASSUME NEW newBribeBps \in BpsChoices, SetBribeBps(newBribeBps)
        PROVE  now' = now /\ IInv' /\ EarningsStand /\ RevenueStands
    <3>1. newBribeBps \in Nat
      BY ResonanceConstants
    <3> QED
      BY <2>2, <3>1, SetBribeBpsStep DEF SetBribeBps
  <2>3. ASSUME NEW s \in Strategies, KillStrategy(s)
        PROVE  now' = now /\ IInv' /\ EarningsStand /\ RevenueStands
    BY <2>3, KillStrategyStep DEF KillStrategy
  <2>4. ASSUME NEW s \in Strategies, NEW token \in Tokens, AddBribeRewardToken(s, token)
        PROVE  now' = now /\ IInv' /\ EarningsStand /\ RevenueStands
    BY <2>4, AddBribeRewardTokenStep DEF AddBribeRewardToken
  <2> QED
    BY <1>4, <2>1, <2>2, <2>3, <2>4 DEF OwnerCalls
<1>5. CASE RewardCalls
  <2>1. ASSUME NEW account \in Accounts, NEW strategies, ClaimBribeRewards(account, strategies)
        PROVE  now' = now /\ IInv' /\ EarningsStand /\ RevenueStands
    BY <2>1, ClaimBribeRewardsStep DEF ClaimBribeRewards
  <2>2. ASSUME NEW s \in Strategies, NEW token \in Tokens, NEW amount \in RewardAmounts,
               FundBribe(s, token, amount)
        PROVE  now' = now /\ IInv' /\ EarningsStand /\ RevenueStands
    <3>1. amount \in Nat
      BY ResonanceConstants
    <3> QED
      BY <2>2, <3>1, FundBribeStep DEF FundBribe
  <2>3. ASSUME NEW s \in Strategies, NEW token \in Tokens, NEW account \in Accounts,
               ClaimBribeReward(account, s, token)
        PROVE  now' = now /\ IInv' /\ EarningsStand /\ RevenueStands
    BY <2>3, ClaimBribeRewardStep DEF ClaimBribeReward
  <2> QED
    BY <1>5, <2>1, <2>2, <2>3 DEF RewardCalls
<1> QED
  BY <1>1, <1>2, <1>3, <1>4, <1>5

LEMMA NextIInv ==
  ASSUME IInv, [Next]_vars
  PROVE  IInv'
<1>1. CASE Tick
  BY <1>1, TickStep
<1>2. CASE UNCHANGED vars
  <2>1. BribeInv /\ ResonanceTypes
    BY ResonanceTyped DEF IInv
  <2>2. now' = now /\ UNCHANGED bribeVars /\ UNCHANGED resonanceVars /\ bribeWeight' = bribeWeight
    BY <1>2 DEF vars, bribeVars
  <2>3. BribeInv'
    BY <2>1, <2>2, BribesUnchanged
  <2> QED
    BY <2>2, <2>3, BribeCallStep
<1> QED
  BY <1>1, <1>2, TransactionStep DEF Next

LEMMA InitIInv == Init => IInv
BY InitBribeInv, InitResonanceInv DEF Init, IInv

LEMMA Invariance == Spec => []IInv
<1>1. IInv /\ [Next]_vars => IInv'
  BY NextIInv
<1> QED
  BY <1>1, InitIInv, PTL DEF Spec

-----------------------------------------------------------------------------
(* What the invariant says of a state. *)

(* In every Bribe the rewards of all its accounts are backed.               *)
LEMMA RewardsSolvent ==
  ASSUME BribeInv
  PROVE  RewardsBacked
<1> SUFFICES ASSUME NEW s \in Strategies, NEW t \in Tokens
             PROVE  PartialSum([a \in Accounts |-> RewardEarned(s, t, a)], NumAccounts)
                      + Remaining(reward[s][t], now) <= bribeBalance[s][t]
  BY DEF RewardsBacked
<1> DEFINE n == NumAccounts
           k == reward[s][t]
           w == weightOf[s]
           total == bribeWeight[s]
           balance == bribeBalance[s][t]
           e == EarnedTable(k, now, total, w, n)
<1>1. /\ n \in Nat /\ now \in Nat /\ balance \in Nat /\ total = PartialSum(w, n)
      /\ StreamSound(k, now, w, n, balance)
  BY RewardFacts, StrategiesAndAccounts
<1>2. e = [a \in Accounts |-> RewardEarned(s, t, a)]
  BY StrategiesAndAccounts DEF EarnedTable, RewardEarned
<1> HIDE DEF n, k, w, total, balance
<1>3. PartialSum(e, n) + Remaining(k, now) <= balance
  BY <1>1, StreamSolvent
<1> HIDE DEF e
<1> QED
  BY <1>2, <1>3 DEF n, k, balance

(* The arithmetic of every call stays within its words, and Resonance can   *)
(* pay what it distributes.                                                 *)
UpdatesFit ==
  /\ RevenueIndexFits
  /\ \A s \in Strategies : RevenueEarned(s) <= resonanceUSDG
  /\ \A s \in Strategies, t \in Tokens : BribeIndexFits(s, t)

(* All that Resonance and its Bribes promise of every state.                *)
ResonancePromises ==
  /\ SignalTotals
  /\ RevenueBacked
  /\ RewardsBacked
  /\ RoutedStreamsPay
  /\ UpdatesFit

LEMMA PromisesKept ==
  ASSUME IInv
  PROVE  ResonancePromises
<1>1. BribeInv /\ ResonanceInv
  BY DEF IInv
<1>2. SignalTotals /\ RoutedStreamsPay
  BY <1>1 DEF BribeInv, ResonanceInv, SignalTotals
<1>3. RevenueBacked
  BY <1>1, RevenueSolvent DEF ResonanceInv, RevenueBacked
<1>4. UpdatesFit
  BY <1>1, BribeUpdateFits, RevenueUpdateFits, RevenueSolvent DEF UpdatesFit
<1> QED
  BY <1>1, <1>2, <1>3, <1>4, RewardsSolvent DEF ResonancePromises

-----------------------------------------------------------------------------
(* The theorems. *)

(* The total weight revenue is divided by is the signal of the live         *)
(* strategies, and each Bribe's total the weights of its accounts, over     *)
(* every interleaving of signals, withdrawals and kills (Resonance.sol:     *)
(* addSignalFor, removeSignalFor, killStrategy).                            *)
THEOREM TotalsAreSums == Spec => []SignalTotals
<1>1. IInv => SignalTotals
  BY PromisesKept DEF ResonancePromises
<1> QED
  BY <1>1, Invariance, PTL

(* Resonance holds the USDG that all strategies could have distributed now  *)
(* and what has still to stream, and its state keeps its types.             *)
THEOREM RevenueAlwaysBacked == Spec => []RevenueBacked
<1>1. IInv => RevenueBacked
  BY PromisesKept DEF ResonancePromises
<1> QED
  BY <1>1, Invariance, PTL

(* Every Bribe holds what all its accounts could claim now, of each token,  *)
(* and what has still to stream.                                            *)
THEOREM RewardsAlwaysBacked == Spec => []RewardsBacked
<1>1. IInv => RewardsBacked
  BY PromisesKept DEF ResonancePromises
<1> QED
  BY <1>1, Invariance, PTL

(* The Router starts no stream that pays nothing per second.                *)
THEOREM StreamsPay == Spec => []RoutedStreamsPay
<1>1. IInv => RoutedStreamsPay
  BY PromisesKept DEF ResonancePromises
<1> QED
  BY <1>1, Invariance, PTL

(* No update of an index ever overflows, so no call of Resonance or of a    *)
(* Bribe reverts on one, and Resonance can always pay what it distributes.  *)
THEOREM UpdatesAlwaysFit == Spec => []UpdatesFit
<1>1. IInv => UpdatesFit
  BY PromisesKept DEF ResonancePromises
<1> QED
  BY <1>1, Invariance, PTL

(* At one timestamp no transaction reaches back into what a strategy has    *)
(* earned, except the one that pays it all out.                             *)
THEOREM RevenueOnlyPaid == Spec => EarnedOnlyPaid
<1>1. ASSUME IInv, [Next]_vars, now' = now PROVE RevenueStands
  <2>1. CASE Tick
    <3>1. now \in Nat /\ now' = now + 1
      BY <1>1, <2>1, RevenueFacts DEF Tick, IInv
    <3> QED
      BY <1>1, <3>1
  <2>2. CASE UNCHANGED vars
    BY <2>2 DEF RevenueStands, RevenueEarned, ActiveWeights, vars, bribeVars, resonanceVars, lifecycleVars
  <2> QED
    BY <1>1, <2>1, <2>2, TransactionStep DEF Next
<1>2. IInv /\ [Next]_vars
        => [now' = now =>
              \A s \in Strategies :
                \/ RevenueEarned(s)' = RevenueEarned(s)
                \/ /\ RevenueEarned(s)' = 0
                   /\ strategyUSDG'[s] = strategyUSDG[s] + RevenueEarned(s)]_vars
  BY <1>1 DEF RevenueStands
<1> QED
  BY <1>2, Invariance, PTL DEF Spec, EarnedOnlyPaid

(* The same for the rewards of every account in every Bribe. *)
THEOREM BribesOnlyPay == Spec => RewardsOnlyPaid
<1>1. ASSUME IInv, [Next]_vars, now' = now PROVE EarningsStand
  <2>1. CASE Tick
    <3>1. now \in Nat /\ now' = now + 1
      BY <1>1, <2>1, RevenueFacts DEF Tick, IInv
    <3> QED
      BY <1>1, <3>1
  <2>2. CASE UNCHANGED vars
    <3>1. BribeInv /\ UNCHANGED bribeVars
      BY <1>1, <2>2 DEF IInv, vars
    <3> QED
      BY <1>1, <3>1, BribesUnchanged
  <2> QED
    BY <1>1, <2>1, <2>2, TransactionStep DEF Next
<1>2. IInv /\ [Next]_vars
        => [now' = now =>
              \A s \in Strategies, t \in Tokens, a \in Accounts :
                \/ RewardEarned(s, t, a)' = RewardEarned(s, t, a)
                \/ /\ RewardEarned(s, t, a)' = 0
                   /\ bribeBalance'[s][t] = bribeBalance[s][t] - RewardEarned(s, t, a)]_vars
  BY <1>1 DEF EarningsStand, EarningsKept
<1> QED
  BY <1>2, Invariance, PTL DEF Spec, RewardsOnlyPaid

(* A killed strategy earns nothing more, whatever happens to its signal.    *)
THEOREM DeadStrategiesStay == Spec => DeadStrategiesEarnNothing
<1>1. ASSUME IInv, [Next]_vars, NEW s \in registered \ live
      PROVE  RevenueEarned(s)' <= RevenueEarned(s)
  <2>1. ResonanceInv /\ ResonanceTypes /\ s \in Strategies
    BY <1>1, ResonanceTyped DEF IInv, ResonanceTypes
  <2>2. RevenueEarned(s) \in Nat
    BY <2>1, RevenueSolvent
  <2>3. CASE Tick
    <3>1. /\ revenue' = revenue /\ totalSignalWeight' = totalSignalWeight
          /\ ActiveWeights' = ActiveWeights
      BY <2>3 DEF Tick, resonanceVars, lifecycleVars, bribeVars, ActiveWeights
    <3>2. /\ revenue \in Stream(0 .. NumStrategies - 1)
          /\ totalSignalWeight \in Nat /\ ActiveWeights \in [0 .. NumStrategies - 1 -> Nat]
          /\ now \in Nat /\ StreamClocks(revenue, now)
      BY <2>1, RevenueFacts
    <3>3. now' \in Nat /\ StreamClocks(revenue, now')
      <4>1. revenue.updated \in Nat /\ now' = now + 1
        BY <2>3, <3>2, StreamFields, StrategiesAndAccounts DEF Tick
      <4> QED
        BY <3>2, <4>1 DEF StreamClocks
    <3>4. ActiveWeights[s] = 0
      BY <2>1 DEF ActiveWeights
    <3>5. /\ EarnsNothingMore(revenue, totalSignalWeight, ActiveWeights, now, s)
          /\ EarnsNothingMore(revenue, totalSignalWeight, ActiveWeights, now', s)
      BY <2>1, <3>2, <3>3, <3>4, WeightlessEarned, StrategiesAndAccounts
    <3>6. RevenueEarned(s)' = RevenueEarned(s)
      BY <3>1, <3>5 DEF RevenueEarned, EarnsNothingMore
    <3> QED
      BY <2>2, <3>6
  <2>4. CASE UNCHANGED vars
    <3>1. RevenueEarned(s)' = RevenueEarned(s)
      BY <2>4 DEF RevenueEarned, ActiveWeights, vars, bribeVars, resonanceVars, lifecycleVars
    <3> QED
      BY <2>2, <3>1
  <2>5. CASE SignalCalls \/ RevenueCalls \/ NewStrategies \/ OwnerCalls \/ RewardCalls
    <3>1. RevenueEarned(s)' = RevenueEarned(s) \/ RevenueEarned(s)' = 0
      BY <1>1, <2>1, <2>5, TransactionStep DEF RevenueStands
    <3> QED
      BY <2>2, <3>1
  <2> QED
    BY <1>1, <2>3, <2>4, <2>5 DEF Next
<1>2. IInv /\ [Next]_vars
        => [\A s \in registered \ live : RevenueEarned(s)' <= RevenueEarned(s)]_vars
  BY <1>1
<1> QED
  BY <1>2, Invariance, PTL DEF Spec, DeadStrategiesEarnNothing
=============================================================================
