--------------------------- MODULE Evaluator_proofs ---------------------------
(***************************************************************************)
(* What the evaluator computes: that a median is reached by half of the    *)
(* runs, that the common denominator of the relative changes is one, and   *)
(* that a benchmark is only accepted if the median of some workload beats  *)
(* its baseline by more than the threshold.                                *)
(*                                                                         *)
(* Sums and products are folds over the subsets of the workloads. That     *)
(* such a fold exists and what it comes to is shown by induction on the    *)
(* size of the subset, in the form of a set that contains every number     *)
(* (SetInduction) or every subset (SubsetInduction).                       *)
(***************************************************************************)
EXTENDS ResultEvaluator, FiniteSetTheorems, WellFoundedInduction, TLAPS

-----------------------------------------------------------------------------
(* Numbers, and the runs of a workload in ascending order.                 *)

\* A non-empty set of numbers has a least one.
LEMMA Least ==
  ASSUME NEW S, S \subseteq Nat, S # {}
  PROVE  \E m \in S : \A x \in S : m <= x
<1> DEFINE R == OpToRel(<, Nat)
<1>1. IsWellFoundedOn(R, Nat)
  BY NatLessThanWellFounded, Zenon
<1> HIDE DEF R
<1>2. PICK m \in S : \A y \in S : ~(<<y, m>> \in R)
  BY <1>1, WFMin
<1>3. ASSUME NEW y \in S, y < m PROVE FALSE
  <2>1. <<y, m>> \in R
    BY <1>3 DEF R, OpToRel
  <2> QED BY <1>2, <2>1
<1>4. \A y \in S : m <= y
  BY <1>3
<1> QED BY <1>4

LEMMA SetInduction ==
  ASSUME NEW S, 0 \in S, \A n \in Nat : n \in S => n + 1 \in S
  PROVE  Nat \subseteq S
<1>1. SUFFICES ASSUME Nat \ S # {} PROVE FALSE
  OBVIOUS
<1>2. PICK m \in Nat \ S : \A x \in Nat \ S : m <= x
  BY <1>1, Least
<1>3. m # 0 /\ m - 1 \in Nat /\ ~(m <= m - 1)
  BY <1>2
<1>4. m - 1 \in S
  BY <1>2, <1>3
<1>5. (m - 1) + 1 = m
  BY <1>2
<1> QED BY <1>2, <1>3, <1>4, <1>5

\* The entries of a list are bounded.
LEMMA ListBounded ==
  ASSUME NEW s \in Seq(Nat)
  PROVE  \E b \in Nat : \A i \in DOMAIN s : s[i] <= b
<1> DEFINE P == {m \in Nat : m <= Len(s) => \E b \in Nat : \A i \in 1..m : s[i] <= b}
<1>1. 0 \in P
  OBVIOUS
<1>2. ASSUME NEW m \in Nat, m \in P PROVE m + 1 \in P
  <2>1. SUFFICES ASSUME m + 1 <= Len(s) PROVE \E b \in Nat : \A i \in 1..(m + 1) : s[i] <= b
    OBVIOUS
  <2>2. PICK b \in Nat : \A i \in 1..m : s[i] <= b
    BY <1>2, <2>1
  <2>3. s[m + 1] \in Nat /\ \A i \in 1..m : s[i] \in Nat
    BY <2>1
  <2>4. PICK c \in Nat : c >= b /\ c >= s[m + 1]
    BY <2>3
  <2>5. \A i \in 1..(m + 1) : i \in 1..m \/ i = m + 1
    OBVIOUS
  <2>6. \A i \in 1..(m + 1) : s[i] <= c
    <3>1. ASSUME NEW i \in 1..m PROVE s[i] <= c
      <4>1. s[i] <= b /\ s[i] \in Nat
        BY <2>2, <2>3
      <4> QED BY <2>4, <4>1
    <3> HIDE DEF P
    <3> QED BY <2>4, <2>5, <3>1
  <2> QED BY <2>6
<1>3. Len(s) \in P
  <2> HIDE DEF P
  <2>1. Nat \subseteq P
    BY <1>1, <1>2, SetInduction
  <2>2. Len(s) \in Nat
    OBVIOUS
  <2> QED BY <2>1, <2>2
<1>4. PICK b \in Nat : \A i \in 1..Len(s) : s[i] <= b
  BY <1>3
<1>5. DOMAIN s = 1..Len(s)
  OBVIOUS
<1> QED BY <1>4, <1>5

\* How many entries there are up to a number.
UpToCount(s, v) == Cardinality({i \in DOMAIN s : s[i] <= v})

LEMMA CountFacts ==
  ASSUME NEW s \in Seq(Nat)
  PROVE  /\ IsFiniteSet(DOMAIN s) /\ Cardinality(DOMAIN s) = Len(s)
         /\ \A I \in SUBSET DOMAIN s : IsFiniteSet(I) /\ Cardinality(I) \in Nat
         /\ \A I, J \in SUBSET DOMAIN s : I \subseteq J => Cardinality(I) <= Cardinality(J)
<1>1. DOMAIN s = 1..Len(s) /\ Len(s) \in Nat
  OBVIOUS
<1>2. IsFiniteSet(DOMAIN s) /\ Cardinality(DOMAIN s) = Len(s)
  <2>1. IsFiniteSet(1..Len(s)) /\ Cardinality(1..Len(s)) = IF 1 > Len(s) THEN 0 ELSE Len(s) - 1 + 1
    BY <1>1, FS_Interval
  <2>2. \A n \in Nat : (IF 1 > n THEN 0 ELSE n - 1 + 1) = n
    OBVIOUS
  <2> QED BY <1>1, <2>1, <2>2
<1>3. \A I \in SUBSET DOMAIN s : IsFiniteSet(I) /\ Cardinality(I) \in Nat
  BY <1>2, FS_Subset, FS_CardinalityType
<1>4. \A I, J \in SUBSET DOMAIN s : I \subseteq J => Cardinality(I) <= Cardinality(J)
  BY <1>3, FS_Subset
<1> QED BY <1>2, <1>3, <1>4

\* At least k entries are no larger than the k-th, fewer are smaller.
LEMMA RankedFacts ==
  ASSUME NEW s \in Seq(Nat), NEW k \in 1..Len(s)
  PROVE  /\ Ranked(s, k) \in Nat
         /\ Cardinality({i \in DOMAIN s : s[i] <= Ranked(s, k)}) >= k
         /\ Cardinality({i \in DOMAIN s : s[i] < Ranked(s, k)}) < k
<1> DEFINE B == {n \in Nat : UpToCount(s, n) >= k}
<1>1. PICK b \in Nat : \A i \in DOMAIN s : s[i] <= b
  BY ListBounded
<1>2. {i \in DOMAIN s : s[i] <= b} = DOMAIN s
  BY <1>1
<1>3. b \in B
  BY <1>2, CountFacts DEF UpToCount
<1>4. PICK m \in B : \A n \in B : m <= n
  BY <1>3, Least
<1>5. Cardinality({i \in DOMAIN s : s[i] < m}) < k
  <2>1. CASE m = 0
    <3>1. {i \in DOMAIN s : s[i] < m} = {}
      BY <2>1
    <3> QED BY <3>1, FS_EmptySet
  <2>2. CASE m # 0
    <3>1. m - 1 \in Nat /\ ~(m <= m - 1)
      BY <2>2, <1>4
    <3>2. {i \in DOMAIN s : s[i] < m} = {i \in DOMAIN s : s[i] <= m - 1}
      BY <1>4
    <3>3. UpToCount(s, m - 1) < k
      <4>1. UpToCount(s, m - 1) \in Nat
        BY CountFacts DEF UpToCount
      <4> QED BY <1>4, <3>1, <4>1
    <3> QED BY <3>2, <3>3 DEF UpToCount
  <2> QED BY <2>1, <2>2
<1>6. m \in Values(s)
  <2>1. SUFFICES ASSUME m \notin Values(s) PROVE FALSE
    OBVIOUS
  <2>2. {i \in DOMAIN s : s[i] < m} = {i \in DOMAIN s : s[i] <= m}
    BY <2>1, <1>4 DEF Values
  <2>3. Cardinality({i \in DOMAIN s : s[i] <= m}) >= k
    BY <1>4 DEF UpToCount
  <2>4. Cardinality({i \in DOMAIN s : s[i] <= m}) < k
    BY <1>5, <2>2
  <2>5. Cardinality({i \in DOMAIN s : s[i] <= m}) \in Nat /\ k \in Nat
    BY CountFacts
  <2> QED BY <2>3, <2>4, <2>5
<1>7. Cardinality({i \in DOMAIN s : s[i] <= m}) >= k
  BY <1>4 DEF UpToCount
<1>8. Values(s) \subseteq Nat
  BY DEF Values
<1> QED BY <1>5, <1>6, <1>7, <1>8 DEF Ranked

LEMMA RankedOrder ==
  ASSUME NEW s \in Seq(Nat), NEW k \in 1..Len(s), NEW l \in 1..Len(s), k <= l
  PROVE  Ranked(s, k) <= Ranked(s, l)
<1> DEFINE K == {i \in DOMAIN s : s[i] < Ranked(s, k)}
           L == {i \in DOMAIN s : s[i] <= Ranked(s, l)}
<1>1. /\ Ranked(s, k) \in Nat /\ Ranked(s, l) \in Nat
      /\ Cardinality(K) < k /\ Cardinality(L) >= l
  BY RankedFacts
<1>2. SUFFICES ASSUME Ranked(s, l) < Ranked(s, k) PROVE FALSE
  BY <1>1
<1>3. L \subseteq K
  BY <1>1, <1>2
<1>4. Cardinality(L) <= Cardinality(K) /\ Cardinality(L) \in Nat /\ Cardinality(K) \in Nat
  <2>1. K \in SUBSET DOMAIN s /\ L \in SUBSET DOMAIN s
    OBVIOUS
  <2> HIDE DEF K, L
  <2> QED BY <1>3, <2>1, CountFacts
<1> HIDE DEF K, L
<1> QED BY <1>1, <1>4

\* At least half of the runs reach the median, or the upper one of the two
\* entries it is the mean of.
LEMMA MedianReached ==
  ASSUME NEW s \in Seq(Nat), Len(s) > 0
  PROVE  \E u \in Nat : /\ TwiceMedian(s) \in Nat /\ TwiceMedian(s) <= 2 * u
                        /\ 2 * Cardinality({i \in DOMAIN s : s[i] >= u}) >= Len(s)
<1> DEFINE n == Len(s)
           lo == (n + 1) \div 2
           hi == n \div 2 + 1
<1>1. n \in Nat /\ lo \in 1..n /\ hi \in 1..n /\ lo <= hi /\ 2 * (hi - 1) <= n
  OBVIOUS
<1>2. TwiceMedian(s) = Ranked(s, lo) + Ranked(s, hi)
  BY DEF TwiceMedian
<1> HIDE DEF lo, hi
<1>3. /\ Ranked(s, lo) \in Nat /\ Ranked(s, hi) \in Nat /\ Ranked(s, lo) <= Ranked(s, hi)
      /\ Cardinality({i \in DOMAIN s : s[i] < Ranked(s, hi)}) < hi
  BY <1>1, RankedFacts, RankedOrder
<1> DEFINE u == Ranked(s, hi)
           A == {i \in DOMAIN s : s[i] < u}
           U == {i \in DOMAIN s : s[i] >= u}
<1>4. Cardinality(U) + Cardinality(A) = n /\ Cardinality(U) \in Nat /\ Cardinality(A) \in Nat
  <2>1. A \in SUBSET DOMAIN s /\ U \in SUBSET DOMAIN s
    OBVIOUS
  <2>2. A \cap U = {} /\ A \cup U = DOMAIN s
    <3>1. \A i \in DOMAIN s : s[i] \in Nat /\ u \in Nat
      BY <1>3
    <3>2. \A i \in DOMAIN s : i \in A <=> ~(i \in U)
      BY <3>1
    <3> HIDE DEF u
    <3> QED BY <3>2
  <2> HIDE DEF A, U
  <2>3. IsFiniteSet(A) /\ IsFiniteSet(U) /\ Cardinality(U) \in Nat /\ Cardinality(A) \in Nat
    BY <2>1, CountFacts
  <2>4. Cardinality(A \cup U) = Cardinality(A) + Cardinality(U) - Cardinality(A \cap U)
    BY <2>3, FS_Union
  <2>5. Cardinality(DOMAIN s) = n /\ Cardinality({}) = 0
    BY CountFacts, FS_EmptySet
  <2>6. Cardinality(A \cup U) = n /\ Cardinality(A \cap U) = 0
    BY <2>2, <2>5
  <2> QED BY <2>3, <2>4, <2>6
<1>5. Cardinality(A) < hi
  BY <1>3
<1> HIDE DEF n
<1>6. 2 * Cardinality(U) >= n
  <2> HIDE DEF A, U
  <2> QED BY <1>1, <1>4, <1>5
<1>7. TwiceMedian(s) \in Nat /\ TwiceMedian(s) <= 2 * u
  BY <1>2, <1>3
<1> QED BY <1>3, <1>6, <1>7 DEF n

-----------------------------------------------------------------------------
(* Sums and products over the workloads.                                   *)

Pick(s) == CHOOSE x \in s : TRUE

LEMMA PickFacts ==
  ASSUME NEW S, IsFiniteSet(S), NEW s \in SUBSET S, s # {}
  PROVE  /\ Pick(s) \in s /\ s \ {Pick(s)} \in SUBSET S
         /\ Cardinality(s) \in Nat \ {0} /\ Cardinality(s \ {Pick(s)}) \in Nat
         /\ Cardinality(s \ {Pick(s)}) = Cardinality(s) - 1
         /\ Cardinality(s) = Cardinality(s \ {Pick(s)}) + 1
<1>1. Pick(s) \in s
  BY DEF Pick
<1>2. IsFiniteSet(s) /\ Cardinality(s) \in Nat /\ Cardinality(s) # 0
  BY FS_Subset, FS_CardinalityType, FS_EmptySet
<1>3. Cardinality(s \ {Pick(s)}) = Cardinality(s) - 1
  BY <1>1, <1>2, FS_RemoveElement
<1> QED BY <1>1, <1>2, <1>3

\* What holds of the empty set, and of a set if it holds without the element
\* picked, holds of every subset of a finite set.
LEMMA SubsetInduction ==
  ASSUME NEW S, IsFiniteSet(S), NEW P, {} \in P,
         \A s \in SUBSET S : s # {} /\ s \ {Pick(s)} \in P => s \in P
  PROVE  SUBSET S \subseteq P
<1> DEFINE N == {n \in Nat : \A s \in SUBSET S : Cardinality(s) = n => s \in P}
<1>1. 0 \in N
  <2>1. ASSUME NEW s \in SUBSET S, Cardinality(s) = 0 PROVE s \in P
    <3>1. s = {}
      BY <2>1, FS_Subset, FS_EmptySet
    <3> QED BY <3>1
  <2> QED BY <2>1
<1>2. ASSUME NEW n \in Nat, n \in N PROVE n + 1 \in N
  <2>1. ASSUME NEW s \in SUBSET S, Cardinality(s) = n + 1 PROVE s \in P
    <3>1. s # {}
      BY <2>1, FS_EmptySet
    <3>2. Cardinality(s \ {Pick(s)}) = n /\ s \ {Pick(s)} \in SUBSET S
      BY <2>1, <3>1, PickFacts
    <3> QED BY <1>2, <3>1, <3>2
  <2> QED BY <2>1
<1>3. Nat \subseteq N
  <2> HIDE DEF N
  <2> QED BY <1>1, <1>2, SetInduction
<1>4. ASSUME NEW s \in SUBSET S PROVE s \in P
  <2>1. Cardinality(s) \in N
    BY <1>3, FS_Subset, FS_CardinalityType
  <2> QED BY <2>1
<1> QED BY <1>4

IsFold(f, S, base, G) ==
  f[{}] = base /\ \A s \in SUBSET S : s # {} => f[s] = G[Pick(s)][f[s \ {Pick(s)}]]

\* A fold over the subsets of a finite set exists.
LEMMA FoldExists ==
  ASSUME NEW S, IsFiniteSet(S), NEW T, NEW base \in T, NEW G \in [S -> [T -> T]]
  PROVE  \E f \in [SUBSET S -> T] : IsFold(f, S, base, G)
<1> DEFINE Folds(f, n) ==
             /\ f \in [SUBSET S -> T] /\ f[{}] = base
             /\ \A s \in SUBSET S :
                  s # {} /\ Cardinality(s) <= n => f[s] = G[Pick(s)][f[s \ {Pick(s)}]]
           N == {n \in Nat : \E f \in [SUBSET S -> T] : Folds(f, n)}
<1>1. 0 \in N
  <2> DEFINE f == [s \in SUBSET S |-> base]
  <2>1. ASSUME NEW s \in SUBSET S, s # {} PROVE ~(Cardinality(s) <= 0)
    <3>1. Cardinality(s) \in Nat \ {0}
      BY <2>1, PickFacts
    <3> QED BY <3>1
  <2>2. f \in [SUBSET S -> T] /\ f[{}] = base
    OBVIOUS
  <2> HIDE DEF f
  <2>3. Folds(f, 0)
    BY <2>1, <2>2
  <2> QED BY <2>2, <2>3
<1>2. ASSUME NEW n \in Nat, n \in N PROVE n + 1 \in N
  <2>1. PICK f \in [SUBSET S -> T] : Folds(f, n)
    BY <1>2
  <2> DEFINE g == [s \in SUBSET S |->
                     IF Cardinality(s) = n + 1 THEN G[Pick(s)][f[s \ {Pick(s)}]] ELSE f[s]]
  <2>2. ASSUME NEW s \in SUBSET S, s # {}
        PROVE  /\ s \ {Pick(s)} \in SUBSET S /\ G[Pick(s)][f[s \ {Pick(s)}]] \in T
               /\ Cardinality(s) \in Nat \ {0} /\ Cardinality(s \ {Pick(s)}) = Cardinality(s) - 1
    <3>1. /\ Pick(s) \in s /\ s \ {Pick(s)} \in SUBSET S
          /\ Cardinality(s) \in Nat \ {0} /\ Cardinality(s \ {Pick(s)}) = Cardinality(s) - 1
      BY <2>2, PickFacts
    <3>2. f[s \ {Pick(s)}] \in T /\ G[Pick(s)] \in [T -> T]
      BY <3>1
    <3> QED BY <3>1, <3>2
  <2>3. Cardinality({}) = 0
    BY FS_EmptySet
  <2>4. g \in [SUBSET S -> T] /\ g[{}] = base
    <3>1. ASSUME NEW s \in SUBSET S PROVE g[s] \in T
      <4>1. CASE s = {}
        BY <2>1, <2>3, <4>1
      <4>2. CASE s # {}
        BY <2>1, <2>2, <4>2
      <4> QED BY <4>1, <4>2
    <3>2. g[{}] = f[{}]
      BY <2>3
    <3> QED BY <2>1, <3>1, <3>2
  <2>5. ASSUME NEW s \in SUBSET S, s # {}, Cardinality(s) <= n + 1
        PROVE  g[s] = G[Pick(s)][g[s \ {Pick(s)}]]
    <3> DEFINE r == s \ {Pick(s)}
    <3>1. r \in SUBSET S /\ Cardinality(r) = Cardinality(s) - 1 /\ Cardinality(s) \in Nat
      BY <2>2, <2>5
    <3> HIDE DEF r
    <3>2. g[r] = f[r]
      BY <2>5, <3>1
    <3>3. g[s] = G[Pick(s)][f[r]]
      <4>1. CASE Cardinality(s) = n + 1
        BY <4>1 DEF r
      <4>2. CASE Cardinality(s) # n + 1
        <5>1. Cardinality(s) <= n
          BY <2>5, <3>1, <4>2
        <5> QED BY <2>1, <2>5, <4>2, <5>1 DEF r
      <4> QED BY <4>1, <4>2
    <3> HIDE DEF g
    <3> QED BY <3>2, <3>3 DEF r
  <2> HIDE DEF g
  <2>6. Folds(g, n + 1)
    BY <2>4, <2>5
  <2> HIDE DEF Folds
  <2> QED BY <2>4, <2>6
<1>3. Nat \subseteq N
  <2> HIDE DEF N
  <2> QED BY <1>1, <1>2, SetInduction
<1>4. Cardinality(S) \in N /\ Cardinality(S) \in Nat
  BY <1>3, FS_CardinalityType
<1>5. PICK f \in [SUBSET S -> T] : Folds(f, Cardinality(S))
  BY <1>4
<1>6. \A s \in SUBSET S : Cardinality(s) <= Cardinality(S)
  BY FS_Subset
<1> QED BY <1>5, <1>6 DEF IsFold

-----------------------------------------------------------------------------
(* The evaluator's arithmetic.                                             *)

LEMMA Regroup ==
  ASSUME NEW a \in Nat, NEW c \in Nat, NEW q \in Nat
  PROVE  a * (c * q) = c * (a * q)
OBVIOUS

LEMMA PositiveProduct ==
  ASSUME NEW a \in Nat \ {0}, NEW q \in Nat \ {0}
  PROVE  a * q \in Nat \ {0}
OBVIOUS

\* The common denominator is positive and a multiple of each of the others.
LEMMA ScaleFacts ==
  ASSUME NEW b \in [Workloads -> Nat]
  PROVE  /\ Scale(b) \in Nat \ {0}
         /\ \A w \in Counted(b) : \E q \in Nat \ {0} : Scale(b) = (2 * b[w]) * q
<1> DEFINE S == Counted(b)
           G == [w \in S |-> [p \in Nat |-> (2 * b[w]) * p]]
           it == CHOOSE it : it = [s \in SUBSET S |->
                   IF s = {} THEN 1
                   ELSE LET x == CHOOSE x \in s : TRUE IN 2 * b[x] * it[s \ {x}]]
<1>1. IsFiniteSet(S) /\ \A w \in S : w \in Workloads /\ b[w] \in Nat \ {0}
  BY EvaluatorAssumption, FS_Subset DEF Counted
<1>2. Scale(b) = it[S]
  BY DEF Scale, ReduceSet, FoldSet, MapThenFoldSet
<1>3. G \in [S -> [Nat -> Nat]]
  BY <1>1
<1>4. \A w \in S, p \in Nat : G[w][p] = 2 * b[w] * p
  OBVIOUS
<1>5. PICK f \in [SUBSET S -> Nat] : IsFold(f, S, 1, G)
  <2> HIDE DEF S, G, it
  <2>1. 1 \in Nat
    OBVIOUS
  <2> QED BY <1>1, <1>3, <2>1, FoldExists
<1>6. f = [s \in SUBSET S |->
             IF s = {} THEN 1 ELSE LET x == CHOOSE x \in s : TRUE IN 2 * b[x] * f[s \ {x}]]
  <2>1. ASSUME NEW s \in SUBSET S, s # {} PROVE f[s] = 2 * b[Pick(s)] * f[s \ {Pick(s)}]
    <3>1. Pick(s) \in S /\ f[s \ {Pick(s)}] \in Nat
      BY <1>5, <2>1 DEF Pick
    <3> HIDE DEF G, S
    <3> QED BY <1>4, <1>5, <2>1, <3>1 DEF IsFold
  <2> HIDE DEF S, G
  <2> QED BY <1>5, <2>1 DEF Pick, IsFold
<1>7. it = [s \in SUBSET S |->
              IF s = {} THEN 1 ELSE LET x == CHOOSE x \in s : TRUE IN 2 * b[x] * it[s \ {x}]]
  <2> HIDE DEF S, G
  <2> QED BY <1>6
<1> HIDE DEF it
<1>8. it[{}] = 1 /\ \A s \in SUBSET S : s # {} => it[s] = 2 * b[Pick(s)] * it[s \ {Pick(s)}]
  <2> HIDE DEF S
  <2> QED BY <1>7 DEF Pick
<1> HIDE DEF S, G
<1> DEFINE P == {s \in SUBSET S : /\ it[s] \in Nat \ {0}
                                  /\ \A w \in s : \E q \in Nat \ {0} : it[s] = (2 * b[w]) * q}
<1>9. {} \in P
  BY <1>8
<1>10. ASSUME NEW s \in SUBSET S, s # {}, s \ {Pick(s)} \in P PROVE s \in P
  <2> DEFINE r == s \ {Pick(s)}
  <2>1. /\ it[r] \in Nat \ {0} /\ \A w \in r : \E q \in Nat \ {0} : it[r] = (2 * b[w]) * q
    BY <1>10
  <2>2. it[s] = 2 * b[Pick(s)] * it[r]
    BY <1>8, <1>10
  <2>3. Pick(s) \in s /\ \A w \in s : w = Pick(s) \/ w \in r
    BY <1>10 DEF Pick
  <2> DEFINE a == 2 * b[Pick(s)]
  <2>4. a \in Nat \ {0}
    BY <1>1, <2>3
  <2> HIDE DEF r, a
  <2>5. it[s] = a * it[r]
    BY <2>2 DEF a
  <2>6. it[s] \in Nat \ {0}
    BY <2>1, <2>4, <2>5, PositiveProduct
  <2>7. ASSUME NEW w \in s PROVE \E q \in Nat \ {0} : it[s] = (2 * b[w]) * q
    <3>1. CASE w = Pick(s)
      BY <2>1, <2>5, <3>1 DEF a
    <3>2. CASE w \in r
      <4>1. PICK q \in Nat \ {0} : it[r] = (2 * b[w]) * q
        BY <2>1, <3>2
      <4>2. 2 * b[w] \in Nat
        BY <1>1
      <4>3. it[s] = (2 * b[w]) * (a * q)
        BY <2>4, <2>5, <4>1, <4>2, Regroup
      <4>4. a * q \in Nat \ {0}
        BY <2>4, <4>1, PositiveProduct
      <4> QED BY <4>3, <4>4
    <3> QED BY <2>3, <3>1, <3>2
  <2> QED BY <2>6, <2>7
<1>11. S \in P
  <2> HIDE DEF P
  <2>1. SUBSET S \subseteq P
    BY <1>1, <1>9, <1>10, SubsetInduction
  <2> QED BY <2>1
<1> QED BY <1>2, <1>11 DEF S

LEMMA Distribute ==
  ASSUME NEW c \in Int, NEW n \in Nat
  PROVE  c * (n + 1) = c * n + c /\ c * n \in Int
OBVIOUS

\* What a workload adds to the total.
Share(b, m, w) == 1000 * Change(b, w, m[w])

\* A sum of integers none of which exceeds c.
LEMMA TotalBound ==
  ASSUME NEW b \in [Workloads -> Nat], NEW m \in [Workloads -> Seq(Nat)], NEW c \in Int,
         \A w \in Workloads : Share(b, m, w) \in Int /\ Share(b, m, w) <= c
  PROVE  TotalChange(b, m) \in Int /\ TotalChange(b, m) <= c * Cardinality(Workloads)
<1> DEFINE G == [w \in Workloads |-> [n \in Int |-> Share(b, m, w) + n]]
           it == CHOOSE it : it = [s \in SUBSET Workloads |->
                   IF s = {} THEN 0
                   ELSE LET x == CHOOSE x \in s : TRUE IN Share(b, m, x) + it[s \ {x}]]
<1>1. IsFiniteSet(Workloads)
  BY EvaluatorAssumption
<1>2. TotalChange(b, m) = it[Workloads]
  BY DEF Share, TotalChange, MapThenSumSet, MapThenFoldSet
<1>4. G \in [Workloads -> [Int -> Int]] /\ \A w \in Workloads, n \in Int : G[w][n] = Share(b, m, w) + n
  OBVIOUS
<1>5. PICK f \in [SUBSET Workloads -> Int] : IsFold(f, Workloads, 0, G)
  <2> HIDE DEF G, it
  <2>1. 0 \in Int
    OBVIOUS
  <2> QED BY <1>1, <1>4, <2>1, FoldExists
<1>6. f = [s \in SUBSET Workloads |->
             IF s = {} THEN 0 ELSE LET x == CHOOSE x \in s : TRUE IN Share(b, m, x) + f[s \ {x}]]
  <2>1. ASSUME NEW s \in SUBSET Workloads, s # {} PROVE f[s] = Share(b, m, Pick(s)) + f[s \ {Pick(s)}]
    <3>1. Pick(s) \in Workloads /\ f[s \ {Pick(s)}] \in Int
      BY <1>5, <2>1 DEF Pick
    <3> HIDE DEF G
    <3> QED BY <1>4, <1>5, <2>1, <3>1 DEF IsFold
  <2> HIDE DEF G
  <2> QED BY <1>5, <2>1 DEF Pick, IsFold
<1>7. it = [s \in SUBSET Workloads |->
              IF s = {} THEN 0 ELSE LET x == CHOOSE x \in s : TRUE IN Share(b, m, x) + it[s \ {x}]]
  <2> HIDE DEF G
  <2> QED BY <1>6
<1> HIDE DEF it
<1>8. it[{}] = 0 /\ \A s \in SUBSET Workloads : s # {} => it[s] = Share(b, m, Pick(s)) + it[s \ {Pick(s)}]
  BY <1>7 DEF Pick
<1> HIDE DEF G
<1> DEFINE P == {s \in SUBSET Workloads : it[s] \in Int /\ it[s] <= c * Cardinality(s)}
<1>9. {} \in P
  BY <1>8, FS_EmptySet
<1>10. ASSUME NEW s \in SUBSET Workloads, s # {}, s \ {Pick(s)} \in P PROVE s \in P
  <2> DEFINE r == s \ {Pick(s)}
  <2>1. it[r] \in Int /\ it[r] <= c * Cardinality(r)
    BY <1>10
  <2>2. it[s] = Share(b, m, Pick(s)) + it[r]
    BY <1>8, <1>10
  <2>3. /\ Pick(s) \in s /\ Cardinality(s) \in Nat /\ Cardinality(r) \in Nat
        /\ Cardinality(s) = Cardinality(r) + 1
    <3> HIDE DEF P
    <3>1. s # {}
      BY <1>10
    <3>2. Cardinality(s) \in Nat \ {0}
      BY <1>1, <3>1, PickFacts
    <3>3. /\ Pick(s) \in s /\ Cardinality(s \ {Pick(s)}) \in Nat
          /\ Cardinality(s) = Cardinality(s \ {Pick(s)}) + 1
      BY <1>1, <3>1, PickFacts
    <3> QED BY <3>2, <3>3
  <2> HIDE DEF r
  <2>4. Share(b, m, Pick(s)) \in Int /\ Share(b, m, Pick(s)) <= c
    BY <2>3
  <2>5. c * (Cardinality(r) + 1) = c * Cardinality(r) + c /\ c * Cardinality(r) \in Int
    <3> HIDE DEF P
    <3> QED BY <2>3, Distribute
  <2>6. it[s] \in Int /\ it[s] <= c * Cardinality(s)
    <3> HIDE DEF P
    <3>1. c * Cardinality(s) = c * Cardinality(r) + c
      BY <2>3, <2>5
    <3> QED BY <2>1, <2>2, <2>4, <2>5, <3>1
  <2> QED BY <2>6
<1>11. Workloads \in P
  <2> HIDE DEF P
  <2>1. SUBSET Workloads \subseteq P
    BY <1>1, <1>9, <1>10, SubsetInduction
  <2> QED BY <2>1
<1> QED BY <1>2, <1>11

\* If all add up to more than that many times c, one is above c.
LEMMA SomeAbove ==
  ASSUME NEW b \in [Workloads -> Nat], NEW m \in [Workloads -> Seq(Nat)], NEW c \in Int,
         \A w \in Workloads : Share(b, m, w) \in Int,
         TotalChange(b, m) > c * Cardinality(Workloads)
  PROVE  \E w \in Workloads : Share(b, m, w) > c
<1>1. SUFFICES ASSUME \A w \in Workloads : ~(Share(b, m, w) > c) PROVE FALSE
  OBVIOUS
<1>2. \A w \in Workloads : Share(b, m, w) <= c
  BY <1>1
<1>3. TotalChange(b, m) \in Int /\ TotalChange(b, m) <= c * Cardinality(Workloads)
  BY <1>2, TotalBound
<1>4. Cardinality(Workloads) \in Nat
  BY EvaluatorAssumption, FS_CardinalityType
<1>5. c * Cardinality(Workloads) \in Int
  BY <1>4, Distribute
<1> QED BY <1>3, <1>5

LEMMA Cancel ==
  ASSUME NEW x \in Int, NEW y \in Int, NEW q \in Nat \ {0}, x * q > y * q
  PROVE  x > y
<1>1. SUFFICES ASSUME x <= y PROVE x * q <= y * q
  OBVIOUS
<1> QED BY <1>1

LEMMA Quotient ==
  ASSUME NEW a \in Nat \ {0}, NEW q \in Nat
  PROVE  (a * q) \div a = q
OBVIOUS

\* What the evaluator accepts has a workload with a baseline whose median beats
\* it by more than the threshold.
LEMMA AcceptBeats ==
  ASSUME NEW b \in [Workloads -> Nat], NEW m \in [Workloads -> Seq(Nat)],
         \A w \in Workloads : Len(m[w]) > 0,
         NEW absent, NEW swept, Decide(b, m, absent, swept) = "accept"
  PROVE  \E w \in Workloads :
           b[w] > 0 /\ 100 * TwiceMedian(m[w]) > (100 + Variance) * (2 * b[w])
<1> DEFINE c == (10 * Variance) * Scale(b)
<1>1. Variance \in Nat /\ IsFiniteSet(Workloads) /\ Cardinality(Workloads) \in Nat
  BY EvaluatorAssumption, FS_CardinalityType
<1>2. Scale(b) \in Nat \ {0}
  BY ScaleFacts
<1>3. TotalChange(b, m) > Threshold(b, 10 * Variance)
  BY DEF Decide
<1>4. c \in Nat /\ Threshold(b, 10 * Variance) = c * Cardinality(Workloads)
  <2>1. \A x, y, z \in Nat : x * y \in Nat /\ x * y * z = (x * z) * y
    OBVIOUS
  <2>2. 10 * Variance \in Nat
    BY <1>1
  <2> QED BY <1>1, <1>2, <2>1, <2>2 DEF Threshold
<1> HIDE DEF c
<1>5. ASSUME NEW w \in Workloads, b[w] > 0
      PROVE  \E q \in Nat \ {0} : /\ Scale(b) = (2 * b[w]) * q
                                  /\ Change(b, w, m[w]) = (TwiceMedian(m[w]) - 2 * b[w]) * q
  <2>1. PICK q \in Nat \ {0} : Scale(b) = (2 * b[w]) * q
    BY <1>5, ScaleFacts DEF Counted
  <2>2. 2 * b[w] \in Nat \ {0} /\ b[w] # 0
    BY <1>5
  <2>3. Scale(b) \div (2 * b[w]) = q
    BY <2>1, <2>2, Quotient
  <2> QED BY <2>1, <2>2, <2>3 DEF Change
<1>6. \A w \in Workloads : TwiceMedian(m[w]) \in Nat
  BY MedianReached
<1>7. ASSUME NEW w \in Workloads PROVE 1000 * Change(b, w, m[w]) \in Int
  <2>1. CASE b[w] = 0
    BY <2>1 DEF Change
  <2>2. CASE b[w] # 0
    <3>1. PICK q \in Nat \ {0} : Change(b, w, m[w]) = (TwiceMedian(m[w]) - 2 * b[w]) * q
      <4>1. b[w] > 0
        BY <2>2
      <4> QED BY <1>5, <4>1
    <3>2. TwiceMedian(m[w]) - 2 * b[w] \in Int
      BY <1>6
    <3> QED BY <3>1, <3>2
  <2> QED BY <2>1, <2>2
<1>8. PICK w \in Workloads : 1000 * Change(b, w, m[w]) > c
  <2>1. \A w \in Workloads : Share(b, m, w) \in Int
    BY <1>7 DEF Share
  <2>2. \E w \in Workloads : Share(b, m, w) > c
    <3>1. c \in Int /\ TotalChange(b, m) > c * Cardinality(Workloads)
      BY <1>3, <1>4
    <3> QED BY <2>1, <3>1, SomeAbove, Zenon
  <2> QED BY <2>2 DEF Share
<1>9. b[w] > 0
  <2>1. SUFFICES ASSUME b[w] = 0 PROVE FALSE
    OBVIOUS
  <2>2. Change(b, w, m[w]) = 0
    BY <2>1 DEF Change
  <2> QED BY <1>4, <1>8, <2>2
<1>10. PICK q \in Nat \ {0} : /\ Scale(b) = (2 * b[w]) * q
                               /\ Change(b, w, m[w]) = (TwiceMedian(m[w]) - 2 * b[w]) * q
  BY <1>5, <1>9
<1> DEFINE t == TwiceMedian(m[w])
           a == 2 * b[w]
<1>11. t \in Nat /\ a \in Nat
  BY <1>6
<1>12. (1000 * (t - a)) * q > ((10 * Variance) * a) * q
  <2>1. 1000 * ((t - a) * q) > (10 * Variance) * (a * q)
    BY <1>8, <1>10 DEF c
  <2> HIDE DEF t, a
  <2>2. 1000 * ((t - a) * q) = (1000 * (t - a)) * q
    BY <1>11
  <2>3. (10 * Variance) * (a * q) = ((10 * Variance) * a) * q
    BY <1>1, <1>11
  <2> QED BY <2>1, <2>2, <2>3
<1> HIDE DEF t, a
<1>13. 1000 * (t - a) > (10 * Variance) * a
  <2>1. 1000 * (t - a) \in Int /\ (10 * Variance) * a \in Int
    BY <1>1, <1>11
  <2> QED BY <1>12, <2>1, Cancel
<1>14. 100 * t > (100 + Variance) * a
  BY <1>1, <1>11, <1>13
<1> QED BY <1>9, <1>14 DEF t, a
=============================================================================
