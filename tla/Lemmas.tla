-------------------------------- MODULE Lemmas --------------------------------
(***************************************************************************)
(* What the operators of LastNShares, Tally and Subsequences return, for   *)
(* every sequence, remainders, and induction up to a number.  The lemmas   *)
(* are cited by the proofs of the other modules.                           *)
(***************************************************************************)
EXTENDS LastNShares, Tally, Subsequences, SequenceTheorems, FiniteSetTheorems,
        WellFoundedInduction, TLAPS

-----------------------------------------------------------------------------
(* Lemmas about sequences and LastN.                                       *)

\* A function on 1..m is a sequence of length m.
LEMMA SeqOfFunction ==
  ASSUME NEW S, NEW m \in Nat, NEW f \in [1..m -> S]
  PROVE  f \in Seq(S) /\ Len(f) = m
<1>1. f \in Seq(S)
  BY SeqDef
<1>2. Len(f) \in Nat /\ 1..Len(f) = 1..m
  BY <1>1, LenProperties
<1>3. ~(Len(f) < m) /\ ~(m < Len(f))
  <2>1. ASSUME Len(f) < m PROVE FALSE
    <3>1. m \in 1..m /\ m \notin 1..Len(f)
      BY <2>1, <1>2
    <3> QED BY <3>1, <1>2
  <2>2. ASSUME m < Len(f) PROVE FALSE
    <3>1. Len(f) \in 1..Len(f) /\ Len(f) \notin 1..m
      BY <2>2, <1>2
    <3> QED BY <3>1, <1>2
  <2> QED BY <2>1, <2>2
<1> QED BY <1>1, <1>2, <1>3

\* Different elements need as many numbers.
LEMMA Numbers ==
  ASSUME NEW n \in Nat, NEW m \in Nat, NEW f \in Injection(1..n, 1..m)
  PROVE  n <= m
<1> DEFINE S == 1..n
           T == 1..m
<1>1. Cardinality(S) = n /\ Cardinality(T) = m /\ IsFiniteSet(T)
  BY FS_Interval
<1>2. f \in Injection(S, T)
  OBVIOUS
<1> HIDE DEF S, T
<1>3. Cardinality(S) <= Cardinality(T)
  BY <1>1, <1>2, FS_Injection
<1> QED BY <1>1, <1>3

\* LastN(s, n) is a sequence over the same set, of length min(Len(s), n),
\* aligned with s at its right end.
LEMMA LastNProperties ==
  ASSUME NEW S, NEW s \in Seq(S), NEW n \in Nat
  PROVE  /\ LastN(s, n) \in Seq(S)
         /\ Len(LastN(s, n)) = IF Len(s) <= n THEN Len(s) ELSE n
         /\ \A i \in 1..Len(LastN(s, n)) :
              LastN(s, n)[i] = s[Len(s) - Len(LastN(s, n)) + i]
<1> DEFINE m == IF Len(s) <= n THEN Len(s) ELSE n
           f == [i \in 1..m |-> s[Len(s) - m + i]]
<1>1. Len(s) \in Nat /\ m \in Nat /\ m <= Len(s)
  BY LenProperties
<1>2. \A i \in 1..m : s[Len(s) - m + i] \in S
  <2>1. \A i \in 1..m : Len(s) - m + i \in 1..Len(s)
    BY <1>1
  <2> QED BY <2>1, <1>1, ElementOfSeq
<1>3. f \in [1..m -> S]
  BY <1>2
<1>4. f \in Seq(S) /\ Len(f) = m
  <2> HIDE DEF f, m
  <2> QED BY <1>1, <1>3, SeqOfFunction
<1> QED BY <1>1, <1>4 DEF LastN

\* A window as long as its sequence, or longer, changes nothing.
LEMMA LastNAll ==
  ASSUME NEW S, NEW s \in Seq(S), NEW n \in Nat, Len(s) <= n
  PROVE  LastN(s, n) = s
<1>1. /\ LastN(s, n) \in Seq(S)
      /\ Len(LastN(s, n)) = Len(s)
      /\ \A i \in 1..Len(s) : LastN(s, n)[i] = s[i]
  BY LastNProperties, LenProperties
<1> QED BY <1>1, SeqEqual

\* Cutting a prefix down to its last n elements before more is appended does
\* not change the last n elements of the whole.
LEMMA LastNConcat ==
  ASSUME NEW S, NEW s \in Seq(S), NEW t \in Seq(S), NEW n \in Nat
  PROVE  LastN(LastN(s, n) \o t, n) = LastN(s \o t, n)
<1> DEFINE u == LastN(s, n)
           v == u \o t
           w == s \o t
           a == LastN(v, n)
           b == LastN(w, n)
<1>1. /\ u \in Seq(S)
      /\ Len(u) = IF Len(s) <= n THEN Len(s) ELSE n
      /\ \A i \in 1..Len(u) : u[i] = s[Len(s) - Len(u) + i]
  BY LastNProperties
<1>2. Len(s) \in Nat /\ Len(t) \in Nat /\ Len(u) \in Nat
  BY <1>1, LenProperties
<1> HIDE DEF u
<1>3. /\ v \in Seq(S)
      /\ Len(v) = Len(u) + Len(t)
      /\ \A i \in 1..(Len(u) + Len(t)) :
           v[i] = IF i <= Len(u) THEN u[i] ELSE t[i - Len(u)]
  BY <1>1, ConcatProperties
<1>4. /\ w \in Seq(S)
      /\ Len(w) = Len(s) + Len(t)
      /\ \A i \in 1..(Len(s) + Len(t)) :
           w[i] = IF i <= Len(s) THEN s[i] ELSE t[i - Len(s)]
  BY ConcatProperties
<1> HIDE DEF v, w
<1>5. /\ a \in Seq(S)
      /\ Len(a) = IF Len(v) <= n THEN Len(v) ELSE n
      /\ \A i \in 1..Len(a) : a[i] = v[Len(v) - Len(a) + i]
  <2>1. v \in Seq(S)
    BY <1>3
  <2> QED BY <2>1, LastNProperties
<1>6. /\ b \in Seq(S)
      /\ Len(b) = IF Len(w) <= n THEN Len(w) ELSE n
      /\ \A i \in 1..Len(b) : b[i] = w[Len(w) - Len(b) + i]
  <2>1. w \in Seq(S)
    BY <1>4
  <2> QED BY <2>1, LastNProperties
<1> HIDE DEF a, b
<1>7. Len(a) = Len(b) /\ Len(a) \in Nat /\ Len(a) <= Len(v)
  BY <1>1, <1>2, <1>3, <1>4, <1>5, <1>6
<1>8. ASSUME NEW i \in 1..Len(a)
      PROVE  a[i] = b[i]
  <2> DEFINE j == Len(v) - Len(a) + i
             k == Len(w) - Len(b) + i
  <2>1. /\ j \in 1..(Len(u) + Len(t))
        /\ k = j + (Len(s) - Len(u))
        /\ Len(s) - Len(u) >= 0
    <3>1. Len(u) <= Len(s)
      BY <1>1, <1>2
    <3>2. Len(v) = Len(u) + Len(t) /\ Len(w) = Len(s) + Len(t)
      BY <1>3, <1>4
    <3> QED BY <1>2, <1>7, <1>8, <3>1, <3>2
  <2>2. k \in 1..(Len(s) + Len(t))
    <3> HIDE DEF j, k
    <3> QED BY <1>2, <2>1
  <2>3. a[i] = v[j] /\ b[i] = w[k]
    BY <1>5, <1>6, <1>7
  <2> HIDE DEF j, k
  <2>4. CASE j <= Len(u)
    <3>1. j \in 1..Len(u) /\ k <= Len(s) /\ Len(s) - Len(u) + j = k
      BY <1>2, <2>1, <2>2, <2>4
    <3>2. v[j] = u[j] /\ w[k] = s[k]
      BY <3>1, <2>1, <2>2, <2>4, <1>3, <1>4
    <3>3. u[j] = s[Len(s) - Len(u) + j]
      BY <3>1, <1>1
    <3> QED BY <2>3, <3>1, <3>2, <3>3
  <2>5. CASE ~(j <= Len(u))
    <3>1. ~(k <= Len(s)) /\ j - Len(u) = k - Len(s)
      BY <1>2, <2>1, <2>2, <2>5
    <3>2. v[j] = t[j - Len(u)] /\ w[k] = t[k - Len(s)]
      BY <3>1, <2>1, <2>2, <2>5, <1>3, <1>4
    <3> QED BY <2>3, <3>1, <3>2
  <2> QED BY <2>4, <2>5
<1>9. a = b
  BY <1>5, <1>6, <1>7, <1>8, SeqEqual
<1> QED BY <1>9 DEF a, b, u, v, w
-----------------------------------------------------------------------------
(* Sums.  The recursive function PrefixSums is shown to exist, and sums to *)
(* be natural numbers, by way of the least index for which it would fail:  *)
(* induction with a set in place of a predicate.                           *)

\* Every non-empty set of natural numbers has a least element.
LEMMA LeastElement ==
  ASSUME NEW T \in SUBSET Nat, T # {}
  PROVE  \E x \in T : \A y \in T : x <= y
<1> DEFINE R == {ss \in Nat \X Nat : ss[1] < ss[2]}
<1>1. IsWellFoundedOn(R, Nat)
  BY NatLessThanWellFounded DEF OpToRel
<1>2. PICK x \in T : \A y \in T : ~(<<y, x>> \in R)
  BY <1>1, WFMin
<1>3. ASSUME NEW y \in T PROVE x <= y
  <2>1. x \in Nat /\ y \in Nat /\ <<y, x>> \notin R
    BY <1>2
  <2>2. ~(y < x)
    BY <2>1
  <2> QED BY <2>1, <2>2
<1> QED BY <1>3

\* What holds of 0, and of the next number if it holds of one, holds of all.
LEMMA Reached ==
  ASSUME NEW n \in Nat, NEW T, 0 \in T, \A k \in 0..(n - 1) : k \in T => k + 1 \in T
  PROVE  \A k \in 0..n : k \in T
<1> DEFINE Out == {k \in 0..n : k \notin T}
<1> SUFFICES ASSUME Out # {} PROVE FALSE
  OBVIOUS
<1>1. Out \in SUBSET Nat
  OBVIOUS
<1>2. PICK k \in Out : \A y \in Out : k <= y
  BY <1>1, LeastElement
<1>3. k \in 0..n /\ k # 0 /\ k \notin T
  BY <1>2
<1>4. k - 1 \in 0..(n - 1) /\ k - 1 \in 0..n /\ ~(k <= k - 1) /\ (k - 1) + 1 = k
  BY <1>3
<1>5. k - 1 \in T
  BY <1>2, <1>4
<1> QED BY <1>3, <1>4, <1>5

\* The running sums of every sequence exist and satisfy their recursion.
LEMMA PrefixSumsUnfold ==
  ASSUME NEW s, Len(s) \in Nat
  PROVE  PrefixSums(s) =
           [i \in 0..Len(s) |-> IF i = 0 THEN 0 ELSE PrefixSums(s)[i - 1] + s[i]]
<1> DEFINE Sums(k, g) ==
             g = [i \in 0..k |-> IF i = 0 THEN 0 ELSE g[i - 1] + s[i]]
           T == {k \in 0..Len(s) : ~ \E g : Sums(k, g)}
<1>1. T = {}
  <2> SUFFICES ASSUME T # {} PROVE FALSE
    OBVIOUS
  <2>1. PICK k \in T : \A y \in T : k <= y
    <3>1. T \in SUBSET Nat
      OBVIOUS
    <3> QED BY <3>1, LeastElement
  <2>2. k \in 0..Len(s) /\ ~ \E g : Sums(k, g)
    BY <2>1
  <2>3. CASE k = 0
    <3> DEFINE z == [i \in 0..0 |-> 0]
    <3>1. Sums(0, z)
      OBVIOUS
    <3> QED BY <2>2, <2>3, <3>1
  <2>4. CASE k # 0
    <3>0. k - 1 \in 0..Len(s) /\ ~ (k <= k - 1)
      BY <2>2, <2>4
    <3>1. k - 1 \in 0..Len(s) /\ k - 1 \notin T
      BY <2>1, <3>0
    <3>2. PICK g : Sums(k - 1, g)
      BY <3>1
    <3> DEFINE h == [i \in 0..k |-> IF i = k THEN g[k - 1] + s[k] ELSE g[i]]
    <3>3. ASSUME NEW i \in 0..k
          PROVE  h[i] = IF i = 0 THEN 0 ELSE h[i - 1] + s[i]
      <4>1. CASE i = 0
        <5>1. h[i] = g[0] /\ 0 \in 0..(k - 1)
          BY <2>2, <2>4, <4>1
        <5> QED BY <3>2, <4>1, <5>1
      <4>2. CASE i # 0 /\ i # k
        <5>1. i \in 0..(k - 1) /\ i - 1 \in 0..k /\ i - 1 # k
          BY <2>2, <4>2
        <5>2. h[i] = g[i] /\ h[i - 1] = g[i - 1]
          BY <4>2, <5>1
        <5>3. g[i] = g[i - 1] + s[i]
          BY <3>2, <4>2, <5>1
        <5> QED BY <4>2, <5>2, <5>3
      <4>3. CASE i = k
        <5>1. k - 1 \in 0..k /\ k - 1 # k
          BY <2>2, <2>4
        <5>2. h[k - 1] = g[k - 1] /\ h[i] = g[k - 1] + s[k]
          BY <4>3, <5>1
        <5> QED BY <2>4, <4>3, <5>2
      <4> QED BY <4>1, <4>2, <4>3
    <3>4. h = [i \in 0..k |-> IF i = 0 THEN 0 ELSE h[i - 1] + s[i]]
      <4> HIDE DEF h
      <4>1. h = [i \in 0..k |-> h[i]]
        BY DEF h
      <4> QED BY <3>3, <4>1
    <3> QED BY <2>2, <3>4
  <2> QED BY <2>3, <2>4
<1>2. \E g : Sums(Len(s), g)
  <2>1. Len(s) \in 0..Len(s)
    OBVIOUS
  <2> QED BY <1>1, <2>1
<1>3. PrefixSums(s) = CHOOSE g : Sums(Len(s), g)
  BY DEF PrefixSums
<1> HIDE DEF T
<1>4. Sums(Len(s), PrefixSums(s))
  BY <1>2, <1>3
<1> QED BY <1>4

\* A running sum starts at 0 and grows by the next element.
LEMMA PrefixSumsStep ==
  ASSUME NEW s \in Seq(Int)
  PROVE  /\ PrefixSums(s)[0] = 0
         /\ \A i \in 1..Len(s) : PrefixSums(s)[i] = PrefixSums(s)[i - 1] + s[i]
<1>1. Len(s) \in Nat
  BY LenProperties
<1> DEFINE p == PrefixSums(s)
<1>2. p = [i \in 0..Len(s) |-> IF i = 0 THEN 0 ELSE p[i - 1] + s[i]]
  BY <1>1, PrefixSumsUnfold
<1> HIDE DEF p
<1>3. p[0] = 0
  BY <1>1, <1>2
<1>4. ASSUME NEW i \in 1..Len(s) PROVE p[i] = p[i - 1] + s[i]
  <2>1. i \in 0..Len(s) /\ i # 0
    BY <1>1
  <2> QED BY <1>2, <2>1
<1> QED BY <1>3, <1>4 DEF p

\* The running sums of integers are integers.
LEMMA PrefixSumsType ==
  ASSUME NEW s \in Seq(Int)
  PROVE  \A i \in 0..Len(s) : PrefixSums(s)[i] \in Int
<1> DEFINE p == PrefixSums(s)
           T == {i \in 0..Len(s) : p[i] \notin Int}
<1>1. Len(s) \in Nat
  BY LenProperties
<1>2. p[0] = 0 /\ \A i \in 1..Len(s) : p[i] = p[i - 1] + s[i]
  BY PrefixSumsStep
<1> HIDE DEF p
<1>3. T = {}
  <2> SUFFICES ASSUME T # {} PROVE FALSE
    OBVIOUS
  <2>1. PICK k \in T : \A y \in T : k <= y
    <3>1. T \in SUBSET Nat
      BY <1>1
    <3> QED BY <3>1, LeastElement
  <2>2. k \in 0..Len(s) /\ p[k] \notin Int /\ k # 0
    BY <1>2, <2>1
  <2>3. k - 1 \in 0..Len(s) /\ k - 1 \notin T /\ k \in 1..Len(s)
    BY <1>1, <2>1, <2>2
  <2>4. p[k - 1] \in Int /\ s[k] \in Int
    BY <2>3, ElementOfSeq
  <2> QED BY <1>2, <2>2, <2>3, <2>4
<1> QED BY <1>3 DEF p

\* The sum of natural numbers is one.
LEMMA TotalNat ==
  ASSUME NEW s \in Seq(Nat)
  PROVE  /\ Total(s) \in Nat
         /\ \A i \in 0..Len(s) : PrefixSums(s)[i] \in Nat
<1> DEFINE p == PrefixSums(s)
           T == {i \in 0..Len(s) : p[i] \notin Nat}
<1>1. s \in Seq(Int) /\ Len(s) \in Nat
  BY LenProperties, SeqMonotonic
<1>2. p[0] = 0 /\ \A i \in 1..Len(s) : p[i] = p[i - 1] + s[i]
  BY <1>1, PrefixSumsStep
<1> HIDE DEF p
<1>3. T = {}
  <2> SUFFICES ASSUME T # {} PROVE FALSE
    OBVIOUS
  <2>1. PICK k \in T : \A y \in T : k <= y
    <3>1. T \in SUBSET Nat
      BY <1>1
    <3> QED BY <3>1, LeastElement
  <2>2. k \in 0..Len(s) /\ p[k] \notin Nat /\ k # 0
    BY <1>2, <2>1
  <2>3. k - 1 \in 0..Len(s) /\ k - 1 \notin T /\ k \in 1..Len(s)
    BY <1>1, <2>1, <2>2
  <2>4. p[k - 1] \in Nat /\ s[k] \in Nat
    BY <2>3, ElementOfSeq
  <2> QED BY <1>2, <2>2, <2>3, <2>4
<1>4. \A i \in 0..Len(s) : p[i] \in Nat
  BY <1>3
<1>5. Len(s) \in 0..Len(s)
  BY <1>1
<1> QED BY <1>4, <1>5 DEF Total, p

\* The sum of positive numbers, of which there is at least one, is positive.
LEMMA TotalPositive ==
  ASSUME NEW s \in Seq(Nat \ {0}), s # << >>
  PROVE  Total(s) \in Nat \ {0}
<1>1. s \in Seq(Nat) /\ s \in Seq(Int)
  BY SeqMonotonic
<1>2. Len(s) \in Nat \ {0}
  BY EmptySeq
<1>3. s[Len(s)] \in Nat \ {0}
  BY <1>2, ElementOfSeq
<1>4. Len(s) - 1 \in 0..Len(s) /\ Len(s) \in 1..Len(s)
  BY <1>2
<1>5. PrefixSums(s)[Len(s)] = PrefixSums(s)[Len(s) - 1] + s[Len(s)]
  BY <1>1, <1>4, PrefixSumsStep
<1>6. PrefixSums(s)[Len(s) - 1] \in Nat
  BY <1>1, <1>4, TotalNat
<1> QED BY <1>3, <1>5, <1>6 DEF Total

\* Rounding to the nearest unit is off by at most half of one.
LEMMA RoundDivProperties ==
  ASSUME NEW a \in Nat, NEW b \in Nat \ {0}
  PROVE  /\ RoundDiv(a, b) \in Nat
         /\ 2 * (b * RoundDiv(a, b)) <= 2 * a + b
         /\ 2 * a - b <= 2 * (b * RoundDiv(a, b))
<1> DEFINE x == 2 * a + b
           y == 2 * b
           q == x \div y
<1>1. x \in Nat /\ y \in Nat \ {0}
  OBVIOUS
<1> HIDE DEF x, y
<1>2. q \in Int /\ y * q <= x /\ x < y * q + y
  BY <1>1
<1>3. q \in Nat
  BY <1>1
<1> HIDE DEF q
<1>4. y * q = 2 * (b * q) /\ b * q \in Int
  BY <1>2 DEF y
<1>5. RoundDiv(a, b) = q
  BY DEF RoundDiv, q, x, y
<1>6. 2 * (b * q) <= 2 * a + b /\ 2 * a + b < 2 * (b * q) + 2 * b
  BY <1>2, <1>4 DEF x, y
<1> QED BY <1>3, <1>4, <1>5, <1>6
-----------------------------------------------------------------------------
(* Lemmas about ElementsAt.                                                *)

\* Places have different ranks, in their order, and each rank is taken.
LEMMA Ranks ==
  ASSUME NEW n \in Nat, NEW P \in SUBSET (1..n)
  PROVE  /\ IsFiniteSet(P) /\ Cardinality(P) \in Nat /\ Cardinality(P) <= n
         /\ \A i \in P : Rank(P, i) \in 1..Cardinality(P)
         /\ \A i, j \in P : i < j => Rank(P, i) < Rank(P, j)
         /\ \A k \in 1..Cardinality(P) : \E i \in P : Rank(P, i) = k
<1>0. \A i \in P : i \in Int
  OBVIOUS
<1>1. IsFiniteSet(1..n) /\ Cardinality(1..n) = n
  BY FS_Interval
<1>2. IsFiniteSet(P) /\ Cardinality(P) \in Nat /\ Cardinality(P) <= n
  BY <1>1, FS_Subset, FS_CardinalityType
<1>3. \A i \in P : IsFiniteSet({j \in P : j <= i})
  BY <1>2, FS_Subset
<1>4. \A i \in P : Rank(P, i) \in Nat /\ Rank(P, i) <= Cardinality(P)
  BY <1>2, FS_Subset, FS_CardinalityType DEF Rank
<1>5. \A i \in P : Rank(P, i) \in 1..Cardinality(P)
  <2> TAKE i \in P
  <2>1. i \in {j \in P : j <= i}
    BY <1>0
  <2>2. Rank(P, i) # 0
    BY <1>3, <2>1, FS_EmptySet DEF Rank
  <2>3. Rank(P, i) \in Nat /\ Rank(P, i) <= Cardinality(P)
    BY <1>4
  <2> QED BY <1>2, <2>2, <2>3
<1>6. ASSUME NEW i \in P, NEW j \in P, i < j PROVE Rank(P, i) < Rank(P, j)
  <2> DEFINE A == {l \in P : l <= i}
             B == {l \in P : l <= j}
  <2>0. (\A l \in P : l <= i => l <= j) /\ j <= j /\ ~(j <= i)
    BY <1>0, <1>6
  <2>1. A \in SUBSET B /\ j \in B /\ j \notin A
    BY <2>0
  <2>2. Cardinality(A) <= Cardinality(B) /\ Cardinality(A) # Cardinality(B)
    BY <1>3, <2>1, FS_Subset
  <2>3. Cardinality(A) \in Nat /\ Cardinality(B) \in Nat
    BY <1>4 DEF Rank
  <2> QED BY <2>2, <2>3 DEF Rank
<1>7. \A k \in 1..Cardinality(P) : \E i \in P : Rank(P, i) = k
  <2> DEFINE T == 1..Cardinality(P)
             f == [i \in P |-> Rank(P, i)]
  <2>1. f \in [P -> T]
    BY <1>5
  <2>2. \A i, j \in P : f[i] = f[j] => i = j
    <3> SUFFICES ASSUME NEW i \in P, NEW j \in P, Rank(P, i) = Rank(P, j) PROVE i = j
      OBVIOUS
    <3>1. i \in Int /\ j \in Int /\ Rank(P, i) \in Nat /\ Rank(P, j) \in Nat
      BY <1>0, <1>4
    <3> QED BY <1>6, <3>1
  <2>3. f \in Injection(P, T)
    BY <2>1, <2>2 DEF Injection, IsInjective
  <2>4. IsFiniteSet(T) /\ Cardinality(T) = Cardinality(P)
    BY <1>2, FS_Interval
  <2>5. f \in Surjection(P, T)
    <3> HIDE DEF f, T
    <3> QED BY <2>3, <2>4, <1>2, FS_Injection
  <2> QED BY <2>5 DEF Surjection
<1> QED BY <1>2, <1>5, <1>6, <1>7

\* ElementsAt returns the elements at those places and no others, in their order.
LEMMA ElementsAtProperties ==
  ASSUME NEW S, NEW s \in Seq(S), NEW P \in SUBSET DOMAIN s
  PROVE  /\ ElementsAt(s, P) \in Seq(S)
         /\ Len(ElementsAt(s, P)) = Cardinality(P)
         /\ Cardinality(P) \in Nat /\ Cardinality(P) <= Len(s)
         /\ \E f \in [1..Cardinality(P) -> P] :
              /\ \A k \in 1..Cardinality(P) : ElementsAt(s, P)[k] = s[f[k]]
              /\ \A k, l \in 1..Cardinality(P) : k < l => f[k] < f[l]
              /\ \A i \in P : \E k \in 1..Cardinality(P) : f[k] = i
<1> DEFINE n == Cardinality(P)
           f == [k \in 1..n |-> CHOOSE i \in P : Rank(P, i) = k]
<1>1. DOMAIN s = 1..Len(s) /\ Len(s) \in Nat /\ \A i \in 1..Len(s) : s[i] \in S
  BY LenProperties, ElementOfSeq
<1>2. P \in SUBSET (1..Len(s))
  BY <1>1
<1>3. /\ n \in Nat /\ n <= Len(s)
      /\ \A i \in P : Rank(P, i) \in 1..n
      /\ \A i, j \in P : i < j => Rank(P, i) < Rank(P, j)
      /\ \A k \in 1..n : \E i \in P : Rank(P, i) = k
  BY <1>1, <1>2, Ranks
<1>4. \A k \in 1..n : f[k] \in P /\ Rank(P, f[k]) = k
  BY <1>3
<1>5. f \in [1..n -> P]
  BY <1>4
<1>6. ElementsAt(s, P) = [k \in 1..n |-> s[f[k]]]
  BY DEF ElementsAt
<1>7. \A i, j \in P : Rank(P, i) = Rank(P, j) => i = j
  <2> SUFFICES ASSUME NEW i \in P, NEW j \in P, Rank(P, i) = Rank(P, j) PROVE i = j
    OBVIOUS
  <2>1. i \in Int /\ j \in Int /\ Rank(P, i) \in Int
    BY <1>2, <1>3
  <2> QED BY <1>3, <2>1
<1> HIDE DEF f
<1>8. ElementsAt(s, P) \in [1..n -> S]
  BY <1>1, <1>2, <1>4, <1>6
<1>9. ElementsAt(s, P) \in Seq(S) /\ Len(ElementsAt(s, P)) = n
  BY <1>3, <1>8, SeqOfFunction
<1>10. ASSUME NEW k \in 1..n, NEW l \in 1..n, k < l PROVE f[k] < f[l]
  <2>1. f[k] \in 1..Len(s) /\ f[l] \in 1..Len(s) /\ f[k] # f[l]
    BY <1>2, <1>4, <1>10
  <2>2. ~(f[l] < f[k])
    BY <1>3, <1>4, <1>10
  <2> QED BY <1>1, <2>1, <2>2
<1>11. \A i \in P : \E k \in 1..n : f[k] = i
  BY <1>3, <1>4, <1>7
<1>12. \A k \in 1..n : ElementsAt(s, P)[k] = s[f[k]]
  BY <1>6
<1> QED BY <1>3, <1>5, <1>9, <1>10, <1>11, <1>12

\* e is what s holds at the places P: f says where each element comes from.
Picks(f, e, s, P) ==
  /\ \A k \in 1..Len(e) : f[k] \in P /\ e[k] = s[f[k]]
  /\ \A k, l \in 1..Len(e) : k < l => f[k] < f[l]
  /\ \A k, l \in 1..Len(e) : f[k] = f[l] => k = l
  /\ \A i \in P : \E k \in 1..Len(e) : f[k] = i

\* The same, counted by the length of what is returned.
LEMMA ElementsAtPlaces ==
  ASSUME NEW S, NEW s \in Seq(S), NEW P \in SUBSET DOMAIN s, NEW e, e = ElementsAt(s, P)
  PROVE  /\ e \in Seq(S) /\ Len(e) \in Nat /\ Len(e) <= Len(s)
         /\ \E f : Picks(f, e, s, P)
<1>1. PICK n : n = Cardinality(P)
  OBVIOUS
<1>2. /\ e \in Seq(S) /\ Len(e) = n /\ n \in Nat /\ n <= Len(s)
      /\ \E f \in [1..n -> P] : /\ \A k \in 1..n : e[k] = s[f[k]]
                                /\ \A k, l \in 1..n : k < l => f[k] < f[l]
                                /\ \A i \in P : \E k \in 1..n : f[k] = i
  BY <1>1, ElementsAtProperties
<1>3. PICK f \in [1..n -> P] : /\ \A k \in 1..n : e[k] = s[f[k]]
                               /\ \A k, l \in 1..n : k < l => f[k] < f[l]
                               /\ \A i \in P : \E k \in 1..n : f[k] = i
  BY <1>2
<1>4. \A k \in 1..n : f[k] \in P /\ f[k] \in Int
  <2>1. DOMAIN s = 1..Len(s)
    BY LenProperties
  <2> QED BY <2>1
<1>5. \A k, l \in 1..n : f[k] = f[l] => k = l
  <2> SUFFICES ASSUME NEW k \in 1..n, NEW l \in 1..n, f[k] = f[l], k # l PROVE FALSE
    OBVIOUS
  <2>1. k < l \/ l < k
    OBVIOUS
  <2>2. CASE k < l
    <3>1. f[k] < f[l]
      BY <1>3, <2>2
    <3> QED BY <1>4, <3>1
  <2>3. CASE l < k
    <3>1. f[l] < f[k]
      BY <1>3, <2>3
    <3> QED BY <1>4, <3>1
  <2> QED BY <2>1, <2>2, <2>3
<1>6. 1..Len(e) = 1..n
  BY <1>2
<1>7. Picks(f, e, s, P)
  BY <1>3, <1>4, <1>5, <1>6 DEF Picks
<1> QED BY <1>2, <1>7
-----------------------------------------------------------------------------
(* Lemmas about remainders.                                               *)

\* A number is a multiple of n and its remainder.
LEMMA Division ==
  ASSUME NEW n \in Nat \ {0}, NEW a \in Nat
  PROVE  a % n \in 0..(n - 1) /\ \E p \in Int : a = n * p + (a % n)
<1>1. a = n * (a \div n) + (a % n) /\ a % n \in 0..(n - 1) /\ a \div n \in Int
  OBVIOUS
<1> QED BY <1>1

\* A multiple of n is 0, or as far from it as n.
LEMMA Multiples ==
  ASSUME NEW n \in Nat \ {0}, NEW d \in Int
  PROVE  d = 0 \/ n * d >= n \/ n * d <= -n
<1>1. CASE d >= 1
  <2>1. n * (d - 1) >= 0 /\ n * (d - 1) = n * d - n
    BY <1>1
  <2> QED BY <2>1
<1>2. CASE d <= -1
  <2>1. n * (-1 - d) >= 0 /\ n * (-1 - d) = -n - n * d
    BY <1>2
  <2> QED BY <2>1
<1> QED BY <1>1, <1>2

\* Two numbers less than n apart have different remainders ...
LEMMA RemaindersApart ==
  ASSUME NEW n \in Nat \ {0}, NEW a \in Nat, NEW b \in Nat, a < b, b < a + n
  PROVE  a % n # b % n
<1> SUFFICES ASSUME a % n = b % n PROVE FALSE
  OBVIOUS
<1>1. PICK p \in Int : a = n * p + (a % n)
  BY Division
<1>2. PICK q \in Int : b = n * q + (b % n)
  BY Division
<1>3. PICK r \in Int : r = a % n /\ r = b % n
  BY Division
<1>4. n * (q - p) = b - a
  <2>1. n * (q - p) = n * q - n * p
    OBVIOUS
  <2> QED BY <1>1, <1>2, <1>3, <2>1
<1>5. q - p = 0 \/ n * (q - p) >= n \/ n * (q - p) <= -n
  BY Multiples
<1> QED BY <1>4, <1>5

\* ... and n more has the same.
LEMMA RemainderOfMore ==
  ASSUME NEW n \in Nat \ {0}, NEW a \in Nat
  PROVE  (a + n) % n = a % n
<1>0. a + n \in Nat
  OBVIOUS
<1>1. PICK p \in Int : a = n * p + (a % n)
  BY Division
<1>2. PICK q \in Int : a + n = n * q + ((a + n) % n)
  BY <1>0, Division
<1>3. PICK r \in 0..(n - 1), s \in 0..(n - 1) : r = a % n /\ s = (a + n) % n
  <2>1. a % n \in 0..(n - 1) /\ (a + n) % n \in 0..(n - 1)
    BY <1>0, Division
  <2> QED BY <2>1
<1>4. n * (q - p - 1) = r - s
  <2>1. n * (q - p - 1) = n * q - n * p - n
    OBVIOUS
  <2> QED BY <1>1, <1>2, <1>3, <2>1
<1>5. q - p - 1 = 0 \/ n * (q - p - 1) >= n \/ n * (q - p - 1) <= -n
  BY Multiples
<1>6. q - p - 1 = 0
  BY <1>4, <1>5
<1>7. n * (q - p - 1) = 0
  BY <1>6
<1> QED BY <1>3, <1>4, <1>7

=============================================================================
