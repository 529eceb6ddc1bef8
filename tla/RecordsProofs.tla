---------------------------- MODULE RecordsProofs -----------------------------
(***************************************************************************)
(* Proofs about the parts of the pool that keep records of the past.       *)
(*                                                                         *)
(* Ledger, for any caps, thresholds, numbers of blocks, saves, reorganisa- *)
(* tions and restarts, and whether or not the glob of the earnings tracker *)
(* finds the log of the server.  In three parts: what the lists of entries *)
(* count up to and what RecordBlock, UpdateConfirmations and a start make  *)
(* of them; the inductive invariant LedgerInv; that every step keeps it.   *)
(* The totals alone are not inductive.  A late verdict finds the block's   *)
(* entry by its hash, so the hashes must be distinct in every image of the *)
(* books and of the log; and an orphan that a start took over from the log *)
(* before it had a confirmation would be counted as a reward if it were    *)
(* reported mature after that, so it must be an orphan wherever the log is *)
(* kept (Settled).                                                         *)
(*                                                                         *)
(* Uptime, for any grace, windows, caps of the log, visits and restarts.   *)
(* An event more and a cut change nothing of what the log tells of the     *)
(* past, as far as it reaches back (EventAdded); the sums over it are by   *)
(* the least place at which they would differ.  What is counted too much   *)
(* is bounded only because who has left is about to be reported (Leaving). *)
(*                                                                         *)
(* Hashstore, for any ages, widths of buckets, numbers of compactions, of  *)
(* gaps and of crashes.  Cutting, merging a bucket, joining the zones and  *)
(* sorting all make each sample of the new history one of a group of old   *)
(* ones, and the groups do not overlap (Groups, GroupsStand).              *)
(***************************************************************************)
EXTENDS Ledger, Uptime, Hashstore, Lemmas

-----------------------------------------------------------------------------
(* Counting places: what the totals of a list are made of.                 *)

LEMMA FirstNumbers ==
  ASSUME NEW n \in Nat
  PROVE  IsFiniteSet(1..n) /\ Cardinality(1..n) = n
BY FS_Interval

\* Of a list whose n places p has moved, the places P have become Q, ...
Moves(p, Q, P, n) ==
  /\ n \in Nat /\ p \in Bijection(1..n, 1..n)
  /\ P \in SUBSET (1..n) /\ Q \in SUBSET (1..n)
  /\ \A i \in 1..n : i \in Q <=> p[i] \in P

\* ... and are as many.
LEMMA CountMoved ==
  ASSUME NEW p, NEW Q, NEW P, NEW n, Moves(p, Q, P, n)
  PROVE  Cardinality(Q) = Cardinality(P)
<1> USE DEF Moves
<1> DEFINE f == [i \in Q |-> p[i]]
<1>1. /\ p \in [1..n -> 1..n]
      /\ \A i, j \in 1..n : p[i] = p[j] => i = j
      /\ \A k \in 1..n : \E i \in 1..n : p[i] = k
    BY DEF Bijection, Injection, Surjection, IsInjective
<1>2. f \in Bijection(Q, P)
  <2>1. f \in [Q -> P]
      BY <1>1
  <2>2. \A i, j \in Q : f[i] = f[j] => i = j
      BY <1>1
  <2>3. \A k \in P : \E i \in Q : f[i] = k
      BY <1>1
  <2> QED BY <2>1, <2>2, <2>3 DEF Bijection, Injection, Surjection, IsInjective
<1>3. IsFiniteSet(Q)
  <2>1. IsFiniteSet(1..n)
      BY FS_Interval
  <2> QED BY <2>1, FS_Subset
<1>4. ExistsBijection(Q, P)
    BY <1>2 DEF ExistsBijection
<1> QED BY <1>3, <1>4, FS_Bijection

\* Of two lists, one after the other, of m and n places, the places P and Q.
Joins(U, P, m, Q, n) ==
  /\ m \in Nat /\ P \in SUBSET (1..m)
  /\ n \in Nat /\ Q \in SUBSET (1..n)
  /\ U \in SUBSET (1..(m + n))
  /\ \A i \in 1..m : i \in U <=> i \in P
  /\ \A j \in 1..n : m + j \in U <=> j \in Q

\* ... add up.
LEMMA CountJoined ==
  ASSUME NEW U, NEW P, NEW m, NEW Q, NEW n, Joins(U, P, m, Q, n)
  PROVE  Cardinality(U) = Cardinality(P) + Cardinality(Q)
<1> USE DEF Joins
<1> DEFINE R == {m + j : j \in Q}
           f == [j \in Q |-> m + j]
<1>1. IsFiniteSet(P) /\ IsFiniteSet(Q)
  <2>1. IsFiniteSet(1..m) /\ IsFiniteSet(1..n)
      BY FS_Interval
  <2> QED BY <2>1, FS_Subset
<1>2. f \in Bijection(Q, R)
  <2>1. f \in [Q -> R]
      OBVIOUS
  <2>2. \A i, j \in Q : f[i] = f[j] => i = j
      OBVIOUS
  <2>3. \A k \in R : \E i \in Q : f[i] = k
      OBVIOUS
  <2> QED BY <2>1, <2>2, <2>3 DEF Bijection, Injection, Surjection, IsInjective
<1>3. IsFiniteSet(R) /\ Cardinality(R) = Cardinality(Q)
    BY <1>1, <1>2, FS_Bijection DEF ExistsBijection
<1>4. P \cap R = {}
    OBVIOUS
<1>5. /\ Cardinality(P) \in Nat /\ Cardinality(Q) \in Nat
      /\ Cardinality(P \cap R) = 0
    BY <1>1, <1>4, FS_CardinalityType, FS_EmptySet
<1>6. Cardinality(P \cup R) = Cardinality(P) + Cardinality(R) - Cardinality(P \cap R)
    BY <1>1, <1>3, FS_Union
<1>7. U = P \cup R
  <2>1. \A i \in 1..(m + n) : i \in 1..m \/ (i - m \in 1..n /\ i = m + (i - m))
      OBVIOUS
  <2>2. U \subseteq P \cup R
      BY <2>1
  <2>3. P \cup R \subseteq U
      OBVIOUS
  <2> QED BY <2>2, <2>3
<1> QED BY <1>3, <1>5, <1>6, <1>7

-----------------------------------------------------------------------------
\* Every entry of t is one of s.
From(t, s) == \A i \in DOMAIN t : \E k \in DOMAIN s : t[i] = s[k]

Distinct(s) == \A i, j \in DOMAIN s : s[i].hash = s[j].hash => i = j

\* The totals of a list are numbers.
LEMMA TotalsType ==
  ASSUME NEW s \in Seq(BookEntry)
  PROVE  /\ Totals(s) \in Sums /\ Totals(s).found = Len(s)
         /\ PaidAt(s) \in SUBSET (1..Len(s)) /\ OrphansAt(s) \in SUBSET (1..Len(s))
         /\ IsFiniteSet(PaidAt(s)) /\ IsFiniteSet(OrphansAt(s))
<1>1. PaidAt(s) \in SUBSET (1..Len(s)) /\ OrphansAt(s) \in SUBSET (1..Len(s))
    BY DEF PaidAt, OrphansAt
<1>2. IsFiniteSet(PaidAt(s)) /\ IsFiniteSet(OrphansAt(s))
    BY <1>1, FS_Interval, FS_Subset
<1>3. Cardinality(PaidAt(s)) \in Nat /\ Cardinality(OrphansAt(s)) \in Nat
    BY <1>2, FS_CardinalityType
<1> QED BY <1>1, <1>2, <1>3 DEF Totals, Sums

\* The totals of two lists are added.
LEMMA TotalsConcat ==
  ASSUME NEW s \in Seq(BookEntry), NEW t \in Seq(BookEntry)
  PROVE  Totals(s \o t) = Plus(Totals(s), Totals(t))
<1> DEFINE u == s \o t
<1>1. /\ u \in Seq(BookEntry) /\ Len(u) = Len(s) + Len(t)
      /\ \A i \in 1..Len(s) : u[i] = s[i]
      /\ \A i \in 1..Len(t) : u[Len(s) + i] = t[i]
    OBVIOUS
<1> HIDE DEF u
<1>2. Joins(PaidAt(u), PaidAt(s), Len(s), PaidAt(t), Len(t))
    BY <1>1 DEF Joins, PaidAt
<1>3. Joins(OrphansAt(u), OrphansAt(s), Len(s), OrphansAt(t), Len(t))
    BY <1>1 DEF Joins, OrphansAt
<1>6. /\ Cardinality(PaidAt(u)) = Cardinality(PaidAt(s)) + Cardinality(PaidAt(t))
      /\ Cardinality(OrphansAt(u)) = Cardinality(OrphansAt(s)) + Cardinality(OrphansAt(t))
    BY <1>2, <1>3, CountJoined
<1> QED BY <1>1, <1>6 DEF Totals, Plus, u
\* ... and a list in another order has the same.
LEMMA TotalsPermuted ==
  ASSUME NEW s \in Seq(BookEntry), NEW p \in Bijection(1..Len(s), 1..Len(s)),
         NEW t, t = [i \in 1..Len(s) |-> s[p[i]]]
  PROVE  /\ t \in Seq(BookEntry) /\ Len(t) = Len(s) /\ Totals(t) = Totals(s)
         /\ From(t, s)
         /\ Distinct(s) => Distinct(t)
<1>1. /\ p \in [1..Len(s) -> 1..Len(s)]
      /\ \A i, j \in 1..Len(s) : p[i] = p[j] => i = j
      /\ \A k \in 1..Len(s) : \E i \in 1..Len(s) : p[i] = k
    BY DEF Bijection, Injection, Surjection, IsInjective
<1>2. t \in Seq(BookEntry) /\ Len(t) = Len(s) /\ DOMAIN t = 1..Len(s)
  <2>1. t \in [1..Len(s) -> BookEntry]
      BY <1>1
  <2> QED BY <2>1, SeqOfFunction
<1>0. DOMAIN s = 1..Len(s) /\ \A i \in 1..Len(s) : p[i] \in 1..Len(s) /\ t[i] = s[p[i]]
    BY <1>1, LenProperties
<1>3. Moves(p, PaidAt(t), PaidAt(s), Len(s))
  <2>1. \A i \in 1..Len(s) : i \in PaidAt(t) <=> p[i] \in PaidAt(s)
      BY <1>0, <1>2 DEF PaidAt
  <2>2. PaidAt(t) \in SUBSET (1..Len(s)) /\ PaidAt(s) \in SUBSET (1..Len(s))
      BY <1>2, TotalsType
  <2> QED BY <2>1, <2>2 DEF Moves
<1>4. Moves(p, OrphansAt(t), OrphansAt(s), Len(s))
  <2>1. \A i \in 1..Len(s) : i \in OrphansAt(t) <=> p[i] \in OrphansAt(s)
      BY <1>0, <1>2 DEF OrphansAt
  <2>2. OrphansAt(t) \in SUBSET (1..Len(s)) /\ OrphansAt(s) \in SUBSET (1..Len(s))
      BY <1>2, TotalsType
  <2> QED BY <2>1, <2>2 DEF Moves
<1>5. Cardinality(PaidAt(t)) = Cardinality(PaidAt(s))
    BY <1>3, CountMoved
<1>6. Cardinality(OrphansAt(t)) = Cardinality(OrphansAt(s))
    BY <1>4, CountMoved
<1>7. \A i \in 1..Len(s) : t[i] = s[p[i]] /\ p[i] \in 1..Len(s)
    BY <1>1
<1>8. DOMAIN s = 1..Len(s)
    OBVIOUS
<1>9. Distinct(s) => Distinct(t)
  <2> SUFFICES ASSUME Distinct(s), NEW i \in 1..Len(s), NEW j \in 1..Len(s),
                      t[i].hash = t[j].hash
               PROVE  i = j
      BY <1>2 DEF Distinct
  <2>1. p[i] = p[j]
      BY <1>7, <1>8 DEF Distinct
  <2> QED BY <1>1, <2>1
<1>10. From(t, s)
    BY <1>2, <1>7, <1>8 DEF From
<1> QED BY <1>2, <1>5, <1>6, <1>9, <1>10 DEF Totals

-----------------------------------------------------------------------------
(* The lists of the books.                                                 *)

\* Blocks with different hashes can be put in the order of these.
LEMMA NewestOrder ==
  ASSUME NEW s \in Seq(BookEntry), Distinct(s), MaxBlocks \in Nat
  PROVE  \E p \in Bijection(DOMAIN s, DOMAIN s) :
           \A i, j \in DOMAIN s : i < j => s[p[i]].hash >= s[p[j]].hash
<1> DEFINE H == HashesIn(s)
           L == Len(s)
           h == [i \in 1..L |-> s[i].hash]
           q == [i \in 1..L |-> L + 1 - Rank(H, s[i].hash)]
<1>1. DOMAIN s = 1..L /\ L \in Nat /\ \A i \in 1..L : s[i].hash \in 1..MaxBlocks
  <2>1. DOMAIN s = 1..L /\ L \in Nat /\ \A i \in 1..L : s[i] \in BookEntry
      OBVIOUS
  <2>2. \A e \in BookEntry : e.hash \in 1..MaxBlocks
      BY DEF BookEntry, Block
  <2> QED BY <2>1, <2>2
<1>2. H \in SUBSET (1..MaxBlocks) /\ \A i \in 1..L : s[i].hash \in H
    BY <1>1 DEF HashesIn
<1>3. h \in Bijection(1..L, H)
  <2>1. h \in [1..L -> H]
      BY <1>2
  <2>2. \A i, j \in 1..L : h[i] = h[j] => i = j
      BY <1>1 DEF Distinct
  <2>3. \A k \in H : \E i \in 1..L : h[i] = k
      BY <1>1 DEF HashesIn
  <2> QED BY <2>1, <2>2, <2>3 DEF Bijection, Injection, Surjection, IsInjective
<1>4. IsFiniteSet(1..L) /\ Cardinality(1..L) = L
    BY <1>1, FirstNumbers
<1>5. Cardinality(H) = L
  <2>1. ExistsBijection(1..L, H)
      BY <1>3 DEF ExistsBijection
  <2> HIDE DEF H, L
  <2> QED BY <2>1, <1>4, FS_Bijection
<1> HIDE DEF H, L, h
<1>6. /\ \A i \in H : Rank(H, i) \in 1..L
      /\ \A i, j \in H : i < j => Rank(H, i) < Rank(H, j)
    BY <1>2, <1>5, Ranks
<1>7. /\ q \in [1..L -> 1..L]
      /\ \A i, j \in 1..L : q[i] = q[j] => i = j
  <2>1. q \in [1..L -> 1..L]
      BY <1>1, <1>2, <1>6
  <2>2. ASSUME NEW i \in 1..L, NEW j \in 1..L, q[i] = q[j] PROVE i = j
    <3>1. Rank(H, s[i].hash) = Rank(H, s[j].hash)
        BY <1>1, <1>2, <1>6, <2>2
    <3>2. s[i].hash \in Int /\ s[j].hash \in Int
        BY <1>1
    <3>3. s[i].hash = s[j].hash
        BY <1>2, <1>6, <3>1, <3>2
    <3> QED BY <1>1, <3>3 DEF Distinct
  <2> QED BY <2>1, <2>2
<1>8. q \in Bijection(1..L, 1..L)
  <2>1. q \in Injection(1..L, 1..L)
      BY <1>7 DEF Injection, IsInjective
  <2>2. q \in Surjection(1..L, 1..L)
      BY <1>4, <2>1, FS_Injection
  <2> QED BY <2>1, <2>2 DEF Bijection
<1> DEFINE p == [k \in 1..L |-> CHOOSE i \in 1..L : q[i] = k]
<1>9. /\ \A k \in 1..L : p[k] \in 1..L /\ q[p[k]] = k
      /\ p \in [1..L -> 1..L]
    BY <1>8 DEF Bijection, Surjection
<1> HIDE DEF p, q
<1>10. p \in Bijection(1..L, 1..L)
  <2>1. \A k, l \in 1..L : p[k] = p[l] => k = l
      BY <1>9
  <2>2. \A i \in 1..L : \E k \in 1..L : p[k] = i
      BY <1>7, <1>9
  <2> QED BY <1>9, <2>1, <2>2 DEF Bijection, Injection, Surjection, IsInjective
<1>11. ASSUME NEW i \in 1..L, NEW j \in 1..L, i < j
       PROVE  s[p[i]].hash >= s[p[j]].hash
  <2>1. p[i] \in 1..L /\ p[j] \in 1..L /\ q[p[i]] < q[p[j]]
      BY <1>9, <1>11
  <2>2. Rank(H, s[p[j]].hash) < Rank(H, s[p[i]].hash)
    <3>1. q[p[i]] = L + 1 - Rank(H, s[p[i]].hash) /\ q[p[j]] = L + 1 - Rank(H, s[p[j]].hash)
        BY <2>1 DEF q
    <3>2. s[p[i]].hash \in H /\ s[p[j]].hash \in H
        BY <1>2, <2>1
    <3>3. Rank(H, s[p[i]].hash) \in 1..L /\ Rank(H, s[p[j]].hash) \in 1..L
        BY <1>6, <3>2
    <3> QED BY <1>1, <2>1, <3>1, <3>3
  <2>3. s[p[i]].hash \in Int /\ s[p[j]].hash \in Int
      BY <1>1, <2>1
  <2> QED BY <1>1, <1>2, <1>6, <2>1, <2>2, <2>3
<1> QED BY <1>1, <1>10, <1>11
-----------------------------------------------------------------------------
(* The books of a found, a confirmed and an orphaned block.                *)

\* What holds of the books, and of every copy and image of them, when n blocks
\* have been found.
Books(bk, n) ==
  /\ bk \in [recent : Seq(BookEntry), total : Sums, cut : Sums]
  /\ Len(bk.recent) <= BooksCap /\ HashesIn(bk.recent) \subseteq 1..n
  /\ Distinct(bk.recent) /\ bk.total = Plus(Totals(bk.recent), bk.cut)

\* Sums are added like numbers.
LEMMA PlusProperties ==
  ASSUME NEW t \in Sums, NEW u \in Sums
  PROVE  Plus(t, u) \in Sums /\ Plus(t, u) = Plus(u, t)
BY DEF Plus, Sums

LEMMA PlusAssociative ==
  ASSUME NEW t \in Sums, NEW u \in Sums, NEW v \in Sums
  PROVE  Plus(Plus(t, u), v) = Plus(t, Plus(u, v))
<1>1. /\ t.found \in Nat /\ t.confirmed \in Nat /\ t.orphaned \in Nat
      /\ u.found \in Nat /\ u.confirmed \in Nat /\ u.orphaned \in Nat
      /\ v.found \in Nat /\ v.confirmed \in Nat /\ v.orphaned \in Nat
    BY DEF Sums
<1> QED BY <1>1 DEF Plus

LEMMA FirstAndRest ==
  ASSUME NEW s \in Seq(BookEntry), NEW n \in Nat
  PROVE  /\ First(s, n) \in Seq(BookEntry) /\ Len(First(s, n)) <= n
         /\ Rest(s, n) \in Seq(BookEntry) /\ First(s, n) \o Rest(s, n) = s
         /\ From(First(s, n), s) /\ (Distinct(s) => Distinct(First(s, n)))
<1> DEFINE m == IF Len(s) > n THEN n ELSE Len(s)
           f == SubSeq(s, 1, m)
           r == SubSeq(s, n + 1, Len(s))
<1>1. m \in Nat /\ m <= Len(s) /\ m <= n /\ (m = n \/ (m = Len(s) /\ Len(s) < n + 1))
    OBVIOUS
<1>2. /\ f \in Seq(BookEntry) /\ Len(f) = m /\ DOMAIN f = 1..m
      /\ \A i \in 1..m : f[i] = s[i]
    BY <1>1
<1>3. /\ r \in Seq(BookEntry) /\ Len(r) = Len(s) - m
      /\ \A i \in 1..(Len(s) - m) : r[i] = s[m + i]
  <2>1. CASE n + 1 <= Len(s)
      BY <2>1
  <2>2. CASE ~(n + 1 <= Len(s))
      BY <2>2, SubSeqEmpty
  <2> QED BY <2>1, <2>2
<1>4. First(s, n) = f /\ Rest(s, n) = r
    BY DEF First, Rest
<1> HIDE DEF m, f, r
<1>5. f \o r = s
  <2>1. f \o r \in Seq(BookEntry) /\ Len(f \o r) = Len(s)
      BY <1>1, <1>2, <1>3
  <2>2. ASSUME NEW i \in 1..Len(s) PROVE (f \o r)[i] = s[i]
    <3>1. CASE i <= m
        BY <1>1, <1>2, <1>3, <3>1
    <3>2. CASE i > m
      <4>1. i - m \in 1..(Len(s) - m) /\ m + (i - m) = i
          BY <1>1, <3>2
      <4>2. (f \o r)[i] = r[i - m]
          BY <1>1, <1>2, <1>3, <3>2
      <4> QED BY <1>3, <4>1, <4>2
    <3>3. i \in Nat /\ m \in Nat
        BY <1>1
    <3>4. i <= m \/ i > m
        BY <3>3
    <3> QED BY <3>1, <3>2, <3>4
  <2> QED BY <2>1, <2>2, SeqEqual
<1>6. From(f, s)
    BY <1>1, <1>2 DEF From
<1>7. Distinct(s) => Distinct(f)
    BY <1>1, <1>2 DEF Distinct
<1> QED BY <1>1, <1>2, <1>3, <1>4, <1>5, <1>6, <1>7

\* What is cut from the list moves from its totals to those of the cut.
LEMMA KeptBooks ==
  ASSUME NEW n \in Nat, NEW all \in Seq(BookEntry), Distinct(all),
         HashesIn(all) \subseteq 1..n, NEW cut \in Sums, BooksCap \in Nat,
         NEW total, total = Plus(Totals(all), cut)
  PROVE  Books(Kept(all, total, cut), n) /\ From(Kept(all, total, cut).recent, all)
<1> DEFINE f == First(all, BooksCap)
           r == Rest(all, BooksCap)
           bk == Kept(all, total, cut)
<1>1. /\ f \in Seq(BookEntry) /\ Len(f) <= BooksCap /\ r \in Seq(BookEntry)
      /\ f \o r = all /\ From(f, all) /\ Distinct(f)
    BY FirstAndRest
<1>2. /\ bk.recent = f /\ bk.total = total /\ bk.cut = Plus(cut, Totals(r))
      /\ bk = [recent |-> f, total |-> total, cut |-> Plus(cut, Totals(r))]
    BY DEF Kept
<1> HIDE DEF bk, f, r
<1>3. Totals(all) = Plus(Totals(f), Totals(r))
    BY <1>1, TotalsConcat
<1>4. Totals(all) \in Sums /\ Totals(f) \in Sums /\ Totals(r) \in Sums
    BY <1>1, TotalsType
<1>5. total \in Sums /\ bk.cut \in Sums
    BY <1>2, <1>4, PlusProperties
<1>6. bk.total = Plus(Totals(bk.recent), bk.cut)
  <2>1. Plus(Plus(Totals(f), Totals(r)), cut) = Plus(Totals(f), Plus(Totals(r), cut))
      BY <1>4, PlusAssociative
  <2>2. Plus(Totals(r), cut) = Plus(cut, Totals(r))
      BY <1>4, PlusProperties
  <2> QED BY <1>2, <1>3, <2>1, <2>2
<1>7. HashesIn(f) \subseteq 1..n
    BY <1>1 DEF HashesIn, From
<1> QED BY <1>1, <1>2, <1>5, <1>6, <1>7 DEF Books, bk

FromEither(u, s, t) ==
  \A i \in DOMAIN u : \/ \E k \in DOMAIN s : u[i] = s[k]
                      \/ \E k \in DOMAIN t : u[i] = t[k]

\* Two lists without a block in common make one with different hashes.
LEMMA DistinctConcat ==
  ASSUME NEW s \in Seq(BookEntry), NEW t \in Seq(BookEntry), Distinct(s), Distinct(t),
         HashesIn(s) \cap HashesIn(t) = {}
  PROVE  /\ s \o t \in Seq(BookEntry) /\ Distinct(s \o t)
         /\ HashesIn(s \o t) \subseteq HashesIn(s) \cup HashesIn(t)
         /\ FromEither(s \o t, s, t)
<1> DEFINE u == s \o t
<1>1. /\ u \in Seq(BookEntry) /\ Len(u) = Len(s) + Len(t) /\ DOMAIN u = 1..(Len(s) + Len(t))
      /\ DOMAIN s = 1..Len(s) /\ DOMAIN t = 1..Len(t) /\ Len(s) \in Nat /\ Len(t) \in Nat
      /\ \A i \in 1..Len(s) : u[i] = s[i]
    OBVIOUS
<1>2. \A i \in 1..(Len(s) + Len(t)) :
        i \notin 1..Len(s) => i - Len(s) \in 1..Len(t) /\ u[i] = t[i - Len(s)]
    OBVIOUS
<1> HIDE DEF u
<1>3. \A i \in DOMAIN u : \/ i \in DOMAIN s /\ u[i] = s[i]
                          \/ i \notin DOMAIN s /\ i - Len(s) \in DOMAIN t /\ u[i] = t[i - Len(s)]
    BY <1>1, <1>2
<1>4. Distinct(u)
  <2> SUFFICES ASSUME NEW i \in DOMAIN u, NEW j \in DOMAIN u, u[i].hash = u[j].hash
               PROVE  i = j
      BY DEF Distinct
  <2>1. ~(i \in DOMAIN s /\ j \notin DOMAIN s) /\ ~(j \in DOMAIN s /\ i \notin DOMAIN s)
      BY <1>3 DEF HashesIn
  <2>2. CASE i \in DOMAIN s /\ j \in DOMAIN s
      BY <1>3, <2>2 DEF Distinct
  <2>3. CASE i \notin DOMAIN s /\ j \notin DOMAIN s
    <3>1. i - Len(s) = j - Len(s)
        BY <1>3, <2>3 DEF Distinct
    <3> QED BY <1>1, <3>1
  <2> QED BY <2>1, <2>2, <2>3
<1>5. HashesIn(u) \subseteq HashesIn(s) \cup HashesIn(t)
    BY <1>3 DEF HashesIn
<1>6. FromEither(u, s, t)
    BY <1>3 DEF FromEither
<1> QED BY <1>1, <1>4, <1>5, <1>6 DEF u

LEMMA NewestBooks ==
  ASSUME NEW s \in Seq(BookEntry), Distinct(s), MaxBlocks \in Nat
  PROVE  /\ Newest(s) \in Seq(BookEntry) /\ Totals(Newest(s)) = Totals(s)
         /\ Distinct(Newest(s)) /\ From(Newest(s), s)
<1> DEFINE Sorted(p) == \A i, j \in DOMAIN s : i < j => s[p[i]].hash >= s[p[j]].hash
           q == CHOOSE p \in Bijection(DOMAIN s, DOMAIN s) : Sorted(p)
<1>1. q \in Bijection(DOMAIN s, DOMAIN s)
    BY NewestOrder
<1>2. DOMAIN s = 1..Len(s)
    OBVIOUS
<1>3. Newest(s) = [i \in 1..Len(s) |-> s[q[i]]]
    BY DEF Newest
<1> HIDE DEF q
<1> QED BY <1>1, <1>2, <1>3, TotalsPermuted

\* Every entry of t is one of s or that of b, just reported.
Fresh(b) == [hash |-> b, conf |-> 0, orphan |-> FALSE]
FreshOrFrom(t, s, b) ==
  \A i \in DOMAIN t : t[i] = Fresh(b) \/ \E k \in DOMAIN s : t[i] = s[k]

\* The books bk with the block b.
Reported(bk, b) ==
  Kept(<<Fresh(b)>> \o bk.recent, [bk.total EXCEPT !.found = @ + 1], bk.cut)

\* recordBlock enters a block that is not in the list.
LEMMA RecordedBooks ==
  ASSUME NEW n \in 0..MaxBlocks, NEW bk, Books(bk, n), NEW b \in 1..n,
         b \notin HashesIn(bk.recent), MaxBlocks \in Nat, BooksCap \in Nat, TrackTo \in Nat,
         NEW new, new = Reported(bk, b)
  PROVE  Books(new, n) /\ FreshOrFrom(new.recent, bk.recent, b)
<1>0. PICK e : e = Fresh(b)
    OBVIOUS
<1> DEFINE one == <<e>>
           all == one \o bk.recent
           total == [bk.total EXCEPT !.found = @ + 1]
<1>1. e \in BookEntry /\ e.hash = b /\ e.conf = 0 /\ e.orphan = FALSE
    BY <1>0 DEF Fresh, BookEntry, Block, Conf
<1>2. one \in Seq(BookEntry) /\ Len(one) = 1 /\ DOMAIN one = {1} /\ one[1] = e
    BY <1>1
<1> HIDE DEF one
<1>3. /\ bk.recent \in Seq(BookEntry) /\ bk.total \in Sums /\ bk.cut \in Sums
      /\ Distinct(bk.recent) /\ HashesIn(bk.recent) \subseteq 1..n
      /\ bk.total = Plus(Totals(bk.recent), bk.cut)
    BY DEF Books
<1>4. Distinct(one) /\ HashesIn(one) = {b}
    BY <1>1, <1>2 DEF Distinct, HashesIn
<1>5. /\ all \in Seq(BookEntry) /\ Distinct(all)
      /\ HashesIn(all) \subseteq HashesIn(one) \cup HashesIn(bk.recent)
      /\ FromEither(all, one, bk.recent)
    BY <1>2, <1>3, <1>4, DistinctConcat
<1>6. Totals(all) = Plus(Totals(one), Totals(bk.recent))
    BY <1>2, <1>3, TotalsConcat
<1>7. Totals(one) = [found |-> 1, confirmed |-> 0, orphaned |-> 0]
  <2>1. PaidAt(one) = {} /\ OrphansAt(one) = {}
      BY <1>1, <1>2 DEF PaidAt, OrphansAt
  <2> QED BY <1>2, <2>1, FS_EmptySet DEF Totals
<1>8. total = Plus(Totals(one), bk.total)
    BY <1>3, <1>7 DEF Plus, Sums
<1>9. total = Plus(Totals(all), bk.cut)
    BY <1>2, <1>3, <1>6, <1>8, TotalsType, PlusAssociative
<1> HIDE DEF all, total
<1>10. new = Kept(all, total, bk.cut)
    BY <1>0 DEF Reported, all, total, one
<1>11. HashesIn(all) \subseteq 1..n
    BY <1>3, <1>4, <1>5
<1>12. Books(new, n) /\ From(new.recent, all)
    BY <1>3, <1>5, <1>9, <1>10, <1>11, KeptBooks
<1> QED BY <1>0, <1>2, <1>5, <1>12 DEF From, FromEither, FreshOrFrom

\* A verdict changes one entry: the places of a kind are those of before, but for
\* that one.
LEMMA CountChanged ==
  ASSUME NEW P, NEW Q, NEW i, IsFiniteSet(P), Q \ {i} = P \ {i}
  PROVE  /\ Cardinality(P) \in Nat /\ (i \in P => Cardinality(P) >= 1)
         /\ Cardinality(Q) = Cardinality(P) + (IF i \in Q THEN 1 ELSE 0)
                                            - (IF i \in P THEN 1 ELSE 0)
<1>1. IsFiniteSet(P \ {i}) /\ Cardinality(P \ {i}) \in Nat /\ Cardinality(P) \in Nat
    BY FS_RemoveElement, FS_CardinalityType
<1>2. Cardinality(P) = Cardinality(P \ {i}) + (IF i \in P THEN 1 ELSE 0)
    BY <1>1, FS_RemoveElement
<1>3. Cardinality(Q) = Cardinality(P \ {i}) + (IF i \in Q THEN 1 ELSE 0)
  <2>1. CASE i \in Q
    <3>1. Q = (P \ {i}) \cup {i}
        BY <2>1
    <3> QED BY <1>1, <2>1, <3>1, FS_AddElement
  <2>2. CASE i \notin Q
    <3>1. Q = P \ {i}
        BY <2>2
    <3> QED BY <1>1, <2>2, <3>1
  <2> QED BY <2>1, <2>2
<1> QED BY <1>1, <1>2, <1>3

\* What an entry counts for.
Paid(conf, orphan) == IF ~orphan /\ conf > 0 THEN 1 ELSE 0
Lost(orphan) == IF orphan THEN 1 ELSE 0

EntryAmended(t, s, i, e) == t = [s EXCEPT ![i] = e]

\* The totals of t are those of s with the entry e instead of d.
TotalsFollow(s, t, d, e) ==
  Totals(t) = [found |-> Totals(s).found,
               confirmed |-> Totals(s).confirmed + Paid(e.conf, e.orphan)
                                                 - Paid(d.conf, d.orphan),
               orphaned |-> Totals(s).orphaned + Lost(e.orphan) - Lost(d.orphan)]

LEMMA TotalsChanged ==
  ASSUME NEW s \in Seq(BookEntry), NEW i \in DOMAIN s, NEW e \in BookEntry,
         e.hash = s[i].hash, NEW t, EntryAmended(t, s, i, e)
  PROVE  /\ t \in Seq(BookEntry) /\ Len(t) = Len(s) /\ HashesIn(t) = HashesIn(s)
         /\ DOMAIN t = DOMAIN s /\ (Distinct(s) => Distinct(t))
         /\ Totals(s) \in Sums
         /\ TotalsFollow(s, t, s[i], e)
<1>1. /\ t \in Seq(BookEntry) /\ Len(t) = Len(s) /\ DOMAIN t = DOMAIN s
      /\ t[i] = e /\ \A k \in DOMAIN s : k # i => t[k] = s[k]
    BY DEF EntryAmended
<1>2. \A k \in DOMAIN s : t[k].hash = s[k].hash
    BY <1>1
<1>3. HashesIn(t) = HashesIn(s) /\ (Distinct(s) => Distinct(t))
    BY <1>1, <1>2 DEF HashesIn, Distinct
<1>4. PaidAt(t) \ {i} = PaidAt(s) \ {i} /\ OrphansAt(t) \ {i} = OrphansAt(s) \ {i}
    BY <1>1 DEF PaidAt, OrphansAt
<1>5. /\ i \in PaidAt(t) <=> (~e.orphan /\ e.conf > 0)
      /\ i \in PaidAt(s) <=> (~s[i].orphan /\ s[i].conf > 0)
      /\ i \in OrphansAt(t) <=> e.orphan
      /\ i \in OrphansAt(s) <=> s[i].orphan
    BY <1>1 DEF PaidAt, OrphansAt
<1>6. IsFiniteSet(PaidAt(s)) /\ IsFiniteSet(OrphansAt(s)) /\ Totals(s) \in Sums
    BY TotalsType
<1>7. /\ (IF i \in PaidAt(t) THEN 1 ELSE 0) = Paid(e.conf, e.orphan)
      /\ (IF i \in PaidAt(s) THEN 1 ELSE 0) = Paid(s[i].conf, s[i].orphan)
      /\ (IF i \in OrphansAt(t) THEN 1 ELSE 0) = Lost(e.orphan)
      /\ (IF i \in OrphansAt(s) THEN 1 ELSE 0) = Lost(s[i].orphan)
    BY <1>5, Zenon DEF Paid, Lost
<1>8. Cardinality(PaidAt(t)) = Cardinality(PaidAt(s)) + Paid(e.conf, e.orphan)
                                                    - Paid(s[i].conf, s[i].orphan)
  <2>1. Cardinality(PaidAt(t)) = Cardinality(PaidAt(s)) + (IF i \in PaidAt(t) THEN 1 ELSE 0)
                                   - (IF i \in PaidAt(s) THEN 1 ELSE 0)
      BY <1>4, <1>6, CountChanged
  <2> QED BY <1>7, <2>1, Zenon
<1>9. Cardinality(OrphansAt(t)) = Cardinality(OrphansAt(s)) + Lost(e.orphan) - Lost(s[i].orphan)
  <2>1. Cardinality(OrphansAt(t)) = Cardinality(OrphansAt(s))
            + (IF i \in OrphansAt(t) THEN 1 ELSE 0) - (IF i \in OrphansAt(s) THEN 1 ELSE 0)
      BY <1>4, <1>6, CountChanged
  <2> QED BY <1>7, <2>1, Zenon
<1>10. TotalsFollow(s, t, s[i], e)
    BY <1>1, <1>8, <1>9 DEF Totals, TotalsFollow
<1> QED BY <1>1, <1>3, <1>6, <1>10

\* An amendment that changes the totals by what the entry counts for now, less what
\* it counted for before.
LEMMA AmendedBooks ==
  ASSUME NEW n, Books(books, n), NEW i \in DOMAIN books.recent,
         NEW conf \in Conf, NEW orphan \in BOOLEAN, NEW paid \in Int, NEW lost \in Int,
         TrackTo \in Nat,
         paid = Paid(conf, orphan) - Paid(books.recent[i].conf, books.recent[i].orphan),
         lost = Lost(orphan) - Lost(books.recent[i].orphan),
         NEW new, new = Amended(i, conf, orphan, paid, lost)
  PROVE  /\ Books(new, n)
         /\ new.recent = [books.recent EXCEPT ![i] =
              [hash |-> books.recent[i].hash, conf |-> conf, orphan |-> orphan]]
<1> DEFINE s == books.recent
           e == [hash |-> s[i].hash, conf |-> conf, orphan |-> orphan]
           t == [s EXCEPT ![i] = e]
           old == s[i]
           sum == Totals(s)
<1>1. /\ s \in Seq(BookEntry) /\ books.total \in Sums /\ books.cut \in Sums
      /\ Distinct(s) /\ HashesIn(s) \subseteq 1..n /\ Len(s) <= BooksCap
      /\ books.total = Plus(sum, books.cut)
    BY DEF Books
<1>2. old \in BookEntry /\ i \in DOMAIN s
    BY <1>1
<1>3. old.hash \in Block
    BY <1>2 DEF BookEntry
<1>4. e \in BookEntry /\ e.hash = old.hash /\ e.conf = conf /\ e.orphan = orphan
    BY <1>3 DEF BookEntry
<1>5. /\ new.recent = t /\ new.cut = books.cut
      /\ new = [recent |-> t, total |-> new.total, cut |-> books.cut]
      /\ new.total = Plus(books.total, [found |-> 0, confirmed |-> paid, orphaned |-> lost])
    BY DEF Amended
<1> HIDE DEF e, t, s, old
<1>6. /\ t \in Seq(BookEntry) /\ Len(t) = Len(s) /\ HashesIn(t) = HashesIn(s)
      /\ Distinct(t) /\ sum \in Sums
      /\ Totals(t) = [found |-> sum.found,
                      confirmed |-> sum.confirmed + Paid(conf, orphan)
                                                  - Paid(old.conf, old.orphan),
                      orphaned |-> sum.orphaned + Lost(orphan) - Lost(old.orphan)]
  <2>1. EntryAmended(t, s, i, e) /\ old = s[i]
      BY DEF t, old, EntryAmended
  <2>2. /\ t \in Seq(BookEntry) /\ Len(t) = Len(s) /\ HashesIn(t) = HashesIn(s)
        /\ (Distinct(s) => Distinct(t)) /\ Totals(s) \in Sums
        /\ TotalsFollow(s, t, s[i], e)
      BY <1>1, <1>2, <1>4, <2>1, TotalsChanged
  <2>3. Paid(e.conf, e.orphan) = Paid(conf, orphan) /\ Lost(e.orphan) = Lost(orphan)
      BY <1>4
  <2> QED BY <1>1, <2>1, <2>2, <2>3 DEF TotalsFollow
<1> HIDE DEF sum
<1>7. /\ Totals(t) \in Sums /\ Paid(old.conf, old.orphan) \in Int /\ Lost(old.orphan) \in Int
      /\ Paid(conf, orphan) \in Int /\ Lost(orphan) \in Int
    BY <1>6, TotalsType DEF Paid, Lost
<1>8. /\ paid = Paid(conf, orphan) - Paid(old.conf, old.orphan)
      /\ lost = Lost(orphan) - Lost(old.orphan)
    BY DEF old, s
<1>9. Totals(t) = [found |-> sum.found, confirmed |-> sum.confirmed + paid,
                   orphaned |-> sum.orphaned + lost]
    BY <1>6, <1>7, <1>8 DEF Sums
<1>10. new.total = Plus(Totals(t), books.cut)
  <2>1. /\ sum.found \in Int /\ sum.confirmed \in Int /\ sum.orphaned \in Int
        /\ books.cut.found \in Int /\ books.cut.confirmed \in Int
        /\ books.cut.orphaned \in Int
      BY <1>1, <1>6 DEF Sums
  <2>2. new.total = [found |-> sum.found + books.cut.found + 0,
                     confirmed |-> sum.confirmed + books.cut.confirmed + paid,
                     orphaned |-> sum.orphaned + books.cut.orphaned + lost]
      BY <1>1, <1>5 DEF Plus
  <2>3. Plus(Totals(t), books.cut) =
           [found |-> sum.found + books.cut.found,
            confirmed |-> sum.confirmed + paid + books.cut.confirmed,
            orphaned |-> sum.orphaned + lost + books.cut.orphaned]
      BY <1>9 DEF Plus
  <2> QED BY <2>1, <2>2, <2>3
<1>11. new.total \in Sums
    BY <1>1, <1>7, <1>10, PlusProperties
<1>12. Books(new, n)
    BY <1>1, <1>5, <1>6, <1>10, <1>11 DEF Books
<1> QED BY <1>5, <1>12 DEF t, s, e

\* Orphaned takes back the reward of a block that was confirmed.
LEMMA OrphanedBooks ==
  ASSUME NEW n, Books(books, n), NEW i \in DOMAIN books.recent, ~books.recent[i].orphan,
         TrackTo \in Nat
  PROVE  /\ Books(Orphaned(i), n)
         /\ Orphaned(i).recent = [books.recent EXCEPT ![i] =
              [hash |-> books.recent[i].hash, conf |-> -1, orphan |-> TRUE]]
<1>1. PICK c \in Conf : c = -1
    BY DEF Conf
<1>2. PICK orphan \in BOOLEAN : orphan = TRUE
    OBVIOUS
<1>3. PICK paid \in Int : paid = IF books.recent[i].conf > 0 THEN -1 ELSE 0
    OBVIOUS
<1>4. PICK lost \in Int : lost = 1
    OBVIOUS
<1>5. PICK new : new = Orphaned(i)
    OBVIOUS
<1>6. paid = Paid(c, orphan) - Paid(books.recent[i].conf, books.recent[i].orphan)
    BY <1>2, <1>3 DEF Paid
<1>7. lost = Lost(orphan) - Lost(books.recent[i].orphan)
    BY <1>2, <1>4 DEF Lost
<1>8. new = Amended(i, c, orphan, paid, lost)
    BY <1>1, <1>2, <1>3, <1>4, <1>5 DEF Orphaned
<1>9. /\ Books(new, n)
      /\ new.recent = [books.recent EXCEPT ![i] =
           [hash |-> books.recent[i].hash, conf |-> c, orphan |-> orphan]]
    BY <1>6, <1>7, <1>8, AmendedBooks
<1> QED BY <1>1, <1>2, <1>5, <1>9

\* Confirmed adds the reward of a block that had no confirmation and is no orphan.
LEMMA ConfirmedBooks ==
  ASSUME NEW n, Books(books, n), NEW i \in DOMAIN books.recent, NEW conf \in Conf,
         TrackTo \in Nat, books.recent[i].orphan \/ conf > 0,
         ~(books.recent[i].orphan /\ books.recent[i].conf = 0 /\ conf > 0),
         ~books.recent[i].orphan => books.recent[i].conf >= 0
  PROVE  /\ Books(Confirmed(i, conf), n)
         /\ Confirmed(i, conf).recent = [books.recent EXCEPT ![i] =
              [hash |-> books.recent[i].hash, conf |-> conf,
               orphan |-> books.recent[i].orphan]]
<1> DEFINE paid == IF conf > 0 /\ books.recent[i].conf = 0 THEN 1 ELSE 0
           orphan == books.recent[i].orphan
<1>1. books.recent[i] \in BookEntry
    BY DEF Books
<1>2. paid \in Int /\ orphan \in BOOLEAN /\ books.recent[i].conf \in Int /\ conf \in Int
    BY <1>1 DEF BookEntry, Conf
<1>3. Confirmed(i, conf) = Amended(i, conf, orphan, paid, 0)
    BY DEF Confirmed
<1>4. paid = Paid(conf, orphan) - Paid(books.recent[i].conf, orphan)
    BY <1>2 DEF Paid
<1>5. 0 = Lost(orphan) - Lost(orphan)
    BY DEF Lost
<1> HIDE DEF paid
<1> QED BY <1>2, <1>3, <1>4, <1>5, AmendedBooks
-----------------------------------------------------------------------------
(* The block log, and what a start takes over from it.                     *)

\* What holds of the log, its file and its copies when n blocks have been found.
Log(s, n) ==
  s \in Seq(LogEntry) /\ HashesIn(s) \subseteq 1..n /\ Distinct(s)

LEMMA LogEntries ==
  ASSUME NEW n, NEW s, Log(s, n)
  PROVE  \A i \in DOMAIN s : s[i] \in LogEntry /\ s[i].hash \in Block /\ s[i].hash \in 1..n
<1>1. \A i \in DOMAIN s : s[i] \in LogEntry /\ s[i].hash \in 1..n
    BY DEF Log, HashesIn
<1> QED BY <1>1 DEF LogEntry

LEMMA EmptyLog ==
  ASSUME NEW n
  PROVE  Log(<<>>, n)
<1>1. <<>> \in Seq(LogEntry) /\ DOMAIN <<>> = {}
    OBVIOUS
<1> QED BY <1>1 DEF Log, HashesIn, Distinct

LEMMA LastLog ==
  ASSUME NEW n, NEW s, Log(s, n), NEW k \in Nat
  PROVE  Log(Last(s, k), n) /\ From(Last(s, k), s) /\ Len(Last(s, k)) <= k
<1> DEFINE m == IF Len(s) > k THEN Len(s) - k ELSE 0
           t == SubSeq(s, m + 1, Len(s))
<1>1. /\ s \in Seq(LogEntry) /\ Len(s) \in Nat /\ DOMAIN s = 1..Len(s)
      /\ m \in Nat /\ m <= Len(s) /\ Len(s) - m <= k
    BY DEF Log
<1>2. Last(s, k) = t
    BY <1>1 DEF Last
<1> HIDE DEF m
<1>3. /\ t \in Seq(LogEntry) /\ Len(t) = Len(s) - m /\ DOMAIN t = 1..(Len(s) - m)
      /\ \A i \in 1..(Len(s) - m) : t[i] = s[m + i]
  <2>1. CASE m + 1 <= Len(s)
      BY <1>1, <2>1
  <2>2. CASE ~(m + 1 <= Len(s))
    <3>1. PICK l \in Nat : l = Len(s)
        BY <1>1
    <3>2. m \in Nat /\ m <= l /\ ~(m + 1 <= l)
        BY <1>1, <2>2, <3>1
    <3>3. m = l /\ l < m + 1 /\ m + 1 \in Int
        BY <3>2
    <3>4. t = << >>
        BY <3>1, <3>3, SubSeqEmpty
    <3> HIDE DEF t
    <3> QED BY <1>1, <3>1, <3>3, <3>4
  <2> QED BY <2>1, <2>2
<1> HIDE DEF t
<1>4. \A i \in DOMAIN t : m + i \in DOMAIN s /\ t[i] = s[m + i]
    BY <1>1, <1>3
<1>5. From(t, s) /\ HashesIn(t) \subseteq HashesIn(s)
    BY <1>4 DEF From, HashesIn
<1>6. Distinct(t)
  <2> SUFFICES ASSUME NEW i \in DOMAIN t, NEW j \in DOMAIN t, t[i].hash = t[j].hash
               PROVE  i = j
      BY DEF Distinct
  <2>1. m + i = m + j
      BY <1>4 DEF Log, Distinct
  <2> QED BY <1>1, <1>3, <2>1
<1> QED BY <1>1, <1>2, <1>3, <1>5, <1>6 DEF Log

\* The entries of t are e and those of s.
OneMore(t, s, e) == \A i \in DOMAIN t : t[i] = e \/ \E k \in DOMAIN s : t[i] = s[k]

LEMMA AppendedLog ==
  ASSUME NEW n \in Nat, NEW s, Log(s, n), n + 1 \in Block, TrackTo \in Nat,
         NEW e, e = [hash |-> n + 1, conf |-> 0, orphan |-> FALSE, told |-> FALSE]
  PROVE  /\ Log(Append(s, e), n + 1)
         /\ OneMore(Append(s, e), s, e)
<1> DEFINE t == Append(s, e)
<1>1. e \in LogEntry /\ e.hash = n + 1
    BY DEF LogEntry
<1>2. s \in Seq(LogEntry) /\ HashesIn(s) \subseteq 1..n /\ Distinct(s)
    BY DEF Log
<1>3. /\ t \in Seq(LogEntry) /\ DOMAIN t = 1..(Len(s) + 1) /\ t[Len(s) + 1] = e
      /\ DOMAIN s = 1..Len(s) /\ \A i \in DOMAIN s : t[i] = s[i]
    BY <1>1, <1>2
<1> HIDE DEF t
<1>4. \A i \in DOMAIN t : (i = Len(s) + 1 /\ t[i] = e) \/ (i \in DOMAIN s /\ t[i] = s[i])
    BY <1>2, <1>3
<1>5. \A i \in DOMAIN s : s[i].hash \in 1..n
    BY <1>2 DEF HashesIn
<1>6. HashesIn(t) \subseteq 1..(n + 1)
    BY <1>1, <1>4, <1>5 DEF HashesIn
<1>7. Distinct(t)
    BY <1>1, <1>2, <1>4, <1>5 DEF Distinct
<1> QED BY <1>3, <1>4, <1>6, <1>7 DEF Log, OneMore, t

\* The entry e of the books stands for the entry d of the log.
Took(e, d) == e.hash = d.hash /\ e.orphan = d.orphan /\ e.conf = d.conf

LEMMA TakenEntries ==
  ASSUME NEW n, NEW s, Log(s, n), TrackTo \in Nat
  PROVE  /\ Taken(s) \in Seq(BookEntry) /\ DOMAIN Taken(s) = DOMAIN s
         /\ Distinct(Taken(s)) /\ HashesIn(Taken(s)) \subseteq 1..n
         /\ \A i \in DOMAIN s : Took(Taken(s)[i], s[i])
<1> DEFINE t == Taken(s)
<1>1. s \in Seq(LogEntry) /\ DOMAIN s = 1..Len(s) /\ Len(s) \in Nat
    BY DEF Log
<1>2. \A i \in DOMAIN s :
        /\ s[i].hash \in Block /\ s[i].conf \in Conf /\ s[i].orphan \in BOOLEAN
  <2>1. \A i \in DOMAIN s : s[i] \in LogEntry
      BY <1>1
  <2>2. \A e \in LogEntry : e.hash \in Block /\ e.conf \in Conf /\ e.orphan \in BOOLEAN
      BY DEF LogEntry, Conf
  <2> QED BY <2>1, <2>2
<1>3. /\ DOMAIN t = DOMAIN s
      /\ \A i \in DOMAIN s :
           t[i] = [hash |-> s[i].hash, orphan |-> s[i].orphan, conf |-> s[i].conf]
      /\ t = [i \in DOMAIN s |-> t[i]]
    BY DEF Taken
<1>4. \A i \in DOMAIN s : Took(t[i], s[i]) /\ t[i] \in BookEntry
    BY <1>2, <1>3 DEF Took, BookEntry
<1>5. t \in [1..Len(s) -> BookEntry]
    BY <1>1, <1>3, <1>4
<1>6. t \in Seq(BookEntry)
    BY <1>1, <1>5, SeqOfFunction
<1> HIDE DEF t
<1>7. Distinct(t) /\ HashesIn(t) \subseteq 1..n
    BY <1>3, <1>4 DEF Took, Log, Distinct, HashesIn
<1> QED BY <1>3, <1>4, <1>6, <1>7 DEF t

\* What of data the books bk lack.
Lacking(data, bk) ==
  ElementsAt(data, {i \in DOMAIN data : data[i].hash \notin HashesIn(bk.recent)})

LEMMA LackingEntries ==
  ASSUME NEW bk, NEW data \in Seq(BookEntry), Distinct(data)
  PROVE  /\ Lacking(data, bk) \in Seq(BookEntry) /\ Distinct(Lacking(data, bk))
         /\ From(Lacking(data, bk), data)
         /\ HashesIn(bk.recent) \cap HashesIn(Lacking(data, bk)) = {}
<1> DEFINE P == {i \in DOMAIN data : data[i].hash \notin HashesIn(bk.recent)}
<1>1. PICK e : e = ElementsAt(data, P)
    OBVIOUS
<1>2. Lacking(data, bk) = e
    BY <1>1 DEF Lacking
<1>3. P \in SUBSET DOMAIN data /\ \A i \in P : data[i].hash \notin HashesIn(bk.recent)
    OBVIOUS
<1> HIDE DEF P
<1>4. /\ e \in Seq(BookEntry) /\ Len(e) \in Nat
      /\ \E f : Picks(f, e, data, P)
    BY <1>1, <1>3, ElementsAtPlaces
<1>5. PICK f : Picks(f, e, data, P)
    BY <1>4
<1>6. DOMAIN e = 1..Len(e)
    BY <1>4
<1>7. \A k \in DOMAIN e : f[k] \in P /\ f[k] \in DOMAIN data /\ e[k] = data[f[k]]
    BY <1>3, <1>5, <1>6 DEF Picks
<1>8. Distinct(e)
  <2> SUFFICES ASSUME NEW k \in DOMAIN e, NEW l \in DOMAIN e, e[k].hash = e[l].hash
               PROVE  k = l
      BY DEF Distinct
  <2>1. f[k] = f[l]
      BY <1>7 DEF Distinct
  <2> QED BY <1>5, <1>6, <2>1 DEF Picks
<1>9. From(e, data)
    BY <1>7 DEF From
<1>10. \A k \in DOMAIN e : e[k].hash \notin HashesIn(bk.recent)
    BY <1>3, <1>7
<1>11. HashesIn(bk.recent) \cap HashesIn(e) = {}
    BY <1>10 DEF HashesIn
<1> QED BY <1>2, <1>4, <1>8, <1>9, <1>11

\* The log and the books as a start finds them.
LEMMA LoadedLogs ==
  ASSUME NEW n, NEW f, Log(f.data, n), LogCap \in Nat
  PROVE  /\ Log(LoadedLog(f), n) /\ Len(LoadedLog(f)) <= LogCap
         /\ From(LoadedLog(f), f.data)
<1>1. CASE f.torn
  <2>1. LoadedLog(f) = <<>> /\ DOMAIN <<>> = {} /\ Len(<<>>) = 0
      BY <1>1 DEF LoadedLog
  <2> QED BY <2>1, EmptyLog DEF From
<1>2. CASE ~f.torn
  <2>1. LoadedLog(f) = Last(f.data, LogCap)
      BY <1>2 DEF LoadedLog
  <2> QED BY <2>1, LastLog
<1> QED BY <1>1, <1>2

LEMMA ImportedBooks ==
  ASSUME NEW n \in 0..MaxBlocks, NEW bk, Books(bk, n), NEW f, Log(f.data, n),
         MaxBlocks \in Nat, BooksCap \in Nat, LogCap \in Nat, TrackTo \in Nat,
         NEW new, new = Imported(bk, f)
  PROVE  /\ Books(new, n)
         /\ \A i \in DOMAIN new.recent :
              \/ \E k \in DOMAIN bk.recent : new.recent[i] = bk.recent[k]
              \/ \E k \in DOMAIN LoadedLog(f) : Took(new.recent[i], LoadedLog(f)[k])
<1>1. CASE ~GlobMatches
  <2>1. new = bk
      BY <1>1 DEF Imported
  <2> QED BY <2>1
<1>2. CASE GlobMatches
  <2>1. PICK log : log = LoadedLog(f)
      OBVIOUS
  <2>2. PICK data : data = Taken(log)
      OBVIOUS
  <2>3. Log(log, n)
      BY <2>1, LoadedLogs
  <2>4. /\ data \in Seq(BookEntry) /\ DOMAIN data = DOMAIN log
        /\ Distinct(data) /\ HashesIn(data) \subseteq 1..n
        /\ \A i \in DOMAIN log : Took(data[i], log[i])
      BY <2>2, <2>3, TakenEntries
  <2>5. PICK more : more = Lacking(data, bk)
      OBVIOUS
  <2>6. /\ more \in Seq(BookEntry) /\ Distinct(more) /\ From(more, data)
        /\ HashesIn(bk.recent) \cap HashesIn(more) = {}
      BY <2>4, <2>5, LackingEntries
  <2>7. new = Joined(bk, more)
      BY <1>2, <2>1, <2>2, <2>5 DEF Imported, Lacking
  <2>8. /\ bk.recent \in Seq(BookEntry) /\ bk.total \in Sums /\ bk.cut \in Sums
        /\ Distinct(bk.recent) /\ HashesIn(bk.recent) \subseteq 1..n
        /\ bk.total = Plus(Totals(bk.recent), bk.cut)
      BY DEF Books
  <2>9. PICK both : both = bk.recent \o more
      OBVIOUS
  <2>10. /\ both \in Seq(BookEntry) /\ Distinct(both)
         /\ HashesIn(both) \subseteq HashesIn(bk.recent) \cup HashesIn(more)
         /\ FromEither(both, bk.recent, more)
      BY <2>6, <2>8, <2>9, DistinctConcat
  <2>11. PICK all : all = Newest(both)
      OBVIOUS
  <2>12. /\ all \in Seq(BookEntry) /\ Totals(all) = Totals(both)
         /\ Distinct(all) /\ From(all, both)
      BY <2>10, <2>11, NewestBooks
  <2>13. HashesIn(more) \subseteq 1..n
      BY <2>4, <2>6 DEF From, HashesIn
  <2>14. HashesIn(all) \subseteq 1..n
    <3>1. HashesIn(all) \subseteq HashesIn(both)
        BY <2>12 DEF From, HashesIn
    <3> QED BY <2>8, <2>10, <2>13, <3>1
  <2>15. PICK total : total = Plus(bk.total, Totals(more))
      OBVIOUS
  <2>16. total = Plus(Totals(all), bk.cut)
    <3>1. Totals(both) = Plus(Totals(bk.recent), Totals(more))
        BY <2>6, <2>8, <2>9, TotalsConcat
    <3>2. Totals(bk.recent) \in Sums /\ Totals(more) \in Sums
        BY <2>6, <2>8, TotalsType
    <3>3. Plus(Plus(Totals(bk.recent), bk.cut), Totals(more))
            = Plus(Totals(bk.recent), Plus(bk.cut, Totals(more)))
        BY <2>8, <3>2, PlusAssociative
    <3>4. Plus(bk.cut, Totals(more)) = Plus(Totals(more), bk.cut)
        BY <2>8, <3>2, PlusProperties
    <3>5. Plus(Plus(Totals(bk.recent), Totals(more)), bk.cut)
            = Plus(Totals(bk.recent), Plus(Totals(more), bk.cut))
        BY <2>8, <3>2, PlusAssociative
    <3> QED BY <2>8, <2>12, <2>15, <3>1, <3>3, <3>4, <3>5
  <2>17. new = Kept(all, total, bk.cut)
      BY <2>7, <2>9, <2>11, <2>15 DEF Joined
  <2>18. Books(new, n) /\ From(new.recent, all)
      BY <2>8, <2>12, <2>14, <2>16, <2>17, KeptBooks
  <2>19. ASSUME NEW i \in DOMAIN new.recent
         PROVE  \/ \E k \in DOMAIN bk.recent : new.recent[i] = bk.recent[k]
                \/ \E k \in DOMAIN log : Took(new.recent[i], log[k])
    <3>1. PICK j \in DOMAIN both : new.recent[i] = both[j]
        BY <2>12, <2>18 DEF From
    <3>2. CASE \E k \in DOMAIN bk.recent : both[j] = bk.recent[k]
        BY <3>1, <3>2
    <3>3. CASE \E k \in DOMAIN more : both[j] = more[k]
      <4>1. PICK l \in DOMAIN data : both[j] = data[l]
          BY <2>6, <3>3 DEF From
      <4> QED BY <2>4, <3>1, <4>1
    <3> QED BY <2>10, <3>2, <3>3 DEF FromEither
  <2> QED BY <2>1, <2>18, <2>19
<1> QED BY <1>1, <1>2
-----------------------------------------------------------------------------
(* The inductive invariant.                                                *)

\* Every log that is held in memory or in a file is one of blocks found.
LogsOK ==
  /\ Log(blockLog, found) /\ Len(blockLog) <= LogCap
  /\ logFile \in [torn : BOOLEAN, data : Seq(LogEntry)] /\ Log(logFile.data, found)
  /\ \A s \in logSaves : /\ s \in [by : Block, open : BOOLEAN, data : Seq(LogEntry)]
                         /\ Log(s.data, found)

\* The node gives one answer for a block.
AnswersOK ==
  /\ answers \subseteq [hash : 1..found, conf : Conf]
  /\ \A a, b \in answers : a.hash = b.hash => a = b

VerdictsOK == verdicts \subseteq {"mature", "orphan"} \X (1..found)

\* A block whose report is under way is not in the books yet.
ReportsOK == reporting \subseteq 1..found /\ reporting \cap HashesIn(books.recent) = {}

\* The books that there are: in memory, in the file, and on their way to it.
Images == {books, booksFile} \cup copies

ImagesOK == \A bk \in Images : Books(bk, found)

\* The block b is an orphan wherever the log is read, and no answer or verdict about
\* to be applied says otherwise.
OrphanIn(s, b) == \A i \in DOMAIN s : s[i].hash = b => s[i].orphan

Settled(b) ==
  /\ OrphanIn(blockLog, b) /\ OrphanIn(logFile.data, b)
  /\ \A s \in logSaves : OrphanIn(s.data, b)
  /\ \A a \in answers : a.hash # b
  /\ <<"mature", b>> \notin verdicts

\* An orphan that was taken over before it had a confirmation will never be
\* reported mature: Confirmed would count it.
SettledBlocks == {b \in Block : Settled(b)}

EntryOK(e, settled) ==
  /\ ~e.orphan => e.conf >= 0
  /\ e.orphan /\ e.conf = 0 => e.hash \in settled

EntriesOK ==
  \A bk \in Images : \A i \in DOMAIN bk.recent : EntryOK(bk.recent[i], SettledBlocks)

\* OnBlockMature was called once at most in each life of the process, and not in
\* this one for a block that the log does not say it was called for.
ToldOK ==
  /\ told \in [Block -> Nat] /\ restarts \in Nat
  /\ \A b \in Block : told[b] <= 1 + restarts /\ (b > found => told[b] <= restarts)
  /\ \A i \in DOMAIN blockLog : ~blockLog[i].told => told[blockLog[i].hash] <= restarts

\* The second part of VerdictsReachTheBooks.
OrphanInBooks(b) ==
  \/ b \in outran
  \/ \E k \in DOMAIN books.recent : books.recent[k].hash = b /\ books.recent[k].orphan
  \/ b \notin HashesIn(books.recent) /\ b \notin reporting

OrphansReach ==
  restarts = 0 =>
    \A b \in Block : \A i \in DOMAIN blockLog :
      blockLog[i].hash = b /\ blockLog[i].orphan /\ <<"orphan", b>> \notin verdicts
        => OrphanInBooks(b)

FoundOK == found \in 0..MaxBlocks /\ chain \in [Block -> Conf]

LedgerInv ==
  /\ FoundOK /\ LogsOK /\ AnswersOK /\ VerdictsOK /\ ReportsOK
  /\ ImagesOK /\ EntriesOK /\ ToldOK /\ OrphansReach

-----------------------------------------------------------------------------
LEMMA LedgerConstants ==
  /\ MaxBlocks \in Nat /\ LogCap \in Nat /\ 0 < LogCap /\ BooksCap \in Nat /\ 0 < BooksCap
  /\ TrackTo \in Nat /\ MatureAt \in Nat /\ 0 < MatureAt /\ MatureAt < TrackTo
BY LedgerAssumption

LEMMA EmptyBooks ==
  ASSUME NEW n
  PROVE  Books(NoBooks, n)
<1>1. /\ NoBooks.recent = <<>> /\ NoBooks.total = Zero /\ NoBooks.cut = Zero
      /\ <<>> \in Seq(BookEntry) /\ DOMAIN <<>> = {} /\ Len(<<>>) = 0
    BY DEF NoBooks
<1>2. Zero \in Sums /\ Plus(Zero, Zero) = Zero
    BY DEF Zero, Sums, Plus
<1>3. PaidAt(<<>>) = {} /\ OrphansAt(<<>>) = {}
    BY <1>1 DEF PaidAt, OrphansAt
<1>4. Totals(<<>>) = Zero
    BY <1>1, <1>3, FS_EmptySet DEF Totals, Zero
<1>5. NoBooks \in [recent : Seq(BookEntry), total : Sums, cut : Sums]
    BY <1>2 DEF NoBooks
<1>6. HashesIn(NoBooks.recent) = {} /\ Distinct(NoBooks.recent)
    BY <1>1 DEF HashesIn, Distinct
<1> QED BY <1>1, <1>2, <1>4, <1>5, <1>6, LedgerConstants DEF Books

LEMMA LedgerInitInv == LedgerInit => LedgerInv
<1> SUFFICES ASSUME LedgerInit PROVE LedgerInv
    OBVIOUS
<1> USE LedgerConstants
<1>1. FoundOK
    BY DEF LedgerInit, FoundOK, Conf
<1>2. LogsOK
  <2>1. blockLog = <<>> /\ logSaves = {} /\ logFile = NoFile
      BY DEF LedgerInit
  <2>2. /\ <<>> \in Seq(LogEntry) /\ Len(<<>>) = 0
        /\ logFile \in [torn : BOOLEAN, data : Seq(LogEntry)] /\ logFile.data = <<>>
      BY <2>1 DEF NoFile
  <2> QED BY <2>1, <2>2, EmptyLog DEF LogsOK
<1>3. AnswersOK /\ VerdictsOK
    BY DEF LedgerInit, AnswersOK, VerdictsOK
<1>4. Images = {NoBooks} /\ NoBooks.recent = <<>> /\ DOMAIN <<>> = {} /\ books = NoBooks
    BY DEF LedgerInit, Images, NoBooks
<1>5. ReportsOK
    BY DEF LedgerInit, ReportsOK
<1>6. ImagesOK
    BY <1>4, EmptyBooks DEF ImagesOK
<1>7. EntriesOK
    BY <1>4 DEF EntriesOK
<1>8. ToldOK /\ OrphansReach
    BY DEF LedgerInit, ToldOK, OrphansReach
<1> QED BY <1>1, <1>2, <1>3, <1>5, <1>6, <1>7, <1>8 DEF LedgerInv

-----------------------------------------------------------------------------
(* What is true of n blocks is true of more.                               *)

LEMMA LogGrows ==
  ASSUME NEW n \in Nat, NEW s, Log(s, n)
  PROVE  Log(s, n + 1)
BY DEF Log

LEMMA BooksGrow ==
  ASSUME NEW n \in Nat, NEW bk, Books(bk, n)
  PROVE  Books(bk, n + 1)
BY DEF Books

\* The log after the answers of the node.
AppliedTo(s) ==
  [i \in DOMAIN s |->
     LET about == {a \in answers : a.hash = s[i].hash}
     IN  IF about = {} THEN s[i] ELSE Judged(s[i], CHOOSE a \in about : TRUE)]

\* Every entry of t is that of s, judged if there is an answer about it.
Answered(t, s) ==
  /\ DOMAIN t = DOMAIN s
  /\ \A i \in DOMAIN s :
       /\ t[i].hash = s[i].hash
       /\ \/ t[i] = s[i] /\ \A a \in answers : a.hash # s[i].hash
          \/ \E a \in answers : a.hash = s[i].hash /\ t[i] = Judged(s[i], a)

LEMMA JudgedEntry ==
  ASSUME NEW e \in LogEntry, NEW a, a.conf \in Conf
  PROVE  /\ Judged(e, a) \in LogEntry /\ Judged(e, a).hash = e.hash
         /\ a.conf < 0 => Judged(e, a).orphan /\ (Judged(e, a).told <=> e.told)
         /\ a.conf >= 0 => /\ Judged(e, a).orphan <=> e.orphan
                           /\ Judged(e, a).told <=> (e.told \/ a.conf >= MatureAt)
<1> USE LedgerConstants
<1>1. /\ e.hash \in Block /\ e.conf \in 0..TrackTo
      /\ e.orphan \in BOOLEAN /\ e.told \in BOOLEAN
      /\ e = [hash |-> e.hash, conf |-> e.conf, orphan |-> e.orphan, told |-> e.told]
    BY DEF LogEntry
<1>2. CASE a.conf < 0
  <2>1. Judged(e, a) = [hash |-> e.hash, conf |-> e.conf, orphan |-> TRUE, told |-> e.told]
      BY <1>1, <1>2 DEF Judged, LogEntry
  <2> QED BY <1>1, <1>2, <2>1 DEF LogEntry, Conf
<1>3. CASE a.conf >= 0
  <2>1. PICK t \in BOOLEAN : t = (e.told \/ a.conf >= MatureAt)
      OBVIOUS
  <2>2. Judged(e, a) = [hash |-> e.hash, conf |-> a.conf, orphan |-> e.orphan,
                        told |-> e.told \/ a.conf >= MatureAt]
      BY <1>3 DEF Judged, Conf
  <2>3. Judged(e, a) = [hash |-> e.hash, conf |-> a.conf, orphan |-> e.orphan, told |-> t]
      BY <2>1, <2>2, Zenon
  <2>4. Judged(e, a) \in LogEntry
      BY <1>1, <1>3, <2>1, <2>3 DEF LogEntry, Conf
  <2>5. Judged(e, a).hash = e.hash /\ Judged(e, a).orphan = e.orphan /\ Judged(e, a).told = t
      BY <2>3
  <2>6. ~(a.conf < 0)
      BY <1>3 DEF Conf
  <2> QED BY <2>1, <2>4, <2>5, <2>6, Zenon
<1> QED BY <1>2, <1>3 DEF Conf

LEMMA AppliedLog ==
  ASSUME NEW n, NEW s, Log(s, n), AnswersOK, NEW t, t = AppliedTo(s)
  PROVE  /\ Log(t, n) /\ Len(t) = Len(s) /\ DOMAIN t = DOMAIN s
         /\ Answered(t, s)
<1>1. /\ s \in Seq(LogEntry) /\ DOMAIN s = 1..Len(s) /\ Len(s) \in Nat
      /\ \A i \in DOMAIN s : s[i] \in LogEntry
    BY DEF Log
<1>2. \A a \in answers : a.conf \in Conf
    BY DEF AnswersOK
<1>3. ASSUME NEW i \in DOMAIN s
      PROVE  /\ t[i] \in LogEntry /\ t[i].hash = s[i].hash
             /\ \/ t[i] = s[i] /\ \A a \in answers : a.hash # s[i].hash
                \/ \E a \in answers : a.hash = s[i].hash /\ t[i] = Judged(s[i], a)
  <2> DEFINE about == {a \in answers : a.hash = s[i].hash}
  <2>1. t[i] = IF about = {} THEN s[i] ELSE Judged(s[i], CHOOSE a \in about : TRUE)
      BY DEF AppliedTo
  <2>2. CASE about = {}
      BY <1>1, <2>1, <2>2
  <2>3. CASE about # {}
    <3>1. PICK a \in answers : a.hash = s[i].hash /\ t[i] = Judged(s[i], a)
        BY <2>1, <2>3
    <3> QED BY <1>1, <1>2, <3>1, JudgedEntry
  <2> QED BY <2>2, <2>3
<1>4. DOMAIN t = 1..Len(s) /\ t = [i \in 1..Len(s) |-> t[i]]
    BY <1>1 DEF AppliedTo
<1>5. t \in [1..Len(s) -> LogEntry]
    BY <1>1, <1>3, <1>4
<1>6. t \in Seq(LogEntry) /\ Len(t) = Len(s)
    BY <1>1, <1>5, SeqOfFunction
<1>7. Distinct(t) /\ HashesIn(t) \subseteq 1..n
    BY <1>1, <1>3, <1>4 DEF Log, Distinct, HashesIn
<1>8. Answered(t, s)
    BY <1>1, <1>3, <1>4 DEF Answered
<1> QED BY <1>1, <1>4, <1>6, <1>7, <1>8 DEF Log

-----------------------------------------------------------------------------
(* The block log keeps what the invariant says of it.                      *)

\* The file a start reads: as it was left, or as Stop writes it.
StartFile(f) == f = logFile \/ f = [torn |-> FALSE, data |-> blockLog]

LEMMA StartFiles ==
  ASSUME LogsOK, NEW f, StartFile(f)
  PROVE  f \in [torn : BOOLEAN, data : Seq(LogEntry)] /\ Log(f.data, found)
<1>1. CASE f = logFile
    BY <1>1 DEF LogsOK
<1>2. CASE f = [torn |-> FALSE, data |-> blockLog]
  <2>1. blockLog \in Seq(LogEntry) /\ Log(blockLog, found)
      BY DEF LogsOK, Log
  <2> QED BY <1>2, <2>1
<1> QED BY <1>1, <1>2 DEF StartFile

LEMMA LogsStep == LedgerInv /\ [LedgerNext]_ledgerVars => LogsOK'
<1> SUFFICES ASSUME LedgerInv, [LedgerNext]_ledgerVars PROVE LogsOK'
    OBVIOUS
<1> USE LedgerConstants
<1>1. LogsOK /\ FoundOK /\ AnswersOK /\ found \in Nat
    BY DEF LedgerInv, FoundOK
<1>2. CASE UNCHANGED <<found, blockLog, logFile, logSaves>>
    BY <1>1, <1>2 DEF LogsOK
<1>3. CASE BlockAccepted
  <2>1. PICK e : e = [hash |-> found + 1, conf |-> 0, orphan |-> FALSE, told |-> FALSE]
      OBVIOUS
  <2>2. found' = found + 1 /\ found + 1 \in Block /\ logFile' = logFile
      BY <1>1, <1>3 DEF BlockAccepted, FoundOK, Block
  <2>3. blockLog' = Last(Append(blockLog, e), LogCap)
      BY <1>3, <2>1 DEF BlockAccepted
  <2>4. Log(Append(blockLog, e), found + 1)
      BY <1>1, <2>1, <2>2, AppendedLog DEF LogsOK
  <2>5. Log(blockLog', found') /\ Len(blockLog') <= LogCap
      BY <2>2, <2>3, <2>4, LastLog
  <2>6. logFile' \in [torn : BOOLEAN, data : Seq(LogEntry)] /\ Log(logFile'.data, found')
      BY <1>1, <2>2, LogGrows DEF LogsOK
  <2>7. ASSUME NEW s \in logSaves'
        PROVE  s \in [by : Block, open : BOOLEAN, data : Seq(LogEntry)] /\ Log(s.data, found')
    <3>1. CASE s \in logSaves
        BY <1>1, <2>2, <3>1, LogGrows DEF LogsOK
    <3>2. CASE s = [by |-> found + 1, open |-> FALSE, data |-> <<>>]
      <4>1. <<>> \in Seq(LogEntry) /\ Log(<<>>, found')
          BY EmptyLog
      <4> QED BY <2>2, <3>2, <4>1
    <3> QED BY <1>3, <2>7, <3>1, <3>2 DEF BlockAccepted
  <2> QED BY <2>5, <2>6, <2>7 DEF LogsOK
<1>4. ASSUME NEW s \in logSaves, CopyLog(s)
      PROVE  LogsOK'
  <2>1. blockLog \in Seq(LogEntry) /\ s.by \in Block /\ logFile.data \in Seq(LogEntry)
      BY <1>1 DEF LogsOK, Log
  <2>2. UNCHANGED <<found, blockLog>>
      BY <1>4 DEF CopyLog
  <2>3. logFile' \in [torn : BOOLEAN, data : Seq(LogEntry)] /\ logFile'.data = logFile.data
      BY <1>4, <2>1 DEF CopyLog
  <2>4. ASSUME NEW t \in logSaves'
        PROVE  t \in [by : Block, open : BOOLEAN, data : Seq(LogEntry)] /\ Log(t.data, found')
    <3>1. CASE t \in logSaves
        BY <1>1, <2>2, <3>1 DEF LogsOK
    <3>2. CASE t = [by |-> s.by, open |-> TRUE, data |-> blockLog]
      <4>1. t \in [by : Block, open : BOOLEAN, data : Seq(LogEntry)] /\ t.data = blockLog
          BY <2>1, <3>2
      <4> QED BY <1>1, <2>2, <4>1 DEF LogsOK
    <3> QED BY <1>4, <2>4, <3>1, <3>2 DEF CopyLog
  <2> QED BY <1>1, <2>2, <2>3, <2>4 DEF LogsOK
<1>5. ASSUME NEW s \in logSaves, WriteLog(s)
      PROVE  LogsOK'
  <2>1. s.data \in Seq(LogEntry) /\ Log(s.data, found)
      BY <1>1 DEF LogsOK
  <2>2. UNCHANGED <<found, blockLog>> /\ logSaves' \subseteq logSaves
      BY <1>5 DEF WriteLog
  <2>3. logFile' \in [torn : BOOLEAN, data : Seq(LogEntry)] /\ logFile'.data = s.data
      BY <1>5, <2>1 DEF WriteLog
  <2> QED BY <1>1, <2>1, <2>2, <2>3 DEF LogsOK
<1>6. CASE ApplyAnswers
  <2>1. blockLog' = AppliedTo(blockLog) /\ UNCHANGED <<found, logFile, logSaves>>
      BY <1>6 DEF ApplyAnswers, AppliedTo
  <2>2. Log(blockLog', found) /\ Len(blockLog') = Len(blockLog)
      BY <1>1, <2>1, AppliedLog DEF LogsOK
  <2> QED BY <1>1, <2>1, <2>2 DEF LogsOK
<1>7. ASSUME NEW f, StartFile(f), StartFrom(f)
      PROVE  LogsOK'
  <2>1. /\ blockLog' = LoadedLog(f) /\ logFile' = f /\ logSaves' = {} /\ found' = found
      BY <1>7 DEF StartFrom
  <2>2. f \in [torn : BOOLEAN, data : Seq(LogEntry)] /\ Log(f.data, found)
      BY <1>1, <1>7, StartFiles
  <2>3. Log(LoadedLog(f), found) /\ Len(LoadedLog(f)) <= LogCap
      BY <2>2, LoadedLogs
  <2> QED BY <2>1, <2>2, <2>3 DEF LogsOK
<1>8. CASE CrashAndStart \/ StopAndStart
    BY <1>7, <1>8 DEF CrashAndStart, StopAndStart, StartFile
<1>9. CASE UNCHANGED ledgerVars
    BY <1>2, <1>9 DEF ledgerVars, logVars
<1>10. ASSUME NEW b \in Block, Deepen(b) \/ Reorg(b) \/ RecordBlock(b)
       PROVE  LogsOK'
    BY <1>2, <1>10 DEF Deepen, Reorg, RecordBlock, logVars
<1>11. CASE Check
    BY <1>2, <1>11 DEF Check, logVars
<1>12. ASSUME NEW v \in verdicts, Verdict(v)
       PROVE  LogsOK'
    BY <1>2, <1>12 DEF Verdict, logVars
<1>13. ASSUME NEW c \in copies, WriteBooks(c)
       PROVE  LogsOK'
    BY <1>2, <1>13 DEF WriteBooks, logVars
<1> QED BY <1>3, <1>4, <1>5, <1>6, <1>8, <1>9, <1>10, <1>11, <1>12, <1>13 DEF LedgerNext

LEMMA FoundStep == LedgerInv /\ [LedgerNext]_ledgerVars => FoundOK'
<1> SUFFICES ASSUME LedgerInv, [LedgerNext]_ledgerVars PROVE FoundOK'
    OBVIOUS
<1> USE LedgerConstants
<1>1. FoundOK
    BY DEF LedgerInv
<1>2. CASE UNCHANGED <<chain, found>>
    BY <1>1, <1>2 DEF FoundOK
<1>3. CASE BlockAccepted
    BY <1>1, <1>3 DEF BlockAccepted, FoundOK
<1>4. ASSUME NEW b \in Block, Deepen(b)
      PROVE  FoundOK'
    BY <1>1, <1>4 DEF Deepen, FoundOK, Conf
<1>5. ASSUME NEW b \in Block, Reorg(b)
      PROVE  FoundOK'
    BY <1>1, <1>5 DEF Reorg, FoundOK, Conf
<1>6. ASSUME NEW b \in Block, RecordBlock(b)
      PROVE  FoundOK'
    BY <1>2, <1>6 DEF RecordBlock
<1>7. CASE Check \/ ApplyAnswers
    BY <1>2, <1>7 DEF Check, ApplyAnswers
<1>8. ASSUME NEW s \in logSaves, CopyLog(s) \/ WriteLog(s)
      PROVE  FoundOK'
    BY <1>2, <1>8 DEF CopyLog, WriteLog
<1>9. ASSUME NEW v \in verdicts, Verdict(v)
      PROVE  FoundOK'
    BY <1>2, <1>9 DEF Verdict
<1>10. ASSUME NEW c \in copies, WriteBooks(c)
       PROVE  FoundOK'
    BY <1>2, <1>10 DEF WriteBooks
<1>11. CASE CrashAndStart \/ StopAndStart
    BY <1>2, <1>11 DEF CrashAndStart, StopAndStart, StartFrom
<1>12. CASE UNCHANGED ledgerVars
    BY <1>2, <1>12 DEF ledgerVars
<1> QED BY <1>3, <1>4, <1>5, <1>6, <1>7, <1>8, <1>9, <1>10, <1>11, <1>12 DEF LedgerNext

-----------------------------------------------------------------------------
(* The confirmation tracker.                                               *)

LEMMA AnswersStep == LedgerInv /\ [LedgerNext]_ledgerVars => AnswersOK'
<1> SUFFICES ASSUME LedgerInv, [LedgerNext]_ledgerVars PROVE AnswersOK'
    OBVIOUS
<1> USE LedgerConstants
<1>1. FoundOK /\ LogsOK /\ AnswersOK /\ found \in 0..MaxBlocks
    BY DEF LedgerInv, FoundOK
<1>2. CASE UNCHANGED <<found, answers>>
    BY <1>1, <1>2 DEF AnswersOK
<1>3. CASE BlockAccepted
    BY <1>1, <1>3 DEF BlockAccepted, AnswersOK, trackVars
<1>4. CASE Check
  <2>1. PICK asked \in SUBSET {blockLog[i].hash : i \in {k \in DOMAIN blockLog :
                 ~blockLog[k].orphan /\ blockLog[k].conf < TrackTo}} :
          answers' = {[hash |-> b, conf |-> chain[b]] : b \in asked}
      BY <1>4 DEF Check
  <2>2. asked \subseteq 1..found /\ asked \subseteq Block
      BY <1>1, <2>1 DEF LogsOK, Log, HashesIn, Block
  <2>3. \A b \in asked : chain[b] \in Conf
      BY <1>1, <2>2 DEF FoundOK
  <2>4. found' = found
      BY <1>4 DEF Check
  <2>5. ASSUME NEW a \in answers'
        PROVE  /\ a \in [hash : 1..found, conf : Conf]
               /\ \A b \in answers' : a.hash = b.hash => a = b
    <3>1. PICK h \in asked : a = [hash |-> h, conf |-> chain[h]]
        BY <2>1
    <3>2. h \in 1..found /\ chain[h] \in Conf
        BY <2>2, <2>3
    <3>3. ASSUME NEW b \in answers', a.hash = b.hash PROVE a = b
      <4>1. PICK k \in asked : b = [hash |-> k, conf |-> chain[k]]
          BY <2>1
      <4>2. h = k
          BY <3>1, <3>3, <4>1
      <4> QED BY <3>1, <4>1, <4>2
    <3> QED BY <3>1, <3>2, <3>3
  <2> QED BY <2>4, <2>5 DEF AnswersOK
<1>5. CASE answers' = {}
    BY <1>5 DEF AnswersOK
<1>6. CASE ApplyAnswers
    BY <1>5, <1>6 DEF ApplyAnswers
<1>7. CASE CrashAndStart \/ StopAndStart
    BY <1>5, <1>7 DEF CrashAndStart, StopAndStart, StartFrom
<1>8. ASSUME NEW b \in Block, Deepen(b) \/ Reorg(b) \/ RecordBlock(b)
      PROVE  AnswersOK'
    BY <1>2, <1>8 DEF Deepen, Reorg, RecordBlock, trackVars
<1>9. ASSUME NEW s \in logSaves, CopyLog(s) \/ WriteLog(s)
      PROVE  AnswersOK'
    BY <1>2, <1>9 DEF CopyLog, WriteLog, trackVars
<1>10. ASSUME NEW v \in verdicts, Verdict(v)
       PROVE  AnswersOK'
    BY <1>2, <1>10 DEF Verdict
<1>11. ASSUME NEW c \in copies, WriteBooks(c)
       PROVE  AnswersOK'
    BY <1>2, <1>11 DEF WriteBooks, trackVars
<1>12. CASE UNCHANGED ledgerVars
    BY <1>2, <1>12 DEF ledgerVars, trackVars
<1> QED BY <1>3, <1>4, <1>6, <1>7, <1>8, <1>9, <1>10, <1>11, <1>12 DEF LedgerNext

\* The blocks that mature and that are orphaned when the answers are applied.
Due == {b \in Block : \E i \in DOMAIN blockLog : \E a \in answers :
          blockLog[i].hash = b /\ a.hash = b /\ Matures(blockLog[i], a)}
Orphaning == {b \in Block : \E i \in DOMAIN blockLog : \E a \in answers :
                blockLog[i].hash = b /\ a.hash = b /\ Orphans(blockLog[i], a)}

LEMMA AnswersApplied ==
  ASSUME LogsOK, FoundOK, ApplyAnswers
  PROVE  /\ blockLog' = AppliedTo(blockLog)
         /\ verdicts' = verdicts \cup {<<"mature", b>> : b \in Due}
                                 \cup {<<"orphan", b>> : b \in Orphaning}
         /\ told' = [b \in Block |-> told[b] + (IF b \in Due THEN 1 ELSE 0)]
         /\ Due \subseteq 1..found /\ Orphaning \subseteq 1..found
<1>1. Due \subseteq HashesIn(blockLog) /\ Orphaning \subseteq HashesIn(blockLog)
    BY DEF Due, Orphaning, HashesIn
<1>2. HashesIn(blockLog) \subseteq 1..found
    BY DEF LogsOK, Log
<1> QED BY <1>1, <1>2 DEF ApplyAnswers, AppliedTo, Due, Orphaning

LEMMA VerdictsStep == LedgerInv /\ [LedgerNext]_ledgerVars => VerdictsOK'
<1> SUFFICES ASSUME LedgerInv, [LedgerNext]_ledgerVars PROVE VerdictsOK'
    OBVIOUS
<1> USE LedgerConstants
<1>1. FoundOK /\ LogsOK /\ VerdictsOK /\ found \in 0..MaxBlocks
    BY DEF LedgerInv, FoundOK
<1>2. CASE found' = found /\ verdicts' \subseteq verdicts
    BY <1>1, <1>2 DEF VerdictsOK
<1>3. CASE BlockAccepted
    BY <1>1, <1>3 DEF BlockAccepted, VerdictsOK, trackVars
<1>4. CASE ApplyAnswers
  <2>1. found' = found
      BY <1>4 DEF ApplyAnswers
  <2> QED BY <1>1, <1>4, <2>1, AnswersApplied DEF VerdictsOK
<1>5. CASE Check
    BY <1>2, <1>5 DEF Check
<1>6. CASE CrashAndStart \/ StopAndStart
    BY <1>2, <1>6 DEF CrashAndStart, StopAndStart, StartFrom
<1>7. ASSUME NEW b \in Block, Deepen(b) \/ Reorg(b) \/ RecordBlock(b)
      PROVE  VerdictsOK'
    BY <1>2, <1>7 DEF Deepen, Reorg, RecordBlock, trackVars
<1>8. ASSUME NEW s \in logSaves, CopyLog(s) \/ WriteLog(s)
      PROVE  VerdictsOK'
    BY <1>2, <1>8 DEF CopyLog, WriteLog, trackVars
<1>9. ASSUME NEW v \in verdicts, Verdict(v)
      PROVE  VerdictsOK'
    BY <1>2, <1>9 DEF Verdict
<1>10. ASSUME NEW c \in copies, WriteBooks(c)
       PROVE  VerdictsOK'
    BY <1>2, <1>10 DEF WriteBooks, trackVars
<1>11. CASE UNCHANGED ledgerVars
    BY <1>2, <1>11 DEF ledgerVars, trackVars
<1> QED BY <1>3, <1>4, <1>5, <1>6, <1>7, <1>8, <1>9, <1>10, <1>11 DEF LedgerNext

-----------------------------------------------------------------------------
(* An orphan that was taken over stays one.                                *)

LEMMA FromKeepsOrphans ==
  ASSUME NEW s, NEW t, NEW b, From(t, s), OrphanIn(s, b)
  PROVE  OrphanIn(t, b)
BY DEF From, OrphanIn

LEMMA SettledStays ==
  ASSUME LedgerInv, [LedgerNext]_ledgerVars, NEW b \in 1..found, Settled(b)
  PROVE  Settled(b)'
<1> USE LedgerConstants
<1>1. FoundOK /\ LogsOK /\ AnswersOK /\ found \in Nat
    BY DEF LedgerInv, FoundOK
<1>2. /\ OrphanIn(blockLog, b) /\ OrphanIn(logFile.data, b)
      /\ \A s \in logSaves : OrphanIn(s.data, b)
      /\ \A a \in answers : a.hash # b
      /\ <<"mature", b>> \notin verdicts
    BY DEF Settled
<1>3. OrphanIn(<<>>, b)
    BY DEF OrphanIn
<1>4. CASE UNCHANGED <<blockLog, logFile, logSaves, answers>> /\ verdicts' \subseteq verdicts
    BY <1>2, <1>4 DEF Settled
<1>5. CASE BlockAccepted
  <2>1. PICK e : e = [hash |-> found + 1, conf |-> 0, orphan |-> FALSE, told |-> FALSE]
      OBVIOUS
  <2>2. /\ blockLog' = Last(Append(blockLog, e), LogCap)
        /\ logSaves' = logSaves \cup {[by |-> found + 1, open |-> FALSE, data |-> <<>>]}
        /\ UNCHANGED <<logFile, answers, verdicts>>
      BY <1>5, <2>1 DEF BlockAccepted, trackVars
  <2>3. found + 1 \in Block
      BY <1>1, <1>5 DEF BlockAccepted, Block
  <2>4. /\ Log(Append(blockLog, e), found + 1)
        /\ OneMore(Append(blockLog, e), blockLog, e)
    <3>1. Log(blockLog, found)
        BY <1>1 DEF LogsOK
    <3> QED BY <1>1, <2>1, <2>3, <3>1, AppendedLog
  <2>5. e.hash # b
      BY <1>1, <2>1
  <2>6. OrphanIn(Append(blockLog, e), b)
      BY <1>2, <2>4, <2>5 DEF OrphanIn, OneMore
  <2>7. OrphanIn(blockLog', b)
      BY <2>2, <2>4, <2>6, LastLog, FromKeepsOrphans
  <2> QED BY <1>2, <1>3, <2>2, <2>7 DEF Settled
<1>6. ASSUME NEW s \in logSaves, CopyLog(s)
      PROVE  Settled(b)'
  <2>1. /\ UNCHANGED <<blockLog, answers, verdicts>> /\ logFile'.data = logFile.data
        /\ \A t \in logSaves' : t \in logSaves \/ t.data = blockLog
      BY <1>6 DEF CopyLog, trackVars
  <2> QED BY <1>2, <2>1 DEF Settled
<1>7. ASSUME NEW s \in logSaves, WriteLog(s)
      PROVE  Settled(b)'
  <2>1. /\ UNCHANGED <<blockLog, answers, verdicts>> /\ logFile'.data = s.data
        /\ logSaves' \subseteq logSaves
      BY <1>7 DEF WriteLog, trackVars
  <2> QED BY <1>2, <2>1 DEF Settled
<1>8. CASE Check
  <2>1. PICK asked \in SUBSET {blockLog[i].hash : i \in {k \in DOMAIN blockLog :
                 ~blockLog[k].orphan /\ blockLog[k].conf < TrackTo}} :
          answers' = {[hash |-> c, conf |-> chain[c]] : c \in asked}
      BY <1>8 DEF Check
  <2>2. b \notin asked
      BY <1>2, <2>1 DEF OrphanIn
  <2>3. \A a \in answers' : a.hash # b
      BY <2>1, <2>2
  <2>4. UNCHANGED <<blockLog, logFile, logSaves, verdicts>>
      BY <1>8 DEF Check, logVars
  <2> QED BY <1>2, <2>3, <2>4 DEF Settled
<1>9. CASE ApplyAnswers
  <2>1. UNCHANGED <<logFile, logSaves>> /\ answers' = {}
      BY <1>9 DEF ApplyAnswers
  <2>2. b \notin Due
      BY <1>2 DEF Due
  <2>3. <<"mature", b>> \notin verdicts'
      BY <1>1, <1>2, <1>9, <2>2, AnswersApplied
  <2>4. blockLog' = AppliedTo(blockLog)
      BY <1>1, <1>9, AnswersApplied
  <2>5. OrphanIn(blockLog', b)
    <3>1. Log(blockLog, found)
        BY <1>1 DEF LogsOK
    <3>2. ASSUME NEW i \in DOMAIN blockLog', blockLog'[i].hash = b
          PROVE  blockLog'[i] = blockLog[i] /\ blockLog[i].orphan
      <4>1. /\ i \in DOMAIN blockLog /\ blockLog[i].hash = b
            /\ \/ blockLog'[i] = blockLog[i]
               \/ \E a \in answers : a.hash = b
        <5>1. Answered(blockLog', blockLog)
            BY <1>1, <2>4, <3>1, AppliedLog
        <5> QED BY <3>2, <5>1 DEF Answered
      <4> QED BY <1>2, <4>1 DEF OrphanIn
    <3> QED BY <3>2 DEF OrphanIn
  <2> QED BY <1>2, <2>1, <2>3, <2>5 DEF Settled
<1>10. ASSUME NEW f, StartFile(f), StartFrom(f)
       PROVE  Settled(b)'
  <2>1. /\ blockLog' = LoadedLog(f) /\ logFile' = f /\ logSaves' = {}
        /\ answers' = {} /\ verdicts' = {}
      BY <1>10 DEF StartFrom
  <2>2. OrphanIn(f.data, b)
      BY <1>2, <1>10 DEF StartFile
  <2>3. OrphanIn(LoadedLog(f), b)
      BY <1>1, <1>10, <2>2, StartFiles, LoadedLogs, FromKeepsOrphans
  <2> QED BY <2>1, <2>2, <2>3 DEF Settled
<1>11. CASE CrashAndStart \/ StopAndStart
    BY <1>10, <1>11 DEF CrashAndStart, StopAndStart, StartFile
<1>12. CASE UNCHANGED ledgerVars
    BY <1>4, <1>12 DEF ledgerVars, logVars, trackVars
<1>13. ASSUME NEW c \in Block, Deepen(c) \/ Reorg(c) \/ RecordBlock(c)
       PROVE  Settled(b)'
    BY <1>4, <1>13 DEF Deepen, Reorg, RecordBlock, logVars, trackVars
<1>14. ASSUME NEW v \in verdicts, Verdict(v)
       PROVE  Settled(b)'
    BY <1>4, <1>14 DEF Verdict, logVars
<1>15. ASSUME NEW c \in copies, WriteBooks(c)
       PROVE  Settled(b)'
    BY <1>4, <1>15 DEF WriteBooks, logVars, trackVars
<1> QED BY <1>5, <1>6, <1>7, <1>8, <1>9, <1>11, <1>12, <1>13, <1>14, <1>15 DEF LedgerNext

-----------------------------------------------------------------------------
(* The changes of the books.                                               *)

LEMMA BlockReported ==
  ASSUME LedgerInv, NEW b \in Block, RecordBlock(b)
  PROVE  /\ Books(books', found) /\ b \in 1..found /\ b \notin HashesIn(books.recent)
         /\ FreshOrFrom(books'.recent, books.recent, b)
<1> USE LedgerConstants
<1>1. found \in 0..MaxBlocks /\ Books(books, found)
    BY DEF LedgerInv, FoundOK, ImagesOK, Images
<1>2. b \in 1..found /\ b \notin HashesIn(books.recent)
    BY DEF LedgerInv, ReportsOK, RecordBlock
<1>3. books' = Reported(books, b)
    BY DEF RecordBlock, Reported, Fresh
<1> QED BY <1>1, <1>2, <1>3, RecordedBooks

\* The entries of t are those of s, but for one the verdict v is about.
Amends(t, s, v) ==
  /\ DOMAIN t = DOMAIN s
  /\ \A i \in DOMAIN s :
       /\ t[i].hash = s[i].hash /\ (s[i].orphan => t[i].orphan)
       /\ \/ t[i] = s[i]
          \/ t[i].conf = MatureAt
          \/ t[i].conf = -1 /\ t[i].orphan

\* The block b is held for an orphan in the list s.
HeldForOrphan(s, b) == \E k \in DOMAIN s : s[k].hash = b /\ s[k].orphan

\* The verdict v has had its effect.
Arrived(v) ==
  v[1] = "orphan" => v[2] \in outran \/ HeldForOrphan(books.recent, v[2])

LEMMA EntryChanged ==
  ASSUME NEW s \in Seq(BookEntry), NEW i \in DOMAIN s, NEW conf, NEW orphan, NEW v,
         NEW t, t = [s EXCEPT ![i] = [hash |-> s[i].hash, conf |-> conf, orphan |-> orphan]],
         conf = MatureAt \/ (conf = -1 /\ orphan), s[i].orphan => orphan
  PROVE  /\ Amends(t, s, v)
         /\ t[i].hash = s[i].hash /\ t[i].orphan = orphan /\ i \in DOMAIN t
<1>1. PICK e : e = [hash |-> s[i].hash, conf |-> conf, orphan |-> orphan]
    OBVIOUS
<1>2. e.hash = s[i].hash /\ e.conf = conf /\ e.orphan = orphan
    BY <1>1
<1>3. DOMAIN t = DOMAIN s /\ t[i] = e /\ \A k \in DOMAIN s : k # i => t[k] = s[k]
    BY <1>1
<1> QED BY <1>2, <1>3 DEF Amends

LEMMA VerdictGiven ==
  ASSUME LedgerInv, NEW v \in verdicts, Verdict(v)
  PROVE  /\ Books(books', found) /\ Amends(books'.recent, books.recent, v)
         /\ Arrived(v)' /\ outran \subseteq outran'
<1> USE LedgerConstants
<1>1. /\ found \in 0..MaxBlocks /\ Books(books, found)
      /\ books.recent \in Seq(BookEntry)
    BY DEF LedgerInv, FoundOK, ImagesOK, Images, Books
<1>2. v[1] \in {"mature", "orphan"} /\ v = <<v[1], v[2]>>
    BY DEF LedgerInv, VerdictsOK
<1>3. PICK i : i = Where(books.recent, v[2])
    OBVIOUS
<1>4. outran \subseteq outran'
    BY DEF Verdict
<1>5. CASE v[2] \notin HashesIn(books.recent)
  <2>1. books' = books
      BY <1>5 DEF Verdict
  <2>2. v[1] = "orphan" => v[2] \in outran'
      BY <1>5 DEF Verdict
  <2>3. Amends(books.recent, books.recent, v)
      BY DEF Amends
  <2> QED BY <1>1, <1>4, <2>1, <2>2, <2>3 DEF Arrived
<1>6. CASE v[2] \in HashesIn(books.recent)
  <2>1. i \in DOMAIN books.recent /\ books.recent[i].hash = v[2]
      BY <1>3, <1>6 DEF Where, HashesIn
  <2>2. EntryOK(books.recent[i], SettledBlocks) /\ books.recent[i] \in BookEntry
      BY <1>1, <2>1 DEF LedgerInv, EntriesOK, Images
  <2>3. books.recent[i].orphan \in BOOLEAN /\ (~books.recent[i].orphan => books.recent[i].conf >= 0)
      BY <2>2 DEF BookEntry, EntryOK
  <2>4. CASE v[1] = "mature"
    <3>1. books' = Confirmed(i, MatureAt)
        BY <1>3, <1>6, <2>4 DEF Verdict
    <3>2. ~(books.recent[i].orphan /\ books.recent[i].conf = 0)
        BY <1>2, <2>1, <2>2, <2>4 DEF EntryOK, SettledBlocks, Settled
    <3>3. MatureAt \in Conf /\ MatureAt > 0
        BY DEF Conf
    <3>4. /\ Books(Confirmed(i, MatureAt), found)
          /\ Confirmed(i, MatureAt).recent = [books.recent EXCEPT ![i] =
               [hash |-> books.recent[i].hash, conf |-> MatureAt,
                orphan |-> books.recent[i].orphan]]
        BY <1>1, <2>1, <2>3, <3>2, <3>3, ConfirmedBooks
    <3>5. Amends(books'.recent, books.recent, v)
        BY <1>1, <2>1, <3>1, <3>4, EntryChanged
    <3> QED BY <1>4, <2>4, <3>1, <3>4, <3>5 DEF Arrived
  <2>5. CASE v[1] # "mature" /\ books.recent[i].orphan
    <3>0. PICK c : c = -1
        OBVIOUS
    <3>1. books' = Confirmed(i, c)
        BY <1>3, <1>6, <2>5, <3>0 DEF Verdict
    <3>2. c \in Conf
        BY <3>0 DEF Conf
    <3>a. /\ books.recent[i].orphan \/ c > 0
          /\ ~(books.recent[i].orphan /\ books.recent[i].conf = 0 /\ c > 0)
          /\ ~books.recent[i].orphan => books.recent[i].conf >= 0
        BY <2>3, <2>5, <3>0
    <3>b. /\ c = MatureAt \/ (c = -1 /\ books.recent[i].orphan)
          /\ books.recent[i].orphan => books.recent[i].orphan
        BY <2>5, <3>0
    <3>3. /\ Books(Confirmed(i, c), found)
          /\ Confirmed(i, c).recent = [books.recent EXCEPT ![i] =
               [hash |-> books.recent[i].hash, conf |-> c,
                orphan |-> books.recent[i].orphan]]
        BY <1>1, <2>1, <3>2, <3>a, ConfirmedBooks
    <3>4. /\ Amends(books'.recent, books.recent, v)
          /\ books'.recent[i].hash = books.recent[i].hash
          /\ books'.recent[i].orphan = books.recent[i].orphan
          /\ i \in DOMAIN books'.recent
        BY <1>1, <2>1, <3>1, <3>3, <3>b, EntryChanged
    <3>5. HeldForOrphan(books'.recent, v[2])
        BY <2>1, <2>5, <3>4 DEF HeldForOrphan
    <3> QED BY <1>4, <3>1, <3>3, <3>4, <3>5 DEF Arrived
  <2>6. CASE v[1] # "mature" /\ ~books.recent[i].orphan
    <3>1. books' = Orphaned(i)
        BY <1>3, <1>6, <2>6 DEF Verdict
    <3>2. /\ Books(Orphaned(i), found)
          /\ Orphaned(i).recent = [books.recent EXCEPT ![i] =
               [hash |-> books.recent[i].hash, conf |-> -1, orphan |-> TRUE]]
        BY <1>1, <2>1, <2>6, OrphanedBooks
    <3>3. /\ Amends(books'.recent, books.recent, v)
          /\ books'.recent[i].hash = books.recent[i].hash
          /\ books'.recent[i].orphan = TRUE
          /\ i \in DOMAIN books'.recent
        BY <1>1, <2>1, <3>1, <3>2, EntryChanged
    <3>4. HeldForOrphan(books'.recent, v[2])
        BY <2>1, <3>3 DEF HeldForOrphan
    <3> QED BY <1>4, <3>1, <3>2, <3>3, <3>4 DEF Arrived
  <2> QED BY <2>4, <2>5, <2>6
<1> QED BY <1>5, <1>6

LEMMA BooksImported ==
  ASSUME LedgerInv, NEW f, StartFile(f), StartFrom(f)
  PROVE  /\ Books(books', found)
         /\ \A i \in DOMAIN books'.recent :
              \/ \E k \in DOMAIN booksFile.recent : books'.recent[i] = booksFile.recent[k]
              \/ \E k \in DOMAIN LoadedLog(f) : Took(books'.recent[i], LoadedLog(f)[k])
<1>1. found \in 0..MaxBlocks /\ Books(booksFile, found)
    BY DEF LedgerInv, FoundOK, ImagesOK, Images
<1>2. Log(f.data, found)
    BY StartFiles DEF LedgerInv
<1>3. books' = Imported(booksFile, f)
    BY DEF StartFrom
<1> QED BY <1>1, <1>2, <1>3, LedgerConstants, ImportedBooks

LEMMA AmendedHashes ==
  ASSUME NEW s, NEW t, NEW v, Amends(t, s, v)
  PROVE  HashesIn(t) = HashesIn(s)
BY DEF Amends, HashesIn

LEMMA ReportsStep == LedgerInv /\ [LedgerNext]_ledgerVars => ReportsOK'
<1> SUFFICES ASSUME LedgerInv, [LedgerNext]_ledgerVars PROVE ReportsOK'
    OBVIOUS
<1>1. FoundOK /\ ReportsOK /\ Books(books, found) /\ found \in 0..MaxBlocks
    BY DEF LedgerInv, FoundOK, ImagesOK, Images
<1>2. CASE UNCHANGED <<found, reporting, books>>
    BY <1>1, <1>2 DEF ReportsOK
<1>3. CASE BlockAccepted
  <2>1. /\ found' = found + 1 /\ reporting' = reporting \cup {found + 1} /\ books' = books
      BY <1>3 DEF BlockAccepted, bookVars
  <2>2. found + 1 \notin HashesIn(books.recent)
      BY <1>1, LedgerConstants DEF Books
  <2> QED BY <1>1, <2>1, <2>2, LedgerConstants DEF ReportsOK
<1>4. ASSUME NEW b \in Block, RecordBlock(b)
      PROVE  ReportsOK'
  <2>1. reporting' = reporting \ {b} /\ found' = found
      BY <1>4 DEF RecordBlock
  <2>2. FreshOrFrom(books'.recent, books.recent, b)
      BY <1>4, BlockReported
  <2>3. HashesIn(books'.recent) \subseteq HashesIn(books.recent) \cup {b}
      BY <2>2 DEF FreshOrFrom, Fresh, HashesIn
  <2> QED BY <1>1, <2>1, <2>3 DEF ReportsOK
<1>5. ASSUME NEW v \in verdicts, Verdict(v)
      PROVE  ReportsOK'
  <2>1. reporting' = reporting /\ found' = found
      BY <1>5 DEF Verdict, logVars
  <2>2. HashesIn(books'.recent) = HashesIn(books.recent)
      BY <1>5, VerdictGiven, AmendedHashes
  <2> QED BY <1>1, <2>1, <2>2 DEF ReportsOK
<1>6. CASE CrashAndStart \/ StopAndStart
    BY <1>6 DEF CrashAndStart, StopAndStart, StartFrom, ReportsOK
<1>7. CASE Check \/ ApplyAnswers
    BY <1>2, <1>7 DEF Check, ApplyAnswers, logVars, bookVars
<1>8. ASSUME NEW b \in Block, Deepen(b) \/ Reorg(b)
      PROVE  ReportsOK'
    BY <1>2, <1>8 DEF Deepen, Reorg, logVars, bookVars
<1>9. ASSUME NEW s \in logSaves, CopyLog(s) \/ WriteLog(s)
      PROVE  ReportsOK'
    BY <1>2, <1>9 DEF CopyLog, WriteLog, bookVars
<1>10. ASSUME NEW c \in copies, WriteBooks(c)
       PROVE  ReportsOK'
    BY <1>2, <1>10 DEF WriteBooks, logVars
<1>11. CASE UNCHANGED ledgerVars
    BY <1>2, <1>11 DEF ledgerVars, logVars, bookVars
<1> QED BY <1>3, <1>4, <1>5, <1>6, <1>7, <1>8, <1>9, <1>10, <1>11 DEF LedgerNext

-----------------------------------------------------------------------------
(* All images of the books add up.                                         *)

\* An image after the step is one of before, or the books.
ImagesStay == \A bk \in Images' : bk \in Images \/ bk = books'

LEMMA ImagesOfBefore ==
  ASSUME LedgerInv, [LedgerNext]_ledgerVars
  PROVE  ImagesStay
<1>1. CASE UNCHANGED bookVars
    BY <1>1 DEF bookVars, ImagesStay, Images
<1>2. CASE UNCHANGED booksFile /\ copies' \subseteq copies \cup {books'}
    BY <1>2 DEF ImagesStay, Images
<1>3. ASSUME NEW b \in Block, Deepen(b) \/ Reorg(b)
      PROVE  ImagesStay
    BY <1>1, <1>3 DEF Deepen, Reorg
<1>4. CASE BlockAccepted \/ Check \/ ApplyAnswers
    BY <1>1, <1>4 DEF BlockAccepted, Check, ApplyAnswers
<1>5. ASSUME NEW s \in logSaves, CopyLog(s) \/ WriteLog(s)
      PROVE  ImagesStay
    BY <1>1, <1>5 DEF CopyLog, WriteLog
<1>6. ASSUME NEW b \in Block, RecordBlock(b)
      PROVE  ImagesStay
    BY <1>2, <1>6 DEF RecordBlock
<1>7. ASSUME NEW v \in verdicts, Verdict(v)
      PROVE  ImagesStay
    BY <1>2, <1>7 DEF Verdict
<1>8. ASSUME NEW c \in copies, WriteBooks(c)
      PROVE  ImagesStay
    BY <1>8 DEF WriteBooks, ImagesStay, Images
<1>9. CASE CrashAndStart \/ StopAndStart
    BY <1>2, <1>9 DEF CrashAndStart, StopAndStart, StartFrom
<1>10. CASE UNCHANGED ledgerVars
    BY <1>1, <1>10 DEF ledgerVars, bookVars
<1> QED BY <1>3, <1>4, <1>5, <1>6, <1>7, <1>8, <1>9, <1>10 DEF LedgerNext

\* The ways in which the books change: not at all, with a report, with a verdict,
\* or at a start.
LEMMA BooksChange ==
  ASSUME LedgerInv, [LedgerNext]_ledgerVars
  PROVE  \/ books' = books
         \/ \E b \in Block : RecordBlock(b)
         \/ \E v \in verdicts : Verdict(v)
         \/ \E f : StartFile(f) /\ StartFrom(f)
<1>1. CASE UNCHANGED bookVars
    BY <1>1 DEF bookVars
<1>2. ASSUME NEW b \in Block, Deepen(b) \/ Reorg(b)
      PROVE  books' = books
    BY <1>1, <1>2 DEF Deepen, Reorg, bookVars
<1>3. CASE BlockAccepted \/ Check \/ ApplyAnswers
    BY <1>1, <1>3 DEF BlockAccepted, Check, ApplyAnswers, bookVars
<1>4. ASSUME NEW s \in logSaves, CopyLog(s) \/ WriteLog(s)
      PROVE  books' = books
    BY <1>1, <1>4 DEF CopyLog, WriteLog, bookVars
<1>5. ASSUME NEW c \in copies, WriteBooks(c)
      PROVE  books' = books
    BY <1>5 DEF WriteBooks
<1>6. CASE CrashAndStart \/ StopAndStart
    BY <1>6 DEF CrashAndStart, StopAndStart, StartFile
<1>7. CASE UNCHANGED ledgerVars
    BY <1>1, <1>7 DEF ledgerVars, bookVars
<1> QED BY <1>2, <1>3, <1>4, <1>5, <1>6, <1>7 DEF LedgerNext

LEMMA FoundGrows ==
  ASSUME LedgerInv, [LedgerNext]_ledgerVars
  PROVE  (found' = found \/ found' = found + 1) /\ found \in Nat
<1>1. found \in Nat
    BY LedgerConstants DEF LedgerInv, FoundOK
<1> QED BY <1>1 DEF LedgerNext, Deepen, Reorg, RecordBlock, BlockAccepted, Check, ApplyAnswers,
           CopyLog, WriteLog, Verdict, WriteBooks, CrashAndStart, StopAndStart, StartFrom,
           ledgerVars

LEMMA ImagesStep == LedgerInv /\ [LedgerNext]_ledgerVars => ImagesOK'
<1> SUFFICES ASSUME LedgerInv, [LedgerNext]_ledgerVars PROVE ImagesOK'
    OBVIOUS
<1>1. ASSUME NEW bk, Books(bk, found)
      PROVE  Books(bk, found')
    BY <1>1, FoundGrows, BooksGrow
<1>2. Books(books', found')
  <2>1. CASE books' = books
      BY <1>1, <2>1 DEF LedgerInv, ImagesOK, Images
  <2>2. ASSUME NEW b \in Block, RecordBlock(b)
        PROVE  Books(books', found')
      BY <1>1, <2>2, BlockReported
  <2>3. ASSUME NEW v \in verdicts, Verdict(v)
        PROVE  Books(books', found')
      BY <1>1, <2>3, VerdictGiven
  <2>4. ASSUME NEW f, StartFile(f), StartFrom(f)
        PROVE  Books(books', found')
      BY <1>1, <2>4, BooksImported
  <2> QED BY <2>1, <2>2, <2>3, <2>4, BooksChange
<1>3. ASSUME NEW bk \in Images'
      PROVE  Books(bk, found')
    BY <1>1, <1>2, <1>3, ImagesOfBefore DEF ImagesStay, LedgerInv, ImagesOK
<1> QED BY <1>3 DEF ImagesOK

LEMMA EntriesStep == LedgerInv /\ [LedgerNext]_ledgerVars => EntriesOK'
<1> SUFFICES ASSUME LedgerInv, [LedgerNext]_ledgerVars PROVE EntriesOK'
    OBVIOUS
<1> USE LedgerConstants
<1>1. ASSUME NEW bk \in Images, NEW i \in DOMAIN bk.recent
      PROVE  EntryOK(bk.recent[i], SettledBlocks')
  <2>1. EntryOK(bk.recent[i], SettledBlocks) /\ bk.recent[i].hash \in 1..found
      BY DEF LedgerInv, EntriesOK, ImagesOK, Books, HashesIn
  <2>2. PICK b : b = bk.recent[i].hash
      OBVIOUS
  <2>3. b \in SettledBlocks => b \in SettledBlocks'
      BY <2>1, <2>2, SettledStays DEF SettledBlocks
  <2> QED BY <2>1, <2>2, <2>3 DEF EntryOK
<1>3. books \in Images /\ booksFile \in Images
    BY DEF Images
<1>4. ASSUME NEW i \in DOMAIN books'.recent
      PROVE  EntryOK(books'.recent[i], SettledBlocks')
  <2>1. CASE books' = books
      BY <1>1, <1>3, <1>4, <2>1
  <2>2. ASSUME NEW b \in Block, RecordBlock(b)
        PROVE  EntryOK(books'.recent[i], SettledBlocks')
    <3>1. \/ books'.recent[i] = Fresh(b)
          \/ \E k \in DOMAIN books.recent : books'.recent[i] = books.recent[k]
        BY <1>4, <2>2, BlockReported DEF FreshOrFrom
    <3>2. CASE books'.recent[i] = Fresh(b)
        BY <3>2 DEF EntryOK, Fresh
    <3>3. ASSUME NEW k \in DOMAIN books.recent, books'.recent[i] = books.recent[k]
          PROVE  EntryOK(books'.recent[i], SettledBlocks')
        BY <1>1, <1>3, <3>3
    <3> QED BY <3>1, <3>2, <3>3
  <2>3. ASSUME NEW v \in verdicts, Verdict(v)
        PROVE  EntryOK(books'.recent[i], SettledBlocks')
    <3>1. /\ i \in DOMAIN books.recent
          /\ \/ books'.recent[i] = books.recent[i]
             \/ books'.recent[i].conf = MatureAt
             \/ books'.recent[i].conf = -1 /\ books'.recent[i].orphan
        BY <1>4, <2>3, VerdictGiven DEF Amends
    <3>2. CASE books'.recent[i] = books.recent[i]
        BY <1>1, <1>3, <3>1, <3>2
    <3>3. CASE books'.recent[i].conf = MatureAt
        BY <3>3 DEF EntryOK
    <3>4. CASE books'.recent[i].conf = -1 /\ books'.recent[i].orphan
        BY <3>4 DEF EntryOK
    <3> QED BY <3>1, <3>2, <3>3, <3>4
  <2>4. ASSUME NEW f, StartFile(f), StartFrom(f)
        PROVE  EntryOK(books'.recent[i], SettledBlocks')
    <3>1. CASE \E k \in DOMAIN booksFile.recent : books'.recent[i] = booksFile.recent[k]
        BY <1>1, <1>3, <3>1
    <3>2. ASSUME NEW k \in DOMAIN LoadedLog(f), Took(books'.recent[i], LoadedLog(f)[k])
          PROVE  EntryOK(books'.recent[i], SettledBlocks')
      <4>1. Log(f.data, found)
          BY <2>4, StartFiles DEF LedgerInv
      <4>2. Log(LoadedLog(f), found) /\ From(LoadedLog(f), f.data)
          BY <4>1, LoadedLogs
      <4>3. PICK b : b = LoadedLog(f)[k].hash
          OBVIOUS
      <4>4. LoadedLog(f)[k] \in LogEntry
          BY <3>2, <4>2 DEF Log
      <4>5. LoadedLog(f)[k].conf >= 0
          BY <4>4 DEF LogEntry
      <4>6. CASE LoadedLog(f)[k].orphan
        <5>1. OrphanIn(LoadedLog(f), b)
            BY <3>2, <4>2, <4>3, <4>6 DEF Log, Distinct, OrphanIn
        <5>2. OrphanIn(f.data, b)
            BY <3>2, <4>1, <4>2, <4>3, <4>6 DEF From, Log, Distinct, OrphanIn
        <5>3. /\ blockLog' = LoadedLog(f) /\ logFile' = f /\ logSaves' = {}
              /\ answers' = {} /\ verdicts' = {}
            BY <2>4 DEF StartFrom
        <5>4. Settled(b)'
            BY <5>1, <5>2, <5>3 DEF Settled
        <5>5. b \in SettledBlocks'
            BY <4>3, <4>4, <5>4 DEF SettledBlocks, LogEntry
        <5> QED BY <3>2, <4>3, <4>5, <4>6, <5>5 DEF EntryOK, Took
      <4>7. CASE ~LoadedLog(f)[k].orphan
          BY <3>2, <4>5, <4>7 DEF EntryOK, Took
      <4> QED BY <4>6, <4>7
    <3> QED BY <1>4, <2>4, <3>1, <3>2, BooksImported
  <2> QED BY <2>1, <2>2, <2>3, <2>4, BooksChange
<1>5. ASSUME NEW bk \in Images', NEW i \in DOMAIN bk.recent
      PROVE  EntryOK(bk.recent[i], SettledBlocks')
    BY <1>1, <1>4, <1>5, ImagesOfBefore DEF ImagesStay
<1> QED BY <1>5 DEF EntriesOK

-----------------------------------------------------------------------------
(* What is reported of the blocks, and what has become of it.              *)

LEMMA ToldStep == LedgerInv /\ [LedgerNext]_ledgerVars => ToldOK'
<1> SUFFICES ASSUME LedgerInv, [LedgerNext]_ledgerVars PROVE ToldOK'
    OBVIOUS
<1>1. /\ FoundOK /\ LogsOK /\ AnswersOK /\ ToldOK /\ found \in Nat
      /\ Log(blockLog, found)
    BY LedgerConstants DEF LedgerInv, FoundOK, LogsOK
<1>2. CASE UNCHANGED <<found, told, restarts, blockLog>>
    BY <1>1, <1>2 DEF ToldOK
<1>3. CASE BlockAccepted
  <2>1. PICK e : e = [hash |-> found + 1, conf |-> 0, orphan |-> FALSE, told |-> FALSE]
      OBVIOUS
  <2>2. /\ blockLog' = Last(Append(blockLog, e), LogCap) /\ found' = found + 1
        /\ UNCHANGED <<told, restarts>>
      BY <1>3, <2>1 DEF BlockAccepted, trackVars
  <2>3. found + 1 \in Block
      BY <1>1, <1>3, LedgerConstants DEF BlockAccepted, Block
  <2>4. /\ Log(Append(blockLog, e), found + 1)
        /\ OneMore(Append(blockLog, e), blockLog, e)
      BY <1>1, <2>1, <2>3, AppendedLog, LedgerConstants
  <2>5. From(blockLog', Append(blockLog, e))
      BY <2>2, <2>4, LastLog, LedgerConstants
  <2>6. ASSUME NEW i \in DOMAIN blockLog'
        PROVE  blockLog'[i] = e \/ \E k \in DOMAIN blockLog : blockLog'[i] = blockLog[k]
      BY <2>4, <2>5 DEF From, OneMore
  <2>7. told[found + 1] <= restarts /\ e.hash = found + 1
      BY <1>1, <2>1, <2>3 DEF ToldOK
  <2>8. \A i \in DOMAIN blockLog' : ~blockLog'[i].told => told[blockLog'[i].hash] <= restarts
      BY <1>1, <2>6, <2>7 DEF ToldOK
  <2>9. \A b \in Block : told[b] <= 1 + restarts /\ (b > found + 1 => told[b] <= restarts)
      BY <1>1 DEF ToldOK, Block
  <2> QED BY <1>1, <2>2, <2>8, <2>9 DEF ToldOK
<1>4. CASE ApplyAnswers
  <2>1. /\ blockLog' = AppliedTo(blockLog) /\ UNCHANGED <<found, restarts>>
        /\ told' = [b \in Block |-> told[b] + (IF b \in Due THEN 1 ELSE 0)]
        /\ Due \subseteq 1..found
      BY <1>1, <1>4, AnswersApplied DEF ApplyAnswers
  <2>2. Answered(blockLog', blockLog)
      BY <1>1, <2>1, AppliedLog
  <2>3. ASSUME NEW b \in Due
        PROVE  told[b] <= restarts
      BY <1>1, <2>3 DEF Due, Matures, ToldOK
  <2>4. /\ told \in [Block -> Nat] /\ restarts \in Nat
        /\ \A b \in Block : told[b] <= 1 + restarts /\ (b > found => told[b] <= restarts)
      BY <1>1 DEF ToldOK
  <2>5. told' \in [Block -> Nat]
      BY <2>1, <2>4
  <2>6. ASSUME NEW b \in Block
        PROVE  told'[b] <= 1 + restarts /\ (b > found => told'[b] <= restarts)
    <3>1. CASE b \in Due
        BY <1>1, <2>1, <2>3, <2>4, <3>1
    <3>2. CASE b \notin Due
        BY <2>1, <2>4, <3>2
    <3> QED BY <3>1, <3>2
  <2>7. ASSUME NEW i \in DOMAIN blockLog', ~blockLog'[i].told
        PROVE  told'[blockLog'[i].hash] <= restarts
    <3>1. PICK b : b = blockLog[i].hash
        OBVIOUS
    <3>2. i \in DOMAIN blockLog /\ blockLog'[i].hash = b /\ blockLog[i] \in LogEntry /\ b \in Block
        BY <1>1, <2>2, <2>7, <3>1, LogEntries DEF Answered
    <3>3. ~blockLog[i].told /\ b \notin Due
      <4>1. CASE \A a \in answers : a.hash # b
        <5>1. blockLog'[i] = blockLog[i]
            BY <2>2, <3>1, <3>2, <4>1 DEF Answered
        <5> QED BY <2>7, <4>1, <5>1 DEF Due
      <4>2. ASSUME NEW a \in answers, a.hash = b
            PROVE  ~blockLog[i].told /\ b \notin Due
        <5>1. \A c \in answers : c.hash = b => c = a
            BY <1>1, <4>2 DEF AnswersOK
        <5>2. blockLog'[i] = Judged(blockLog[i], a)
            BY <2>2, <3>1, <3>2, <4>2, <5>1 DEF Answered
        <5>3. a.conf \in Conf
            BY <1>1 DEF AnswersOK
        <5>4. ~blockLog[i].told /\ ~(a.conf >= MatureAt)
            BY <2>7, <3>2, <5>2, <5>3, JudgedEntry, LedgerConstants DEF Conf
        <5>5. b \notin Due
            BY <5>1, <5>4 DEF Due, Matures
        <5> QED BY <5>4, <5>5
      <4> QED BY <4>1, <4>2
    <3>4. told[b] <= restarts
        BY <1>1, <3>1, <3>2, <3>3 DEF ToldOK
    <3> QED BY <2>1, <2>4, <3>2, <3>3, <3>4
  <2> QED BY <2>1, <2>4, <2>5, <2>6, <2>7 DEF ToldOK
<1>5. ASSUME NEW f, StartFile(f), StartFrom(f)
      PROVE  ToldOK'
  <2>1. told' = told /\ restarts' = restarts + 1 /\ found' = found /\ blockLog' = LoadedLog(f)
      BY <1>5 DEF StartFrom
  <2>2. Log(LoadedLog(f), found)
      BY <1>1, <1>5, StartFiles, LoadedLogs, LedgerConstants
  <2>3. \A i \in DOMAIN blockLog' : blockLog'[i].hash \in Block
      BY <2>1, <2>2, LogEntries
  <2>4. /\ told \in [Block -> Nat] /\ restarts \in Nat
        /\ \A b \in Block : told[b] <= 1 + restarts
      BY <1>1 DEF ToldOK
  <2> QED BY <2>1, <2>3, <2>4 DEF ToldOK
<1>6. CASE CrashAndStart \/ StopAndStart
    BY <1>5, <1>6 DEF CrashAndStart, StopAndStart, StartFile
<1>7. CASE Check
    BY <1>2, <1>7 DEF Check, logVars
<1>8. ASSUME NEW b \in Block, Deepen(b) \/ Reorg(b) \/ RecordBlock(b)
      PROVE  ToldOK'
    BY <1>2, <1>8 DEF Deepen, Reorg, RecordBlock, logVars, trackVars
<1>9. ASSUME NEW s \in logSaves, CopyLog(s) \/ WriteLog(s)
      PROVE  ToldOK'
    BY <1>2, <1>9 DEF CopyLog, WriteLog, trackVars
<1>10. ASSUME NEW v \in verdicts, Verdict(v)
       PROVE  ToldOK'
    BY <1>2, <1>10 DEF Verdict, logVars
<1>11. ASSUME NEW c \in copies, WriteBooks(c)
       PROVE  ToldOK'
    BY <1>2, <1>11 DEF WriteBooks, logVars, trackVars
<1>12. CASE UNCHANGED ledgerVars
    BY <1>2, <1>12 DEF ledgerVars, logVars, trackVars
<1> QED BY <1>3, <1>4, <1>6, <1>7, <1>8, <1>9, <1>10, <1>11, <1>12 DEF LedgerNext

LEMMA OrphansStep == LedgerInv /\ [LedgerNext]_ledgerVars => OrphansReach'
<1> SUFFICES ASSUME LedgerInv, [LedgerNext]_ledgerVars, restarts' = 0, NEW b \in Block,
                    NEW i \in DOMAIN blockLog', blockLog'[i].hash = b, blockLog'[i].orphan,
                    <<"orphan", b>> \notin verdicts'
             PROVE  OrphanInBooks(b)'
    BY DEF OrphansReach
<1>1. /\ FoundOK /\ LogsOK /\ AnswersOK /\ ToldOK /\ OrphansReach /\ found \in Nat
      /\ Log(blockLog, found) /\ Books(books, found) /\ ReportsOK
    BY LedgerConstants DEF LedgerInv, FoundOK, LogsOK, ImagesOK, Images
<1>2. ASSUME restarts = 0, NEW k \in DOMAIN blockLog, blockLog[k].hash = b, blockLog[k].orphan,
             <<"orphan", b>> \notin verdicts
      PROVE  OrphanInBooks(b)
    BY <1>1, <1>2 DEF OrphansReach
<1>3. CASE UNCHANGED <<restarts, blockLog, verdicts, outran, books, reporting>>
    BY <1>2, <1>3 DEF OrphanInBooks
<1>4. CASE BlockAccepted
  <2>1. PICK e : e = [hash |-> found + 1, conf |-> 0, orphan |-> FALSE, told |-> FALSE]
      OBVIOUS
  <2>2. /\ blockLog' = Last(Append(blockLog, e), LogCap)
        /\ reporting' = reporting \cup {found + 1}
        /\ UNCHANGED <<restarts, verdicts, outran, books>>
      BY <1>4, <2>1 DEF BlockAccepted, trackVars, bookVars
  <2>3. found + 1 \in Block
      BY <1>1, <1>4, LedgerConstants DEF BlockAccepted, Block
  <2>4. /\ Log(Append(blockLog, e), found + 1)
        /\ OneMore(Append(blockLog, e), blockLog, e)
      BY <1>1, <2>1, <2>3, AppendedLog, LedgerConstants
  <2>5. From(blockLog', Append(blockLog, e))
      BY <2>2, <2>4, LastLog, LedgerConstants
  <2>6. PICK k \in DOMAIN blockLog : blockLog'[i] = blockLog[k]
      BY <2>1, <2>4, <2>5 DEF From, OneMore
  <2>7. b \in 1..found /\ blockLog[k].hash = b /\ blockLog[k].orphan
      BY <1>1, <2>6 DEF Log, HashesIn
  <2>8. OrphanInBooks(b)
      BY <1>2, <2>2, <2>7
  <2> QED BY <1>1, <2>2, <2>7, <2>8 DEF OrphanInBooks
<1>5. CASE ApplyAnswers
  <2>1. /\ blockLog' = AppliedTo(blockLog)
        /\ UNCHANGED <<restarts, outran, books, reporting>>
        /\ \A c \in Orphaning : <<"orphan", c>> \in verdicts'
        /\ verdicts \subseteq verdicts'
      BY <1>1, <1>5, AnswersApplied DEF ApplyAnswers, bookVars
  <2>2. Answered(blockLog', blockLog)
      BY <1>1, <2>1, AppliedLog
  <2>3. i \in DOMAIN blockLog /\ blockLog[i].hash = b /\ blockLog[i] \in LogEntry /\ b \in Block
      BY <1>1, <2>2, LogEntries DEF Answered
  <2>4. CASE blockLog[i].orphan
      BY <1>2, <2>1, <2>3, <2>4 DEF OrphanInBooks
  <2>5. CASE ~blockLog[i].orphan
    <3>1. PICK a \in answers : a.hash = b /\ blockLog'[i] = Judged(blockLog[i], a)
        BY <2>2, <2>3, <2>5 DEF Answered
    <3>2. a.conf \in Conf
        BY <1>1 DEF AnswersOK
    <3>3. a.conf < 0
        BY <2>3, <2>5, <3>1, <3>2, JudgedEntry DEF Conf
    <3>4. b \in Orphaning
        BY <2>3, <2>5, <3>1, <3>3 DEF Orphaning, Orphans
    <3> QED BY <2>1, <3>4
  <2> QED BY <2>4, <2>5
<1>6. ASSUME NEW c \in Block, RecordBlock(c)
      PROVE  OrphanInBooks(b)'
  <2>1. /\ reporting' = reporting \ {c} /\ c \in reporting
        /\ UNCHANGED <<restarts, blockLog, verdicts, outran>>
      BY <1>6 DEF RecordBlock, trackVars
  <2>2. /\ FreshOrFrom(books'.recent, books.recent, c) /\ c \notin HashesIn(books.recent)
      BY <1>6, BlockReported
  <2>3. OrphanInBooks(b)
      BY <1>2, <2>1
  <2>4. CASE b \in outran
      BY <2>1, <2>4 DEF OrphanInBooks
  <2>5. ASSUME NEW k \in DOMAIN books.recent, books.recent[k].hash = b, books.recent[k].orphan
        PROVE  OrphanInBooks(b)'
    <3>1. b \in HashesIn(books.recent) /\ b # c
        BY <2>2, <2>5 DEF HashesIn
    <3>2. b \notin reporting'
        BY <1>1, <2>1, <3>1 DEF ReportsOK
    <3>3. CASE b \notin HashesIn(books'.recent)
        BY <3>2, <3>3 DEF OrphanInBooks
    <3>4. ASSUME NEW m \in DOMAIN books'.recent, books'.recent[m].hash = b
          PROVE  books'.recent[m].orphan
      <4>1. books'.recent[m] # Fresh(c)
          BY <3>1, <3>4 DEF Fresh
      <4>2. PICK j \in DOMAIN books.recent : books'.recent[m] = books.recent[j]
          BY <2>2, <4>1 DEF FreshOrFrom
      <4>3. j = k
          BY <1>1, <2>5, <3>4, <4>2 DEF Books, Distinct
      <4> QED BY <2>5, <4>2, <4>3
    <3> QED BY <3>3, <3>4 DEF OrphanInBooks, HashesIn
  <2>6. CASE b \notin HashesIn(books.recent) /\ b \notin reporting
    <3>1. b # c /\ b \notin reporting'
        BY <2>1, <2>6
    <3>2. b \notin HashesIn(books'.recent)
        BY <2>2, <2>6, <3>1 DEF FreshOrFrom, Fresh, HashesIn
    <3> QED BY <3>1, <3>2 DEF OrphanInBooks
  <2> QED BY <2>3, <2>4, <2>5, <2>6 DEF OrphanInBooks
<1>7. ASSUME NEW v \in verdicts, Verdict(v)
      PROVE  OrphanInBooks(b)'
  <2>1. verdicts' = verdicts \ {v} /\ UNCHANGED <<restarts, blockLog, reporting>>
      BY <1>7 DEF Verdict, logVars
  <2>2. /\ Amends(books'.recent, books.recent, v) /\ Arrived(v)' /\ outran \subseteq outran'
      BY <1>7, VerdictGiven
  <2>3. CASE v = <<"orphan", b>>
    <3>1. b \in outran' \/ HeldForOrphan(books'.recent, b)
        BY <2>2, <2>3 DEF Arrived
    <3> QED BY <3>1 DEF HeldForOrphan, OrphanInBooks
  <2>4. CASE v # <<"orphan", b>>
    <3>1. OrphanInBooks(b)
        BY <1>2, <2>1, <2>4
    <3>2. HashesIn(books'.recent) = HashesIn(books.recent)
        BY <2>2, AmendedHashes
    <3> QED BY <2>1, <2>2, <3>1, <3>2 DEF OrphanInBooks, Amends
  <2> QED BY <2>3, <2>4
<1>8. CASE CrashAndStart \/ StopAndStart
    BY <1>1, <1>8 DEF CrashAndStart, StopAndStart, StartFrom, ToldOK
<1>9. CASE Check
    BY <1>3, <1>9 DEF Check, logVars, bookVars
<1>10. ASSUME NEW c \in Block, Deepen(c) \/ Reorg(c)
       PROVE  OrphanInBooks(b)'
    BY <1>3, <1>10 DEF Deepen, Reorg, logVars, trackVars, bookVars
<1>11. ASSUME NEW s \in logSaves, CopyLog(s) \/ WriteLog(s)
       PROVE  OrphanInBooks(b)'
    BY <1>3, <1>11 DEF CopyLog, WriteLog, trackVars, bookVars
<1>12. ASSUME NEW c \in copies, WriteBooks(c)
       PROVE  OrphanInBooks(b)'
    BY <1>3, <1>12 DEF WriteBooks, logVars, trackVars
<1>13. CASE UNCHANGED ledgerVars
    BY <1>3, <1>13 DEF ledgerVars, logVars, trackVars, bookVars
<1> QED BY <1>4, <1>5, <1>6, <1>7, <1>8, <1>9, <1>10, <1>11, <1>12, <1>13 DEF LedgerNext

-----------------------------------------------------------------------------
(* The theorems.                                                           *)

LEMMA LedgerInvariant == LedgerSpec => []LedgerInv
<1>1. LedgerInv /\ [LedgerNext]_ledgerVars => LedgerInv'
    BY FoundStep, LogsStep, AnswersStep, VerdictsStep, ReportsStep, ImagesStep, EntriesStep,
       ToldStep, OrphansStep DEF LedgerInv
<1> QED BY LedgerInitInv, <1>1, PTL DEF LedgerSpec

\* The variables of the block log and of the books have their types in every
\* behaviour, and neither list outgrows its cap (LedgerTypeOK; recordBlock,
\* RecordBlock and the loads at a start).
THEOREM LedgerTypes == LedgerSpec => []LedgerTypeOK
<1>1. LedgerInv => LedgerTypeOK
    BY DEF LedgerInv, FoundOK, LogsOK, Log, VerdictsOK, ReportsOK, ImagesOK, Images, Books,
           LedgerTypeOK
<1> QED BY LedgerInvariant, <1>1, PTL

\* As many blocks as entries.
LEMMA HashesCounted ==
  ASSUME NEW s \in Seq(BookEntry), Distinct(s)
  PROVE  Cardinality(HashesIn(s)) = Len(s) /\ IsFiniteSet(HashesIn(s))
<1>1. IsFiniteSet(1..Len(s)) /\ Cardinality(1..Len(s)) = Len(s)
    BY FirstNumbers
<1> DEFINE h == [i \in 1..Len(s) |-> s[i].hash]
<1>2. /\ h \in [1..Len(s) -> HashesIn(s)]
      /\ \A i, j \in 1..Len(s) : h[i] = h[j] => i = j
      /\ \A b \in HashesIn(s) : \E i \in 1..Len(s) : h[i] = b
    BY DEF Distinct, HashesIn
<1>3. h \in Bijection(1..Len(s), HashesIn(s))
    BY <1>2 DEF Bijection, Injection, Surjection, IsInjective
<1> QED BY <1>1, <1>3, FS_Bijection DEF ExistsBijection

\* The lifetime totals are those of the blocks in the list and of those cut from
\* it, in memory, in the file and in every copy on its way to the file, in every
\* behaviour; no block is counted twice (BooksAddUp; earnings/tracker.go).
THEOREM TotalsOfTheBooks == LedgerSpec => []BooksAddUp
<1>1. LedgerInv => BooksAddUp
  <2> SUFFICES ASSUME LedgerInv PROVE BooksAddUp
      OBVIOUS
  <2>1. \A bk \in {books, booksFile} \cup copies : bk.total = Plus(Totals(bk.recent), bk.cut)
      BY DEF LedgerInv, ImagesOK, Images, Books
  <2>2. Books(books, found) /\ found \in Nat
      BY LedgerConstants DEF LedgerInv, ImagesOK, Images, FoundOK
  <2>3. Cardinality(HashesIn(books.recent)) = Len(books.recent)
      BY <2>2, HashesCounted DEF Books
  <2>4. Cardinality(HashesIn(books.recent)) <= found
    <3>1. IsFiniteSet(1..found) /\ Cardinality(1..found) = found
        BY <2>2, FirstNumbers
    <3>2. HashesIn(books.recent) \subseteq 1..found
        BY <2>2 DEF Books
    <3> QED BY <3>1, <3>2, FS_Subset
  <2>5. books.total.found = Len(books.recent) + books.cut.found
      BY <2>2 DEF Books, Plus, Totals
  <2>6. Len(books.recent) \in Nat /\ books.cut.found \in Nat
      BY <2>2 DEF Books, Sums
  <2> QED BY <2>1, <2>2, <2>3, <2>4, <2>5, <2>6 DEF BooksAddUp
<1> QED BY LedgerInvariant, <1>1, PTL

\* A block held for an orphan is one in the books once its callback has run, unless
\* the callback came before RecordBlock or the entry was cut; and maturity is
\* reported once at most in a life of the process (VerdictsReachTheBooks;
\* trackConfirmations, UpdateConfirmations).
THEOREM OrphansReachTheBooks == LedgerSpec => []VerdictsReachTheBooks
<1>1. LedgerInv => VerdictsReachTheBooks
  <2> SUFFICES ASSUME LedgerInv PROVE VerdictsReachTheBooks
      OBVIOUS
  <2>1. \A b \in Block : told[b] <= 1 + restarts
      BY DEF LedgerInv, ToldOK
  <2>2. OrphansReach
      BY DEF LedgerInv
  <2>3. \A i \in DOMAIN blockLog : blockLog[i].hash \in Block
      BY LogEntries DEF LedgerInv, LogsOK
  <2> QED BY <2>1, <2>2, <2>3 DEF VerdictsReachTheBooks, OrphansReach, OrphanInBooks
<1> QED BY LedgerInvariant, <1>1, PTL

-----------------------------------------------------------------------------
(* Uptime.  What a log tells, and what an event more makes of it.          *)
Event == [online : BOOLEAN, at : Nat, dur : Nat]

\* The events are in their order, alternate, and an offline one knows how long the
\* session was that it ended.
IsHistory(ev) ==
  /\ ev \in Seq(Event)
  /\ \A i, j \in 1..Len(ev) : i <= j => ev[i].at <= ev[j].at
  /\ \A i \in 2..Len(ev) :
       /\ ev[i].online # ev[i - 1].online
       /\ ~ev[i].online => ev[i].dur = ev[i].at - ev[i - 1].at
  /\ \A i \in 1..Len(ev) : ev[i].online => ev[i].dur = 0

\* The end of a sequence.
LEMMA EndOfSeq ==
  ASSUME NEW S, NEW s \in Seq(S), NEW k \in 0..Len(s), NEW e, e = SubSeq(s, k + 1, Len(s))
  PROVE  /\ e \in Seq(S) /\ Len(e) = Len(s) - k /\ Len(s) \in Nat /\ DOMAIN e = 1..(Len(s) - k)
         /\ \A i \in 1..(Len(s) - k) : k + i \in 1..Len(s) /\ e[i] = s[k + i]
<1>1. Len(s) \in Nat /\ k + 1 \in 1..(Len(s) + 1) /\ k \in Nat
  BY LenProperties
<1>2. e \in Seq(S)
  <2>1. \A i \in (k + 1)..Len(s) : i \in 1..Len(s) /\ s[i] \in S
    BY <1>1, ElementOfSeq
  <2> QED BY <1>1, <2>1, SubSeqProperties
<1>3. Len(e) = Len(s) - k /\ \A i \in 1..(Len(s) - k) : e[i] = s[k + i]
  <2>1. Len(e) = Len(s) - k
    BY <1>1, SubSeqProperties
  <2>2. ASSUME NEW i \in 1..(Len(s) - k) PROVE e[i] = s[k + i]
    <3>1. i \in 1..(Len(s) - (k + 1) + 1) /\ (k + 1) + i - 1 = k + i
      BY <1>1
    <3> QED BY <1>1, <3>1, SubSeqProperties
  <2> QED BY <2>1, <2>2
<1>4. DOMAIN e = 1..(Len(s) - k)
  BY <1>2, <1>3, LenProperties
<1> QED BY <1>1, <1>2, <1>3, <1>4

\* The end of a history is one.
LEMMA EndOfHistory ==
  ASSUME NEW ev, IsHistory(ev), NEW k \in 0..Len(ev)
  PROVE  IsHistory(SubSeq(ev, k + 1, Len(ev)))
<1>1. PICK e : e = SubSeq(ev, k + 1, Len(ev))
  OBVIOUS
<1>2. PICK n \in Nat : n = Len(ev)
  BY LenProperties DEF IsHistory
<1>3. /\ e \in Seq(Event) /\ Len(e) = n - k /\ k \in 0..n
      /\ \A i \in 1..(n - k) : k + i \in 1..n /\ e[i] = ev[k + i]
  BY <1>1, <1>2, EndOfSeq DEF IsHistory
<1>4. ASSUME NEW i \in 1..(n - k), NEW j \in 1..(n - k), i <= j PROVE e[i].at <= e[j].at
  <2>1. k + i \in 1..n /\ k + j \in 1..n /\ k + i <= k + j
    BY <1>3, <1>4
  <2> QED BY <1>2, <1>3, <2>1 DEF IsHistory
<1>5. ASSUME NEW i \in 2..(n - k)
      PROVE  e[i].online # e[i - 1].online /\ (~e[i].online => e[i].dur = e[i].at - e[i - 1].at)
  <2>1. /\ k + i \in 2..n /\ i - 1 \in 1..(n - k) /\ i \in 1..(n - k)
        /\ k + (i - 1) = (k + i) - 1
    BY <1>3
  <2>2. e[i] = ev[k + i] /\ e[i - 1] = ev[(k + i) - 1]
    BY <1>3, <2>1
  <2> QED BY <1>2, <2>1, <2>2 DEF IsHistory
<1>6. \A i \in 1..(n - k) : e[i].online => e[i].dur = 0
  BY <1>2, <1>3 DEF IsHistory
<1>7. 1..Len(e) = 1..(n - k) /\ 2..Len(e) = 2..(n - k)
  BY <1>3
<1>8. IsHistory(e)
  BY <1>3, <1>4, <1>5, <1>6, <1>7 DEF IsHistory
<1> QED BY <1>1, <1>8

\* Sessions and downtime fill the time up to the last event.
LEMMA TimeIsFilled ==
  ASSUME NEW ev, IsHistory(ev), ev # << >>
  PROVE  /\ Total(Durations(ev)) \in Int /\ Total(Gaps(ev)) \in Int
         /\ Total(Durations(ev)) + Total(Gaps(ev))
              = ev[Len(ev)].at - ev[1].at + (IF ev[1].online THEN 0 ELSE ev[1].dur)
<1>1. PICK n \in Nat \ {0} : n = Len(ev) /\ DOMAIN ev = 1..n
  BY LenProperties, EmptySeq DEF IsHistory
<1>2. PICK d : d = Durations(ev)
  OBVIOUS
<1>3. PICK g : g = Gaps(ev)
  OBVIOUS
<1>4. \A i \in 1..n : ev[i] \in Event
  BY <1>1, ElementOfSeq DEF IsHistory
<1>5. \A i \in 1..n : ev[i].online \in BOOLEAN /\ ev[i].at \in Nat /\ ev[i].dur \in Nat
  BY <1>4 DEF Event
<1>6. d = [i \in 1..n |-> ev[i].dur]
  BY <1>1, <1>2 DEF Durations
<1>7. g = [i \in 1..n |-> IF i > 1 /\ ev[i].online /\ ~ev[i - 1].online
                            THEN ev[i].at - ev[i - 1].at ELSE 0]
  BY <1>1, <1>3 DEF Gaps
<1>8. \A i \in 1..n : d[i] = ev[i].dur /\ d[i] \in Int
  BY <1>5, <1>6
<1>9. \A i \in 1..n : /\ g[i] = IF i > 1 /\ ev[i].online /\ ~ev[i - 1].online
                                  THEN ev[i].at - ev[i - 1].at ELSE 0
                      /\ g[i] \in Int
  <2> TAKE i \in 1..n
  <2>1. g[i] = IF i > 1 /\ ev[i].online /\ ~ev[i - 1].online THEN ev[i].at - ev[i - 1].at ELSE 0
    BY <1>7
  <2>2. i > 1 => i - 1 \in 1..n
    OBVIOUS
  <2> QED BY <1>5, <2>1, <2>2
<1>10. d \in [1..n -> Int] /\ g \in [1..n -> Int]
  BY <1>6, <1>7, <1>8, <1>9
<1>11. d \in Seq(Int) /\ Len(d) = n /\ g \in Seq(Int) /\ Len(g) = n
  BY <1>10, SeqOfFunction
<1> DEFINE p == PrefixSums(d)
           q == PrefixSums(g)
           Filled(i) == p[i] + q[i] = ev[i].at - ev[1].at + (IF ev[1].online THEN 0 ELSE ev[1].dur)
           T == {i \in 1..n : ~Filled(i)}
<1>12. p[0] = 0 /\ \A i \in 1..n : p[i] = p[i - 1] + d[i]
  BY <1>11, PrefixSumsStep
<1>13. q[0] = 0 /\ \A i \in 1..n : q[i] = q[i - 1] + g[i]
  BY <1>11, PrefixSumsStep
<1>14. p[n] = Total(d) /\ q[n] = Total(g)
  BY <1>11 DEF Total
<1>25. \A i \in 0..n : p[i] \in Int /\ q[i] \in Int
  BY <1>11, PrefixSumsType
<1> HIDE DEF p, q
<1>15. T = {}
  <2> SUFFICES ASSUME T # {} PROVE FALSE
    OBVIOUS
  <2>1. PICK k \in T : \A y \in T : k <= y
    <3>1. T \in SUBSET Nat
      OBVIOUS
    <3> QED BY <3>1, LeastElement
  <2>2. k \in 1..n /\ ~Filled(k)
    BY <2>1
  <2>3. CASE k = 1
    <3>1. p[1] = p[0] + d[1] /\ q[1] = q[0] + g[1]
      BY <1>12, <1>13
    <3>2. d[1] = ev[1].dur /\ g[1] = 0
      BY <1>8, <1>9
    <3>3. ev[1].online => ev[1].dur = 0
      BY <1>1 DEF IsHistory
    <3>4. ev[1].at \in Nat /\ ev[1].dur \in Nat
      BY <1>5
    <3>5. p[1] + q[1] = ev[1].dur
      BY <1>12, <1>13, <3>1, <3>2, <3>4
    <3> QED BY <2>2, <2>3, <3>3, <3>4, <3>5
  <2>4. CASE k # 1
    <3>1. k \in 2..n /\ k - 1 \in 1..n /\ ~(k <= k - 1) /\ k > 1
      BY <2>2, <2>4
    <3>2. Filled(k - 1)
      BY <2>1, <3>1
    <3>3. p[k] = p[k - 1] + d[k] /\ q[k] = q[k - 1] + g[k] /\ p[k - 1] \in Int /\ q[k - 1] \in Int
      BY <1>12, <1>13, <1>25, <2>2, <3>1
    <3>4. ev[k].at \in Nat /\ ev[k - 1].at \in Nat /\ ev[1].at \in Nat /\ ev[1].dur \in Nat
      BY <1>5, <2>2, <3>1
    <3>5. d[k] + g[k] = ev[k].at - ev[k - 1].at
      <4>1. /\ ev[k].online # ev[k - 1].online
            /\ ~ev[k].online => ev[k].dur = ev[k].at - ev[k - 1].at
            /\ ev[k].online => ev[k].dur = 0
        BY <1>1, <2>2, <3>1 DEF IsHistory
      <4>2. ev[k].online \in BOOLEAN /\ ev[k - 1].online \in BOOLEAN
        BY <1>5, <2>2, <3>1
      <4>3. CASE ev[k].online
        <5>1. ~ev[k - 1].online
          BY <4>1, <4>2, <4>3
        <5>2. g[k] = ev[k].at - ev[k - 1].at /\ d[k] = 0
          BY <1>8, <1>9, <2>2, <3>1, <4>1, <4>3, <5>1
        <5> QED BY <3>4, <5>2
      <4>4. CASE ~ev[k].online
        <5>1. g[k] = 0 /\ d[k] = ev[k].at - ev[k - 1].at
          BY <1>8, <1>9, <2>2, <4>1, <4>4
        <5> QED BY <3>4, <5>1
      <4> QED BY <4>3, <4>4
    <3>6. d[k] \in Int /\ g[k] \in Int
      BY <1>8, <1>9, <2>2
    <3>7. PICK x \in Int : x = IF ev[1].online THEN 0 ELSE ev[1].dur
      BY <3>4
    <3>8. p[k - 1] + q[k - 1] = ev[k - 1].at - ev[1].at + x
      BY <3>2, <3>7
    <3>9. p[k] + q[k] = ev[k].at - ev[1].at + x
      <4> HIDE DEF T, Filled
      <4>1. PICK a \in Int, b \in Int, u \in Int, v \in Int :
              a = p[k - 1] /\ b = q[k - 1] /\ u = d[k] /\ v = g[k]
        BY <3>3, <3>6
      <4>2. PICK l \in Nat, m \in Nat, f \in Nat :
              l = ev[k].at /\ m = ev[k - 1].at /\ f = ev[1].at
        BY <3>4
      <4>3. a + b = m - f + x /\ u + v = l - m
        BY <3>5, <3>8, <4>1, <4>2
      <4>4. (a + u) + (b + v) = l - f + x
        BY <4>3
      <4>5. p[k] = a + u /\ q[k] = b + v
        BY <3>3, <4>1
      <4> QED BY <4>2, <4>4, <4>5
    <3> QED BY <2>2, <3>7, <3>9
  <2> QED BY <2>3, <2>4
<1>16. Filled(n)
  <2>1. n \in 1..n
    OBVIOUS
  <2> QED BY <1>15, <2>1
<1>17. p[n] \in Int /\ q[n] \in Int
  BY <1>25
<1> QED BY <1>1, <1>2, <1>3, <1>14, <1>16, <1>17

\* The event that tells the state at t.
Tells(ev, t, i) ==
  /\ i \in 1..Len(ev) /\ ev[i].at <= t
  /\ \A j \in 1..Len(ev) : ev[j].at <= t => j <= i
OnlineAt(ev, t) == \E i \in 1..Len(ev) : Tells(ev, t, i) /\ ev[i].online

\* An event now, after which the log is cut: what it told of earlier moments it still
\* tells, from its first event on, and nothing else.
LEMMA EventAdded ==
  ASSUME NEW ev, IsHistory(ev), upNow \in Nat, NEW e \in Event, e.at = upNow,
         \A i \in 1..Len(ev) : ev[i].at <= upNow,
         ev # << >> => e.online # ev[Len(ev)].online,
         ev # << >> /\ ~e.online => e.dur = upNow - ev[Len(ev)].at,
         e.online => e.dur = 0,
         NEW new, new = Trimmed(Append(ev, e))
  PROVE  /\ IsHistory(new) /\ Len(new) \in 1..MaxEvents /\ new[Len(new)] = e
         /\ \A i \in 1..Len(new) : new[i].at <= upNow
         /\ \A t \in Int : t < upNow /\ OnlineAt(new, t) => OnlineAt(ev, t)
         /\ \A t \in Int : t < upNow /\ OnlineAt(ev, t) /\ new[1].at <= t => OnlineAt(new, t)
         /\ IF ev = << >> THEN new[1].at = upNow ELSE ev[1].at <= new[1].at
<1>0. MaxEvents \in Nat \ {0} /\ KeepFor \in Nat
  BY UptimeAssumption
<1>1. PICK n \in Nat : n = Len(ev) /\ ev \in Seq(Event) /\ DOMAIN ev = 1..n
  BY LenProperties DEF IsHistory
<1>2. PICK s : s = Append(ev, e)
  OBVIOUS
<1>3. /\ s \in Seq(Event) /\ Len(s) = n + 1 /\ s[n + 1] = e
      /\ \A i \in 1..n : s[i] = ev[i]
  BY <1>1, <1>2, AppendProperties
<1>4. \A i \in 1..n : ev[i] \in Event
  BY <1>1, ElementOfSeq
<1>5. \A i \in 1..n : ev[i].online \in BOOLEAN /\ ev[i].at \in Nat /\ ev[i].dur \in Nat
  BY <1>4 DEF Event
<1>6. e.online \in BOOLEAN /\ e.at \in Nat /\ e.dur \in Nat
  BY DEF Event
<1>7. n # 0 => ev # << >>
  BY <1>1
<1>8. IsHistory(s)
  <2>1. ASSUME NEW i \in 1..(n + 1), NEW j \in 1..(n + 1), i <= j PROVE s[i].at <= s[j].at
    <3>1. CASE j = n + 1
      <4>1. s[j].at = upNow
        BY <1>3, <3>1
      <4>2. i = n + 1 \/ i \in 1..n
        OBVIOUS
      <4> QED BY <1>1, <1>3, <4>1, <4>2
    <3>2. CASE j # n + 1
      <4>1. i \in 1..n /\ j \in 1..n
        BY <2>1, <3>2
      <4> QED BY <1>1, <1>3, <2>1, <4>1 DEF IsHistory
    <3> QED BY <3>1, <3>2
  <2>2. ASSUME NEW i \in 2..(n + 1)
        PROVE  /\ s[i].online # s[i - 1].online
               /\ ~s[i].online => s[i].dur = s[i].at - s[i - 1].at
    <3>1. CASE i = n + 1
      <4>1. n \in 1..n /\ i - 1 = n /\ n # 0
        BY <3>1
      <4>2. s[i] = e /\ s[i - 1] = ev[n]
        BY <1>3, <3>1, <4>1
      <4> QED BY <1>1, <1>7, <4>1, <4>2
    <3>2. CASE i # n + 1
      <4>1. i \in 2..n /\ i \in 1..n /\ i - 1 \in 1..n
        BY <3>2
      <4>2. s[i] = ev[i] /\ s[i - 1] = ev[i - 1]
        BY <1>3, <4>1
      <4> QED BY <1>1, <4>1, <4>2 DEF IsHistory
    <3> QED BY <3>1, <3>2
  <2>3. ASSUME NEW i \in 1..(n + 1) PROVE s[i].online => s[i].dur = 0
    <3>1. i = n + 1 \/ i \in 1..n
      OBVIOUS
    <3> QED BY <1>1, <1>3, <3>1 DEF IsHistory
  <2>4. 1..Len(s) = 1..(n + 1) /\ 2..Len(s) = 2..(n + 1)
    BY <1>3
  <2> QED BY <1>3, <2>1, <2>2, <2>3, <2>4 DEF IsHistory
\* Where the log begins after the cut.
<1>9. \E k \in 0..n : new = SubSeq(s, k + 1, Len(s)) /\ (n + 1) - k <= MaxEvents
  <2> DEFINE stops == {k \in 0..Len(s) : k < Len(s) => s[k + 1].at >= upNow - KeepFor}
             start == CHOOSE k \in stops : \A j \in stops : k <= j
  <2>1. n \in stops /\ stops \in SUBSET Nat
    <3>1. s[n + 1].at >= upNow - KeepFor
      BY <1>0, <1>3
    <3> QED BY <1>3, <3>1
  <2>2. start \in stops /\ \A j \in stops : start <= j
    <3>1. \E k \in stops : \A j \in stops : k <= j
      BY <2>1, LeastElement
    <3> QED BY <3>1
  <2>3. new = SubSeq(s, (IF Len(s) - start > MaxEvents THEN Len(s) - MaxEvents ELSE start) + 1,
                     Len(s))
    BY <1>2 DEF Trimmed
  <2>4. start \in 0..n
    BY <2>1, <2>2
  <2> HIDE DEF start
  <2>5. CASE Len(s) - start > MaxEvents
    <3>1. Len(s) - MaxEvents \in 0..n /\ (n + 1) - (Len(s) - MaxEvents) <= MaxEvents
      BY <1>0, <1>3, <2>4, <2>5
    <3> QED BY <2>3, <2>5, <3>1
  <2>6. CASE ~(Len(s) - start > MaxEvents)
    <3>1. (n + 1) - start <= MaxEvents
      BY <1>0, <1>3, <2>4, <2>6
    <3> QED BY <2>3, <2>4, <2>6, <3>1
  <2> QED BY <2>5, <2>6
<1>10. PICK k \in 0..n : new = SubSeq(s, k + 1, Len(s)) /\ (n + 1) - k <= MaxEvents
  BY <1>9
<1>11. /\ IsHistory(new) /\ Len(new) = (n + 1) - k
       /\ \A i \in 1..((n + 1) - k) : k + i \in 1..(n + 1) /\ new[i] = s[k + i]
  <2>1. k \in 0..Len(s)
    BY <1>3, <1>10
  <2>2. IsHistory(new)
    BY <1>8, <1>10, <2>1, EndOfHistory
  <2>3. /\ Len(new) = Len(s) - k
        /\ \A i \in 1..(Len(s) - k) : k + i \in 1..Len(s) /\ new[i] = s[k + i]
    BY <1>3, <1>10, <2>1, EndOfSeq
  <2> QED BY <1>3, <2>2, <2>3
<1>12. PICK m \in 1..(n + 1) : m = (n + 1) - k /\ Len(new) = m
  BY <1>11
<1>13. \A i \in 1..(n + 1) : s[i].at \in Nat /\ s[i].at <= upNow
  <2> TAKE i \in 1..(n + 1)
  <2>1. i = n + 1 \/ i \in 1..n
    OBVIOUS
  <2> QED BY <1>1, <1>3, <1>5, <1>6, <2>1
<1>14. new[m] = e
  <2>1. k + m = n + 1 /\ m \in 1..m
    BY <1>12
  <2> QED BY <1>3, <1>11, <1>12, <2>1
<1>15. \A i \in 1..m : k + i \in 1..(n + 1) /\ new[i] = s[k + i]
  BY <1>11, <1>12
<1>16. \A i \in 1..m : new[i].at <= upNow
  BY <1>13, <1>15
<1>17. ASSUME NEW t \in Int, t < upNow, OnlineAt(new, t) PROVE OnlineAt(ev, t)
  <2>1. PICK i \in 1..m : Tells(new, t, i) /\ new[i].online
    BY <1>12, <1>17 DEF OnlineAt
  <2>2. k + i \in 1..n /\ new[i] = ev[k + i] /\ ev[k + i].at <= t
    <3>1. new[i].at <= t /\ k + i \in 1..(n + 1) /\ new[i] = s[k + i]
      BY <1>15, <2>1 DEF Tells
    <3>2. k + i # n + 1
      BY <1>3, <1>6, <1>17, <3>1
    <3>3. k + i \in 1..n
      BY <3>1, <3>2
    <3> QED BY <1>3, <3>1, <3>3
  <2>3. ASSUME NEW j \in 1..n, ev[j].at <= t PROVE j <= k + i
    <3>1. CASE j <= k
      BY <3>1
    <3>2. CASE ~(j <= k)
      <4>1. j - k \in 1..m /\ k + (j - k) = j
        BY <1>12, <3>2
      <4>2. new[j - k] = ev[j]
        BY <1>3, <1>15, <4>1
      <4>3. j - k <= i
        BY <1>12, <2>1, <2>3, <4>1, <4>2 DEF Tells
      <4> QED BY <4>3
    <3> QED BY <3>1, <3>2
  <2>4. Tells(ev, t, k + i)
    BY <1>1, <2>2, <2>3 DEF Tells
  <2> QED BY <1>1, <2>1, <2>2, <2>4 DEF OnlineAt
<1>18. ASSUME NEW t \in Int, t < upNow, OnlineAt(ev, t), new[1].at <= t PROVE OnlineAt(new, t)
  <2>1. PICK i \in 1..n : Tells(ev, t, i) /\ ev[i].online
    BY <1>1, <1>18 DEF OnlineAt
  <2>2. 1 \in 1..m /\ k + 1 \in 1..(n + 1) /\ new[1] = s[k + 1]
    BY <1>12, <1>15
  <2>3. k + 1 # n + 1
    BY <1>3, <1>6, <1>18, <2>2
  <2>4. k + 1 \in 1..n /\ new[1] = ev[k + 1]
    BY <1>3, <2>2, <2>3
  <2>5. k + 1 <= i
    BY <1>1, <1>18, <2>1, <2>4 DEF Tells
  <2>6. i - k \in 1..m /\ k + (i - k) = i
    BY <1>12, <2>5
  <2>7. new[i - k] = ev[i]
    BY <1>3, <1>15, <2>6
  <2>8. ASSUME NEW j \in 1..m, new[j].at <= t PROVE j <= i - k
    <3>1. k + j \in 1..(n + 1) /\ new[j] = s[k + j]
      BY <1>15
    <3>2. k + j # n + 1
      BY <1>3, <1>6, <1>18, <2>8, <3>1
    <3>3. k + j \in 1..n /\ new[j] = ev[k + j]
      BY <1>3, <3>1, <3>2
    <3>4. k + j <= i
      BY <1>1, <2>1, <2>8, <3>3 DEF Tells
    <3> QED BY <3>4
  <2>9. Tells(new, t, i - k)
    BY <1>12, <2>1, <2>6, <2>7, <2>8 DEF Tells
  <2> QED BY <1>12, <2>1, <2>6, <2>7, <2>9 DEF OnlineAt
<1>19. ASSUME ev # << >> PROVE ev[1].at <= new[1].at
  <2>1. n # 0 /\ 1 \in 1..n
    BY <1>1, <1>19, EmptySeq
  <2>2. 1 \in 1..m /\ k + 1 \in 1..(n + 1) /\ new[1] = s[k + 1] /\ 1 \in 1..(n + 1)
    BY <1>12, <1>15
  <2>3. s[1].at <= s[k + 1].at
    BY <1>3, <1>8, <2>2 DEF IsHistory
  <2> QED BY <1>3, <2>1, <2>2, <2>3
<1>20. m \in 1..MaxEvents
  BY <1>0, <1>10, <1>12
<1>21. ASSUME ev = << >> PROVE new[1].at = upNow
  <2>1. n = 0
    BY <1>1, <1>21
  <2>2. m = 1
    BY <1>12, <2>1
  <2> QED BY <1>14, <2>2
<1> QED BY <1>11, <1>12, <1>14, <1>16, <1>17, <1>18, <1>19, <1>20, <1>21

-----------------------------------------------------------------------------
(* The inductive invariant.                                                *)
Truly(b) == IF b THEN 1 ELSE 0

\* The server does not report more than it was visited.
ServerOK ==
  /\ upNow \in 0..UpEnd /\ {connected, greeting, crossed} \subseteq BOOLEAN
  /\ toReport \in Nat /\ upStarts \in Nat /\ visits \in 0..MaxVisits
  /\ pending \subseteq upNow..(upNow + Grace) /\ IsFiniteSet(pending)
  /\ Cardinality(pending) + toReport + Truly(connected) <= visits
  /\ greeting => connected
  /\ leftAt \subseteq 0..upNow
  /\ onlineIn \subseteq 0..(upNow - 1)

\* What the tracker knows of the worker is what its log says.
WorkerOK(w) ==
  /\ w \in [online : BOOLEAN, since : Nat, sessions : Nat, events : Seq(Event)]
  /\ w.since <= upNow
  /\ IsHistory(w.events) /\ Len(w.events) <= MaxEvents
  /\ \A i \in 1..Len(w.events) : w.events[i].at <= upNow
  /\ w.events = << >> => ~w.online
  /\ w.events # << >> => /\ w.online = w.events[Len(w.events)].online
                         /\ w.since = w.events[Len(w.events)].at

TrackerOK ==
  /\ upFile = ws /\ WorkerOK(ws)
  /\ ws.sessions + Truly(greeting) <= visits

StillThere == ~crossed /\ connected => toReport = 0 /\ (greeting \/ ws.online)

\* From the first event on no moment online is missing.
Covered ==
  ~crossed /\ ws.events # << >> =>
    \A t \in onlineIn : ws.events[1].at <= t => OnlineAt(ws.events, t)

\* Who has left and is counted still will be reported.
Leaving ==
  ~connected /\ toReport = 0 /\ ws.online /\ upStarts = 0 =>
    \E l \in leftAt : l + Grace \in pending

\* The moment was online, is too old to matter, or follows a leave.
Excused(t) ==
  \/ t \in onlineIn
  \/ \A w \in Windows : t < upNow - w
  \/ \E l \in leftAt : l <= t /\ t < l + Grace

\* Every moment that is counted is excused.
Earned ==
  upStarts = 0 => \A t \in 0..(upNow - 1) : OnlineAt(ws.events, t) => Excused(t)

UptimeInv == ServerOK /\ TrackerOK /\ StillThere /\ Covered /\ Leaving /\ Earned

-----------------------------------------------------------------------------
\* The state that the log gives the present is that of its last event.
LEMMA OnlineNow ==
  ASSUME NEW ev, IsHistory(ev), ev # << >>, NEW t \in Int,
         \A i \in 1..Len(ev) : ev[i].at <= t
  PROVE  OnlineAt(ev, t) <=> ev[Len(ev)].online
<1>1. Len(ev) \in Nat /\ Len(ev) \in 1..Len(ev)
  BY LenProperties, EmptySeq DEF IsHistory
<1>2. Tells(ev, t, Len(ev))
  BY <1>1 DEF Tells
<1>3. ASSUME NEW i \in 1..Len(ev), Tells(ev, t, i) PROVE i = Len(ev)
  BY <1>1, <1>3 DEF Tells
<1> QED BY <1>1, <1>2, <1>3 DEF OnlineAt

\* The log w agrees with that of the tracker about the past, as far as it reaches back.
Agrees(w) ==
  \A t \in 0..(upNow - 1) :
    /\ OnlineAt(w.events, t) => OnlineAt(ws.events, t)
    /\ w.events # << >> /\ w.events[1].at <= t =>
         /\ ws.events # << >> /\ ws.events[1].at <= t
         /\ OnlineAt(ws.events, t) => OnlineAt(w.events, t)

\* The worker after an event of its log.
LEMMA Changed ==
  ASSUME upNow \in Nat, WorkerOK(ws), NEW e \in Event, e.at = upNow,
         e.online = ~ws.online, e.dur = IF e.online THEN 0 ELSE upNow - ws.since,
         NEW n \in Nat, NEW w,
         w = [online |-> e.online, since |-> upNow, sessions |-> n,
              events |-> Trimmed(Append(ws.events, e))]
  PROVE  WorkerOK(w) /\ Agrees(w)
<1>1. PICK ev : ev = ws.events
  OBVIOUS
<1>2. /\ IsHistory(ev) /\ \A i \in 1..Len(ev) : ev[i].at <= upNow
      /\ ev # << >> => ws.online = ev[Len(ev)].online /\ ws.since = ev[Len(ev)].at
      /\ ws.online \in BOOLEAN
      /\ ev = << >> => ~ws.online
  BY <1>1 DEF WorkerOK
<1>3. PICK new : new = Trimmed(Append(ev, e))
  OBVIOUS
<1>4. /\ ev # << >> => e.online # ev[Len(ev)].online
      /\ ev # << >> /\ ~e.online => e.dur = upNow - ev[Len(ev)].at
      /\ e.online => e.dur = 0
  BY <1>2
<1>5. /\ IsHistory(new) /\ Len(new) \in 1..MaxEvents /\ new[Len(new)] = e
      /\ \A i \in 1..Len(new) : new[i].at <= upNow
      /\ \A t \in Int : t < upNow /\ OnlineAt(new, t) => OnlineAt(ev, t)
      /\ \A t \in Int : t < upNow /\ OnlineAt(ev, t) /\ new[1].at <= t => OnlineAt(new, t)
      /\ IF ev = << >> THEN new[1].at = upNow ELSE ev[1].at <= new[1].at
  BY <1>2, <1>3, <1>4, EventAdded
<1>6. w.online = e.online /\ w.since = upNow /\ w.sessions = n /\ w.events = new
  BY <1>1, <1>3
<1>7. MaxEvents \in Nat
  BY UptimeAssumption
<1>8. new \in Seq(Event) /\ new # << >> /\ Len(new) <= MaxEvents
  BY <1>5, <1>7, EmptySeq DEF IsHistory
<1>9. WorkerOK(w)
  <2>1. w \in [online : BOOLEAN, since : Nat, sessions : Nat, events : Seq(Event)]
    <3>1. e.online \in BOOLEAN
      BY DEF Event
    <3>2. w = [online |-> e.online, since |-> upNow, sessions |-> n, events |-> new]
      BY <1>1, <1>3
    <3> QED BY <1>8, <3>1, <3>2
  <2> QED BY <1>5, <1>6, <1>8, <2>1 DEF WorkerOK
<1>10. ASSUME NEW t \in 0..(upNow - 1)
       PROVE  /\ OnlineAt(new, t) => OnlineAt(ev, t)
              /\ new[1].at <= t => /\ ev # << >> /\ ev[1].at <= t
                                   /\ OnlineAt(ev, t) => OnlineAt(new, t)
  <2>1. t \in Int /\ t < upNow
    OBVIOUS
  <2>2. OnlineAt(new, t) => OnlineAt(ev, t)
    BY <1>5, <2>1
  <2>3. ASSUME new[1].at <= t
        PROVE  ev # << >> /\ ev[1].at <= t
    <3>1. ev # << >>
      BY <1>5, <2>1, <2>3
    <3>2. new[1] \in Event /\ ev[1] \in Event
      <4>1. 1 \in 1..Len(new) /\ 1 \in 1..Len(ev)
        BY <1>2, <1>5, <3>1, LenProperties, EmptySeq DEF IsHistory
      <4> QED BY <1>2, <1>8, <4>1, ElementOfSeq DEF IsHistory
    <3>3. new[1].at \in Nat /\ ev[1].at \in Nat
      BY <3>2 DEF Event
    <3>4. ev[1].at <= new[1].at
      BY <1>5, <3>1
    <3> QED BY <2>1, <2>3, <3>1, <3>3, <3>4
  <2>4. new[1].at <= t /\ OnlineAt(ev, t) => OnlineAt(new, t)
    BY <1>5, <2>1
  <2> QED BY <2>2, <2>3, <2>4
<1>11. Agrees(w)
  BY <1>1, <1>6, <1>10 DEF Agrees
<1> QED BY <1>9, <1>11

LEMMA UnchangedAgrees == Agrees(ws) BY DEF Agrees

\* The two transitions.
LEMMA WorkerOnlineKeeps ==
  ASSUME upNow \in Nat, WorkerOK(ws)
  PROVE  /\ WorkerOK(WorkerOnline(ws)) /\ Agrees(WorkerOnline(ws))
         /\ WorkerOnline(ws).online /\ WorkerOnline(ws).sessions <= ws.sessions + 1
<1>1. ws.sessions \in Nat /\ ws.online \in BOOLEAN
  BY DEF WorkerOK
<1>2. CASE ws.online
  <2>1. WorkerOnline(ws) = ws
    BY <1>2 DEF WorkerOnline
  <2> QED BY <1>1, <1>2, <2>1, UnchangedAgrees
<1>3. CASE ~ws.online
  <2>1. PICK e : e = [online |-> TRUE, at |-> upNow, dur |-> 0]
    OBVIOUS
  <2>2. e \in Event /\ e.at = upNow /\ e.online = TRUE /\ e.dur = 0
    BY <2>1 DEF Event
  <2>3. PICK w : w = [online |-> e.online, since |-> upNow, sessions |-> ws.sessions + 1,
                      events |-> Trimmed(Append(ws.events, e))]
    OBVIOUS
  <2>4. WorkerOK(w) /\ Agrees(w)
    <3>1. e.online = ~ws.online /\ e.dur = IF e.online THEN 0 ELSE upNow - ws.since
      BY <1>3, <2>2
    <3>2. ws.sessions + 1 \in Nat
      BY <1>1
    <3> QED BY <2>2, <2>3, <3>1, <3>2, Changed
  <2>5. WorkerOnline(ws) = w
    BY <1>3, <2>1, <2>2, <2>3 DEF WorkerOnline
  <2>6. w.online /\ w.sessions = ws.sessions + 1
    BY <2>2, <2>3
  <2> QED BY <1>1, <2>4, <2>5, <2>6
<1> QED BY <1>1, <1>2, <1>3

LEMMA WorkerOfflineKeeps ==
  ASSUME upNow \in Nat, WorkerOK(ws)
  PROVE  /\ WorkerOK(WorkerOffline(ws)) /\ Agrees(WorkerOffline(ws))
         /\ ~WorkerOffline(ws).online /\ WorkerOffline(ws).sessions = ws.sessions
<1>1. /\ ws \in [online : BOOLEAN, since : Nat, sessions : Nat, events : Seq(Event)]
      /\ ws.since <= upNow /\ ws.sessions \in Nat /\ ws.online \in BOOLEAN /\ ws.since \in Nat
  BY DEF WorkerOK
<1>2. CASE ~ws.online
  <2>1. WorkerOffline(ws) = ws
    BY <1>2 DEF WorkerOffline
  <2> QED BY <1>1, <1>2, <2>1, UnchangedAgrees
<1>3. CASE ws.online
  <2>1. PICK e : e = [online |-> FALSE, at |-> upNow, dur |-> upNow - ws.since]
    OBVIOUS
  <2>2. e \in Event /\ e.at = upNow /\ e.online = FALSE /\ e.dur = upNow - ws.since
    <3>1. upNow - ws.since \in Nat
      BY <1>1
    <3> QED BY <2>1, <3>1 DEF Event
  <2>3. PICK w : w = [online |-> e.online, since |-> upNow, sessions |-> ws.sessions,
                      events |-> Trimmed(Append(ws.events, e))]
    OBVIOUS
  <2>4. WorkerOK(w) /\ Agrees(w)
    <3>1. e.online = ~ws.online /\ e.dur = IF e.online THEN 0 ELSE upNow - ws.since
      BY <1>3, <2>2
    <3> QED BY <1>1, <2>2, <2>3, <3>1, Changed
  <2>5. WorkerOffline(ws) = w
    <3>1. PICK tr : tr = Trimmed(Append(ws.events, e))
      OBVIOUS
    <3>2. WorkerOffline(ws) = [ws EXCEPT !.online = FALSE, !.since = upNow, !.events = tr]
      BY <1>3, <2>1, <3>1 DEF WorkerOffline
    <3>3. w = [online |-> FALSE, since |-> upNow, sessions |-> ws.sessions, events |-> tr]
      BY <2>2, <2>3, <3>1
    <3> QED BY <1>1, <3>2, <3>3
  <2>6. ~w.online /\ w.sessions = ws.sessions
    BY <2>2, <2>3
  <2> QED BY <2>4, <2>5, <2>6
<1> QED BY <1>1, <1>2, <1>3

-----------------------------------------------------------------------------
(* Every step keeps it.                                                    *)
LEMMA UptimeBounds ==
  /\ Grace \in Nat /\ UpEnd \in Nat /\ MaxVisits \in Nat /\ MaxEvents \in Nat /\ KeepFor \in Nat
  /\ Windows \subseteq Nat \ {0}
BY UptimeAssumption

LEMMA UptimeStart == UpInit => UptimeInv
<1> SUFFICES ASSUME UpInit PROVE UptimeInv
  OBVIOUS
<1> USE UptimeBounds DEF UpInit
<1>1. ServerOK
  <2>1. IsFiniteSet(pending) /\ Cardinality(pending) = 0
    BY FS_EmptySet
  <2>2. Cardinality(pending) + toReport + Truly(connected) <= visits
    BY <2>1 DEF Truly
  <2>3. upNow \in 0..UpEnd /\ visits \in 0..MaxVisits
    OBVIOUS
  <2> QED BY <2>1, <2>2, <2>3 DEF ServerOK
<1>2. TrackerOK
  <2>1. ws = [online |-> FALSE, since |-> 0, sessions |-> 0, events |-> << >>]
    BY DEF Unknown
  <2>2. ws.events = << >> /\ ws.online = FALSE /\ ws.since = 0 /\ ws.sessions = 0
    BY <2>1
  <2>3. << >> \in Seq(Event) /\ Len(<< >>) = 0
    BY EmptySeq
  <2>4. IsHistory(<< >>)
    BY <2>3 DEF IsHistory
  <2>5. WorkerOK(ws)
    <3>1. ws \in [online : BOOLEAN, since : Nat, sessions : Nat, events : Seq(Event)]
      BY <2>1, <2>3
    <3> QED BY <2>2, <2>3, <2>4, <3>1 DEF WorkerOK
  <2> QED BY <2>2, <2>5 DEF TrackerOK, Truly
<1>3. StillThere /\ Covered /\ Leaving
  BY DEF StillThere, Covered, Leaving, Unknown
<1>4. Earned
  BY DEF Earned
<1> QED BY <1>1, <1>2, <1>3, <1>4 DEF UptimeInv

\* What the server can have done is not more than the visits of the worker.
LEMMA ServerStep == UptimeInv /\ [UpNext]_upVars => ServerOK'
<1> SUFFICES ASSUME UptimeInv, [UpNext]_upVars PROVE ServerOK'
  OBVIOUS
<1>1. ServerOK
  BY DEF UptimeInv
<1>2. /\ upNow \in 0..UpEnd /\ connected \in BOOLEAN /\ greeting \in BOOLEAN /\ crossed \in BOOLEAN
      /\ toReport \in Nat /\ upStarts \in Nat /\ visits \in 0..MaxVisits
      /\ pending \subseteq upNow..(upNow + Grace) /\ IsFiniteSet(pending)
      /\ Cardinality(pending) \in Nat
      /\ leftAt \subseteq 0..upNow /\ onlineIn \subseteq 0..(upNow - 1)
      /\ Cardinality(pending) + toReport + Truly(connected) <= visits
      /\ greeting => connected
  BY <1>1, FS_CardinalityType DEF ServerOK
<1> USE UptimeBounds
<1> HIDE DEF UptimeInv
<1>3. CASE Connects
  BY <1>2, <1>3 DEF Connects, ServerOK, Truly
<1>4. CASE Greets
  BY <1>2, <1>4 DEF Greets, ServerOK, upGhost
<1>5. CASE Disconnects
  <2>1. IsFiniteSet(pending') /\ Cardinality(pending') <= Cardinality(pending) + 1
        /\ Cardinality(pending') \in Nat
    <3>1. PICK p : p = pending
      OBVIOUS
    <3>2. PICK x : x = upNow + Grace
      OBVIOUS
    <3>3. pending' = p \union {x}
      BY <1>5, <3>1, <3>2 DEF Disconnects
    <3>4. /\ IsFiniteSet(p \union {x})
          /\ Cardinality(p \union {x}) = IF x \in p THEN Cardinality(p) ELSE Cardinality(p) + 1
      BY <1>2, <3>1, FS_AddElement
    <3> QED BY <1>2, <3>1, <3>3, <3>4
  <2>2. pending' \subseteq upNow..(upNow + Grace) /\ leftAt' \subseteq 0..upNow
    BY <1>2, <1>5 DEF Disconnects
  <2>3. Cardinality(pending') + toReport + Truly(FALSE) <= visits
    BY <1>2, <1>5, <2>1 DEF Disconnects, Truly
  <2> QED BY <1>2, <1>5, <2>1, <2>2, <2>3 DEF Disconnects, ServerOK
<1>6. CASE Wakes
  <2>1. IsFiniteSet(pending') /\ Cardinality(pending') = Cardinality(pending) - 1
    <3>1. pending' = pending \ {upNow} /\ upNow \in pending
      BY <1>6 DEF Wakes
    <3> QED BY <1>2, <3>1, FS_RemoveElement
  <2>2. toReport' \in Nat /\ toReport' <= toReport + 1
    BY <1>2, <1>6 DEF Wakes
  <2>3. Cardinality(pending') + toReport' + Truly(connected) <= visits
    BY <1>2, <2>1, <2>2 DEF Truly
  <2> QED BY <1>2, <1>6, <2>1, <2>2, <2>3 DEF Wakes, ServerOK, upGhost
<1>7. CASE Reports
  <2>1. toReport' \in Nat /\ toReport' <= toReport
    BY <1>2, <1>7 DEF Reports
  <2>2. Cardinality(pending) + toReport' + Truly(connected) <= visits
    BY <1>2, <2>1 DEF Truly
  <2> QED BY <1>2, <1>7, <2>1, <2>2 DEF Reports, ServerOK, upGhost
<1>8. CASE StopsAndStarts
  <2>1. /\ upNow' = upNow /\ onlineIn' = onlineIn /\ crossed' = crossed /\ visits' = visits
        /\ connected' = FALSE /\ greeting' = FALSE /\ pending' = {} /\ toReport' = 0
        /\ upStarts' \in Nat /\ leftAt' \subseteq 0..upNow
    BY <1>2, <1>8 DEF StopsAndStarts
  <2>2. IsFiniteSet(pending') /\ Cardinality(pending') = 0
    BY <2>1, FS_EmptySet
  <2>3. Cardinality(pending') + toReport' + Truly(FALSE) <= visits
    BY <1>2, <2>1, <2>2 DEF Truly
  <2> QED BY <1>2, <2>1, <2>2, <2>3 DEF ServerOK
<1>9. CASE TimeGoesOn
  <2>1. upNow' = upNow + 1 /\ upNow' \in 0..UpEnd
    BY <1>2, <1>9 DEF TimeGoesOn
  <2>2. pending \subseteq upNow'..(upNow' + Grace)
    BY <1>2, <1>9, <2>1 DEF TimeGoesOn
  <2>3. onlineIn' \subseteq 0..(upNow' - 1)
    <3> SUFFICES ASSUME NEW t \in onlineIn' PROVE t \in 0..(upNow' - 1)
      OBVIOUS
    <3>1. t \in onlineIn \/ t = upNow
      BY <1>9 DEF TimeGoesOn
    <3>2. t \in onlineIn => t \in 0..(upNow - 1)
      BY <1>2
    <3>3. upNow \in Nat /\ upNow' - 1 = upNow
      BY <1>2, <2>1
    <3>4. t \in 0..upNow
      BY <3>1, <3>2, <3>3
    <3> QED BY <3>3, <3>4
  <2>4. leftAt \subseteq 0..upNow'
    BY <1>2, <2>1
  <2> QED BY <1>2, <1>9, <2>1, <2>2, <2>3, <2>4 DEF TimeGoesOn, server, ServerOK
<1>10. CASE UNCHANGED upVars
  BY <1>1, <1>10 DEF upVars, server, upGhost, ServerOK
<1> QED BY <1>3, <1>4, <1>5, <1>6, <1>7, <1>8, <1>9, <1>10 DEF UpNext

\* The tracker's memory is in its file and is what its log says.
LEMMA TrackerStep == UptimeInv /\ [UpNext]_upVars => TrackerOK'
<1> SUFFICES ASSUME UptimeInv, [UpNext]_upVars PROVE TrackerOK'
  OBVIOUS
<1>1. /\ upNow \in Nat /\ upFile = ws /\ WorkerOK(ws) /\ ws.sessions + Truly(greeting) <= visits
      /\ ws.sessions \in Nat /\ visits \in Nat /\ greeting \in BOOLEAN
      /\ greeting => connected
  BY UptimeBounds DEF UptimeInv, ServerOK, TrackerOK, WorkerOK
<1>2. ASSUME upNow' = upNow, WorkerOK(ws') PROVE WorkerOK(ws)'
  BY <1>2 DEF WorkerOK
<1>3. CASE Greets
  <2>1. ws' = WorkerOnline(ws) /\ upFile' = ws' /\ upNow' = upNow /\ visits' = visits
        /\ greeting = TRUE /\ greeting' = FALSE
    BY <1>1, <1>3 DEF Greets, Saves, upGhost
  <2>2. WorkerOK(ws') /\ ws'.sessions <= ws.sessions + 1
    BY <1>1, <2>1, WorkerOnlineKeeps
  <2>3. ws'.sessions \in Nat
    BY <2>2 DEF WorkerOK
  <2>4. ws'.sessions + Truly(FALSE) <= visits
    BY <1>1, <2>1, <2>2, <2>3 DEF Truly
  <2> QED BY <1>2, <2>1, <2>2, <2>4 DEF TrackerOK
<1>4. CASE Reports
  <2>1. ws' = WorkerOffline(ws) /\ upFile' = ws' /\ upNow' = upNow /\ visits' = visits
        /\ greeting' = greeting
    BY <1>1, <1>4 DEF Reports, Saves, upGhost
  <2>2. WorkerOK(ws') /\ ws'.sessions = ws.sessions
    BY <1>1, <2>1, WorkerOfflineKeeps
  <2> QED BY <1>1, <1>2, <2>1, <2>2 DEF TrackerOK
<1>5. ASSUME ws' = ws, upFile' = upFile, upNow' = upNow \/ upNow' = upNow + 1,
             ws.sessions + Truly(greeting') <= visits'
      PROVE  TrackerOK'
  <2>1. WorkerOK(ws)'
    <3>1. ws.since \in Nat /\ IsHistory(ws.events)
      BY <1>1 DEF WorkerOK
    <3>2. ws.since <= upNow'
      BY <1>1, <1>5, <3>1 DEF WorkerOK
    <3>3. ASSUME NEW i \in 1..Len(ws.events) PROVE ws.events[i].at <= upNow'
      <4>1. Len(ws.events) \in Nat /\ ws.events[i] \in Event
        BY <3>1, LenProperties, ElementOfSeq DEF IsHistory
      <4>2. ws.events[i].at \in Nat
        BY <4>1 DEF Event
      <4>3. ws.events[i].at <= upNow
        BY <1>1 DEF WorkerOK
      <4> QED BY <1>1, <1>5, <4>2, <4>3
    <3> QED BY <1>1, <1>5, <3>2, <3>3 DEF WorkerOK
  <2> QED BY <1>1, <1>5, <2>1 DEF TrackerOK
<1>6. CASE Connects
  <2>1. ws.sessions + Truly(TRUE) <= visits + 1
    <3>1. greeting = FALSE
      BY <1>1, <1>6 DEF Connects
    <3> QED BY <1>1, <3>1 DEF Truly
  <2> QED BY <1>5, <1>6, <2>1 DEF Connects, tracker
<1>7. CASE StopsAndStarts
  <2>1. ws.sessions + Truly(FALSE) <= visits
    BY <1>1 DEF Truly
  <2> QED BY <1>1, <1>5, <1>7, <2>1 DEF StopsAndStarts
<1>8. CASE Disconnects \/ Wakes \/ TimeGoesOn \/ UNCHANGED upVars
  <2>1. /\ ws' = ws /\ upFile' = upFile /\ (upNow' = upNow \/ upNow' = upNow + 1)
        /\ greeting' = greeting /\ visits' = visits
    BY <1>8 DEF Disconnects, Wakes, TimeGoesOn, upVars, tracker, server, upGhost
  <2> QED BY <1>1, <1>5, <2>1
<1> QED BY <1>3, <1>4, <1>6, <1>7, <1>8 DEF UpNext

\* A worker that is back has been reported to be.
LEMMA StillThereStep == UptimeInv /\ [UpNext]_upVars => StillThere'
<1> SUFFICES ASSUME UptimeInv, [UpNext]_upVars PROVE StillThere'
  OBVIOUS
<1>1. /\ StillThere /\ toReport \in Nat /\ WorkerOK(ws) /\ upNow \in Nat
      /\ crossed \in BOOLEAN /\ connected \in BOOLEAN /\ greeting \in BOOLEAN
  BY UptimeBounds DEF UptimeInv, ServerOK, TrackerOK
<1>2. CASE Connects
  <2>1. ~crossed' => toReport = 0
    <3>1. ~crossed' => ~(toReport > 0)
      BY <1>2, Zenon DEF Connects
    <3> QED BY <1>1, <3>1
  <2>2. toReport' = toReport /\ greeting'
    BY <1>2 DEF Connects
  <2> QED BY <2>1, <2>2 DEF StillThere
<1>3. CASE Greets
  <2>1. WorkerOnline(ws).online
    BY <1>1, WorkerOnlineKeeps
  <2> QED BY <1>1, <1>3, <2>1 DEF Greets, Saves, StillThere, upGhost
<1>4. CASE Reports
  BY <1>1, <1>4 DEF Reports, StillThere, upGhost
<1>5. CASE Disconnects \/ StopsAndStarts
  BY <1>5 DEF Disconnects, StopsAndStarts, StillThere
<1>6. CASE Wakes
  BY <1>1, <1>6 DEF Wakes, StillThere, upGhost, tracker
<1>7. CASE TimeGoesOn
  BY <1>1, <1>7 DEF TimeGoesOn, StillThere, server, tracker
<1>8. CASE UNCHANGED upVars
  BY <1>1, <1>8 DEF upVars, tracker, server, upGhost, StillThere
<1> QED BY <1>2, <1>3, <1>4, <1>5, <1>6, <1>7, <1>8 DEF UpNext

\* One that is counted though it has left is about to be reported.
LEMMA LeavingStep == UptimeInv /\ [UpNext]_upVars => Leaving'
<1> SUFFICES ASSUME UptimeInv, [UpNext]_upVars PROVE Leaving'
  OBVIOUS
<1>1. /\ Leaving /\ toReport \in Nat /\ upStarts \in Nat /\ WorkerOK(ws) /\ upNow \in Nat
      /\ greeting => connected
  BY UptimeBounds DEF UptimeInv, ServerOK, TrackerOK
<1>2. CASE Connects
  BY <1>2 DEF Connects, Leaving
<1>3. CASE Greets
  BY <1>1, <1>3 DEF Greets, Leaving
<1>4. CASE Reports
  <2>1. ~WorkerOffline(ws).online
    BY <1>1, WorkerOfflineKeeps
  <2> QED BY <1>4, <2>1 DEF Reports, Saves, Leaving
<1>5. CASE Disconnects
  BY <1>5 DEF Disconnects, Leaving
<1>6. CASE Wakes
  BY <1>1, <1>6 DEF Wakes, Leaving
<1>7. CASE StopsAndStarts
  <2>1. upStarts' # 0
    BY <1>1, <1>7 DEF StopsAndStarts
  <2> QED BY <2>1 DEF Leaving
<1>8. CASE TimeGoesOn \/ UNCHANGED upVars
  BY <1>1, <1>8 DEF TimeGoesOn, upVars, tracker, server, upGhost, Leaving
<1> QED BY <1>2, <1>3, <1>4, <1>5, <1>6, <1>7, <1>8 DEF UpNext

\* What a transition of the tracker leaves of the past.
LEMMA TransitionAgrees ==
  ASSUME UptimeInv, Greets \/ Reports
  PROVE  /\ Agrees(ws') /\ upNow' = upNow
         /\ onlineIn' = onlineIn /\ leftAt' = leftAt /\ crossed' = crossed /\ upStarts' = upStarts
<1>1. WorkerOK(ws) /\ upNow \in Nat
  BY UptimeBounds DEF UptimeInv, ServerOK, TrackerOK
<1> QED BY <1>1, WorkerOnlineKeeps, WorkerOfflineKeeps DEF Greets, Reports, Saves, upGhost

\* The log says of the moment that passes what the tracker says.
LEMMA MomentTold ==
  ASSUME UptimeInv
  PROVE  /\ OnlineAt(ws.events, upNow) <=> ws.online
         /\ ws.online => ws.events # << >>
<1>1. /\ WorkerOK(ws) /\ upNow \in Nat
  BY UptimeBounds DEF UptimeInv, ServerOK, TrackerOK
<1>2. CASE ws.events = << >>
  <2>1. 1..Len(ws.events) = {}
    BY <1>2, EmptySeq
  <2>2. ~OnlineAt(ws.events, upNow)
    BY <2>1 DEF OnlineAt
  <2> QED BY <1>1, <1>2, <2>2 DEF WorkerOK
<1>3. CASE ws.events # << >>
  <2>1. /\ IsHistory(ws.events) /\ \A i \in 1..Len(ws.events) : ws.events[i].at <= upNow
        /\ ws.online = ws.events[Len(ws.events)].online
    BY <1>1, <1>3 DEF WorkerOK
  <2>2. OnlineAt(ws.events, upNow) <=> ws.events[Len(ws.events)].online
    BY <1>1, <1>3, <2>1, OnlineNow
  <2>3. ws.online \in BOOLEAN
    BY <1>1 DEF WorkerOK
  <2> QED BY <1>3, <2>1, <2>2, <2>3
<1> QED BY <1>2, <1>3

\* No moment online is missing.
LEMMA CoveredStep == UptimeInv /\ [UpNext]_upVars => Covered'
<1> SUFFICES ASSUME UptimeInv, [UpNext]_upVars,
                    ~crossed', ws'.events # << >>, NEW t \in onlineIn', ws'.events[1].at <= t
             PROVE  OnlineAt(ws'.events, t)
  BY DEF Covered
<1>1. /\ Covered /\ upNow \in Nat /\ upFile = ws /\ onlineIn \subseteq 0..(upNow - 1)
      /\ crossed \in BOOLEAN /\ connected \in BOOLEAN
  BY UptimeBounds DEF UptimeInv, ServerOK, TrackerOK
<1>2. CASE Greets \/ Reports
  <2>1. Agrees(ws') /\ onlineIn' = onlineIn /\ crossed' = crossed
    BY <1>2, TransitionAgrees
  <2>2. t \in 0..(upNow - 1)
    BY <1>1, <2>1
  <2>3. /\ ws.events # << >> /\ ws.events[1].at <= t
        /\ OnlineAt(ws.events, t) => OnlineAt(ws'.events, t)
    BY <2>1, <2>2 DEF Agrees
  <2>4. OnlineAt(ws.events, t)
    BY <1>1, <2>1, <2>3 DEF Covered
  <2> QED BY <2>3, <2>4
<1>3. CASE TimeGoesOn
  <2>1. ws' = ws /\ crossed' = crossed /\ (t \in onlineIn \/ (connected /\ t = upNow))
    BY <1>3 DEF TimeGoesOn, tracker
  <2>2. CASE t \in onlineIn
    BY <1>1, <2>1, <2>2 DEF Covered
  <2>3. CASE connected /\ t = upNow
    <3>1. ws.online
      BY <1>3, <2>1, <2>3 DEF TimeGoesOn, UptimeInv, StillThere
    <3> QED BY <2>1, <2>3, <3>1, MomentTold
  <2> QED BY <2>1, <2>2, <2>3
<1>4. CASE Connects \/ Disconnects \/ Wakes \/ StopsAndStarts \/ UNCHANGED upVars
  <2>1. ws' = ws /\ onlineIn' = onlineIn /\ (~crossed' => ~crossed)
    BY <1>1, <1>4 DEF Connects, Disconnects, Wakes, StopsAndStarts, upVars, tracker, upGhost
  <2> QED BY <1>1, <2>1 DEF Covered
<1> QED BY <1>2, <1>3, <1>4 DEF UpNext

\* No moment is too many but those of a leave.
LEMMA EarnedStep == UptimeInv /\ [UpNext]_upVars => Earned'
<1> SUFFICES ASSUME UptimeInv, [UpNext]_upVars,
                    upStarts' = 0, NEW t \in 0..(upNow' - 1), OnlineAt(ws'.events, t)
             PROVE  Excused(t)'
  BY DEF Earned
<1>1. /\ Earned /\ upNow \in Nat /\ upFile = ws /\ upStarts \in Nat /\ Grace \in Nat
      /\ leftAt \subseteq 0..upNow /\ pending \subseteq upNow..(upNow + Grace)
      /\ connected \in BOOLEAN /\ Windows \subseteq Nat \ {0}
  BY UptimeBounds DEF UptimeInv, ServerOK, TrackerOK
<1>2. CASE Greets \/ Reports
  <2>1. /\ Agrees(ws') /\ upNow' = upNow
        /\ onlineIn' = onlineIn /\ leftAt' = leftAt /\ upStarts' = upStarts
    BY <1>2, TransitionAgrees
  <2>2. OnlineAt(ws.events, t)
    BY <2>1 DEF Agrees
  <2> QED BY <1>1, <2>1, <2>2 DEF Earned, Excused
<1>3. CASE Connects \/ Disconnects \/ Wakes \/ UNCHANGED upVars
  <2>1. /\ ws' = ws /\ upNow' = upNow /\ upStarts' = upStarts /\ onlineIn' = onlineIn
        /\ leftAt \subseteq leftAt'
    BY <1>3 DEF Connects, Disconnects, Wakes, upVars, tracker, upGhost
  <2>2. Excused(t)
    BY <1>1, <2>1 DEF Earned
  <2> QED BY <2>1, <2>2 DEF Excused
<1>4. CASE StopsAndStarts
  BY <1>1, <1>4 DEF StopsAndStarts
<1>5. CASE TimeGoesOn
  <2>1. /\ ws' = ws /\ upNow' = upNow + 1 /\ upStarts' = upStarts /\ leftAt' = leftAt
        /\ t \in 0..(upNow - 1) \/ t = upNow
        /\ toReport = 0 /\ upNow \notin pending
    BY <1>1, <1>5 DEF TimeGoesOn, tracker
  <2>2. \A w \in Windows : upNow' - w = upNow - w + 1 /\ upNow' - w <= upNow
    BY <1>1, <2>1
  <2>3. CASE t \in 0..(upNow - 1)
    <3>1. Excused(t)
      BY <1>1, <2>1, <2>3 DEF Earned
    <3>2. CASE t \in onlineIn
      <4>1. t \in onlineIn' \/ \A w \in Windows : ~(t > upNow - w)
        BY <1>5, <3>2 DEF TimeGoesOn
      <4>2. ASSUME NEW w \in Windows, ~(t > upNow - w) PROVE t < upNow' - w
        BY <1>1, <2>1, <2>3, <4>2
      <4> QED BY <4>1, <4>2 DEF Excused
    <3>3. CASE \A w \in Windows : t < upNow - w
      <4>1. ASSUME NEW w \in Windows, t < upNow - w PROVE t < upNow' - w
        BY <1>1, <2>1, <2>3, <4>1
      <4> QED BY <3>3, <4>1 DEF Excused
    <3>4. CASE \E l \in leftAt : l <= t /\ t < l + Grace
      BY <2>1, <3>4 DEF Excused
    <3> QED BY <3>1, <3>2, <3>3, <3>4 DEF Excused
  <2>4. CASE t = upNow
    <3>1. ws.online
      BY <2>1, <2>4, MomentTold
    <3>2. CASE connected
      <4>1. t \in onlineIn' \/ \A w \in Windows : ~(t > upNow - w)
        BY <1>5, <2>4, <3>2 DEF TimeGoesOn
      <4>2. \A w \in Windows : t > upNow - w
        BY <1>1, <2>4
      <4> QED BY <4>1, <4>2 DEF Excused
    <3>3. CASE ~connected
      <4>1. PICK l \in leftAt : l + Grace \in pending
        BY <2>1, <3>1, <3>3 DEF UptimeInv, Leaving
      <4>2. l \in 0..upNow /\ l + Grace >= upNow /\ l + Grace # upNow
        BY <1>1, <2>1, <4>1
      <4>3. l <= t /\ t < l + Grace
        BY <1>1, <2>4, <4>2
      <4> QED BY <2>1, <4>1, <4>3 DEF Excused
    <3> QED BY <1>1, <3>2, <3>3
  <2> QED BY <2>1, <2>3, <2>4
<1> QED BY <1>2, <1>3, <1>4, <1>5 DEF UpNext

LEMMA UptimeInvariance == UpSpec => []UptimeInv
<1>1. UpInit => UptimeInv
  BY UptimeStart
<1>2. UptimeInv /\ [UpNext]_upVars => UptimeInv'
  BY ServerStep, TrackerStep, StillThereStep, CoveredStep, LeavingStep, EarnedStep DEF UptimeInv
<1> QED BY <1>1, <1>2, PTL DEF UpSpec

\* The type invariant of the uptime tracker: in any history of visits, reports,
\* cuts and restarts the counters stay within the visits of the worker (uptime/tracker.go,
\* stratum/server.go).
THEOREM UptimeTypes == UpSpec => []UpTypeOK
<1>1. UptimeInv => UpTypeOK
  <2> SUFFICES ASSUME UptimeInv PROVE UpTypeOK
    OBVIOUS
  <2> USE UptimeBounds DEF UptimeInv, ServerOK, TrackerOK
  <2>1. ws.sessions \in Nat /\ ws.since \in Nat /\ ws.online \in BOOLEAN
        /\ ws.since <= upNow /\ Len(ws.events) <= MaxEvents /\ upFile = ws
    BY DEF WorkerOK
  <2>2. toReport <= visits /\ toReport \in 0..MaxVisits
    BY FS_CardinalityType DEF Truly
  <2>3. ws.sessions \in 0..MaxVisits /\ ws.since \in 0..upNow
    BY <2>1 DEF Truly
  <2> QED BY <2>1, <2>2, <2>3 DEF UpTypeOK
<1> QED BY <1>1, UptimeInvariance, PTL

\* What calcUptimePct counts is what the log tells.
LEMMA CountedIsOnline ==
  ASSUME UptimeInv, NEW t \in Int
  PROVE  CountedOnline(t) <=> OnlineAt(ws.events, t)
<1>1. DOMAIN ws.events = 1..Len(ws.events)
  BY LenProperties DEF UptimeInv, TrackerOK, WorkerOK
<1> QED BY <1>1 DEF CountedOnline, OnlineAt, Tells

\* Sessions and downtime fill the time since the first event.
LEMMA HistoryIsFilled == UptimeInv => LogIsAHistory
<1> SUFFICES ASSUME UptimeInv, ws.events # << >> PROVE LogIsAHistory
  BY DEF LogIsAHistory
<1>1. PICK ev : ev = ws.events
  OBVIOUS
<1>2. /\ IsHistory(ev) /\ ev # << >> /\ upNow \in Nat /\ ws.online \in BOOLEAN
      /\ ws.online = ev[Len(ev)].online /\ ws.since = ev[Len(ev)].at
  BY <1>1, UptimeBounds DEF UptimeInv, ServerOK, TrackerOK, WorkerOK
<1>3. PICK n \in Nat \ {0} : n = Len(ev)
  BY <1>2, LenProperties, EmptySeq DEF IsHistory
<1>4. \A i \in 1..n : ev[i].online \in BOOLEAN /\ ev[i].at \in Nat /\ ev[i].dur \in Nat
  <2>1. \A i \in 1..n : ev[i] \in Event
    BY <1>2, <1>3, ElementOfSeq DEF IsHistory
  <2> QED BY <2>1 DEF Event
<1>5. \A i \in 1..(n - 1) : ev[i].at <= ev[i + 1].at /\ ev[i].online # ev[i + 1].online
  <2> TAKE i \in 1..(n - 1)
  <2>1. i \in 1..n /\ i + 1 \in 1..n /\ i + 1 \in 2..n /\ i <= i + 1 /\ (i + 1) - 1 = i
    OBVIOUS
  <2> QED BY <1>2, <1>3, <2>1 DEF IsHistory
<1>6. PICK d : d = Total(Durations(ev))
  OBVIOUS
<1>7. PICK g : g = Total(Gaps(ev))
  OBVIOUS
<1>8. d + g = ev[n].at - ev[1].at + (IF ev[1].online THEN 0 ELSE ev[1].dur)
  BY <1>2, <1>3, <1>6, <1>7, TimeIsFilled
<1>9. d \in Int /\ g \in Int
  BY <1>2, <1>6, <1>7, TimeIsFilled
<1>10. /\ SessionTime = d + (IF ws.online THEN upNow - ev[n].at ELSE 0)
       /\ TotalDowntime = g + (IF ~ws.online THEN upNow - ev[n].at ELSE 0)
  BY <1>1, <1>2, <1>3, <1>6, <1>7 DEF SessionTime, TotalDowntime
<1>11. SessionTime + TotalDowntime = upNow - ev[1].at + (IF ev[1].online THEN 0 ELSE ev[1].dur)
  <2>1. PICK x \in Int : x = IF ev[1].online THEN 0 ELSE ev[1].dur
    BY <1>4
  <2>2. PICK a \in Nat, b \in Nat : a = ev[n].at /\ b = ev[1].at
    BY <1>4
  <2>3. d + g = a - b + x
    BY <1>8, <2>1, <2>2
  <2>4. SessionTime + TotalDowntime = (d + g) + (upNow - a)
    <3>1. CASE ws.online
      BY <1>2, <1>9, <1>10, <2>2, <3>1
    <3>2. CASE ~ws.online
      BY <1>2, <1>9, <1>10, <2>2, <3>2
    <3> QED BY <3>1, <3>2
  <2>5. (d + g) + (upNow - a) = upNow - b + x
    BY <1>2, <1>9, <2>3
  <2> QED BY <2>1, <2>2, <2>4, <2>5
<1> QED BY <1>1, <1>2, <1>3, <1>5, <1>11 DEF LogIsAHistory

\* The uptime that the operator sees is earned: the log of the tracker stays a history whose
\* sessions and downtimes fill the time, no moment the worker was connected is
\* missing since its first event unless a report has crossed with the worker's
\* return, and without a restart every moment too many is one of the 3 minutes after a
\* leave (calcUptimePct, WorkerOnline and WorkerOffline of uptime/tracker.go).
THEOREM UptimeIsJust == UpSpec => []UptimeIsEarned
<1>1. UptimeInv => UptimeIsEarned
  <2> SUFFICES ASSUME UptimeInv, ws.events # << >>, ~crossed, NEW w \in Windows
               PROVE  /\ \A t \in onlineIn :
                           t >= upNow - w /\ t >= ws.events[1].at => t \in Uptime(w)
                      /\ upStarts = 0 =>
                           \A t \in Uptime(w) \ onlineIn :
                             \E l \in leftAt : l <= t /\ t < l + Grace
    BY HistoryIsFilled DEF UptimeIsEarned
  <2>1. upNow \in Nat /\ onlineIn \subseteq 0..(upNow - 1) /\ w \in Nat /\ Windows \subseteq Nat
    BY UptimeBounds DEF UptimeInv, ServerOK
  <2>2. Uptime(w) = {t \in (upNow - w)..(upNow - 1) : CountedOnline(t)}
    BY DEF Uptime
  <2>3. ws.events[1].at \in Nat /\ \A i \in 1..Len(ws.events) : ws.events[i].at \in Nat
    <3>1. ws.events \in Seq(Event) /\ Len(ws.events) \in Nat /\ Len(ws.events) # 0
      BY LenProperties, EmptySeq DEF UptimeInv, TrackerOK, WorkerOK, IsHistory
    <3>2. \A i \in 1..Len(ws.events) : ws.events[i] \in Event
      BY <3>1, ElementOfSeq
    <3>3. 1 \in 1..Len(ws.events)
      BY <3>1
    <3> QED BY <3>2, <3>3 DEF Event
  <2>4. ASSUME NEW t \in onlineIn, t >= upNow - w, t >= ws.events[1].at
        PROVE  t \in Uptime(w)
    <3>1. t \in (upNow - w)..(upNow - 1) /\ t \in Int /\ ws.events[1].at <= t
      BY <2>1, <2>3, <2>4
    <3>2. OnlineAt(ws.events, t)
      BY <3>1 DEF UptimeInv, Covered
    <3> QED BY <2>2, <3>1, <3>2, CountedIsOnline
  <2>5. ASSUME upStarts = 0, NEW t \in Uptime(w) \ onlineIn
        PROVE  \E l \in leftAt : l <= t /\ t < l + Grace
    <3>1. t \in (upNow - w)..(upNow - 1) /\ t \in Int /\ CountedOnline(t)
      BY <2>1, <2>2
    <3>2. OnlineAt(ws.events, t)
      BY <3>1, CountedIsOnline
    <3>3. t \in 0..(upNow - 1)
      <4>1. PICK i \in 1..Len(ws.events) : ws.events[i].at <= t
        BY <3>2 DEF OnlineAt, Tells
      <4> QED BY <2>1, <2>3, <3>1, <4>1
    <3>4. Excused(t)
      BY <2>5, <3>2, <3>3 DEF UptimeInv, Earned
    <3>5. ~(t < upNow - w)
      BY <2>1, <3>1
    <3> QED BY <3>4, <3>5 DEF Excused
  <2> QED BY <2>4, <2>5
<1> QED BY <1>1, UptimeInvariance, PTL

-----------------------------------------------------------------------------
(* The history of the hashrate store.                                      *)
\* Steps from a set into itself stay in it.
LEMMA IterateStays ==
  ASSUME NEW S, NEW f \in [S -> S], NEW x \in S, NEW n \in Nat
  PROVE  Iterate(f, x, n) \in S
<1> DEFINE Steps(k, g) == g = [i \in 0..k |-> IF i = 0 THEN x ELSE f[g[i - 1]]]
           T == {k \in 0..n : ~ \E g : Steps(k, g)}
<1>1. T = {}
  <2> SUFFICES ASSUME T # {} PROVE FALSE
    OBVIOUS
  <2>1. PICK k \in T : \A y \in T : k <= y
    <3>1. T \in SUBSET Nat
      OBVIOUS
    <3> QED BY <3>1, LeastElement
  <2>2. k \in 0..n /\ ~ \E g : Steps(k, g)
    BY <2>1
  <2>3. CASE k = 0
    <3> DEFINE z == [i \in 0..0 |-> x]
    <3>1. Steps(0, z)
      OBVIOUS
    <3> QED BY <2>2, <2>3, <3>1
  <2>4. CASE k # 0
    <3>0. k - 1 \in 0..n /\ ~ (k <= k - 1)
      BY <2>2, <2>4
    <3>1. k - 1 \in 0..n /\ k - 1 \notin T
      BY <2>1, <3>0
    <3>2. PICK g : Steps(k - 1, g)
      BY <3>1
    <3> DEFINE h == [i \in 0..k |-> IF i = k THEN f[g[k - 1]] ELSE g[i]]
    <3>3. ASSUME NEW i \in 0..k
          PROVE  h[i] = IF i = 0 THEN x ELSE f[h[i - 1]]
      <4>1. CASE i = 0
        <5>1. h[i] = g[0] /\ 0 \in 0..(k - 1)
          BY <2>2, <2>4, <4>1
        <5> QED BY <3>2, <4>1, <5>1
      <4>2. CASE i # 0 /\ i # k
        <5>1. i \in 0..(k - 1) /\ i - 1 \in 0..k /\ i - 1 # k
          BY <2>2, <4>2
        <5>2. h[i] = g[i] /\ h[i - 1] = g[i - 1]
          BY <4>2, <5>1
        <5>3. g[i] = f[g[i - 1]]
          BY <3>2, <4>2, <5>1
        <5> QED BY <4>2, <5>2, <5>3
      <4>3. CASE i = k
        <5>1. k - 1 \in 0..k /\ k - 1 # k
          BY <2>2, <2>4
        <5>2. h[k - 1] = g[k - 1] /\ h[i] = f[g[k - 1]]
          BY <4>3, <5>1
        <5> QED BY <2>4, <4>3, <5>2
      <4> QED BY <4>1, <4>2, <4>3
    <3>4. h = [i \in 0..k |-> IF i = 0 THEN x ELSE f[h[i - 1]]]
      <4> HIDE DEF h
      <4>1. h = [i \in 0..k |-> h[i]]
        BY DEF h
      <4> QED BY <3>3, <4>1
    <3> QED BY <2>2, <3>4
  <2> QED BY <2>3, <2>4
<1>2. PICK after : after = CHOOSE g : Steps(n, g)
  OBVIOUS
<1>3. Steps(n, after)
  <2>1. n \in 0..n
    OBVIOUS
  <2>2. \E g : Steps(n, g)
    BY <1>1, <2>1
  <2> QED BY <1>2, <2>2
<1>4. Iterate(f, x, n) = after[n]
  BY <1>2 DEF Iterate
<1>5. after[0] = x /\ \A i \in 1..n : after[i] = f[after[i - 1]]
  <2>1. after[0] = x
    <3>1. 0 \in 0..n
      OBVIOUS
    <3> QED BY <1>3, <3>1
  <2>2. ASSUME NEW i \in 1..n PROVE after[i] = f[after[i - 1]]
    <3>1. i \in 0..n /\ i # 0
      OBVIOUS
    <3> QED BY <1>3, <3>1
  <2> QED BY <2>1, <2>2
<1> DEFINE Out == {k \in 0..n : after[k] \notin S}
<1>6. Out = {}
  <2> SUFFICES ASSUME Out # {} PROVE FALSE
    OBVIOUS
  <2>1. PICK k \in Out : \A y \in Out : k <= y
    <3>1. Out \in SUBSET Nat
      OBVIOUS
    <3> QED BY <3>1, LeastElement
  <2>2. k \in 0..n /\ after[k] \notin S /\ k # 0
    BY <1>5, <2>1
  <2>3. k - 1 \in 0..n /\ k - 1 \notin Out /\ k \in 1..n
    BY <2>1, <2>2
  <2> QED BY <1>5, <2>2, <2>3
<1>7. n \in 0..n
  OBVIOUS
<1> QED BY <1>4, <1>6, <1>7

-----------------------------------------------------------------------------
Sample == [t : Nat, stands : SUBSET Nat]

\* The history s stands for the measurements M, for each of them once.
StandsFor(s, M) ==
  /\ s \in Seq(Sample) /\ Stands(s) = M /\ Once(s)
  /\ \A i \in 1..Len(s) : s[i].stands # {}

\* What the samples at places P stand for.
StandsOf(s, P) == UNION {s[j].stands : j \in P}

\* The places that groups take up.
InGroups(g, n) == UNION {g[k] : k \in 1..n}

\* The elements of e stand for groups of those of s.
Groups(g, e, s) ==
  /\ \A k \in 1..Len(e) : /\ g[k] # {} /\ g[k] \in SUBSET (1..Len(s))
                          /\ e[k].stands = UNION {s[j].stands : j \in g[k]}
  /\ \A k, l \in 1..Len(e) : k # l => g[k] \intersect g[l] = {}

LEMMA SampleTypes ==
  ASSUME NEW s \in Seq(Sample)
  PROVE  /\ Len(s) \in Nat /\ DOMAIN s = 1..Len(s)
         /\ \A i \in 1..Len(s) : s[i] \in Sample /\ s[i].t \in Nat /\ s[i].stands \in SUBSET Nat
<1>1. \A i \in 1..Len(s) : s[i] \in Sample
  BY ElementOfSeq
<1>2. \A x \in Sample : x.t \in Nat /\ x.stands \in SUBSET Nat
  BY DEF Sample
<1> QED BY <1>1, <1>2, LenProperties

\* Groups that do not overlap stand for what is in them, once.
LEMMA GroupsStand ==
  ASSUME NEW s, NEW M, StandsFor(s, M), NEW e \in Seq(Sample), NEW g, Groups(g, e, s),
         NEW P, P = InGroups(g, Len(e))
  PROVE  StandsFor(e, StandsOf(s, P))
<1>0. P = UNION {g[k] : k \in 1..Len(e)}
  BY DEF InGroups
<1>1. /\ DOMAIN s = 1..Len(s) /\ DOMAIN e = 1..Len(e)
      /\ \A i, j \in 1..Len(s) : i # j => s[i].stands \intersect s[j].stands = {}
      /\ \A i \in 1..Len(s) : s[i].stands # {}
  BY SampleTypes DEF StandsFor, Once
<1>2. \A k \in 1..Len(e) : /\ g[k] # {} /\ g[k] \in SUBSET (1..Len(s))
                           /\ e[k].stands = UNION {s[j].stands : j \in g[k]}
  BY DEF Groups
<1>3. Stands(e) = UNION {s[j].stands : j \in P}
  <2>1. Stands(e) = UNION {e[k].stands : k \in 1..Len(e)}
    BY <1>1 DEF Stands
  <2>2. ASSUME NEW x, NEW k \in 1..Len(e), x \in e[k].stands
        PROVE  x \in UNION {s[j].stands : j \in P}
    <3>1. PICK j \in g[k] : x \in s[j].stands
      BY <1>2, <2>2
    <3>2. j \in P
      BY <1>0
    <3> QED BY <3>1, <3>2
  <2>3. ASSUME NEW x, NEW j \in P, x \in s[j].stands
        PROVE  x \in UNION {e[k].stands : k \in 1..Len(e)}
    <3>1. PICK k \in 1..Len(e) : j \in g[k]
      BY <1>0
    <3>2. x \in e[k].stands
      BY <1>2, <2>3, <3>1
    <3> QED BY <3>2
  <2> QED BY <2>1, <2>2, <2>3
<1>4. Once(e)
  <2> SUFFICES ASSUME NEW k \in 1..Len(e), NEW l \in 1..Len(e), k # l,
                      NEW x \in e[k].stands, x \in e[l].stands
               PROVE  FALSE
    BY <1>1 DEF Once
  <2>1. PICK i \in g[k] : x \in s[i].stands
    BY <1>2
  <2>2. PICK j \in g[l] : x \in s[j].stands
    BY <1>2
  <2>3. i # j
    BY DEF Groups
  <2>4. i \in 1..Len(s) /\ j \in 1..Len(s)
    BY <1>2
  <2> QED BY <1>1, <2>1, <2>2, <2>3, <2>4
<1>5. \A k \in 1..Len(e) : e[k].stands # {}
  <2> TAKE k \in 1..Len(e)
  <2>1. PICK j \in g[k] : j \in 1..Len(s)
    BY <1>2
  <2>2. PICK x : x \in s[j].stands
    BY <1>1, <2>1
  <2>3. x \in e[k].stands
    BY <1>2, <2>1, <2>2
  <2> QED BY <2>3
<1>6. Stands(e) = StandsOf(s, P)
  BY <1>3 DEF StandsOf
<1> QED BY <1>4, <1>5, <1>6 DEF StandsFor

\* What is kept of a history stands for what it stood for.
LEMMA PickedStands ==
  ASSUME NEW s, NEW M, StandsFor(s, M), NEW P \in SUBSET (1..Len(s)),
         NEW e, e = ElementsAt(s, P)
  PROVE  /\ StandsFor(e, StandsOf(s, P))
         /\ \A k \in 1..Len(e) : \E i \in P : e[k] = s[i]
<1>1. s \in Seq(Sample) /\ DOMAIN s = 1..Len(s)
  BY SampleTypes DEF StandsFor
<1>2. /\ e \in Seq(Sample) /\ Len(e) \in Nat
      /\ \E f : Picks(f, e, s, P)
  BY <1>1, ElementsAtPlaces
<1>3. PICK f : Picks(f, e, s, P)
  BY <1>2
<1>4. PICK g : g = [k \in 1..Len(e) |-> {f[k]}]
  OBVIOUS
<1>5. Groups(g, e, s)
  <2>1. ASSUME NEW k \in 1..Len(e)
        PROVE  /\ g[k] # {} /\ g[k] \in SUBSET (1..Len(s))
               /\ e[k].stands = UNION {s[j].stands : j \in g[k]}
    <3>1. f[k] \in 1..Len(s) /\ e[k] = s[f[k]] /\ g[k] = {f[k]}
      BY <1>3, <1>4 DEF Picks
    <3> QED BY <3>1
  <2>2. \A k, l \in 1..Len(e) : k # l => g[k] \intersect g[l] = {}
    BY <1>3, <1>4 DEF Picks
  <2> QED BY <2>1, <2>2 DEF Groups
<1>6. PICK Q : Q = InGroups(g, Len(e))
  OBVIOUS
<1>7. Q = P
  <2>1. \A k \in 1..Len(e) : g[k] = {f[k]}
    BY <1>4
  <2>2. ASSUME NEW x \in Q PROVE x \in P
    <3>1. PICK k \in 1..Len(e) : x \in g[k]
      BY <1>6 DEF InGroups
    <3> QED BY <1>3, <2>1, <3>1 DEF Picks
  <2>3. ASSUME NEW x \in P PROVE x \in Q
    <3>1. PICK k \in 1..Len(e) : f[k] = x
      BY <1>3 DEF Picks
    <3> QED BY <1>6, <2>1, <3>1 DEF InGroups
  <2> QED BY <2>2, <2>3
<1>8. StandsFor(e, StandsOf(s, Q))
  BY <1>2, <1>5, <1>6, GroupsStand
<1>9. ASSUME NEW k \in 1..Len(e) PROVE \E i \in P : e[k] = s[i]
  <2>1. f[k] \in P /\ e[k] = s[f[k]]
    BY <1>3 DEF Picks
  <2> QED BY <2>1
<1> QED BY <1>7, <1>8, <1>9

\* Two histories one after the other.
LEMMA JoinedStands ==
  ASSUME NEW a, NEW A, StandsFor(a, A), NEW b, NEW B, StandsFor(b, B), A \intersect B = {},
         NEW e, e = a \o b, NEW C, C = A \union B
  PROVE  /\ StandsFor(e, C)
         /\ \A k \in 1..Len(e) : \/ \E i \in 1..Len(a) : e[k] = a[i]
                                 \/ \E i \in 1..Len(b) : e[k] = b[i]
<1>1. PICK m \in Nat, n \in Nat : m = Len(a) /\ n = Len(b)
  BY SampleTypes DEF StandsFor
<1>2. /\ e \in Seq(Sample) /\ Len(e) = m + n
      /\ \A k \in 1..(m + n) : e[k] = IF k <= m THEN a[k] ELSE b[k - m]
  BY <1>1, ConcatProperties DEF StandsFor
<1>3. DOMAIN e = 1..(m + n) /\ DOMAIN a = 1..m /\ DOMAIN b = 1..n
  BY <1>1, <1>2, SampleTypes DEF StandsFor
<1>4. \A k \in 1..(m + n) : \/ k \in 1..m /\ e[k] = a[k]
                            \/ k \notin 1..m /\ k - m \in 1..n /\ e[k] = b[k - m]
  BY <1>2
<1>5. \A i \in 1..m : i \in 1..(m + n) /\ e[i] = a[i]
  BY <1>2
<1>6. \A i \in 1..n : m + i \in 1..(m + n) /\ e[m + i] = b[i]
  BY <1>2
<1>7. Stands(e) = A \union B
  <2>1. ASSUME NEW x \in Stands(e) PROVE x \in A \union B
    <3>1. PICK k \in 1..(m + n) : x \in e[k].stands
      BY <1>3 DEF Stands
    <3>2. CASE k \in 1..m /\ e[k] = a[k]
      BY <1>3, <3>1, <3>2 DEF StandsFor, Stands
    <3>3. CASE k - m \in 1..n /\ e[k] = b[k - m]
      BY <1>3, <3>1, <3>3 DEF StandsFor, Stands
    <3> QED BY <1>4, <3>2, <3>3
  <2>2. ASSUME NEW x \in A PROVE x \in Stands(e)
    <3>1. PICK i \in 1..m : x \in a[i].stands
      BY <1>3 DEF StandsFor, Stands
    <3> QED BY <1>3, <1>5, <3>1 DEF Stands
  <2>3. ASSUME NEW x \in B PROVE x \in Stands(e)
    <3>1. PICK i \in 1..n : x \in b[i].stands
      BY <1>3 DEF StandsFor, Stands
    <3> QED BY <1>3, <1>6, <3>1 DEF Stands
  <2> QED BY <2>1, <2>2, <2>3
<1>8. Once(e)
  <2> SUFFICES ASSUME NEW k \in 1..(m + n), NEW l \in 1..(m + n), k # l,
                      NEW x, x \in e[k].stands, x \in e[l].stands
               PROVE  FALSE
    BY <1>3 DEF Once
  <2>1. /\ \A i, j \in 1..m : i # j => a[i].stands \intersect a[j].stands = {}
        /\ \A i, j \in 1..n : i # j => b[i].stands \intersect b[j].stands = {}
        /\ \A i \in 1..m : a[i].stands \subseteq A
        /\ \A i \in 1..n : b[i].stands \subseteq B
    <3>1. Once(a) /\ Once(b) /\ Stands(a) = A /\ Stands(b) = B
      BY DEF StandsFor
    <3>2. A = UNION {a[i].stands : i \in 1..m} /\ B = UNION {b[i].stands : i \in 1..n}
      BY <1>3, <3>1 DEF Stands
    <3>3. \A i \in 1..m : a[i].stands \subseteq A
      BY <3>2
    <3>4. \A i \in 1..n : b[i].stands \subseteq B
      BY <3>2
    <3> QED BY <1>3, <3>1, <3>3, <3>4 DEF Once
  <2>2. CASE k \in 1..m /\ l \in 1..m
    BY <1>5, <2>1, <2>2
  <2>3. CASE k \notin 1..m /\ l \notin 1..m
    <3>1. k - m \in 1..n /\ l - m \in 1..n /\ e[k] = b[k - m] /\ e[l] = b[l - m]
      BY <1>4, <2>3
    <3>2. k - m # l - m
      OBVIOUS
    <3> QED BY <2>1, <3>1, <3>2
  <2>4. CASE k \in 1..m /\ l \notin 1..m
    <3>1. l - m \in 1..n /\ e[k] = a[k] /\ e[l] = b[l - m]
      BY <1>4, <2>4
    <3>2. x \in A /\ x \in B
      BY <2>1, <2>4, <3>1
    <3> QED BY <3>2
  <2>5. CASE k \notin 1..m /\ l \in 1..m
    <3>1. k - m \in 1..n /\ e[l] = a[l] /\ e[k] = b[k - m]
      BY <1>4, <2>5
    <3>2. x \in A /\ x \in B
      BY <2>1, <2>5, <3>1
    <3> QED BY <3>2
  <2> QED BY <2>2, <2>3, <2>4, <2>5
<1>9. \A k \in 1..(m + n) : e[k].stands # {}
  BY <1>1, <1>4 DEF StandsFor
<1>10. StandsFor(e, A \union B)
  BY <1>2, <1>7, <1>8, <1>9 DEF StandsFor
<1>11. \A k \in 1..Len(e) : \/ \E i \in 1..Len(a) : e[k] = a[i]
                            \/ \E i \in 1..Len(b) : e[k] = b[i]
  <2> SUFFICES ASSUME NEW k \in 1..(m + n)
               PROVE  (\E i \in 1..m : e[k] = a[i]) \/ (\E i \in 1..n : e[k] = b[i])
    BY <1>1, <1>2
  <2> QED BY <1>4
<1> QED BY <1>10, <1>11

-----------------------------------------------------------------------------
(* Runs of one bucket.                                                     *)
LEMMA BucketProperties ==
  ASSUME NEW t \in Nat, NEW width \in Nat \ {0}
  PROVE  Bucket(t, width) \in Nat /\ Bucket(t, width) <= t /\ width \div 2 \in 0..width
<1>1. t = width * (t \div width) + (t % width) /\ t % width \in 0..(width - 1)
  OBVIOUS
<1>2. t \div width \in Nat
  OBVIOUS
<1>3. PICK q \in Nat : q = t \div width
  BY <1>2
<1>4. q * width \in Nat /\ q * width = width * q
  OBVIOUS
<1>5. Bucket(t, width) = q * width
  BY <1>3 DEF Bucket
<1>6. PICK x \in Nat, y \in Nat : x = q * width /\ y = t % width
  BY <1>1, <1>4
<1>7. t = x + y
  BY <1>1, <1>3, <1>4, <1>6
<1> QED BY <1>5, <1>6, <1>7

\* Every sample is in one run, and in one only.
LEMMA RunsPartition ==
  ASSUME NEW s \in Seq(Sample), NEW width \in Nat \ {0}
  PROVE  /\ RunStarts(s, width) \in SUBSET (1..Len(s))
         /\ \A i \in RunStarts(s, width) : /\ i \in Run(s, i, width)
                                           /\ Run(s, i, width) \in SUBSET (1..Len(s))
         /\ \A i, j \in RunStarts(s, width) :
              i # j => Run(s, i, width) \intersect Run(s, j, width) = {}
         /\ \A j \in 1..Len(s) : \E i \in RunStarts(s, width) : j \in Run(s, i, width)
<1>1. PICK n \in Nat : n = Len(s) /\ DOMAIN s = 1..n
  BY SampleTypes
<1>2. PICK b : b = [i \in 1..n |-> Bucket(s[i].t, width)]
  OBVIOUS
<1>3. PICK P : P = RunStarts(s, width)
  OBVIOUS
<1>4. PICK R : R = [i \in 1..n |-> Run(s, i, width)]
  OBVIOUS
<1>5. \A i \in 1..n : b[i] = Bucket(s[i].t, width)
  BY <1>2
<1>6. \A i \in 1..n : i \in P <=> (i > 1 => b[i - 1] # b[i])
  <2> TAKE i \in 1..n
  <2>1. i > 1 => i - 1 \in 1..n
    OBVIOUS
  <2> QED BY <1>1, <1>3, <1>5, <2>1 DEF RunStarts
<1>7. P \in SUBSET (1..n)
  BY <1>1, <1>3 DEF RunStarts
<1>8. \A i \in 1..n : R[i] = {j \in i..n : \A k \in i..j : b[k] = b[i]}
  <2> TAKE i \in 1..n
  <2>1. R[i] = {j \in i..n : \A k \in i..j : Bucket(s[k].t, width) = Bucket(s[i].t, width)}
    BY <1>1, <1>4 DEF Run
  <2>2. ASSUME NEW j \in i..n
        PROVE  (\A k \in i..j : Bucket(s[k].t, width) = Bucket(s[i].t, width))
                 <=> (\A k \in i..j : b[k] = b[i])
    <3>1. \A k \in i..j : k \in 1..n
      OBVIOUS
    <3> QED BY <1>5, <3>1
  <2> QED BY <2>1, <2>2
<1>9. ASSUME NEW i \in P PROVE i \in R[i] /\ R[i] \in SUBSET (1..n)
  <2>1. i \in 1..n
    BY <1>7
  <2>2. \A k \in i..i : b[k] = b[i]
    BY <2>1
  <2> QED BY <1>8, <2>1, <2>2
<1>10. ASSUME NEW i \in P, NEW l \in P, NEW j \in R[i], j \in R[l], i < l PROVE FALSE
  <2>1. i \in 1..n /\ l \in 1..n
    BY <1>7
  <2>2. j \in l..n /\ \A k \in i..j : b[k] = b[i]
    BY <1>8, <1>10, <2>1
  <2>3. l \in i..j /\ l - 1 \in i..j /\ l > 1
    BY <1>10, <2>1, <2>2
  <2>4. b[l - 1] = b[l]
    BY <2>2, <2>3
  <2> QED BY <1>6, <2>1, <2>3, <2>4
<1>11. ASSUME NEW i \in P, NEW l \in P, i # l PROVE R[i] \intersect R[l] = {}
  <2>1. i < l \/ l < i
    BY <1>7, <1>11
  <2> QED BY <1>10, <2>1
<1>12. ASSUME NEW j \in 1..n PROVE \E i \in P : j \in R[i]
  <2> DEFINE T == {i \in 1..j : \A k \in i..j : b[k] = b[j]}
  <2>1. j \in T
    <3>1. \A k \in j..j : b[k] = b[j]
      OBVIOUS
    <3> QED BY <3>1
  <2>2. T \in SUBSET Nat
    OBVIOUS
  <2>3. PICK i \in T : \A y \in T : i <= y
    BY <2>1, <2>2, LeastElement
  <2>4. i \in 1..j /\ \A k \in i..j : b[k] = b[j]
    BY <2>3
  <2>5. b[i] = b[j]
    BY <2>4
  <2>6. j \in R[i]
    BY <1>8, <2>4, <2>5
  <2>7. ASSUME i > 1 PROVE b[i - 1] # b[i]
    <3> SUFFICES ASSUME b[i - 1] = b[i] PROVE FALSE
      OBVIOUS
    <3>1. i - 1 \in 1..j /\ ~(i <= i - 1)
      BY <2>4, <2>7
    <3>2. \A k \in (i - 1)..j : k = i - 1 \/ k \in i..j
      BY <2>4
    <3>3. \A k \in (i - 1)..j : b[k] = b[j]
      BY <2>4, <2>5, <3>2
    <3>4. i - 1 \in T
      BY <3>1, <3>3
    <3> QED BY <2>3, <3>1, <3>4
  <2>8. i \in P
    BY <1>6, <2>4, <2>7
  <2> QED BY <2>6, <2>8
<1>13. \A i \in P : R[i] = Run(s, i, width)
  BY <1>4, <1>7
<1>14. \A i \in P : i \in Run(s, i, width) /\ Run(s, i, width) \in SUBSET (1..n)
  BY <1>9, <1>13
<1>15. \A i, j \in P : i # j => Run(s, i, width) \intersect Run(s, j, width) = {}
  <2> TAKE i, j \in P
  <2>1. R[i] = Run(s, i, width) /\ R[j] = Run(s, j, width)
    BY <1>13
  <2> QED BY <1>11, <2>1
<1>16. \A j \in 1..n : \E i \in P : j \in Run(s, i, width)
  <2> TAKE j \in 1..n
  <2>1. PICK i \in P : j \in R[i]
    BY <1>12
  <2> QED BY <1>13, <2>1
<1> QED BY <1>1, <1>3, <1>7, <1>14, <1>15, <1>16

\* What is downsampled stands for what it did, and is later by less than a bucket.
LEMMA DownsampledStands ==
  ASSUME NEW s, NEW M, StandsFor(s, M), NEW width \in Nat \ {0}, NEW T \in Int,
         \A i \in 1..Len(s) : s[i].t < T,
         NEW e, e = Downsample(s, width)
  PROVE  StandsFor(e, M) /\ \A k \in 1..Len(e) : e[k].t < T + width
<1>1. s \in Seq(Sample)
  BY DEF StandsFor
<1>2. /\ Len(s) \in Nat /\ DOMAIN s = 1..Len(s)
      /\ \A i \in 1..Len(s) : s[i].t \in Nat /\ s[i].stands \in SUBSET Nat
  BY <1>1, SampleTypes
<1>3. PICK P : P = RunStarts(s, width)
  OBVIOUS
<1>4. PICK R : R = [i \in 1..Len(s) |-> Run(s, i, width)]
  OBVIOUS
<1>5. \A i \in 1..Len(s) : R[i] = Run(s, i, width) /\ R[i] \in SUBSET (1..Len(s))
  <2> TAKE i \in 1..Len(s)
  <2>1. R[i] = Run(s, i, width)
    BY <1>4
  <2>2. PICK n \in Nat : n = Len(s)
    BY <1>2
  <2>3. \A j \in i..n : j \in 1..n
    BY <2>2
  <2>4. Run(s, i, width) \in SUBSET (i..n)
    BY <2>2 DEF Run
  <2> QED BY <2>1, <2>2, <2>3, <2>4
<1>6. /\ P \in SUBSET (1..Len(s))
      /\ \A i \in P : i \in R[i]
      /\ \A i, j \in P : i # j => R[i] \intersect R[j] = {}
      /\ \A j \in 1..Len(s) : \E i \in P : j \in R[i]
  <2>1. /\ P \in SUBSET (1..Len(s))
        /\ \A i \in P : i \in Run(s, i, width)
        /\ \A i, j \in P : i # j => Run(s, i, width) \intersect Run(s, j, width) = {}
        /\ \A j \in 1..Len(s) : \E i \in P : j \in Run(s, i, width)
    BY <1>1, <1>3, RunsPartition
  <2>2. \A i \in P : R[i] = Run(s, i, width)
    BY <1>5, <2>1
  <2>3. \A i \in P : i \in R[i]
    BY <2>1, <2>2
  <2>4. ASSUME NEW i \in P, NEW j \in P, i # j PROVE R[i] \intersect R[j] = {}
    <3>1. Run(s, i, width) \intersect Run(s, j, width) = {}
      BY <2>1, <2>4
    <3> QED BY <2>2, <3>1
  <2>5. ASSUME NEW j \in 1..Len(s) PROVE \E i \in P : j \in R[i]
    <3>1. PICK i \in P : j \in Run(s, i, width)
      BY <2>1
    <3> QED BY <2>2, <3>1
  <2> QED BY <2>1, <2>3, <2>4, <2>5
<1>7. PICK m : m = Merged(s, width)
  OBVIOUS
<1>8. \A i \in 1..Len(s) : /\ m[i].t = Bucket(s[i].t, width) + width \div 2
                           /\ m[i].stands = UNION {s[j].stands : j \in R[i]}
                           /\ m[i] = [t |-> Bucket(s[i].t, width) + width \div 2,
                                      stands |-> UNION {s[j].stands : j \in R[i]}]
  <2> TAKE i \in 1..Len(s)
  <2>1. m[i] = [t |-> Bucket(s[i].t, width) + width \div 2,
                stands |-> UNION {s[j].stands : j \in Run(s, i, width)}]
    BY <1>2, <1>7 DEF Merged
  <2>2. R[i] = Run(s, i, width)
    BY <1>5
  <2>3. m[i] = [t |-> Bucket(s[i].t, width) + width \div 2,
                stands |-> UNION {s[j].stands : j \in R[i]}]
    BY <2>1, <2>2
  <2>4. m[i].t = Bucket(s[i].t, width) + width \div 2
    BY <2>3
  <2>5. m[i].stands = UNION {s[j].stands : j \in R[i]}
    BY <2>3
  <2> QED BY <2>3, <2>4, <2>5
<1>9. \A i \in 1..Len(s) : m[i] \in Sample /\ m[i].t < T + width
  <2> TAKE i \in 1..Len(s)
  <2>1. /\ Bucket(s[i].t, width) \in Nat /\ Bucket(s[i].t, width) <= s[i].t
        /\ width \div 2 \in 0..width /\ s[i].t \in Nat /\ s[i].t < T
    BY <1>2, BucketProperties
  <2>2. Bucket(s[i].t, width) + width \div 2 \in Nat
        /\ Bucket(s[i].t, width) + width \div 2 < T + width
    BY <2>1
  <2>3. PICK U : U = UNION {s[j].stands : j \in R[i]}
    OBVIOUS
  <2>4. PICK t \in Nat : t = Bucket(s[i].t, width) + width \div 2
    BY <2>2
  <2>5. U \in SUBSET Nat
    <3>1. \A j \in R[i] : s[j].stands \in SUBSET Nat
      BY <1>2, <1>5
    <3> QED BY <2>3, <3>1
  <2>6. m[i] = [t |-> t, stands |-> U] /\ m[i].t = t
    BY <1>8, <2>3, <2>4
  <2>7. m[i] \in Sample
    BY <2>5, <2>6 DEF Sample
  <2> QED BY <2>2, <2>4, <2>6, <2>7
<1>10. m \in Seq(Sample) /\ Len(m) = Len(s)
  <2>1. m \in [1..Len(s) -> Sample]
    <3>1. m = [i \in 1..Len(s) |-> m[i]]
      BY <1>2, <1>7 DEF Merged
    <3> QED BY <1>9, <3>1
  <2> QED BY <1>2, <2>1, SeqOfFunction
<1>11. DOMAIN m = 1..Len(s)
  BY <1>10, SampleTypes
<1>12. e = ElementsAt(m, P)
  BY <1>3, <1>7 DEF Downsample
<1>13. e \in Seq(Sample) /\ Len(e) \in Nat /\ \E f : Picks(f, e, m, P)
  BY <1>6, <1>10, <1>11, <1>12, ElementsAtPlaces
<1>14. PICK f : Picks(f, e, m, P)
  BY <1>13
<1>15. \A k \in 1..Len(e) : f[k] \in P /\ f[k] \in 1..Len(s) /\ e[k] = m[f[k]]
  BY <1>6, <1>14 DEF Picks
<1>16. PICK g : g = [k \in 1..Len(e) |-> R[f[k]]]
  OBVIOUS
<1>17. Groups(g, e, s)
  <2>1. ASSUME NEW k \in 1..Len(e)
        PROVE  /\ g[k] # {} /\ g[k] \in SUBSET (1..Len(s))
               /\ e[k].stands = UNION {s[j].stands : j \in g[k]}
    <3>1. g[k] = R[f[k]] /\ f[k] \in P /\ f[k] \in 1..Len(s) /\ e[k] = m[f[k]]
      BY <1>15, <1>16
    <3> QED BY <1>5, <1>6, <1>8, <3>1
  <2>2. ASSUME NEW k \in 1..Len(e), NEW l \in 1..Len(e), k # l
        PROVE  g[k] \intersect g[l] = {}
    <3>1. f[k] # f[l]
      BY <1>14, <2>2 DEF Picks
    <3> QED BY <1>6, <1>15, <1>16, <3>1
  <2> QED BY <2>1, <2>2 DEF Groups
<1>18. PICK Q : Q = InGroups(g, Len(e))
  OBVIOUS
<1>19. Q = 1..Len(s)
  <2>1. Q \subseteq 1..Len(s)
    BY <1>17, <1>18 DEF Groups, InGroups
  <2>2. ASSUME NEW j \in 1..Len(s) PROVE j \in Q
    <3>1. PICK i \in P : j \in R[i]
      BY <1>6
    <3>2. PICK k \in 1..Len(e) : f[k] = i
      BY <1>14 DEF Picks
    <3> QED BY <1>16, <1>18, <3>1, <3>2 DEF InGroups
  <2> QED BY <2>1, <2>2
<1>20. StandsFor(e, StandsOf(s, Q))
  BY <1>13, <1>17, <1>18, GroupsStand
<1>21. M = StandsOf(s, Q)
  BY <1>2, <1>19 DEF StandsFor, Stands, StandsOf
<1> QED BY <1>9, <1>15, <1>20, <1>21

-----------------------------------------------------------------------------
(* Cuts and sorting.                                                       *)
\* What is cut at the front stands for what the rest does not.
LEMMA CutStands ==
  ASSUME NEW s, NEW M, StandsFor(s, M), NEW k \in 0..Len(s),
         NEW e, e = SubSeq(s, k + 1, Len(s)), NEW N, N = M \ Stands(SubSeq(s, 1, k))
  PROVE  /\ StandsFor(e, N)
         /\ \A i \in 1..Len(e) : \E j \in 1..Len(s) : e[i] = s[j]
<1>1. s \in Seq(Sample)
  BY DEF StandsFor
<1>2. PICK n \in Nat : n = Len(s) /\ DOMAIN s = 1..n
  BY <1>1, SampleTypes
<1>3. PICK c : c = SubSeq(s, 1, k)
  OBVIOUS
<1>4. /\ e \in Seq(Sample) /\ Len(e) = n - k /\ k \in 0..n /\ DOMAIN e = 1..(n - k)
      /\ \A i \in 1..(n - k) : k + i \in 1..n /\ e[i] = s[k + i]
  BY <1>1, <1>2, EndOfSeq
<1>5. /\ c \in Seq(Sample) /\ Len(c) = k /\ DOMAIN c = 1..k
      /\ \A i \in 1..k : c[i] = s[i] /\ i \in 1..n
  <2>1. \A i \in 1..k : i \in 1..n /\ s[i] \in Sample
    BY <1>1, <1>2, <1>4, SampleTypes
  <2>2. c \in Seq(Sample) /\ Len(c) = k
    BY <1>3, <1>4, <2>1, SubSeqProperties
  <2>3. ASSUME NEW i \in 1..k PROVE c[i] = s[i]
    <3>1. i \in 1..(k - 1 + 1) /\ 1 + i - 1 = i
      BY <1>4
    <3> QED BY <1>3, <1>4, <2>1, <3>1, SubSeqProperties
  <2>4. DOMAIN c = 1..k
    BY <2>2, SampleTypes
  <2> QED BY <2>1, <2>2, <2>3, <2>4
<1>6. PICK g : g = [i \in 1..(n - k) |-> {k + i}]
  OBVIOUS
<1>7. Groups(g, e, s)
  <2>1. ASSUME NEW i \in 1..(n - k)
        PROVE  /\ g[i] # {} /\ g[i] \in SUBSET (1..n)
               /\ e[i].stands = UNION {s[j].stands : j \in g[i]}
    <3>1. g[i] = {k + i} /\ k + i \in 1..n /\ e[i] = s[k + i]
      BY <1>4, <1>6
    <3> QED BY <3>1
  <2>2. ASSUME NEW i \in 1..(n - k), NEW j \in 1..(n - k), i # j
        PROVE  g[i] \intersect g[j] = {}
    <3>1. k + i # k + j
      BY <1>4, <2>2
    <3> QED BY <1>6, <3>1
  <2> QED BY <1>2, <1>4, <2>1, <2>2 DEF Groups
<1>8. PICK Q : Q = InGroups(g, Len(e))
  OBVIOUS
<1>9. Q = (k + 1)..n
  <2>1. ASSUME NEW x \in Q PROVE x \in (k + 1)..n
    <3>1. PICK i \in 1..(n - k) : x \in g[i]
      BY <1>4, <1>8 DEF InGroups
    <3>2. x = k + i
      BY <1>6, <3>1
    <3> QED BY <1>4, <3>2
  <2>2. ASSUME NEW x \in (k + 1)..n PROVE x \in Q
    <3>1. x - k \in 1..(n - k) /\ k + (x - k) = x
      BY <1>4
    <3>2. x \in g[x - k]
      BY <1>6, <3>1
    <3> QED BY <1>4, <1>8, <3>1, <3>2 DEF InGroups
  <2> QED BY <2>1, <2>2
<1>10. StandsFor(e, StandsOf(s, Q))
  BY <1>4, <1>7, <1>8, GroupsStand
<1>11. StandsOf(s, Q) = M \ Stands(c)
  <2>0. StandsOf(s, Q) = UNION {s[j].stands : j \in Q}
    BY DEF StandsOf
  <2>1. M = UNION {s[j].stands : j \in 1..n} /\ Stands(c) = UNION {s[j].stands : j \in 1..k}
    <3>1. Stands(c) = UNION {c[j].stands : j \in 1..k}
      BY <1>5 DEF Stands
    <3>2. M = UNION {s[j].stands : j \in 1..n}
      BY <1>2 DEF StandsFor, Stands
    <3>3. \A j \in 1..k : c[j] = s[j]
      BY <1>5
    <3>4. {c[j].stands : j \in 1..k} = {s[j].stands : j \in 1..k}
      BY <3>3
    <3> QED BY <3>1, <3>2, <3>4
  <2>2. \A i, j \in 1..n : i # j => s[i].stands \intersect s[j].stands = {}
    BY <1>2 DEF StandsFor, Once
  <2>3. \A j \in 1..n : j \in 1..k \/ j \in Q
    BY <1>4, <1>9
  <2>4. \A j \in Q : j \in 1..n /\ \A i \in 1..k : i \in 1..n /\ i # j
    BY <1>4, <1>9
  <2>5. ASSUME NEW x, NEW j \in Q, x \in s[j].stands PROVE x \in M \ Stands(c)
    <3>1. x \in M
      BY <2>1, <2>4, <2>5
    <3>2. ASSUME NEW i \in 1..k, x \in s[i].stands PROVE FALSE
      BY <2>2, <2>4, <2>5, <3>2
    <3> QED BY <2>1, <3>1, <3>2
  <2>6. ASSUME NEW x \in M \ Stands(c) PROVE x \in StandsOf(s, Q)
    <3>1. PICK j \in 1..n : x \in s[j].stands
      BY <2>1
    <3>2. j \notin 1..k
      BY <2>1, <3>1
    <3> QED BY <2>0, <2>3, <3>1, <3>2
  <2> QED BY <2>0, <2>5, <2>6
<1>12. \A i \in 1..Len(e) : \E j \in 1..Len(s) : e[i] = s[j]
  <2> SUFFICES ASSUME NEW i \in 1..(n - k) PROVE \E j \in 1..n : e[i] = s[j]
    BY <1>2, <1>4
  <2> QED BY <1>4
<1> QED BY <1>3, <1>10, <1>11, <1>12

\* The places of a sorted history are all taken, by one sample each.
LEMMA PlacesApart ==
  ASSUME NEW s \in Seq(Sample)
  PROVE  /\ \A i \in 1..Len(s) : SortedAt(s, i) \in 1..Len(s)
         /\ \A i, j \in 1..Len(s) : SortedAt(s, i) = SortedAt(s, j) => i = j
         /\ \A k \in 1..Len(s) : \E i \in 1..Len(s) : SortedAt(s, i) = k
<1>1. PICK n \in Nat : n = Len(s) /\ DOMAIN s = 1..n
  BY SampleTypes
<1>2. \A i \in 1..n : s[i].t \in Nat
  BY <1>1, SampleTypes
<1>3. IsFiniteSet(1..n) /\ Cardinality(1..n) = n
  BY FirstNumbers
<1> DEFINE Upto(i) == {j \in 1..n : s[j].t < s[i].t \/ (s[j].t = s[i].t /\ j <= i)}
<1>4. \A i \in 1..n : SortedAt(s, i) = Cardinality(Upto(i))
  BY <1>1 DEF SortedAt
<1>5. ASSUME NEW i \in 1..n
      PROVE  IsFiniteSet(Upto(i)) /\ Cardinality(Upto(i)) \in 1..n
  <2>1. PICK U : U = Upto(i)
    OBVIOUS
  <2>2. U \in SUBSET (1..n) /\ i \in U
    BY <1>2, <2>1
  <2>3. IsFiniteSet(U) /\ Cardinality(U) <= n /\ Cardinality(U) \in Nat
    BY <1>3, <2>2, FS_Subset, FS_CardinalityType
  <2>4. Cardinality(U) # 0
    BY <2>2, <2>3, FS_EmptySet
  <2>5. Cardinality(U) \in 1..n
    BY <2>3, <2>4
  <2> QED BY <2>1, <2>3, <2>5
<1>6. ASSUME NEW i \in 1..n, NEW j \in 1..n,
             s[i].t < s[j].t \/ (s[i].t = s[j].t /\ i < j)
      PROVE  Cardinality(Upto(i)) # Cardinality(Upto(j))
  <2>1. PICK U : U = Upto(i)
    OBVIOUS
  <2>2. PICK V : V = Upto(j)
    OBVIOUS
  <2>3. U \in SUBSET V
    <3> SUFFICES ASSUME NEW k \in U PROVE k \in V
      OBVIOUS
    <3>1. k \in 1..n /\ (s[k].t < s[i].t \/ (s[k].t = s[i].t /\ k <= i))
      BY <2>1
    <3>2. s[k].t \in Nat /\ s[i].t \in Nat /\ s[j].t \in Nat
      BY <1>2, <3>1
    <3>3. s[k].t < s[j].t \/ (s[k].t = s[j].t /\ k <= j)
      BY <1>6, <3>1, <3>2
    <3> QED BY <2>2, <3>1, <3>3
  <2>4. j \in V /\ j \notin U
    <3>1. s[i].t \in Nat /\ s[j].t \in Nat
      BY <1>2
    <3>2. ~(s[j].t < s[i].t \/ (s[j].t = s[i].t /\ j <= i))
      BY <1>6, <3>1
    <3> QED BY <2>1, <2>2, <3>1, <3>2
  <2>5. IsFiniteSet(V)
    BY <1>5, <2>2
  <2> HIDE DEF Upto
  <2>6. Cardinality(V) = Cardinality(U) => V = U
    BY <2>3, <2>5, FS_Subset
  <2> QED BY <2>1, <2>2, <2>4, <2>6
<1>7. ASSUME NEW i \in 1..n, NEW j \in 1..n, i # j
      PROVE  Cardinality(Upto(i)) # Cardinality(Upto(j))
  <2> HIDE DEF Upto
  <2>1. s[i].t \in Nat /\ s[j].t \in Nat
    BY <1>2
  <2>2. \/ s[i].t < s[j].t \/ (s[i].t = s[j].t /\ i < j)
        \/ s[j].t < s[i].t \/ (s[j].t = s[i].t /\ j < i)
    BY <1>7, <2>1
  <2> QED BY <1>6, <2>2
<1> HIDE DEF Upto
<1>8. PICK f : f = [i \in 1..n |-> SortedAt(s, i)]
  OBVIOUS
<1>9. f \in Injection(1..n, 1..n)
  <2>1. f \in [1..n -> 1..n]
    BY <1>4, <1>5, <1>8
  <2>2. \A i, j \in 1..n : f[i] = f[j] => i = j
    BY <1>4, <1>7, <1>8
  <2> QED BY <2>1, <2>2 DEF Injection, IsInjective
<1>10. f \in Surjection(1..n, 1..n)
  BY <1>3, <1>9, FS_Injection
<1>11. \A k \in 1..n : \E i \in 1..n : f[i] = k
  BY <1>10 DEF Surjection
<1>12. \A i \in 1..n : SortedAt(s, i) \in 1..n
  BY <1>4, <1>5
<1>13. \A i, j \in 1..n : SortedAt(s, i) = SortedAt(s, j) => i = j
  BY <1>4, <1>7
<1>14. \A k \in 1..n : \E i \in 1..n : SortedAt(s, i) = k
  BY <1>8, <1>11
<1> QED BY <1>1, <1>12, <1>13, <1>14

\* Sorting a history keeps what it stands for.
LEMMA SortedStands ==
  ASSUME NEW s, NEW M, StandsFor(s, M), NEW e, e = ByTime(s)
  PROVE  StandsFor(e, M) /\ \A k \in 1..Len(e) : \E i \in 1..Len(s) : e[k] = s[i]
<1>1. s \in Seq(Sample)
  BY DEF StandsFor
<1>2. PICK n \in Nat : n = Len(s) /\ DOMAIN s = 1..n
  BY <1>1, SampleTypes
<1>3. PICK p : p = [k \in 1..n |-> CHOOSE i \in 1..n : SortedAt(s, i) = k]
  OBVIOUS
<1>4. /\ \A k \in 1..n : \E i \in 1..n : SortedAt(s, i) = k
      /\ \A i, j \in 1..n : SortedAt(s, i) = SortedAt(s, j) => i = j
      /\ \A i \in 1..n : SortedAt(s, i) \in 1..n
  BY <1>1, <1>2, PlacesApart
<1>5. \A k \in 1..n : p[k] \in 1..n /\ SortedAt(s, p[k]) = k
  BY <1>3, <1>4
<1>6. e = [k \in 1..n |-> s[p[k]]]
  <2>1. e = [k \in 1..n |-> s[CHOOSE i \in 1..n : SortedAt(s, i) = k]]
    BY <1>2 DEF ByTime
  <2>2. \A k \in 1..n : p[k] = CHOOSE i \in 1..n : SortedAt(s, i) = k
    BY <1>3
  <2> QED BY <2>1, <2>2
<1>7. e \in Seq(Sample) /\ Len(e) = n
  <2>1. \A i \in 1..n : s[i] \in Sample
    BY <1>1, <1>2, SampleTypes
  <2>2. e \in [1..n -> Sample]
    BY <1>5, <1>6, <2>1
  <2> QED BY <2>2, SeqOfFunction
<1>8. \A k \in 1..n : e[k] = s[p[k]]
  BY <1>6
<1>9. PICK g : g = [k \in 1..n |-> {p[k]}]
  OBVIOUS
<1>10. Groups(g, e, s)
  <2>1. ASSUME NEW k \in 1..n
        PROVE  /\ g[k] # {} /\ g[k] \in SUBSET (1..n)
               /\ e[k].stands = UNION {s[j].stands : j \in g[k]}
    <3>1. g[k] = {p[k]} /\ p[k] \in 1..n /\ e[k] = s[p[k]]
      BY <1>5, <1>8, <1>9
    <3> QED BY <3>1
  <2>2. ASSUME NEW k \in 1..n, NEW l \in 1..n, k # l PROVE g[k] \intersect g[l] = {}
    <3>1. p[k] # p[l]
      BY <1>5, <2>2
    <3> QED BY <1>9, <3>1
  <2> QED BY <1>2, <1>7, <2>1, <2>2 DEF Groups
<1>11. PICK Q : Q = InGroups(g, Len(e))
  OBVIOUS
<1>12. Q = 1..n
  <2>1. Q \subseteq 1..n
    BY <1>2, <1>10, <1>11 DEF Groups, InGroups
  <2>2. ASSUME NEW i \in 1..n PROVE i \in Q
    <3>1. PICK k \in 1..n : k = SortedAt(s, i)
      BY <1>4
    <3>2. p[k] = i
      BY <1>4, <1>5, <3>1
    <3> QED BY <1>7, <1>9, <1>11, <3>2 DEF InGroups
  <2> QED BY <2>1, <2>2
<1>13. StandsFor(e, StandsOf(s, Q))
  BY <1>7, <1>10, <1>11, GroupsStand
<1>14. M = StandsOf(s, Q)
  BY <1>2, <1>12 DEF StandsFor, Stands, StandsOf
<1>15. \A k \in 1..Len(e) : \E i \in 1..Len(s) : e[k] = s[i]
  BY <1>2, <1>5, <1>7, <1>8
<1> QED BY <1>13, <1>14, <1>15

-----------------------------------------------------------------------------
(* Compaction.                                                             *)
\* The search ends at a place of the history, or behind it.
LEMMA FirstFromType ==
  ASSUME NEW s \in Seq(Sample), NEW cutoff \in Int
  PROVE  FirstFrom(s, cutoff) \in 0..Len(s)
<1>1. PICK n \in Nat : n = Len(s)
  BY SampleTypes
<1>2. PICK S : S = (0..n) \X (0..n)
  OBVIOUS
<1>3. PICK f : f = Halved(s, cutoff)
  OBVIOUS
<1>4. f \in [S -> S]
  <2>1. f = [r \in S |-> LET h == (r[1] + r[2]) \div 2
                         IN  IF r[1] >= r[2] THEN r
                             ELSE IF s[h + 1].t < cutoff THEN <<h + 1, r[2]>> ELSE <<r[1], h>>]
    BY <1>1, <1>2, <1>3 DEF Halved
  <2>2. ASSUME NEW r \in S
        PROVE  (LET h == (r[1] + r[2]) \div 2
                IN  IF r[1] >= r[2] THEN r
                    ELSE IF s[h + 1].t < cutoff THEN <<h + 1, r[2]>> ELSE <<r[1], h>>) \in S
    <3>1. PICK a \in 0..n, b \in 0..n : a = r[1] /\ b = r[2]
      BY <1>2
    <3>2. PICK h \in Int : h = (a + b) \div 2
      OBVIOUS
    <3>3. a < b => h \in 0..n /\ h + 1 \in 0..n
      BY <3>2
    <3>4. CASE a >= b
      BY <3>1, <3>4
    <3>5. CASE a < b
      <4>1. <<h + 1, b>> \in S /\ <<a, h>> \in S
        BY <1>2, <3>3, <3>5
      <4>2. ~(a >= b)
        BY <3>5
      <4> QED BY <3>1, <3>2, <4>1, <4>2
    <3> QED BY <3>4, <3>5
  <2> QED BY <2>1, <2>2
<1>5. <<0, n>> \in S
  BY <1>2
<1>6. PICK x : x = Iterate(f, <<0, n>>, n)
  OBVIOUS
<1>7. x \in S
  BY <1>4, <1>5, <1>6, IterateStays
<1>8. FirstFrom(s, cutoff) = x[1]
  BY <1>1, <1>3, <1>6 DEF FirstFrom
<1> QED BY <1>1, <1>2, <1>7, <1>8

\* What stands for the samples of s at places P, all of it before T.
Zone(e, s, P, T) == StandsFor(e, StandsOf(s, P)) /\ \A i \in 1..Len(e) : e[i].t < T

LEMMA DownsampledZone ==
  ASSUME NEW s, NEW M, StandsFor(s, M), NEW P \in SUBSET (1..Len(s)), NEW T \in Int,
         \A i \in P : s[i].t < T, NEW width \in Nat \ {0},
         NEW later \in Int, T + width <= later,
         NEW e, e = Downsample(ElementsAt(s, P), width)
  PROVE  Zone(e, s, P, later)
<1>1. PICK a : a = ElementsAt(s, P)
  OBVIOUS
<1>2. StandsFor(a, StandsOf(s, P)) /\ \A k \in 1..Len(a) : \E i \in P : a[k] = s[i]
  BY <1>1, PickedStands
<1>3. \A k \in 1..Len(a) : a[k].t < T
  BY <1>2
<1>4. StandsFor(e, StandsOf(s, P)) /\ \A k \in 1..Len(e) : e[k].t < T + width
  BY <1>1, <1>2, <1>3, DownsampledStands
<1>5. ASSUME NEW k \in 1..Len(e) PROVE e[k].t < later
  <2>1. e[k].t \in Nat
    BY <1>4, SampleTypes DEF StandsFor
  <2>2. e[k].t < T + width
    BY <1>4
  <2> QED BY <2>1, <2>2
<1> QED BY <1>4, <1>5 DEF Zone

LEMMA JoinedZones ==
  ASSUME NEW s, NEW M, StandsFor(s, M), NEW P \in SUBSET (1..Len(s)),
         NEW Q \in SUBSET (1..Len(s)), P \intersect Q = {}, NEW T \in Int,
         NEW a, Zone(a, s, P, T), NEW b, Zone(b, s, Q, T),
         NEW R, R = P \union Q, NEW e, e = a \o b
  PROVE  Zone(e, s, R, T)
<1>1. PICK A : A = StandsOf(s, P)
  OBVIOUS
<1>2. PICK B : B = StandsOf(s, Q)
  OBVIOUS
<1>3. StandsFor(a, A) /\ StandsFor(b, B)
  BY <1>1, <1>2 DEF Zone
<1>4. A \intersect B = {}
  <2> SUFFICES ASSUME NEW x \in A, x \in B PROVE FALSE
    OBVIOUS
  <2>1. PICK i \in P : x \in s[i].stands
    BY <1>1 DEF StandsOf
  <2>2. PICK j \in Q : x \in s[j].stands
    BY <1>2 DEF StandsOf
  <2>3. DOMAIN s = 1..Len(s) /\ i # j
    BY SampleTypes DEF StandsFor
  <2> QED BY <2>1, <2>2, <2>3 DEF StandsFor, Once
<1>5. PICK C : C = StandsOf(s, R)
  OBVIOUS
<1>8. C = A \union B
  BY <1>1, <1>2, <1>5 DEF StandsOf
<1>6. /\ StandsFor(e, C)
      /\ \A k \in 1..Len(e) : \/ \E i \in 1..Len(a) : e[k] = a[i]
                              \/ \E i \in 1..Len(b) : e[k] = b[i]
  <2>1. StandsFor(e, C)
    BY <1>3, <1>4, <1>8, JoinedStands
  <2>2. \A k \in 1..Len(e) : \/ \E i \in 1..Len(a) : e[k] = a[i]
                             \/ \E i \in 1..Len(b) : e[k] = b[i]
    BY <1>3, <1>4, <1>8, JoinedStands
  <2> QED BY <2>1, <2>2
<1>7. \A k \in 1..Len(e) : e[k].t < T
  BY <1>6 DEF Zone
<1> QED BY <1>5, <1>6, <1>7 DEF Zone

\* What compaction leaves stands for what it did not cut.
LEMMA CompactedStands ==
  ASSUME NEW s, NEW M, StandsFor(s, M), NEW now \in Nat,
         \A i \in 1..Len(s) : s[i].t < now + Quarter,
         NEW cut, cut = SubSeq(s, 1, FirstFrom(s, now - Month)),
         NEW e, e = Compacted(s, now)
  PROVE  StandsFor(e, M \ Stands(cut)) /\ \A i \in 1..Len(e) : e[i].t < now + Quarter
<1>0. /\ Minute \in Nat \ {0} /\ Five \in Nat \ {0} /\ Quarter \in Nat \ {0}
      /\ Hour \in Nat /\ Day \in Nat /\ Week \in Nat /\ Month \in Nat
      /\ Hour <= Day /\ Day <= Week /\ Minute <= Quarter /\ Five <= Quarter
  BY HashstoreAssumption
<1>1. s \in Seq(Sample) /\ Len(s) \in Nat
  BY SampleTypes DEF StandsFor
<1>2. PICK k : k = FirstFrom(s, now - Month)
  OBVIOUS
<1>3. k \in 0..Len(s)
  BY <1>0, <1>1, <1>2, FirstFromType
<1>4. PICK kept : kept = SubSeq(s, k + 1, Len(s))
  OBVIOUS
<1>5. PICK N : N = M \ Stands(cut)
  OBVIOUS
<1>6. StandsFor(kept, N) /\ \A i \in 1..Len(kept) : \E j \in 1..Len(s) : kept[i] = s[j]
  <2>1. N = M \ Stands(SubSeq(s, 1, k))
    BY <1>2, <1>5
  <2>2. StandsFor(kept, N)
    BY <1>3, <1>4, <2>1, CutStands
  <2>3. \A i \in 1..Len(kept) : \E j \in 1..Len(s) : kept[i] = s[j]
    BY <1>3, <1>4, <2>1, CutStands
  <2> QED BY <2>2, <2>3
<1>7. /\ Len(kept) \in Nat /\ DOMAIN kept = 1..Len(kept)
      /\ \A i \in 1..Len(kept) : kept[i].t \in Nat /\ kept[i].t < now + Quarter
  BY <1>6, SampleTypes DEF StandsFor
<1>8. PICK week : week = Before(kept, now - Week)
  OBVIOUS
<1>9. PICK day : day = Before(kept, now - Day)
  OBVIOUS
<1>10. PICK hour : hour = Before(kept, now - Hour)
  OBVIOUS
<1>11. /\ \A i \in 1..Len(kept) : i \in week <=> kept[i].t < now - Week
       /\ \A i \in 1..Len(kept) : i \in day <=> kept[i].t < now - Day
       /\ \A i \in 1..Len(kept) : i \in hour <=> kept[i].t < now - Hour
       /\ week \in SUBSET (1..Len(kept)) /\ day \in SUBSET (1..Len(kept))
       /\ hour \in SUBSET (1..Len(kept))
  BY <1>7, <1>8, <1>9, <1>10 DEF Before
<1>12. week \in SUBSET day /\ day \in SUBSET hour
  <2>1. ASSUME NEW i \in week PROVE i \in day
    <3>1. i \in 1..Len(kept) /\ kept[i].t \in Nat /\ kept[i].t < now - Week
      BY <1>7, <1>11
    <3>2. kept[i].t < now - Day
      BY <1>0, <3>1
    <3> QED BY <1>11, <3>1, <3>2
  <2>2. ASSUME NEW i \in day PROVE i \in hour
    <3>1. i \in 1..Len(kept) /\ kept[i].t \in Nat /\ kept[i].t < now - Day
      BY <1>7, <1>11
    <3>2. kept[i].t < now - Hour
      BY <1>0, <3>1
    <3> QED BY <1>11, <3>1, <3>2
  <2> QED BY <2>1, <2>2
<1>13. PICK T \in Int : T = now + Quarter
  BY <1>0
<1>14. PICK a : a = Downsample(ElementsAt(kept, week), Quarter)
  OBVIOUS
<1>15. PICK b : b = Downsample(ElementsAt(kept, day \ week), Five)
  OBVIOUS
<1>16. PICK c : c = Downsample(ElementsAt(kept, hour \ day), Minute)
  OBVIOUS
<1>17. PICK d : d = ElementsAt(kept, (1..Len(kept)) \ hour)
  OBVIOUS
<1>18. e = a \o b \o c \o d
  BY <1>2, <1>4, <1>7, <1>8, <1>9, <1>10, <1>14, <1>15, <1>16, <1>17 DEF Compacted
<1>19. Zone(a, kept, week, T)
  <2>1. PICK t \in Int : t = now - Week /\ t + Quarter <= T
    BY <1>0, <1>13
  <2>2. \A i \in week : kept[i].t < t
    BY <1>11, <2>1
  <2> QED BY <1>0, <1>6, <1>11, <1>14, <2>1, <2>2, DownsampledZone
<1>20. Zone(b, kept, day \ week, T)
  <2>1. PICK t \in Int : t = now - Day /\ t + Five <= T
    BY <1>0, <1>13
  <2>2. PICK P : P = day \ week
    OBVIOUS
  <2>3. P \in SUBSET (1..Len(kept)) /\ \A i \in P : kept[i].t < t
    BY <1>11, <2>1, <2>2
  <2>4. Zone(b, kept, P, T)
    BY <1>0, <1>6, <1>15, <2>1, <2>2, <2>3, DownsampledZone
  <2> QED BY <2>2, <2>4
<1>21. Zone(c, kept, hour \ day, T)
  <2>1. PICK t \in Int : t = now - Hour /\ t + Minute <= T
    BY <1>0, <1>13
  <2>2. PICK P : P = hour \ day
    OBVIOUS
  <2>3. P \in SUBSET (1..Len(kept)) /\ \A i \in P : kept[i].t < t
    BY <1>11, <2>1, <2>2
  <2>4. Zone(c, kept, P, T)
    BY <1>0, <1>6, <1>16, <2>1, <2>2, <2>3, DownsampledZone
  <2> QED BY <2>2, <2>4
<1>22. Zone(d, kept, (1..Len(kept)) \ hour, T)
  <2>1. PICK P : P = (1..Len(kept)) \ hour
    OBVIOUS
  <2>2. P \in SUBSET (1..Len(kept))
    BY <2>1
  <2>3. StandsFor(d, StandsOf(kept, P)) /\ \A i \in 1..Len(d) : \E j \in P : d[i] = kept[j]
    <3>1. d = ElementsAt(kept, P)
      BY <1>17, <2>1
    <3> QED BY <1>6, <2>2, <3>1, PickedStands
  <2>4. \A i \in 1..Len(d) : d[i].t < T
    BY <1>7, <1>13, <2>2, <2>3
  <2> QED BY <2>1, <2>3, <2>4 DEF Zone
<1>23. Zone(a \o b, kept, day, T)
  <2>1. PICK P : P = day \ week
    OBVIOUS
  <2>2. P \in SUBSET (1..Len(kept)) /\ week \intersect P = {} /\ day = week \union P
    BY <1>11, <1>12, <2>1
  <2>3. Zone(b, kept, P, T)
    BY <1>20, <2>1
  <2> QED BY <1>6, <1>11, <1>19, <2>2, <2>3, JoinedZones
<1>24. Zone(a \o b \o c, kept, hour, T)
  <2>1. PICK P : P = hour \ day
    OBVIOUS
  <2>2. P \in SUBSET (1..Len(kept)) /\ day \intersect P = {} /\ hour = day \union P
    BY <1>11, <1>12, <2>1
  <2>3. Zone(c, kept, P, T)
    BY <1>21, <2>1
  <2>4. PICK ab : ab = a \o b
    OBVIOUS
  <2>5. Zone(ab, kept, day, T)
    BY <1>23, <2>4
  <2>6. Zone(ab \o c, kept, hour, T)
    BY <1>6, <1>11, <2>2, <2>3, <2>5, JoinedZones
  <2> QED BY <2>4, <2>6
<1>25. Zone(e, kept, 1..Len(kept), T)
  <2>1. PICK P : P = (1..Len(kept)) \ hour
    OBVIOUS
  <2>2. P \in SUBSET (1..Len(kept)) /\ hour \intersect P = {} /\ 1..Len(kept) = hour \union P
    BY <1>11, <2>1
  <2>3. Zone(d, kept, P, T)
    BY <1>22, <2>1
  <2>4. PICK abc : abc = a \o b \o c
    OBVIOUS
  <2>5. Zone(abc, kept, hour, T)
    BY <1>24, <2>4
  <2>6. e = abc \o d
    BY <1>18, <2>4
  <2> QED BY <1>6, <1>11, <2>2, <2>3, <2>5, <2>6, JoinedZones
<1>26. StandsOf(kept, 1..Len(kept)) = N
  BY <1>6, <1>7 DEF StandsFor, Stands, StandsOf
<1> QED BY <1>5, <1>13, <1>25, <1>26 DEF Zone

-----------------------------------------------------------------------------
(* The inductive invariant.                                                *)
\* The history s stands for the measurements M, all of the past.
HistoryOK(s, M, now) ==
  /\ StandsFor(s, M) /\ M \in SUBSET (0..(now - 1))
  /\ \A i \in 1..Len(s) : s[i].t < now + Quarter

HashInv ==
  /\ hashClock \in 0..HashEnd /\ lastComp \in 0..hashClock /\ unsaved \in BOOLEAN
  /\ HistoryOK(samples, standsFor, hashClock)
  /\ HistoryOK(hashFile, Stands(hashFile), hashClock)

LEMMA HistoryAges ==
  ASSUME NEW s, NEW M, NEW now \in Nat, HistoryOK(s, M, now)
  PROVE  HistoryOK(s, M, now + 1)
<1>1. Quarter \in Nat
  BY HashstoreAssumption
<1>2. \A i \in 1..Len(s) : s[i].t \in Nat
  BY SampleTypes DEF HistoryOK, StandsFor
<1>3. M \in SUBSET (0..(now + 1 - 1))
  BY DEF HistoryOK
<1>4. \A i \in 1..Len(s) : s[i].t < now + 1 + Quarter
  BY <1>1, <1>2 DEF HistoryOK
<1> QED BY <1>3, <1>4 DEF HistoryOK

\* A measurement more.
LEMMA HistoryGrows ==
  ASSUME NEW s, NEW M, NEW now \in Nat, HistoryOK(s, M, now),
         NEW e, e = Append(s, [t |-> now, stands |-> {now}])
  PROVE  HistoryOK(e, M \union {now}, now + 1)
<1>1. Quarter \in Nat \ {0}
  BY HashstoreAssumption
<1>2. PICK x : x = [t |-> now, stands |-> {now}]
  OBVIOUS
<1>3. x \in Sample /\ x.t = now /\ x.stands = {now}
  BY <1>2 DEF Sample
<1>4. PICK b : b = <<x>>
  OBVIOUS
<1>5. b \in Seq(Sample) /\ Len(b) = 1 /\ b[1] = x
  BY <1>3, <1>4
<1>6. DOMAIN b = 1..1 /\ \A i \in 1..1 : i = 1
  BY <1>5, SampleTypes
<1>16. PICK B : B = {now}
  OBVIOUS
<1>7. StandsFor(b, B)
  <2>1. Stands(b) = {now}
    BY <1>3, <1>5, <1>6, <1>16 DEF Stands
  <2>2. Once(b)
    BY <1>6 DEF Once
  <2>3. \A i \in 1..1 : b[i].stands # {}
    BY <1>3, <1>5, <1>6
  <2> QED BY <1>5, <1>16, <2>1, <2>2, <2>3 DEF StandsFor
<1>8. StandsFor(s, M) /\ M \intersect B = {}
  BY <1>16 DEF HistoryOK
<1>9. e = s \o b
  <2>1. s \in Seq(Sample)
    BY <1>8 DEF StandsFor
  <2>2. Append(s, x) = s \o <<x>>
    BY <1>3, <2>1, AppendIsConcat
  <2> QED BY <1>2, <1>4, <2>2
<1>10. PICK C : C = M \union B
  OBVIOUS
<1>11. /\ StandsFor(e, C)
       /\ \A k \in 1..Len(e) : \/ \E i \in 1..Len(s) : e[k] = s[i]
                               \/ \E i \in 1..Len(b) : e[k] = b[i]
  <2>1. PICK d : d = s \o b
    OBVIOUS
  <2>2. StandsFor(d, C)
    BY <1>7, <1>8, <1>10, <2>1, JoinedStands
  <2>3. \A k \in 1..Len(d) : \/ \E i \in 1..Len(s) : d[k] = s[i]
                             \/ \E i \in 1..Len(b) : d[k] = b[i]
    BY <1>7, <1>8, <1>10, <2>1, JoinedStands
  <2>4. e = d
    BY <1>9, <2>1
  <2>5. StandsFor(e, C)
    BY <2>2, <2>4
  <2>6. \A k \in 1..Len(e) : \/ \E i \in 1..Len(s) : e[k] = s[i]
                             \/ \E i \in 1..Len(b) : e[k] = b[i]
    BY <2>3, <2>4
  <2> QED BY <2>5, <2>6
<1>12. \A k \in 1..Len(e) : \/ \E i \in 1..Len(s) : e[k] = s[i]
                            \/ \E i \in 1..Len(b) : e[k] = b[i]
  BY <1>11
<1>13. ASSUME NEW k \in 1..Len(e) PROVE e[k].t < now + 1 + Quarter
  <2>1. CASE \E i \in 1..Len(s) : e[k] = s[i]
    <3>1. PICK i \in 1..Len(s) : e[k] = s[i]
      BY <2>1
    <3>2. s[i].t \in Nat /\ s[i].t < now + Quarter
      BY <1>8, SampleTypes DEF StandsFor, HistoryOK
    <3> QED BY <1>1, <3>1, <3>2
  <2>2. CASE \E i \in 1..Len(b) : e[k] = b[i]
    <3>1. e[k].t = now
      BY <1>3, <1>5, <1>6, <2>2
    <3> QED BY <1>1, <3>1
  <2> QED BY <1>12, <2>1, <2>2
<1>14. C \in SUBSET (0..(now + 1 - 1))
  <2>1. \A y \in C : y \in 0..now
    BY <1>10, <1>16 DEF HistoryOK
  <2>2. now + 1 - 1 = now
    OBVIOUS
  <2> QED BY <2>1, <2>2
<1>15. C = M \union {now}
  BY <1>10, <1>16
<1> QED BY <1>11, <1>13, <1>14, <1>15 DEF HistoryOK

LEMMA HistoryCompacts ==
  ASSUME NEW s, NEW M, NEW now \in Nat, HistoryOK(s, M, now),
         NEW cut, cut = SubSeq(s, 1, FirstFrom(s, now - Month)), NEW e, e = Compacted(s, now)
  PROVE  HistoryOK(e, M \ Stands(cut), now)
<1>1. StandsFor(s, M) /\ \A i \in 1..Len(s) : s[i].t < now + Quarter
  BY DEF HistoryOK
<1>2. StandsFor(e, M \ Stands(cut)) /\ \A i \in 1..Len(e) : e[i].t < now + Quarter
  BY <1>1, CompactedStands
<1>3. M \ Stands(cut) \in SUBSET (0..(now - 1))
  BY DEF HistoryOK
<1> QED BY <1>2, <1>3 DEF HistoryOK

LEMMA HistorySorts ==
  ASSUME NEW s, NEW M, NEW now \in Nat, HistoryOK(s, M, now), NEW e, e = ByTime(s)
  PROVE  HistoryOK(e, M, now)
<1>1. StandsFor(s, M)
  BY DEF HistoryOK
<1>2. StandsFor(e, M) /\ \A k \in 1..Len(e) : \E i \in 1..Len(s) : e[k] = s[i]
  BY <1>1, SortedStands
<1>3. ASSUME NEW k \in 1..Len(e) PROVE e[k].t < now + Quarter
  <2>1. PICK i \in 1..Len(s) : e[k] = s[i]
    BY <1>2
  <2> QED BY <2>1 DEF HistoryOK
<1> QED BY <1>2, <1>3 DEF HistoryOK

LEMMA HashInitial == HashInit => HashInv
<1> SUFFICES ASSUME HashInit PROVE HashInv
  OBVIOUS
<1>1. HashEnd \in Nat /\ 0 \in 0..0 /\ 0 \in 0..HashEnd
  BY HashstoreAssumption
<1>2. PICK z : z = <<>>
  OBVIOUS
<1>3. z \in Seq(Sample) /\ Len(z) = 0 /\ DOMAIN z = {} /\ 1..0 = {}
  <2>1. z \in Seq(Sample) /\ Len(z) = 0
    BY <1>2
  <2> QED BY <2>1, SampleTypes
<1>4. Stands(z) = {} /\ Once(z)
  BY <1>3 DEF Stands, Once
<1>5. StandsFor(z, {})
  BY <1>3, <1>4 DEF StandsFor
<1>6. HistoryOK(z, {}, 0)
  BY <1>3, <1>5 DEF HistoryOK
<1> QED BY <1>1, <1>2, <1>4, <1>6 DEF HashInit, HashInv

LEMMA HashStep == HashInv /\ [HashNext]_hashVars => HashInv'
<1> SUFFICES ASSUME HashInv, [HashNext]_hashVars PROVE HashInv'
  OBVIOUS
<1> USE DEF HashInv
<1>0. HashEnd \in Nat /\ hashClock \in Nat /\ hashClock \in 0..hashClock
  BY HashstoreAssumption
<1>1. CASE Add
  <2>1. PICK x : x = [t |-> hashClock, stands |-> {hashClock}]
    OBVIOUS
  <2>2. /\ samples' = Append(samples, x) /\ hashClock' = hashClock + 1
        /\ standsFor' = standsFor \union {hashClock}
        /\ lastComp' = lastComp /\ unsaved' = unsaved /\ hashFile' = hashFile
        /\ hashClock < HashEnd
    BY <1>1, <2>1 DEF Add
  <2>3. HistoryOK(samples', standsFor', hashClock')
    BY <1>0, <2>1, <2>2, HistoryGrows
  <2>4. HistoryOK(hashFile', Stands(hashFile'), hashClock')
    BY <1>0, <2>2, HistoryAges
  <2>5. hashClock' \in 0..HashEnd /\ lastComp' \in 0..hashClock'
    BY <1>0, <2>2
  <2> QED BY <2>2, <2>3, <2>4, <2>5
<1>2. CASE Gap
  <2>1. /\ samples' = samples /\ hashClock' = hashClock + 1 /\ standsFor' = standsFor
        /\ lastComp' = lastComp /\ unsaved' = unsaved /\ hashFile' = hashFile
        /\ hashClock < HashEnd
    BY <1>2 DEF Gap
  <2>2. HistoryOK(samples', standsFor', hashClock')
    BY <1>0, <2>1, HistoryAges
  <2>3. HistoryOK(hashFile', Stands(hashFile'), hashClock')
    BY <1>0, <2>1, HistoryAges
  <2>4. hashClock' \in 0..HashEnd /\ lastComp' \in 0..hashClock'
    BY <1>0, <2>1
  <2> QED BY <2>1, <2>2, <2>3, <2>4
<1>3. CASE Compact
  <2>1. PICK cut : cut = SubSeq(samples, 1, FirstFrom(samples, hashClock - Month))
    OBVIOUS
  <2>2. /\ samples' = Compacted(samples, hashClock) /\ hashClock' = hashClock
        /\ standsFor' = standsFor \ Stands(cut)
        /\ lastComp' = hashClock /\ unsaved' = TRUE /\ hashFile' = hashFile
    BY <1>3, <2>1 DEF Compact
  <2>3. HistoryOK(samples', standsFor \ Stands(cut), hashClock)
    BY <1>0, <2>1, <2>2, HistoryCompacts
  <2> QED BY <1>0, <2>2, <2>3
<1>4. CASE Save
  <2>1. /\ samples' = samples /\ hashClock' = hashClock /\ standsFor' = standsFor
        /\ lastComp' = lastComp /\ unsaved' = FALSE /\ hashFile' = samples
    BY <1>4 DEF Save
  <2>2. Stands(samples) = standsFor
    BY DEF HistoryOK, StandsFor
  <2> QED BY <2>1, <2>2
<1>5. ASSUME NEW closed \in BOOLEAN, HashRestart(closed) PROVE HashInv'
  <2>1. /\ samples' = ByTime(hashFile') /\ standsFor' = Stands(hashFile')
        /\ hashClock' = hashClock /\ lastComp' = hashClock /\ unsaved' = FALSE
    BY <1>5 DEF HashRestart
  <2>2. hashFile' = samples \/ hashFile' = hashFile
    BY <1>5 DEF HashRestart
  <2>3. Stands(samples) = standsFor
    BY DEF HistoryOK, StandsFor
  <2>4. HistoryOK(hashFile', Stands(hashFile'), hashClock)
    BY <2>2, <2>3
  <2>5. HistoryOK(samples', Stands(hashFile'), hashClock)
    BY <1>0, <2>1, <2>4, HistorySorts
  <2> QED BY <1>0, <2>1, <2>4, <2>5
<1>6. CASE UNCHANGED hashVars
  BY <1>6 DEF hashVars
<1> QED BY <1>1, <1>2, <1>3, <1>4, <1>5, <1>6 DEF HashNext

LEMMA HashHolds == HashSpec => []HashInv
BY HashInitial, HashStep, PTL DEF HashSpec

\* The variables of the hashrate store have their types in every reachable state,
\* and no sample, in memory or in the file, has a time that is later than now by
\* a quarter of an hour or more, nor stands for nothing, nor for what is to come.
THEOREM HashTypes == HashSpec => []HashTypeOK
<1>1. HashInv => HashTypeOK
  <2> SUFFICES ASSUME HashInv PROVE HashTypeOK
    OBVIOUS
  <2> USE DEF HashInv
  <2>0. hashClock \in Nat /\ Quarter \in Nat
    BY HashstoreAssumption
  <2>1. ASSUME NEW s, NEW M, HistoryOK(s, M, hashClock), NEW i \in DOMAIN s
        PROVE  /\ s[i].t \in 0..(hashClock + Quarter)
               /\ s[i].stands \in (SUBSET (0..(hashClock - 1))) \ {{}}
    <3>1. i \in 1..Len(s) /\ s[i].t \in Nat
      BY <2>1, SampleTypes DEF HistoryOK, StandsFor
    <3>2. s[i].t \in 0..(hashClock + Quarter)
      BY <2>0, <2>1, <3>1 DEF HistoryOK
    <3>3. s[i].stands # {} /\ s[i].stands \subseteq M /\ M \subseteq 0..(hashClock - 1)
      BY <2>1, <3>1 DEF HistoryOK, StandsFor, Stands
    <3>4. s[i].stands \in (SUBSET (0..(hashClock - 1))) \ {{}}
      BY <3>3
    <3> QED BY <3>2, <3>4
  <2>2. standsFor \subseteq 0..(hashClock - 1)
    BY DEF HistoryOK
  <2>3. \A s \in {samples, hashFile} : \A i \in DOMAIN s :
          /\ s[i].t \in 0..(hashClock + Quarter)
          /\ s[i].stands \in (SUBSET (0..(hashClock - 1))) \ {{}}
    <3>1. \A s \in {samples, hashFile} : \E M : HistoryOK(s, M, hashClock)
      OBVIOUS
    <3> QED BY <2>1, <3>1
  <2> QED BY <2>2, <2>3 DEF HashTypeOK
<1> QED BY <1>1, HashHolds, PTL

\* Part of HistoryIsBounded: the history, compacted, saved and loaded however often,
\* stands for exactly the measurements that were not cut with the month or lost
\* unsaved, for each of them in one sample only.
THEOREM HistoryIsKept == HashSpec => []NothingForgotten
<1>1. HashInv => NothingForgotten
  BY DEF HashInv, HistoryOK, StandsFor, NothingForgotten
<1> QED BY <1>1, HashHolds, PTL
=============================================================================
