----------------------------- MODULE AddressProofs -----------------------------
(***************************************************************************)
(* Proofs about Address for every hash: the checksum of bech32 (a code     *)
(* over groups of five bits, computed by shifting and selecting) finds a   *)
(* changed symbol, two swapped neighbours, a missing last symbol and the   *)
(* other prefix; the program comes out of the groups as it went in; and a  *)
(* number of base 58 comes back as the bytes it was made of.               *)
(*                                                                         *)
(* Sums are followed by induction over the values (Iterated, Reached): a   *)
(* step can be undone, so sums that differ go on to differ, and sums that  *)
(* agree go on to agree.                                                   *)
(***************************************************************************)
EXTENDS Address, Lemmas, SequenceTheorems

-----------------------------------------------------------------------------
(* Sequences one after the other, and the bits of a group of five.        *)

\* y is s with t after it.
Joined(y, s, t) == /\ y = s \o t /\ Len(y) = Len(s) + Len(t)
                   /\ \A i \in 1..Len(s) : y[i] = s[i]
                   /\ \A i \in 1..Len(t) : y[Len(s) + i] = t[i]

\* Sequences one after the other.
LEMMA Joining ==
  ASSUME NEW S, NEW s \in Seq(S), NEW t \in Seq(S)
  PROVE  s \o t \in Seq(S) /\ Joined(s \o t, s, t)
<1>1. PICK n \in Nat, m \in Nat : n = Len(s) /\ m = Len(t)
  OBVIOUS
<1>2. PICK y : y = s \o t
  OBVIOUS
<1>3. y \in Seq(S) /\ Len(y) = n + m
  BY <1>1, <1>2, ConcatProperties
<1>4. \A i \in 1..(n + m) : y[i] = IF i <= n THEN s[i] ELSE t[i - n]
  BY <1>1, <1>2, ConcatProperties
<1>5. \A i \in 1..n : y[i] = s[i]
  <2> TAKE i \in 1..n
  <2>1. i \in 1..(n + m) /\ i <= n
    OBVIOUS
  <2> QED BY <1>4, <2>1
<1>6. \A i \in 1..m : y[n + i] = t[i]
  <2> TAKE i \in 1..m
  <2>1. n + i \in 1..(n + m) /\ ~(n + i <= n) /\ (n + i) - n = i
    OBVIOUS
  <2> QED BY <1>4, <2>1
<1> QED BY <1>1, <1>2, <1>3, <1>5, <1>6 DEF Joined

\* The first powers of two.
LEMMA Powers ==
  /\ Power2[1] = 1 /\ Power2[2] = 2 /\ Power2[3] = 4 /\ Power2[4] = 8
  /\ Power2[5] = 16 /\ Power2[6] = 32 /\ Power2[7] = 64 /\ Power2[8] = 128
BY DEF Power2

\* The sum of five numbers, and of eight.
LEMMA SumOfFive ==
  ASSUME NEW s \in [1..5 -> Nat]
  PROVE  Total(s) = s[1] + s[2] + s[3] + s[4] + s[5]
<1>1. s \in Seq(Nat) /\ Len(s) = 5
  BY SeqOfFunction
<1>2. s \in Seq(Int)
  <2>1. s \in [1..5 -> Int]
    OBVIOUS
  <2> QED BY <2>1, SeqOfFunction
<1>3. PICK p : p = PrefixSums(s)
  OBVIOUS
<1>4. p[0] = 0 /\ \A i \in 1..5 : p[i] = p[i - 1] + s[i]
  BY <1>1, <1>2, <1>3, PrefixSumsStep
<1>5. \A i \in 1..5 : s[i] \in Nat
  OBVIOUS
<1>6. p[1] = s[1] /\ p[2] = p[1] + s[2] /\ p[3] = p[2] + s[3] /\ p[4] = p[3] + s[4] /\ p[5] = p[4] + s[5]
  BY <1>4, <1>5
<1>7. Total(s) = p[5]
  BY <1>1, <1>3 DEF Total
<1> QED BY <1>5, <1>6, <1>7

\* Five binary digits.
Digits5(n, a, b, c, d, e) == n = a + 2 * b + 4 * c + 8 * d + 16 * e

\* The values of a group of five bits.
Groups5 == 0..31

\* The five bits of a group.
LEMMA BitsOfFive ==
  ASSUME NEW n \in 0..31
  PROVE  /\ \A i \in 1..5 : Bit(n, i) \in {0, 1}
         /\ Digits5(n, Bit(n, 1), Bit(n, 2), Bit(n, 3), Bit(n, 4), Bit(n, 5))
<1>1. /\ Bit(n, 1) = (n \div 1) % 2 /\ Bit(n, 2) = (n \div 2) % 2 /\ Bit(n, 3) = (n \div 4) % 2
      /\ Bit(n, 4) = (n \div 8) % 2 /\ Bit(n, 5) = (n \div 16) % 2
  BY Powers DEF Bit
<1>2. \A i \in 1..5 : i \in {1, 2, 3, 4, 5}
  OBVIOUS
<1>3. /\ (n \div 1) % 2 \in {0, 1} /\ (n \div 2) % 2 \in {0, 1} /\ (n \div 4) % 2 \in {0, 1}
      /\ (n \div 8) % 2 \in {0, 1} /\ (n \div 16) % 2 \in {0, 1}
  OBVIOUS
<1>4. n = ((n \div 1) % 2) + 2 * ((n \div 2) % 2) + 4 * ((n \div 4) % 2) + 8 * ((n \div 8) % 2)
          + 16 * ((n \div 16) % 2)
  OBVIOUS
<1>5. \A i \in 1..5 : Bit(n, i) \in {0, 1}
  BY <1>1, <1>2, <1>3
<1>6. Digits5(n, Bit(n, 1), Bit(n, 2), Bit(n, 3), Bit(n, 4), Bit(n, 5))
  BY <1>1, <1>4 DEF Digits5
<1> QED BY <1>5, <1>6

\* Five binary digits are the bits of their number.
LEMMA FiveOfBits ==
  ASSUME NEW a \in {0, 1}, NEW b \in {0, 1}, NEW c \in {0, 1}, NEW d \in {0, 1}, NEW e \in {0, 1},
         NEW n, Digits5(n, a, b, c, d, e)
  PROVE  /\ n \in 0..31 /\ Bit(n, 1) = a /\ Bit(n, 2) = b /\ Bit(n, 3) = c /\ Bit(n, 4) = d /\ Bit(n, 5) = e
<1>1. /\ Bit(n, 1) = (n \div 1) % 2 /\ Bit(n, 2) = (n \div 2) % 2 /\ Bit(n, 3) = (n \div 4) % 2
      /\ Bit(n, 4) = (n \div 8) % 2 /\ Bit(n, 5) = (n \div 16) % 2
  BY Powers DEF Bit
<1>2. n = a + 2 * b + 4 * c + 8 * d + 16 * e
  BY DEF Digits5
<1>3. n \in 0..31
  BY <1>2
<1>4. (n \div 1) % 2 = a
  BY <1>2
<1>5. (n \div 2) % 2 = b
  BY <1>2
<1>6. (n \div 4) % 2 = c
  BY <1>2
<1>7. (n \div 8) % 2 = d
  BY <1>2
<1>8. (n \div 16) % 2 = e
  BY <1>2
<1> QED BY <1>1, <1>3, <1>4, <1>5, <1>6, <1>7, <1>8

\* Numbers with the same bits are the same.
LEMMA SameBits ==
  ASSUME NEW m \in 0..31, NEW n \in 0..31, \A i \in 1..5 : Bit(m, i) = Bit(n, i)
  PROVE  m = n
<1>1. /\ Bit(m, 1) = Bit(n, 1) /\ Bit(m, 2) = Bit(n, 2) /\ Bit(m, 3) = Bit(n, 3)
      /\ Bit(m, 4) = Bit(n, 4) /\ Bit(m, 5) = Bit(n, 5)
  OBVIOUS
<1>2. Digits5(m, Bit(m, 1), Bit(m, 2), Bit(m, 3), Bit(m, 4), Bit(m, 5))
  BY BitsOfFive
<1>3. Digits5(n, Bit(n, 1), Bit(n, 2), Bit(n, 3), Bit(n, 4), Bit(n, 5))
  BY BitsOfFive
<1> QED BY <1>1, <1>2, <1>3 DEF Digits5

\* Exclusive or adds bit by bit.
LEMMA XorBits ==
  ASSUME NEW a \in 0..31, NEW b \in 0..31
  PROVE  /\ Xor(a, b) \in 0..31
         /\ \A i \in 1..5 : Bit(Xor(a, b), i) = (Bit(a, i) + Bit(b, i)) % 2
<1>1. PICK x : x = [i \in 1..5 |-> (Bit(a, i) + Bit(b, i)) % 2]
  OBVIOUS
<1>2. \A i \in 1..5 : x[i] \in {0, 1} /\ x[i] = (Bit(a, i) + Bit(b, i)) % 2
  <2> TAKE i \in 1..5
  <2>1. PICK u \in {0, 1}, v \in {0, 1} : u = Bit(a, i) /\ v = Bit(b, i)
    BY BitsOfFive
  <2>2. x[i] = (u + v) % 2
    BY <1>1, <2>1
  <2>3. (u + v) % 2 \in {0, 1}
    OBVIOUS
  <2> QED BY <2>1, <2>2, <2>3
<1>3. PICK s : s = [i \in 1..5 |-> Power2[i] * ((Bit(a, i) + Bit(b, i)) % 2)]
  OBVIOUS
<1>4. \A i \in 1..5 : s[i] = Power2[i] * x[i]
  BY <1>2, <1>3
<1>5. /\ s[1] = x[1] /\ s[2] = 2 * x[2] /\ s[3] = 4 * x[3] /\ s[4] = 8 * x[4] /\ s[5] = 16 * x[5]
  BY <1>2, <1>4, Powers
<1>6. s \in [1..5 -> Nat]
  <2>1. \A i \in 1..5 : s[i] \in Nat
    <3>1. \A i \in 1..5 : i \in {1, 2, 3, 4, 5}
      OBVIOUS
    <3>2. s[1] \in Nat /\ s[2] \in Nat /\ s[3] \in Nat /\ s[4] \in Nat /\ s[5] \in Nat
      BY <1>2, <1>5
    <3> QED BY <3>1, <3>2
  <2> QED BY <1>3, <2>1
<1>7. Xor(a, b) = Total(s)
  BY <1>3 DEF Xor5, Xor
<1>8. PICK n : n = Total(s)
  OBVIOUS
<1>9. Digits5(n, x[1], x[2], x[3], x[4], x[5])
  BY <1>2, <1>5, <1>6, <1>8, SumOfFive DEF Digits5
<1>10. /\ n \in 0..31 /\ Bit(n, 1) = x[1] /\ Bit(n, 2) = x[2] /\ Bit(n, 3) = x[3]
       /\ Bit(n, 4) = x[4] /\ Bit(n, 5) = x[5]
  BY <1>2, <1>9, FiveOfBits
<1>11. \A i \in 1..5 : Bit(n, i) = x[i]
  <2>1. \A i \in 1..5 : i \in {1, 2, 3, 4, 5}
    OBVIOUS
  <2> QED BY <1>10, <2>1
<1> QED BY <1>2, <1>7, <1>8, <1>10, <1>11

-----------------------------------------------------------------------------
(* Exclusive or.                                                          *)

\* x is the exclusive or of a and b.
IsXor(x, a, b) == /\ x = Xor(a, b) /\ x \in 0..31
                  /\ \A i \in 1..5 : Bit(x, i) = (Bit(a, i) + Bit(b, i)) % 2

\* A number with the bits of an exclusive or is the exclusive or.
LEMMA Xored ==
  ASSUME NEW a \in 0..31, NEW b \in 0..31
  PROVE  \E x : IsXor(x, a, b)
<1>1. PICK x : x = Xor(a, b)
  OBVIOUS
<1>2. IsXor(x, a, b)
  BY <1>1, XorBits DEF IsXor
<1> QED BY <1>2

\* The laws of the exclusive or.
LEMMA ZeroBits ==
  \A i \in 1..5 : Bit(0, i) = 0
<1>1. Digits5(0, 0, 0, 0, 0, 0)
  BY DEF Digits5
<1>2. Bit(0, 1) = 0 /\ Bit(0, 2) = 0 /\ Bit(0, 3) = 0 /\ Bit(0, 4) = 0 /\ Bit(0, 5) = 0
  BY <1>1, FiveOfBits
<1> QED BY <1>2

\* The exclusive or of groups is a group,
LEMMA XorType ==
  ASSUME NEW a \in Groups5, NEW b \in Groups5
  PROVE  Xor(a, b) \in Groups5
BY XorBits DEF Groups5

\* with 0 it changes nothing,
LEMMA XorZero ==
  ASSUME NEW a \in Groups5
  PROVE  Xor(a, 0) = a
<1>0. a \in 0..31
  BY DEF Groups5
<1>1. PICK x : IsXor(x, a, 0)
  BY <1>0, Xored
<1>2. ASSUME NEW i \in 1..5 PROVE Bit(x, i) = Bit(a, i)
  <2>1. PICK u \in {0, 1} : u = Bit(a, i)
    BY <1>0, BitsOfFive
  <2>2. Bit(x, i) = (u + 0) % 2
    BY <1>1, <2>1, ZeroBits DEF IsXor
  <2> QED BY <2>1, <2>2
<1> QED BY <1>0, <1>1, <1>2, SameBits DEF IsXor

\* it does not matter which comes first,
LEMMA XorTurned ==
  ASSUME NEW a \in Groups5, NEW b \in Groups5
  PROVE  Xor(a, b) = Xor(b, a)
<1>0. a \in 0..31 /\ b \in 0..31
  BY DEF Groups5
<1>1. PICK x : IsXor(x, a, b)
  BY <1>0, Xored
<1>2. PICK y : IsXor(y, b, a)
  BY <1>0, Xored
<1>3. ASSUME NEW i \in 1..5 PROVE Bit(x, i) = Bit(y, i)
  <2>1. PICK u \in {0, 1}, v \in {0, 1} : u = Bit(a, i) /\ v = Bit(b, i)
    BY <1>0, BitsOfFive
  <2>2. Bit(x, i) = (u + v) % 2 /\ Bit(y, i) = (v + u) % 2
    BY <1>1, <1>2, <2>1 DEF IsXor
  <2> QED BY <2>2
<1> QED BY <1>1, <1>2, <1>3, SameBits DEF IsXor

\* twice with the same undoes it,
LEMMA XorUndone ==
  ASSUME NEW a \in Groups5, NEW b \in Groups5
  PROVE  Xor(a, Xor(a, b)) = b
<1>0. a \in 0..31 /\ b \in 0..31
  BY DEF Groups5
<1>1. PICK x : IsXor(x, a, b)
  BY <1>0, Xored
<1>2. PICK z : IsXor(z, a, x)
  BY <1>0, <1>1, Xored DEF IsXor
<1>3. ASSUME NEW i \in 1..5 PROVE Bit(z, i) = Bit(b, i)
  <2>1. PICK u \in {0, 1}, v \in {0, 1} : u = Bit(a, i) /\ v = Bit(b, i)
    BY <1>0, BitsOfFive
  <2>2. Bit(x, i) = (u + v) % 2 /\ Bit(z, i) = (u + Bit(x, i)) % 2
    BY <1>1, <1>2, <2>1 DEF IsXor
  <2>3. (u + ((u + v) % 2)) % 2 = v
    OBVIOUS
  <2> QED BY <2>1, <2>2, <2>3
<1>4. z = b
  BY <1>0, <1>2, <1>3, SameBits DEF IsXor
<1> QED BY <1>1, <1>2, <1>4 DEF IsXor

\* a third may come before or after,
LEMMA XorSwapped ==
  ASSUME NEW a \in Groups5, NEW b \in Groups5, NEW c \in Groups5
  PROVE  Xor(Xor(a, b), c) = Xor(Xor(a, c), b)
<1>0. a \in 0..31 /\ b \in 0..31 /\ c \in 0..31
  BY DEF Groups5
<1>1. PICK x : IsXor(x, a, b)
  BY <1>0, Xored
<1>2. PICK y : IsXor(y, a, c)
  BY <1>0, Xored
<1>3. PICK z : IsXor(z, x, c)
  BY <1>0, <1>1, Xored DEF IsXor
<1>4. PICK w : IsXor(w, y, b)
  BY <1>0, <1>2, Xored DEF IsXor
<1>5. ASSUME NEW i \in 1..5 PROVE Bit(z, i) = Bit(w, i)
  <2>1. PICK u \in {0, 1}, v \in {0, 1}, r \in {0, 1} : u = Bit(a, i) /\ v = Bit(b, i) /\ r = Bit(c, i)
    BY <1>0, BitsOfFive
  <2>2. Bit(x, i) = (u + v) % 2 /\ Bit(y, i) = (u + r) % 2
    BY <1>1, <1>2, <2>1 DEF IsXor
  <2>3. Bit(z, i) = (Bit(x, i) + r) % 2 /\ Bit(w, i) = (Bit(y, i) + v) % 2
    BY <1>3, <1>4, <2>1 DEF IsXor
  <2>4. (((u + v) % 2) + r) % 2 = (((u + r) % 2) + v) % 2
    OBVIOUS
  <2> QED BY <2>2, <2>3, <2>4
<1>6. z = w
  BY <1>3, <1>4, <1>5, SameBits DEF IsXor
<1> QED BY <1>1, <1>2, <1>3, <1>4, <1>6 DEF IsXor

\* and different groups stay different.
LEMMA XorApart ==
  ASSUME NEW a \in Groups5, NEW b \in Groups5, NEW c \in Groups5, Xor(a, c) = Xor(b, c)
  PROVE  a = b
<1>1. Xor(c, Xor(c, a)) = a /\ Xor(c, a) = Xor(a, c)
  BY XorUndone, XorTurned
<1>2. Xor(c, Xor(c, b)) = b /\ Xor(c, b) = Xor(b, c)
  BY XorUndone, XorTurned
<1> QED BY <1>1, <1>2

-----------------------------------------------------------------------------
(* The checksum of bech32: a step can be undone.                          *)

\* A sum of six groups, and a table of such sums, of which the last groups differ.
Sum6 == [1..6 -> Groups5]
IsTable(table) ==
  /\ table \in [Groups5 -> Sum6]
  /\ \A a, b \in Groups5 : table[a][6] = table[b][6] => a = b

\* What a step makes: everything moves up a place, and what falls out selects g.
Steps6(t, s, v, g) ==
  /\ t \in Sum6 /\ g \in Sum6
  /\ \A i \in 1..5 : t[i] = Xor(s[i + 1], g[i])
  /\ t[6] = Xor(v, g[6])

\* What a value more makes of a sum.
LEMMA AbsorbedAt ==
  ASSUME NEW table, IsTable(table), NEW s \in Sum6, NEW v \in Groups5
  PROVE  s[1] \in Groups5 /\ Steps6(Absorbed(table, s, v), s, v, table[s[1]])
<1>1. Len(s) = 6 /\ DOMAIN s = 1..6 /\ \A i \in 1..6 : s[i] \in Groups5
  <2>1. Len(s) = 6
    BY SeqOfFunction DEF Sum6
  <2> QED BY <2>1 DEF Sum6
<1>2. PICK t : t = table[s[1]]
  OBVIOUS
<1>3. t \in Sum6 /\ \A i \in 1..6 : t[i] \in Groups5
  <2>1. t \in Sum6
    BY <1>1, <1>2 DEF IsTable
  <2> QED BY <2>1 DEF Sum6
<1>4. PICK r : r = Shifted(s, v)
  OBVIOUS
<1>5. DOMAIN r = 1..6 /\ (\A i \in 1..5 : r[i] = s[i + 1]) /\ r[6] = v
  BY <1>1, <1>4 DEF Shifted
<1>6. PICK x : x = Absorbed(table, s, v)
  OBVIOUS
<1>7. x = [i \in 1..6 |-> Xor(r[i], t[i])]
  BY <1>2, <1>4, <1>5, <1>6 DEF Absorbed, XorAll
<1>8. \A i \in 1..6 : r[i] \in Groups5
  <2>1. \A i \in 1..6 : i = 6 \/ (i \in 1..5 /\ i + 1 \in 1..6)
    OBVIOUS
  <2> QED BY <1>1, <1>5, <2>1
<1>9. \A i \in 1..6 : x[i] \in Groups5
  BY <1>3, <1>7, <1>8, XorType
<1>10. x \in Sum6
  BY <1>7, <1>9 DEF Sum6
<1>11. (\A i \in 1..5 : x[i] = Xor(s[i + 1], t[i])) /\ x[6] = Xor(v, t[6])
  BY <1>5, <1>7
<1> QED BY <1>1, <1>2, <1>3, <1>6, <1>10, <1>11 DEF Steps6

\* A step is undone by what it makes.
LEMMA StatesApart ==
  ASSUME NEW table, IsTable(table), NEW s \in Sum6, NEW t \in Sum6, NEW v \in Groups5,
         Absorbed(table, s, v) = Absorbed(table, t, v)
  PROVE  s = t
<1>1. /\ \A i \in 1..6 : s[i] \in Groups5 /\ t[i] \in Groups5
      /\ s = [i \in 1..6 |-> s[i]] /\ t = [i \in 1..6 |-> t[i]]
  BY DEF Sum6
<1>2. PICK a \in Groups5, b \in Groups5 : a = s[1] /\ b = t[1]
  BY <1>1
<1>3. PICK g, h : g = table[a] /\ h = table[b]
  OBVIOUS
<1>4. PICK x : x = Absorbed(table, s, v)
  OBVIOUS
<1>5. Steps6(x, s, v, g) /\ Steps6(x, t, v, h)
  BY <1>2, <1>3, <1>4, AbsorbedAt
<1>6. \A i \in 1..6 : g[i] \in Groups5 /\ h[i] \in Groups5
  BY <1>5 DEF Steps6, Sum6
<1>7. Xor(v, g[6]) = Xor(v, h[6])
  BY <1>5 DEF Steps6
<1>8. g[6] = h[6]
  <2>1. Xor(g[6], v) = Xor(h[6], v)
    BY <1>6, <1>7, XorTurned
  <2> QED BY <1>6, <2>1, XorApart
<1>9. a = b
  BY <1>3, <1>8 DEF IsTable
<1>10. ASSUME NEW i \in 1..5 PROVE s[i + 1] = t[i + 1]
  <2>1. s[i + 1] \in Groups5 /\ t[i + 1] \in Groups5 /\ g[i] \in Groups5
    BY <1>1, <1>6
  <2>2. Xor(s[i + 1], g[i]) = Xor(t[i + 1], g[i])
    BY <1>3, <1>5, <1>9 DEF Steps6
  <2> QED BY <2>1, <2>2, XorApart
<1>11. ASSUME NEW i \in 1..6 PROVE s[i] = t[i]
  <2>1. CASE i = 1
    BY <1>2, <1>9, <2>1
  <2>2. CASE i # 1
    <3>1. i - 1 \in 1..5 /\ (i - 1) + 1 = i
      BY <2>2
    <3> QED BY <1>10, <3>1
  <2> QED BY <2>1, <2>2
<1> QED BY <1>1, <1>11

\* Two values that differ, and two in the wrong order, leave their trace.
LEMMA ValuesApart ==
  ASSUME NEW table, IsTable(table), NEW s \in Sum6, NEW v \in Groups5, NEW w \in Groups5, v # w
  PROVE  /\ Absorbed(table, s, v) # Absorbed(table, s, w)
         /\ Absorbed(table, Absorbed(table, s, v), w) # Absorbed(table, Absorbed(table, s, w), v)
<1>1. PICK x, y : x = Absorbed(table, s, v) /\ y = Absorbed(table, s, w)
  OBVIOUS
<1>2. PICK g : g = table[s[1]]
  OBVIOUS
<1>3. Steps6(x, s, v, g) /\ Steps6(y, s, w, g)
  BY <1>1, <1>2, AbsorbedAt
<1>4. /\ \A i \in 1..6 : x[i] \in Groups5 /\ y[i] \in Groups5 /\ g[i] \in Groups5
      /\ x \in Sum6 /\ y \in Sum6
  BY <1>3 DEF Steps6, Sum6
<1>5. x[6] # y[6]
  <2>1. Xor(v, g[6]) # Xor(w, g[6])
    BY <1>4, XorApart
  <2> QED BY <1>3, <2>1 DEF Steps6
<1>6. x[1] = y[1]
  BY <1>3 DEF Steps6
<1>7. PICK h : h = table[x[1]]
  OBVIOUS
<1>8. PICK p, q : p = Absorbed(table, x, w) /\ q = Absorbed(table, y, v)
  OBVIOUS
<1>9. Steps6(p, x, w, h) /\ Steps6(q, y, v, h)
  BY <1>4, <1>6, <1>7, <1>8, AbsorbedAt
<1>10. p[5] = Xor(x[6], h[5]) /\ q[5] = Xor(y[6], h[5]) /\ h[5] \in Groups5
  BY <1>9 DEF Steps6, Sum6
<1>11. p[5] # q[5]
  BY <1>4, <1>5, <1>10, XorApart
<1> QED BY <1>1, <1>5, <1>8, <1>11

-----------------------------------------------------------------------------
(* The sums from value to value.                                          *)

\* What is made from a start in n steps, each of them a function.
Iterates(g, n, S, start, step) ==
  g \in [0..n -> S] /\ g[0] = start /\ \A i \in 1..n : g[i] = step[i][g[i - 1]]

\* Steps that are functions can be taken one after the other.
LEMMA Iterated ==
  ASSUME NEW n \in Nat, NEW S, NEW start \in S, NEW step \in [1..n -> [S -> S]]
  PROVE  \E g : Iterates(g, n, S, start, step)
<1> DEFINE Goes(k, g) == Iterates(g, k, S, start, step)
           T == {k \in 0..n : \E g : Goes(k, g)}
<1>1. 0 \in T
  <2> DEFINE z == [i \in 0..0 |-> start]
  <2>1. Goes(0, z) /\ 0 \in 0..n
    BY DEF Iterates
  <2> HIDE DEF z, Goes
  <2> QED BY <2>1
<1>2. ASSUME NEW k \in 0..(n - 1), k \in T PROVE k + 1 \in T
  <2>1. PICK g : Goes(k, g)
    BY <1>2
  <2>2. k \in 0..k /\ k + 1 \in 1..n /\ k + 1 \in 0..n /\ (k + 1) - 1 = k /\ 0 # k + 1 /\ 0 \in 0..(k + 1)
    OBVIOUS
  <2>3. PICK v : v = step[k + 1][g[k]]
    OBVIOUS
  <2>4. v \in S
    BY <2>1, <2>2, <2>3 DEF Iterates
  <2> DEFINE h == [i \in 0..(k + 1) |-> IF i = k + 1 THEN v ELSE g[i]]
  <2>5. \A i \in 0..(k + 1) : i = k + 1 \/ (i \in 0..k /\ i # k + 1)
    OBVIOUS
  <2>6. h \in [0..(k + 1) -> S]
    BY <2>1, <2>4, <2>5 DEF Iterates
  <2>7. h[0] = start
    BY <2>1, <2>2 DEF Iterates
  <2>8. ASSUME NEW i \in 1..(k + 1) PROVE h[i] = step[i][h[i - 1]]
    <3>1. i \in 0..(k + 1) /\ i - 1 \in 0..k /\ i - 1 # k + 1 /\ i - 1 \in 0..(k + 1)
      OBVIOUS
    <3>2. h[i - 1] = g[i - 1]
      BY <3>1
    <3>3. CASE i = k + 1
      BY <2>2, <2>3, <3>1, <3>2, <3>3
    <3>4. CASE i # k + 1
      <4>1. i \in 1..k
        BY <3>4
      <4>2. h[i] = g[i] /\ g[i] = step[i][g[i - 1]]
        BY <2>1, <3>1, <3>4, <4>1 DEF Iterates
      <4> HIDE DEF h
      <4> QED BY <3>2, <4>2
    <3> QED BY <3>3, <3>4
  <2>9. Goes(k + 1, h)
    <3> HIDE DEF h
    <3> QED BY <2>6, <2>7, <2>8 DEF Iterates
  <2> HIDE DEF Goes, h
  <2> QED BY <2>2, <2>9
<1>3. \A k \in 0..n : k \in T
  <2> HIDE DEF T
  <2> QED BY <1>1, <1>2, Reached
<1>4. n \in T
  <2>1. n \in 0..n
    OBVIOUS
  <2> HIDE DEF T
  <2> QED BY <1>3, <2>1
<1> QED BY <1>4

\* The sums of a checksum, from value to value.
SumsOf(p, table, values) ==
  /\ p = PolymodSums(table, values)
  /\ p[0] = Unit(6)
  /\ \A i \in 1..Len(values) : p[i] = Absorbed(table, p[i - 1], values[i])
  /\ \A i \in 0..Len(values) : p[i] \in Sum6

\* The sum before the first value is a sum,
LEMMA UnitType ==
  Unit(6) \in Sum6
BY DEF Unit, Sum6, Groups5

\* a value more makes a sum of one,
LEMMA AbsorbedType ==
  ASSUME NEW table, IsTable(table), NEW s \in Sum6, NEW v \in Groups5
  PROVE  Absorbed(table, s, v) \in Sum6
BY AbsorbedAt DEF Steps6

\* and so the sums of every sequence of values exist (bech32Polymod).
LEMMA SumsExist ==
  ASSUME NEW table, IsTable(table), NEW values \in Seq(Groups5)
  PROVE  \E p : SumsOf(p, table, values)
<1>1. Len(table[0]) = 6
  <2>1. table[0] \in Sum6
    BY DEF IsTable, Groups5
  <2> QED BY <2>1, SeqOfFunction DEF Sum6
<1>2. PICK n \in Nat : n = Len(values)
  OBVIOUS
<1>3. \A i \in 1..n : values[i] \in Groups5
  BY <1>2
<1> DEFINE step == [i \in 1..n |-> [s \in Sum6 |-> Absorbed(table, s, values[i])]]
<1>4. step \in [1..n -> [Sum6 -> Sum6]]
  BY <1>3, AbsorbedType
<1>5. PICK g : Iterates(g, n, Sum6, Unit(6), step)
  <2> HIDE DEF step
  <2> QED BY <1>4, UnitType, Iterated
<1>6. \A i \in 1..n : g[i] = Absorbed(table, g[i - 1], values[i])
  <2> TAKE i \in 1..n
  <2>1. i - 1 \in 0..n
    OBVIOUS
  <2>2. g[i - 1] \in Sum6
    BY <1>5, <2>1 DEF Iterates
  <2>3. g[i] = step[i][g[i - 1]]
    BY <1>5 DEF Iterates
  <2> QED BY <2>2, <2>3
<1> DEFINE Is(f) == f = [i \in 0..Len(values) |->
                           IF i = 0 THEN Unit(Len(table[0])) ELSE Absorbed(table, f[i - 1], values[i])]
<1>7. \A i \in 0..n : g[i] = IF i = 0 THEN Unit(6) ELSE Absorbed(table, g[i - 1], values[i])
  <2>1. \A i \in 0..n : i = 0 \/ i \in 1..n
    OBVIOUS
  <2>2. g[0] = Unit(6)
    BY <1>5 DEF Iterates
  <2> QED BY <1>6, <2>1, <2>2
<1>8. Is(g)
  <2>1. g = [i \in 0..n |-> g[i]]
    BY <1>5 DEF Iterates
  <2> QED BY <1>1, <1>2, <1>7, <2>1
<1>9. PICK p : p = PolymodSums(table, values)
  OBVIOUS
<1>10. p = [i \in 0..n |-> IF i = 0 THEN Unit(6) ELSE Absorbed(table, p[i - 1], values[i])]
  <2>1. p = CHOOSE f : Is(f)
    BY <1>9 DEF PolymodSums
  <2>2. Is(p)
    <3> HIDE DEF Is
    <3> QED BY <1>8, <2>1
  <2> QED BY <1>1, <1>2, <2>2
<1>11. p[0] = Unit(6)
  BY <1>10
<1>12. \A i \in 1..n : p[i] = Absorbed(table, p[i - 1], values[i])
  BY <1>10
<1> DEFINE T == {k \in 0..n : p[k] \in Sum6}
<1>13. 0 \in T
  BY <1>11, UnitType
<1>14. ASSUME NEW k \in 0..(n - 1), k \in T PROVE k + 1 \in T
  <2>1. k + 1 \in 1..n /\ (k + 1) - 1 = k /\ k + 1 \in 0..n
    OBVIOUS
  <2>2. p[k + 1] = Absorbed(table, p[k], values[k + 1]) /\ values[k + 1] \in Groups5 /\ p[k] \in Sum6
    BY <1>3, <1>12, <1>14, <2>1
  <2>3. p[k + 1] \in Sum6
    BY <2>2, AbsorbedType
  <2> QED BY <2>1, <2>3
<1>15. \A k \in 0..n : k \in T
  <2> HIDE DEF T
  <2> QED BY <1>13, <1>14, Reached
<1> QED BY <1>2, <1>9, <1>11, <1>12, <1>15 DEF SumsOf

\* The same m values follow the first i of x and the first j of y.
Alike(x, y, i, j, m) ==
  Len(x) = i + m /\ Len(y) = j + m /\ \A k \in 1..m : x[i + k] = y[j + k]

\* Sums that differ stay different while the same values follow.
LEMMA StayApart ==
  ASSUME NEW table, IsTable(table), NEW x \in Seq(Groups5), NEW y \in Seq(Groups5), NEW p, NEW q,
         SumsOf(p, table, x), SumsOf(q, table, y), NEW m \in Nat, NEW i \in Nat, NEW j \in Nat,
         Alike(x, y, i, j, m), p[i] # q[j]
  PROVE  Polymod(table, x) # Polymod(table, y)
<1>0. Len(x) = i + m /\ Len(y) = j + m /\ \A k \in 1..m : x[i + k] = y[j + k]
  BY DEF Alike
<1> DEFINE T == {k \in 0..m : p[i + k] # q[j + k]}
<1>1. 0 \in T
  OBVIOUS
<1>2. ASSUME NEW k \in 0..(m - 1), k \in T PROVE k + 1 \in T
  <2>1. /\ k + 1 \in 1..m /\ i + (k + 1) \in 1..(i + m) /\ j + (k + 1) \in 1..(j + m)
        /\ (i + (k + 1)) - 1 = i + k /\ (j + (k + 1)) - 1 = j + k
        /\ i + k \in 0..(i + m) /\ j + k \in 0..(j + m) /\ k + 1 \in 0..m
    OBVIOUS
  <2>2. PICK v : v = x[i + (k + 1)]
    OBVIOUS
  <2>3. v = y[j + (k + 1)] /\ v \in Groups5
    <3>1. x[i + (k + 1)] = y[j + (k + 1)]
      BY <1>0, <2>1
    <3>2. i + (k + 1) \in 1..Len(x)
      BY <1>0, <2>1
    <3>3. x[i + (k + 1)] \in Groups5
      BY <3>2
    <3> QED BY <2>2, <3>1, <3>3
  <2>4. /\ p[i + (k + 1)] = Absorbed(table, p[i + k], v) /\ q[j + (k + 1)] = Absorbed(table, q[j + k], v)
        /\ p[i + k] \in Sum6 /\ q[j + k] \in Sum6
    BY <1>0, <2>1, <2>2, <2>3 DEF SumsOf
  <2>5. p[i + k] # q[j + k]
    BY <1>2
  <2>6. p[i + (k + 1)] # q[j + (k + 1)]
    BY <2>3, <2>4, <2>5, StatesApart
  <2> QED BY <2>1, <2>6
<1>3. \A k \in 0..m : k \in T
  <2> HIDE DEF T
  <2> QED BY <1>1, <1>2, Reached
<1>4. p[i + m] # q[j + m]
  BY <1>3
<1> QED BY <1>0, <1>4 DEF SumsOf, Polymod

\* Sums are the same as long as the values were.
LEMMA StayTogether ==
  ASSUME NEW table, IsTable(table), NEW x \in Seq(Groups5), NEW y \in Seq(Groups5), NEW p, NEW q,
         SumsOf(p, table, x), SumsOf(q, table, y), NEW n \in Nat, n <= Len(x), n <= Len(y),
         \A k \in 1..n : x[k] = y[k]
  PROVE  \A k \in 0..n : p[k] = q[k]
<1> DEFINE T == {k \in 0..n : p[k] = q[k]}
<1>1. 0 \in T
  BY DEF SumsOf
<1>2. ASSUME NEW k \in 0..(n - 1), k \in T PROVE k + 1 \in T
  <2>1. /\ k + 1 \in 1..n /\ (k + 1) - 1 = k /\ k + 1 \in 1..Len(x) /\ k + 1 \in 1..Len(y) /\ k + 1 \in 0..n
    OBVIOUS
  <2>2. p[k + 1] = Absorbed(table, p[k], x[k + 1]) /\ q[k + 1] = Absorbed(table, q[k], y[k + 1])
    BY <2>1 DEF SumsOf
  <2> QED BY <1>2, <2>1, <2>2
<1>3. \A k \in 0..n : k \in T
  <2> HIDE DEF T
  <2> QED BY <1>1, <1>2, Reached
<1> QED BY <1>3

-----------------------------------------------------------------------------
(* The table of bech32.                                                   *)

\* The generators are five sums.
LEMMA GenType ==
  /\ \A i \in 1..5 : Len(Bech32Gen[i]) = 6 /\ DOMAIN Bech32Gen[i] = 1..6
  /\ \A i \in 1..5 : \A j \in 1..6 : Bech32Gen[i][j] \in Groups5
<1>1. \A i \in 1..5 : i \in {1, 2, 3, 4, 5}
  OBVIOUS
<1>2. \A i \in 1..6 : i \in {1, 2, 3, 4, 5, 6}
  OBVIOUS
<1>3. \A i \in {1, 2, 3, 4, 5} : Len(Bech32Gen[i]) = 6 /\ DOMAIN Bech32Gen[i] = 1..6
  BY DEF Bech32Gen
<1>4. \A i \in {1, 2, 3, 4, 5} : \A j \in {1, 2, 3, 4, 5, 6} : Bech32Gen[i][j] \in Groups5
  BY DEF Bech32Gen, Groups5
<1> QED BY <1>1, <1>2, <1>3, <1>4

\* The bits of an exclusive or.
LEMMA XorIs ==
  ASSUME NEW a \in 0..31, NEW b \in 0..31
  PROVE  IsXor(Xor(a, b), a, b)
BY XorBits DEF IsXor

\* Sums are added group by group.
LEMMA XorAllType ==
  ASSUME NEW a \in Sum6, NEW b \in Sum6
  PROVE  XorAll(a, b) \in Sum6 /\ \A j \in 1..6 : XorAll(a, b)[j] = Xor(a[j], b[j])
<1>1. DOMAIN a = 1..6 /\ \A j \in 1..6 : a[j] \in Groups5 /\ b[j] \in Groups5
  BY DEF Sum6
<1>2. \A j \in 1..6 : Xor(a[j], b[j]) \in Groups5
  BY <1>1, XorType
<1>3. XorAll(a, b) = [j \in 1..6 |-> Xor(a[j], b[j])]
  BY <1>1 DEF XorAll
<1> QED BY <1>2, <1>3 DEF Sum6

\* What a group selects of a generator, and the bits of it.
Picked(x, b, c) == x \in Groups5 /\ \A i \in 1..5 : Bit(x, i) = b * Bit(c, i)

\* The groups that a group selects of a generator.
LEMMA SelectsPicked ==
  ASSUME NEW k \in Groups5, NEW n \in 1..5
  PROVE  /\ Selects(Bech32Gen, k, n) \in Sum6
         /\ \A j \in 1..6 : Picked(Selects(Bech32Gen, k, n)[j], Bit(k, n), Bech32Gen[n][j])
<1>1. PICK b \in {0, 1} : b = Bit(k, n)
  BY BitsOfFive DEF Groups5
<1>2. PICK g : g = Bech32Gen[n]
  OBVIOUS
<1>3. DOMAIN g = 1..6 /\ \A j \in 1..6 : g[j] \in Groups5
  BY <1>2, GenType
<1>4. PICK s : s = Selects(Bech32Gen, k, n)
  OBVIOUS
<1>5. s = [j \in 1..6 |-> b * g[j]]
  BY <1>1, <1>2, <1>3, <1>4 DEF Selects
<1>6. ASSUME NEW j \in 1..6 PROVE Picked(s[j], b, g[j])
  <2>1. PICK c \in 0..31 : c = g[j]
    BY <1>3 DEF Groups5
  <2>2. \A i \in 1..5 : Bit(c, i) \in {0, 1}
    BY <2>1, BitsOfFive
  <2>3. s[j] = b * c
    BY <1>5, <2>1
  <2>4. CASE b = 0
    <3>1. s[j] = 0 /\ 0 \in Groups5
      BY <2>1, <2>3, <2>4 DEF Groups5
    <3>2. \A i \in 1..5 : Bit(s[j], i) = 0
      BY <3>1, ZeroBits
    <3>3. \A i \in 1..5 : b * Bit(c, i) = 0
      BY <2>2, <2>4
    <3> QED BY <2>1, <3>1, <3>2, <3>3 DEF Picked
  <2>5. CASE b = 1
    <3>1. s[j] = c /\ c \in Groups5
      BY <2>1, <2>3, <2>5 DEF Groups5
    <3>2. \A i \in 1..5 : b * Bit(c, i) = Bit(c, i)
      BY <2>2, <2>5
    <3> QED BY <2>1, <3>1, <3>2 DEF Picked
  <2> QED BY <1>1, <2>4, <2>5
<1>7. s \in Sum6
  <2>1. \A j \in 1..6 : s[j] \in Groups5
    BY <1>6 DEF Picked
  <2> QED BY <1>5, <2>1 DEF Sum6
<1> QED BY <1>1, <1>2, <1>4, <1>6, <1>7

\* The bits of an entry of the table.
EntryOf(x, k, c) ==
  /\ x \in Groups5
  /\ \A i \in 1..5 : Bit(x, i) = (Bit(k, 1) * Bit(c[1], i) + Bit(k, 2) * Bit(c[2], i) + Bit(k, 3) * Bit(c[3], i)
                                  + Bit(k, 4) * Bit(c[4], i) + Bit(k, 5) * Bit(c[5], i)) % 2
Column(j) == [n \in 1..5 |-> Bech32Gen[n][j]]

\* An entry of the table is the exclusive or of the generators that the bits select.
LEMMA TableEntry ==
  ASSUME NEW k \in Groups5
  PROVE  /\ Bech32Table[k] \in Sum6
         /\ \A j \in 1..6 : EntryOf(Bech32Table[k][j], k, Column(j))
<1>1. PICK s : s = [n \in 1..5 |-> Selects(Bech32Gen, k, n)]
  OBVIOUS
<1>2. \A n \in 1..5 : s[n] \in Sum6 /\ \A j \in 1..6 : Picked(s[n][j], Bit(k, n), Bech32Gen[n][j])
  BY <1>1, SelectsPicked
<1>3. PICK a : a = XorAll(s[1], s[2])
  OBVIOUS
<1>4. PICK b : b = XorAll(a, s[3])
  OBVIOUS
<1>5. PICK c : c = XorAll(b, s[4])
  OBVIOUS
<1>6. PICK d : d = XorAll(c, s[5])
  OBVIOUS
<1>7. Bech32Table[k] = d
  BY <1>1, <1>3, <1>4, <1>5, <1>6 DEF Bech32Table, Selected, Groups5
<1>8. s[1] \in Sum6 /\ s[2] \in Sum6 /\ s[3] \in Sum6 /\ s[4] \in Sum6 /\ s[5] \in Sum6
  BY <1>2
<1>9. a \in Sum6 /\ \A j \in 1..6 : a[j] = Xor(s[1][j], s[2][j])
  BY <1>3, <1>8, XorAllType
<1>10. b \in Sum6 /\ \A j \in 1..6 : b[j] = Xor(a[j], s[3][j])
  BY <1>4, <1>8, <1>9, XorAllType
<1>11. c \in Sum6 /\ \A j \in 1..6 : c[j] = Xor(b[j], s[4][j])
  BY <1>5, <1>8, <1>10, XorAllType
<1>12. d \in Sum6 /\ \A j \in 1..6 : d[j] = Xor(c[j], s[5][j])
  BY <1>6, <1>8, <1>11, XorAllType
<1>13. ASSUME NEW j \in 1..6 PROVE EntryOf(d[j], k, Column(j))
  <2>1. PICK w : w = Column(j)
    OBVIOUS
  <2>2. \A n \in 1..5 : w[n] = Bech32Gen[n][j]
    BY <2>1 DEF Column
  <2>3. \A n \in 1..5 : w[n] \in 0..31
    BY <2>2, GenType DEF Groups5
  <2>4. /\ a[j] \in 0..31 /\ b[j] \in 0..31 /\ c[j] \in 0..31 /\ d[j] \in 0..31
        /\ s[1][j] \in 0..31 /\ s[2][j] \in 0..31 /\ s[3][j] \in 0..31 /\ s[4][j] \in 0..31 /\ s[5][j] \in 0..31
    BY <1>8, <1>9, <1>10, <1>11, <1>12 DEF Sum6, Groups5
  <2>5. ASSUME NEW i \in 1..5
        PROVE  Bit(d[j], i) = (Bit(k, 1) * Bit(w[1], i) + Bit(k, 2) * Bit(w[2], i) + Bit(k, 3) * Bit(w[3], i)
                                  + Bit(k, 4) * Bit(w[4], i) + Bit(k, 5) * Bit(w[5], i)) % 2
    <3>1. PICK k1 \in {0, 1}, k2 \in {0, 1}, k3 \in {0, 1}, k4 \in {0, 1}, k5 \in {0, 1} :
             k1 = Bit(k, 1) /\ k2 = Bit(k, 2) /\ k3 = Bit(k, 3) /\ k4 = Bit(k, 4) /\ k5 = Bit(k, 5)
      BY BitsOfFive DEF Groups5
    <3>2. PICK w1 \in {0, 1}, w2 \in {0, 1}, w3 \in {0, 1}, w4 \in {0, 1}, w5 \in {0, 1} :
             /\ w1 = Bit(w[1], i) /\ w2 = Bit(w[2], i) /\ w3 = Bit(w[3], i) /\ w4 = Bit(w[4], i)
             /\ w5 = Bit(w[5], i)
      BY <2>3, BitsOfFive
    <3>3. \A n \in 1..5 : Bit(s[n][j], i) = Bit(k, n) * Bit(w[n], i)
      <4> TAKE n \in 1..5
      <4>1. Picked(s[n][j], Bit(k, n), w[n])
        BY <1>2, <2>2
      <4> QED BY <4>1 DEF Picked
    <3>4. /\ Bit(s[1][j], i) = k1 * w1 /\ Bit(s[2][j], i) = k2 * w2 /\ Bit(s[3][j], i) = k3 * w3
          /\ Bit(s[4][j], i) = k4 * w4 /\ Bit(s[5][j], i) = k5 * w5
      BY <3>1, <3>2, <3>3
    <3>5. PICK x1 \in {0, 1}, x2 \in {0, 1}, x3 \in {0, 1}, x4 \in {0, 1}, x5 \in {0, 1} :
             x1 = k1 * w1 /\ x2 = k2 * w2 /\ x3 = k3 * w3 /\ x4 = k4 * w4 /\ x5 = k5 * w5
      BY <3>1
    <3>6. PICK y1, y2, y3, y4 :
            y1 = (x1 + x2) % 2 /\ y2 = (y1 + x3) % 2 /\ y3 = (y2 + x4) % 2 /\ y4 = (y3 + x5) % 2
      OBVIOUS
    <3>7. y4 = (x1 + x2 + x3 + x4 + x5) % 2
      BY <3>5, <3>6
    <3>8. Bit(a[j], i) = y1
      <4>1. IsXor(a[j], s[1][j], s[2][j])
        BY <1>9, <2>4, XorIs
      <4>2. Bit(a[j], i) = (Bit(s[1][j], i) + Bit(s[2][j], i)) % 2
        BY <4>1 DEF IsXor
      <4> QED BY <3>4, <3>5, <3>6, <4>2
    <3>9. Bit(b[j], i) = y2
      <4>1. IsXor(b[j], a[j], s[3][j])
        BY <1>10, <2>4, XorIs
      <4>2. Bit(b[j], i) = (Bit(a[j], i) + Bit(s[3][j], i)) % 2
        BY <4>1 DEF IsXor
      <4> QED BY <3>4, <3>5, <3>6, <3>8, <4>2
    <3>10. Bit(c[j], i) = y3
      <4>1. IsXor(c[j], b[j], s[4][j])
        BY <1>11, <2>4, XorIs
      <4>2. Bit(c[j], i) = (Bit(b[j], i) + Bit(s[4][j], i)) % 2
        BY <4>1 DEF IsXor
      <4> QED BY <3>4, <3>5, <3>6, <3>9, <4>2
    <3>11. Bit(d[j], i) = y4
      <4>1. IsXor(d[j], c[j], s[5][j])
        BY <1>12, <2>4, XorIs
      <4>2. Bit(d[j], i) = (Bit(c[j], i) + Bit(s[5][j], i)) % 2
        BY <4>1 DEF IsXor
      <4> QED BY <3>4, <3>5, <3>6, <3>10, <4>2
    <3> QED BY <3>1, <3>2, <3>5, <3>7, <3>11
  <2>6. d[j] \in Groups5
    BY <2>4 DEF Groups5
  <2> QED BY <2>1, <2>5, <2>6 DEF EntryOf
<1> QED BY <1>7, <1>12, <1>13

\* The bits of numbers that are known.
LEMMA SomeBits ==
  /\ Digits5(18, 0, 1, 0, 0, 1) /\ Digits5(13, 1, 0, 1, 1, 0) /\ Digits5(26, 0, 1, 0, 1, 1)
  /\ Digits5(29, 1, 0, 1, 1, 1) /\ Digits5(19, 1, 1, 0, 0, 1)
BY DEF Digits5

\* What two even or odd sums differ in.
LEMMA SameRest ==
  ASSUME NEW k \in {0, 1}, NEW l \in {0, 1}, NEW m \in Nat, NEW n \in Nat, m % 2 = n % 2,
         (m + k) % 2 = (n + l) % 2
  PROVE  k = l
<1>1. CASE k = 0 /\ l = 1
  BY <1>1
<1>2. CASE k = 1 /\ l = 0
  BY <1>2
<1> QED BY <1>1, <1>2

\* The last group of an entry tells which group selected it.
LEMMA LastGroups ==
  ASSUME NEW a \in Groups5, NEW b \in Groups5, NEW x, EntryOf(x, a, Column(6)), EntryOf(x, b, Column(6))
  PROVE  a = b
<1>1. PICK w : w = Column(6)
  OBVIOUS
<1>2. w[1] = 18 /\ w[2] = 13 /\ w[3] = 26 /\ w[4] = 29 /\ w[5] = 19
  BY <1>1 DEF Column, Bech32Gen
<1>3. Bit(18, 1) = 0 /\ Bit(18, 2) = 1 /\ Bit(18, 3) = 0 /\ Bit(18, 4) = 0 /\ Bit(18, 5) = 1
  BY SomeBits, FiveOfBits
<1>4. Bit(13, 1) = 1 /\ Bit(13, 2) = 0 /\ Bit(13, 3) = 1 /\ Bit(13, 4) = 1 /\ Bit(13, 5) = 0
  BY SomeBits, FiveOfBits
<1>5. Bit(26, 1) = 0 /\ Bit(26, 2) = 1 /\ Bit(26, 3) = 0 /\ Bit(26, 4) = 1 /\ Bit(26, 5) = 1
  BY SomeBits, FiveOfBits
<1>6. Bit(29, 1) = 1 /\ Bit(29, 2) = 0 /\ Bit(29, 3) = 1 /\ Bit(29, 4) = 1 /\ Bit(29, 5) = 1
  BY SomeBits, FiveOfBits
<1>7. Bit(19, 1) = 1 /\ Bit(19, 2) = 1 /\ Bit(19, 3) = 0 /\ Bit(19, 4) = 0 /\ Bit(19, 5) = 1
  BY SomeBits, FiveOfBits
<1>8. PICK k1 \in {0, 1}, k2 \in {0, 1}, k3 \in {0, 1}, k4 \in {0, 1}, k5 \in {0, 1} :
        k1 = Bit(a, 1) /\ k2 = Bit(a, 2) /\ k3 = Bit(a, 3) /\ k4 = Bit(a, 4) /\ k5 = Bit(a, 5)
  BY BitsOfFive DEF Groups5
<1>9. PICK l1 \in {0, 1}, l2 \in {0, 1}, l3 \in {0, 1}, l4 \in {0, 1}, l5 \in {0, 1} :
        l1 = Bit(b, 1) /\ l2 = Bit(b, 2) /\ l3 = Bit(b, 3) /\ l4 = Bit(b, 4) /\ l5 = Bit(b, 5)
  BY BitsOfFive DEF Groups5
<1>10. \A i \in 1..5 : Bit(x, i) = (k1 * Bit(18, i) + k2 * Bit(13, i) + k3 * Bit(26, i)
                                    + k4 * Bit(29, i) + k5 * Bit(19, i)) % 2
  BY <1>1, <1>2, <1>8 DEF EntryOf
<1>11. \A i \in 1..5 : Bit(x, i) = (l1 * Bit(18, i) + l2 * Bit(13, i) + l3 * Bit(26, i)
                                    + l4 * Bit(29, i) + l5 * Bit(19, i)) % 2
  BY <1>1, <1>2, <1>9 DEF EntryOf
<1>12. /\ Bit(x, 1) = (k2 + k4 + k5) % 2
       /\ Bit(x, 2) = (k1 + k3 + k5) % 2
       /\ Bit(x, 3) = (k2 + k4) % 2
       /\ Bit(x, 4) = (k2 + k3 + k4) % 2
       /\ Bit(x, 5) = (k1 + k3 + k4 + k5) % 2
  BY <1>3, <1>4, <1>5, <1>6, <1>7, <1>8, <1>10
<1>13. /\ Bit(x, 1) = (l2 + l4 + l5) % 2
       /\ Bit(x, 2) = (l1 + l3 + l5) % 2
       /\ Bit(x, 3) = (l2 + l4) % 2
       /\ Bit(x, 4) = (l2 + l3 + l4) % 2
       /\ Bit(x, 5) = (l1 + l3 + l4 + l5) % 2
  BY <1>3, <1>4, <1>5, <1>6, <1>7, <1>9, <1>11
<1>14. k5 = l5
  <2>1. PICK m \in Nat, n \in Nat : m = k2 + k4 /\ n = l2 + l4
    BY <1>8, <1>9
  <2>2. (m + k5) % 2 = (n + l5) % 2 /\ m % 2 = n % 2
    BY <1>12, <1>13, <2>1
  <2> QED BY <2>2, SameRest
<1>15. k3 = l3
  <2>1. PICK m \in Nat, n \in Nat : m = k2 + k4 /\ n = l2 + l4
    BY <1>8, <1>9
  <2>2. k2 + k3 + k4 = m + k3 /\ l2 + l3 + l4 = n + l3
    BY <1>8, <1>9, <2>1
  <2>3. (m + k3) % 2 = (n + l3) % 2 /\ m % 2 = n % 2
    BY <1>12, <1>13, <2>1, <2>2
  <2> QED BY <2>3, SameRest
<1>16. k1 = l1
  <2>1. PICK m \in Nat : m = k3 + k5
    BY <1>8
  <2>2. k1 + k3 + k5 = m + k1 /\ l1 + k3 + k5 = m + l1
    BY <1>8, <1>9, <2>1
  <2>3. (m + k1) % 2 = (m + l1) % 2
    BY <1>12, <1>13, <1>14, <1>15, <2>2
  <2> QED BY <2>3, SameRest
<1>17. k4 = l4
  <2>1. PICK m \in Nat : m = k1 + k3 + k5
    BY <1>8
  <2>2. k1 + k3 + k4 + k5 = m + k4 /\ k1 + k3 + l4 + k5 = m + l4
    BY <1>8, <1>9, <2>1
  <2>3. (m + k4) % 2 = (m + l4) % 2
    BY <1>12, <1>13, <1>14, <1>15, <1>16, <2>2
  <2> QED BY <2>3, SameRest
<1>18. k2 = l2
  <2>1. PICK m \in Nat : m = k4
    BY <1>8
  <2>2. (m + k2) % 2 = (m + l2) % 2
    <3>1. k2 + k4 = m + k2 /\ l2 + k4 = m + l2
      BY <1>8, <1>9, <2>1
    <3>2. (k2 + k4) % 2 = (l2 + k4) % 2
      BY <1>12, <1>13, <1>17
    <3> QED BY <3>1, <3>2
  <2> QED BY <2>2, SameRest
<1>19. \A i \in 1..5 : Bit(a, i) = Bit(b, i)
  <2>1. \A i \in 1..5 : i \in {1, 2, 3, 4, 5}
    OBVIOUS
  <2> QED BY <1>8, <1>9, <1>14, <1>15, <1>16, <1>17, <1>18, <2>1
<1> QED BY <1>19, SameBits DEF Groups5

\* The table of bech32 is one.
LEMMA Bech32IsTable ==
  IsTable(Bech32Table)
<1>1. PICK t : t = Bech32Table
  OBVIOUS
<1>2. \A k \in Groups5 : t[k] \in Sum6
  BY <1>1, TableEntry
<1>3. t \in [Groups5 -> Sum6]
  <2>1. t = [k \in Groups5 |-> t[k]]
    BY <1>1 DEF Bech32Table, Selected, Groups5
  <2> QED BY <1>2, <2>1
<1>4. ASSUME NEW a \in Groups5, NEW b \in Groups5, t[a][6] = t[b][6] PROVE a = b
  <2>1. EntryOf(t[a][6], a, Column(6)) /\ EntryOf(t[b][6], b, Column(6))
    BY <1>1, TableEntry
  <2> QED BY <1>4, <2>1, LastGroups
<1> QED BY <1>1, <1>3, <1>4 DEF IsTable

\* Zero selects nothing.
LEMMA NothingSelected ==
  \A j \in 1..6 : Bech32Table[0][j] = 0
<1> TAKE j \in 1..6
<1>0. 0 \in Groups5
  BY DEF Groups5
<1>1. PICK x, w : x = Bech32Table[0][j] /\ w = Column(j)
  OBVIOUS
<1>2. EntryOf(x, 0, w)
  BY <1>0, <1>1, TableEntry
<1>3. \A n \in 1..5 : w[n] \in 0..31
  BY <1>1, GenType DEF Column, Groups5
<1>4. ASSUME NEW i \in 1..5 PROVE Bit(x, i) = Bit(0, i)
  <2>1. PICK w1 \in {0, 1}, w2 \in {0, 1}, w3 \in {0, 1}, w4 \in {0, 1}, w5 \in {0, 1} :
             /\ w1 = Bit(w[1], i) /\ w2 = Bit(w[2], i) /\ w3 = Bit(w[3], i) /\ w4 = Bit(w[4], i)
             /\ w5 = Bit(w[5], i)
    BY <1>3, BitsOfFive
  <2>2. Bit(0, 1) = 0 /\ Bit(0, 2) = 0 /\ Bit(0, 3) = 0 /\ Bit(0, 4) = 0 /\ Bit(0, 5) = 0 /\ Bit(0, i) = 0
    BY ZeroBits
  <2>3. Bit(x, i) = (0 * w1 + 0 * w2 + 0 * w3 + 0 * w4 + 0 * w5) % 2
    BY <1>2, <2>1, <2>2 DEF EntryOf
  <2> QED BY <2>1, <2>2, <2>3
<1>5. x = 0
  <2>1. x \in 0..31 /\ 0 \in 0..31
    BY <1>2 DEF EntryOf, Groups5
  <2> QED BY <1>4, <2>1, SameBits
<1> QED BY <1>1, <1>5

-----------------------------------------------------------------------------
(* A checksum makes the sum that is asked for.                            *)

\* Six groups after a sequence of groups.
Followed(y, x, w) ==
  /\ y = x \o w /\ y \in Seq(Groups5) /\ Len(y) = Len(x) + 6
  /\ \A i \in 1..Len(x) : y[i] = x[i]
  /\ \A i \in 1..6 : y[Len(x) + i] = w[i]

\* Six groups can follow any.
LEMMA FollowedBySix ==
  ASSUME NEW x \in Seq(Groups5), NEW w \in Sum6
  PROVE  Followed(x \o w, x, w)
<1>1. w \in Seq(Groups5) /\ Len(w) = 6
  BY SeqOfFunction DEF Sum6
<1>2. PICK y : y = x \o w
  OBVIOUS
<1>3. y \in Seq(Groups5) /\ Joined(y, x, w)
  BY <1>1, <1>2, Joining
<1> QED BY <1>1, <1>2, <1>3 DEF Followed, Joined

\* How far six groups have come into the sum: the last j places.
Within(s, t, v, j) ==
  /\ \A i \in 1..(6 - j) : s[i] = t[i]
  /\ \A i \in (7 - j)..6 : s[i] = Xor(t[i], v[i + j - 6])

\* With each value one more of the six has come in, wherever the sum stands.
LEMMA ComeIn ==
  ASSUME NEW table, IsTable(table), NEW s \in Sum6, NEW t \in Sum6, NEW v \in Sum6, NEW j \in 0..5,
         Within(s, t, v, j)
  PROVE  Within(Absorbed(table, s, v[j + 1]), Absorbed(table, t, 0), v, j + 1)
<1>1. PICK c \in Groups5 : c = v[j + 1]
  <2>1. j + 1 \in 1..6
    OBVIOUS
  <2> QED BY <2>1 DEF Sum6
<1>2. PICK x, y : x = Absorbed(table, s, c) /\ y = Absorbed(table, t, 0)
  OBVIOUS
<1>3. s[1] = t[1]
  <2>1. 1 \in 1..(6 - j)
    OBVIOUS
  <2> QED BY <2>1 DEF Within
<1>4. PICK g : g = table[s[1]]
  OBVIOUS
<1>5. 0 \in Groups5
  BY DEF Groups5
<1>6. Steps6(x, s, c, g) /\ Steps6(y, t, 0, g)
  BY <1>1, <1>2, <1>3, <1>4, <1>5, AbsorbedAt
<1>7. \A i \in 1..6 : /\ g[i] \in Groups5 /\ s[i] \in Groups5 /\ t[i] \in Groups5 /\ v[i] \in Groups5
  BY <1>6 DEF Steps6, Sum6
<1>8. ASSUME NEW i \in 1..(6 - (j + 1)) PROVE x[i] = y[i]
  <2>1. i \in 1..5 /\ i + 1 \in 1..(6 - j)
    OBVIOUS
  <2>2. s[i + 1] = t[i + 1]
    BY <2>1 DEF Within
  <2> QED BY <1>6, <2>1, <2>2 DEF Steps6
<1>9. ASSUME NEW i \in (7 - (j + 1))..6 PROVE x[i] = Xor(y[i], v[i + (j + 1) - 6])
  <2>1. CASE i = 6
    <3>1. i + (j + 1) - 6 = j + 1
      BY <2>1
    <3>2. x[6] = Xor(c, g[6]) /\ y[6] = Xor(0, g[6])
      BY <1>6 DEF Steps6
    <3>3. g[6] \in Groups5
      BY <1>7
    <3>4. y[6] = g[6]
      BY <1>5, <3>2, <3>3, XorZero, XorTurned
    <3>5. x[6] = Xor(y[6], c)
      BY <1>1, <3>2, <3>3, <3>4, XorTurned
    <3> QED BY <1>1, <2>1, <3>1, <3>5
  <2>2. CASE i # 6
    <3>1. /\ i \in 1..5 /\ i + 1 \in (7 - j)..6 /\ i + 1 \in 1..6
          /\ (i + 1) + j - 6 \in 1..6 /\ (i + 1) + j - 6 = i + (j + 1) - 6
      BY <2>2
    <3>2. PICK d \in Groups5 : d = v[i + (j + 1) - 6]
      BY <1>7, <3>1
    <3>3. s[i + 1] = Xor(t[i + 1], d)
      BY <3>1, <3>2 DEF Within
    <3>4. x[i] = Xor(s[i + 1], g[i]) /\ y[i] = Xor(t[i + 1], g[i])
      BY <1>6, <3>1 DEF Steps6
    <3>5. t[i + 1] \in Groups5 /\ g[i] \in Groups5
      BY <1>7, <3>1
    <3>6. x[i] = Xor(y[i], d)
      BY <3>2, <3>3, <3>4, <3>5, XorSwapped
    <3> QED BY <3>2, <3>6
  <2> QED BY <2>1, <2>2
<1> QED BY <1>1, <1>2, <1>8, <1>9 DEF Within

\* A checksum makes up the sum of one.
LEMMA ChecksumCompletes ==
  ASSUME NEW table, IsTable(table), NEW x \in Seq(Groups5)
  PROVE  LET z == Polymod(table, x \o [i \in 1..6 |-> 0])
             v == XorAll(z, Unit(6))
         IN  v \in Sum6 /\ Polymod(table, x \o v) = Unit(6)
<1>1. PICK o : o = [i \in 1..6 |-> 0]
  OBVIOUS
<1>2. o \in Sum6 /\ \A i \in 1..6 : o[i] = 0
  BY <1>1 DEF Sum6, Groups5
<1>3. PICK xo : xo = x \o o
  OBVIOUS
<1>4. Followed(xo, x, o)
  BY <1>2, <1>3, FollowedBySix
<1>5. PICK p : SumsOf(p, table, xo)
  BY <1>4, SumsExist DEF Followed
<1>6. PICK n \in Nat : n = Len(x)
  OBVIOUS
<1>7. PICK z : z = Polymod(table, xo)
  OBVIOUS
<1>8. z = p[n + 6] /\ z \in Sum6
  BY <1>4, <1>5, <1>6, <1>7 DEF SumsOf, Polymod, Followed
<1>9. PICK v : v = XorAll(z, Unit(6))
  OBVIOUS
<1>10. v \in Sum6 /\ \A i \in 1..6 : v[i] = Xor(z[i], Unit(6)[i])
  BY <1>8, <1>9, UnitType, XorAllType
<1>11. PICK xv : xv = x \o v
  OBVIOUS
<1>12. Followed(xv, x, v)
  BY <1>10, <1>11, FollowedBySix
<1>13. PICK q : SumsOf(q, table, xv)
  BY <1>12, SumsExist DEF Followed
<1>14. p[n] = q[n]
  <2>1. \A k \in 0..n : p[k] = q[k]
    <3>1. xo \in Seq(Groups5) /\ xv \in Seq(Groups5) /\ n <= Len(xo) /\ n <= Len(xv)
      BY <1>4, <1>6, <1>12 DEF Followed
    <3>2. \A k \in 1..n : xo[k] = xv[k]
      BY <1>4, <1>6, <1>12 DEF Followed
    <3> QED BY <1>5, <1>13, <3>1, <3>2, StayTogether
  <2> QED BY <2>1
<1> DEFINE T == {j \in 0..6 : Within(q[n + j], p[n + j], v, j)}
<1>15. 0 \in T
  <2>1. Within(q[n + 0], p[n + 0], v, 0)
    BY <1>14 DEF Within
  <2> QED BY <2>1
<1>16. ASSUME NEW j \in 0..5, j \in T PROVE j + 1 \in T
  <2>1. /\ n + (j + 1) \in 1..(n + 6) /\ (n + (j + 1)) - 1 = n + j /\ n + j \in 0..(n + 6)
        /\ j + 1 \in 1..6 /\ j + 1 \in 0..6
    OBVIOUS
  <2>2. xo[n + (j + 1)] = 0 /\ xv[n + (j + 1)] = v[j + 1] /\ Len(xo) = n + 6 /\ Len(xv) = n + 6
    BY <1>2, <1>4, <1>6, <1>12, <2>1 DEF Followed
  <2>3. p[n + (j + 1)] = Absorbed(table, p[n + j], 0) /\ p[n + j] \in Sum6
    BY <1>5, <2>1, <2>2 DEF SumsOf
  <2>4. q[n + (j + 1)] = Absorbed(table, q[n + j], v[j + 1]) /\ q[n + j] \in Sum6
    BY <1>13, <2>1, <2>2 DEF SumsOf
  <2>5. Within(q[n + j], p[n + j], v, j)
    BY <1>16
  <2>6. Within(q[n + (j + 1)], p[n + (j + 1)], v, j + 1)
    BY <1>10, <2>3, <2>4, <2>5, ComeIn
  <2> QED BY <2>1, <2>6
<1>17. 6 \in T
  <2>1. \A j \in 0..(6 - 1) : j \in T => j + 1 \in T
    <3> HIDE DEF T
    <3> QED BY <1>16
  <2> HIDE DEF T
  <2>2. \A j \in 0..6 : j \in T
    BY <1>15, <2>1, Reached
  <2> QED BY <2>2
<1>18. PICK u : u = q[n + 6]
  OBVIOUS
<1>19. Within(u, z, v, 6)
  BY <1>8, <1>17, <1>18
<1>20. u = Polymod(table, xv) /\ u \in Sum6
  BY <1>6, <1>12, <1>13, <1>18 DEF SumsOf, Polymod, Followed
<1>21. ASSUME NEW i \in 1..6 PROVE u[i] = Unit(6)[i]
  <2>1. i \in (7 - 6)..6 /\ i + 6 - 6 = i
    OBVIOUS
  <2>2. u[i] = Xor(z[i], v[i])
    BY <1>19, <2>1 DEF Within
  <2>3. z[i] \in Groups5 /\ Unit(6)[i] \in Groups5
    BY <1>8, UnitType DEF Sum6
  <2> QED BY <1>10, <2>2, <2>3, XorUndone
<1>22. u = Unit(6)
  BY <1>20, <1>21, UnitType DEF Sum6
<1> QED BY <1>1, <1>3, <1>7, <1>9, <1>10, <1>11, <1>20, <1>22

-----------------------------------------------------------------------------
(* The prefixes.                                                          *)

\* A number with its five bits.
HasBits(n, a, b, c, d, e) == /\ n \in 0..31 /\ Bit(n, 1) = a /\ Bit(n, 2) = b /\ Bit(n, 3) = c
                             /\ Bit(n, 4) = d /\ Bit(n, 5) = e

\* A number with five known bits, by all of them.
LEMMA KnownBits ==
  /\ HasBits(1, 1, 0, 0, 0, 0) /\ HasBits(2, 0, 1, 0, 0, 0) /\ HasBits(3, 1, 1, 0, 0, 0)
  /\ HasBits(15, 1, 1, 1, 1, 0) /\ HasBits(19, 1, 1, 0, 0, 1) /\ HasBits(21, 1, 0, 1, 0, 1)
  /\ HasBits(22, 0, 1, 1, 0, 1) /\ HasBits(23, 1, 1, 1, 0, 1) /\ HasBits(29, 1, 0, 1, 1, 1)
  /\ HasBits(30, 0, 1, 1, 1, 1)
<1>1. Digits5(1, 1, 0, 0, 0, 0) /\ Digits5(2, 0, 1, 0, 0, 0) /\ Digits5(3, 1, 1, 0, 0, 0)
  BY DEF Digits5
<1>2. Digits5(15, 1, 1, 1, 1, 0) /\ Digits5(19, 1, 1, 0, 0, 1) /\ Digits5(21, 1, 0, 1, 0, 1)
  BY DEF Digits5
<1>3. Digits5(22, 0, 1, 1, 0, 1) /\ Digits5(23, 1, 1, 1, 0, 1) /\ Digits5(29, 1, 0, 1, 1, 1)
  BY DEF Digits5
<1>4. Digits5(30, 0, 1, 1, 1, 1)
  BY DEF Digits5
<1>5. HasBits(1, 1, 0, 0, 0, 0) /\ HasBits(2, 0, 1, 0, 0, 0) /\ HasBits(3, 1, 1, 0, 0, 0)
  BY <1>1, FiveOfBits DEF HasBits
<1>6. HasBits(15, 1, 1, 1, 1, 0) /\ HasBits(19, 1, 1, 0, 0, 1) /\ HasBits(21, 1, 0, 1, 0, 1)
  BY <1>2, FiveOfBits DEF HasBits
<1>7. HasBits(22, 0, 1, 1, 0, 1) /\ HasBits(23, 1, 1, 1, 0, 1) /\ HasBits(29, 1, 0, 1, 1, 1)
  BY <1>3, FiveOfBits DEF HasBits
<1>8. HasBits(30, 0, 1, 1, 1, 1)
  BY <1>4, FiveOfBits DEF HasBits
<1> QED BY <1>5, <1>6, <1>7, <1>8

\* The exclusive or of known numbers.
LEMMA KnownXor ==
  /\ Xor(3, 29) = 30 /\ Xor(3, 22) = 21 /\ Xor(21, 23) = 2
<1>1. \A i \in 1..5 : i \in {1, 2, 3, 4, 5}
  OBVIOUS
<1>2. Xor(3, 29) = 30
  <2>1. PICK x : IsXor(x, 3, 29)
    BY KnownBits, Xored DEF HasBits
  <2>2. \A i \in {1, 2, 3, 4, 5} : Bit(x, i) = Bit(30, i)
    BY <2>1, KnownBits DEF IsXor, HasBits
  <2>3. x = 30
    BY <1>1, <2>1, <2>2, SameBits DEF IsXor
  <2> QED BY <2>1, <2>3 DEF IsXor
<1>3. Xor(3, 22) = 21
  <2>1. PICK x : IsXor(x, 3, 22)
    BY KnownBits, Xored DEF HasBits
  <2>2. \A i \in {1, 2, 3, 4, 5} : Bit(x, i) = Bit(21, i)
    BY <2>1, KnownBits DEF IsXor, HasBits
  <2>3. x = 21
    BY <1>1, <2>1, <2>2, SameBits DEF IsXor
  <2> QED BY <2>1, <2>3 DEF IsXor
<1>4. Xor(21, 23) = 2
  <2>1. PICK x : IsXor(x, 21, 23)
    BY KnownBits, Xored DEF HasBits
  <2>2. \A i \in {1, 2, 3, 4, 5} : Bit(x, i) = Bit(2, i)
    BY <2>1, KnownBits DEF IsXor, HasBits
  <2>3. x = 2
    BY <1>1, <2>1, <2>2, SameBits DEF IsXor
  <2> QED BY <2>1, <2>3 DEF IsXor
<1> QED BY <1>2, <1>3, <1>4

\* The entries of the table that the prefix of Litecoin comes by.
LEMMA KnownEntries ==
  Bech32Table[1][1] = 29 /\ Bech32Table[1][2] = 22 /\ Bech32Table[30][1] = 23
<1>0. \A i \in 1..5 : i \in {1, 2, 3, 4, 5}
  OBVIOUS
<1>1. PICK v, w : v = Column(1) /\ w = Column(2)
  OBVIOUS
<1>2. v[1] = 29 /\ v[2] = 19 /\ v[3] = 15 /\ v[4] = 30 /\ v[5] = 21 /\ w[1] = 22
  BY <1>1 DEF Column, Bech32Gen
<1>3. 1 \in Groups5 /\ 30 \in Groups5
  BY DEF Groups5
<1>4. \A i \in 1..5 : /\ Bit(v[1], i) \in {0, 1} /\ Bit(v[2], i) \in {0, 1} /\ Bit(v[3], i) \in {0, 1}
                      /\ Bit(v[4], i) \in {0, 1} /\ Bit(v[5], i) \in {0, 1}
  BY <1>2, BitsOfFive
<1>5. Bech32Table[1][1] = 29
  <2>1. PICK x : x = Bech32Table[1][1]
    OBVIOUS
  <2>2. EntryOf(x, 1, v)
    BY <1>1, <1>3, <2>1, TableEntry
  <2>3. ASSUME NEW i \in 1..5 PROVE Bit(x, i) = Bit(29, i)
    <3>1. Bit(x, i) = (1 * Bit(v[1], i) + 0 * Bit(v[2], i) + 0 * Bit(v[3], i) + 0 * Bit(v[4], i)
                       + 0 * Bit(v[5], i)) % 2
      BY <2>2, KnownBits DEF EntryOf, HasBits
    <3> QED BY <1>2, <1>4, <3>1
  <2> QED BY <2>1, <2>2, <2>3, SameBits DEF EntryOf, Groups5
<1>6. Bech32Table[1][2] = 22
  <2>1. PICK x : x = Bech32Table[1][2]
    OBVIOUS
  <2>2. EntryOf(x, 1, w)
    BY <1>1, <1>3, <2>1, TableEntry
  <2>3. ASSUME NEW i \in 1..5 PROVE Bit(x, i) = Bit(22, i)
    <3>1. Bit(x, i) = (1 * Bit(w[1], i) + 0 * Bit(w[2], i) + 0 * Bit(w[3], i) + 0 * Bit(w[4], i)
                       + 0 * Bit(w[5], i)) % 2
      BY <2>2, KnownBits DEF EntryOf, HasBits
    <3>2. \A n \in 1..5 : w[n] \in 0..31
      BY <1>1, GenType DEF Column, Groups5
    <3>3. /\ Bit(w[1], i) \in {0, 1} /\ Bit(w[2], i) \in {0, 1} /\ Bit(w[3], i) \in {0, 1}
          /\ Bit(w[4], i) \in {0, 1} /\ Bit(w[5], i) \in {0, 1}
      BY <3>2, BitsOfFive
    <3> QED BY <1>2, <3>1, <3>3
  <2> QED BY <2>1, <2>2, <2>3, SameBits DEF EntryOf, Groups5
<1>7. Bech32Table[30][1] = 23
  <2>1. PICK x : x = Bech32Table[30][1]
    OBVIOUS
  <2>2. EntryOf(x, 30, v)
    BY <1>1, <1>3, <2>1, TableEntry
  <2>3. ASSUME NEW i \in {1, 2, 3, 4, 5} PROVE Bit(x, i) = Bit(23, i)
    <3>1. Bit(x, i) = (0 * Bit(v[1], i) + 1 * Bit(v[2], i) + 1 * Bit(v[3], i) + 1 * Bit(v[4], i)
                       + 1 * Bit(v[5], i)) % 2
      BY <2>2, KnownBits DEF EntryOf, HasBits
    <3>2. Bit(x, i) = (Bit(19, i) + Bit(15, i) + Bit(30, i) + Bit(21, i)) % 2
      BY <1>2, <1>4, <3>1
    <3>3. (Bit(19, 1) + Bit(15, 1) + Bit(30, 1) + Bit(21, 1)) % 2 = Bit(23, 1)
      BY KnownBits DEF HasBits
    <3>4. (Bit(19, 2) + Bit(15, 2) + Bit(30, 2) + Bit(21, 2)) % 2 = Bit(23, 2)
      BY KnownBits DEF HasBits
    <3>5. (Bit(19, 3) + Bit(15, 3) + Bit(30, 3) + Bit(21, 3)) % 2 = Bit(23, 3)
      BY KnownBits DEF HasBits
    <3>6. (Bit(19, 4) + Bit(15, 4) + Bit(30, 4) + Bit(21, 4)) % 2 = Bit(23, 4)
      BY KnownBits DEF HasBits
    <3>7. (Bit(19, 5) + Bit(15, 5) + Bit(30, 5) + Bit(21, 5)) % 2 = Bit(23, 5)
      BY KnownBits DEF HasBits
    <3> QED BY <3>2, <3>3, <3>4, <3>5, <3>6, <3>7
  <2> QED BY <1>0, <2>1, <2>2, <2>3, SameBits DEF EntryOf, Groups5
<1> QED BY <1>5, <1>6, <1>7

\* What the prefixes of Bitcoin and Litecoin come to.
LEMMA PrefixOfBitcoin ==
  Bech32Prefix(bc) \in Seq(Groups5) /\ Len(Bech32Prefix(bc)) = 5
<1>1. PICK a, z, l : a = <<3, 3>> /\ z = <<0>> /\ l = <<2, 3>>
  OBVIOUS
<1>2. [i \in DOMAIN bc |-> bc[i] \div 32] = a /\ [i \in DOMAIN bc |-> bc[i] % 32] = l
  BY <1>1 DEF bc
<1>3. a \in Seq(Groups5) /\ z \in Seq(Groups5) /\ l \in Seq(Groups5) /\ Len(a) = 2 /\ Len(z) = 1 /\ Len(l) = 2
  BY <1>1 DEF Groups5
<1>4. PICK x : x = a \o z
  OBVIOUS
<1>5. x \in Seq(Groups5) /\ Joined(x, a, z)
  BY <1>3, <1>4, Joining
<1>6. PICK y : y = x \o l
  OBVIOUS
<1>7. y \in Seq(Groups5) /\ Joined(y, x, l)
  <2>1. x \in Seq(Groups5) /\ l \in Seq(Groups5)
    BY <1>3, <1>5
  <2> QED BY <1>6, <2>1, Joining
<1>8. y = Bech32Prefix(bc)
  BY <1>1, <1>2, <1>4, <1>6 DEF Bech32Prefix
<1> QED BY <1>3, <1>5, <1>7, <1>8 DEF Joined

\* Those of "ltc".
LEMMA PrefixOfLitecoin ==
  /\ Bech32Prefix(ltc) \in Seq(Groups5) /\ Len(Bech32Prefix(ltc)) = 7
  /\ Bech32Prefix(ltc)[1] = 3 /\ Bech32Prefix(ltc)[2] = 3 /\ Bech32Prefix(ltc)[6] = 20
<1>1. PICK a, z, l : a = <<3, 3, 3>> /\ z = <<0>> /\ l = <<12, 20, 3>>
  OBVIOUS
<1>2. [i \in DOMAIN ltc |-> ltc[i] \div 32] = a /\ [i \in DOMAIN ltc |-> ltc[i] % 32] = l
  BY <1>1 DEF ltc
<1>3. a \in Seq(Groups5) /\ z \in Seq(Groups5) /\ l \in Seq(Groups5) /\ Len(a) = 3 /\ Len(z) = 1 /\ Len(l) = 3
  BY <1>1 DEF Groups5
<1>4. PICK x : x = a \o z
  OBVIOUS
<1>5. x \in Seq(Groups5) /\ Joined(x, a, z)
  BY <1>3, <1>4, Joining
<1>6. Len(x) = 4 /\ x[1] = 3 /\ x[2] = 3
  BY <1>1, <1>3, <1>5 DEF Joined
<1>7. PICK y : y = x \o l
  OBVIOUS
<1>8. y \in Seq(Groups5) /\ Joined(y, x, l)
    <2>1. x \in Seq(Groups5) /\ l \in Seq(Groups5)
    BY <1>3, <1>5
  <2> QED BY <1>7, <2>1, Joining
<1>9. Len(y) = 7 /\ y[1] = 3 /\ y[2] = 3
  BY <1>3, <1>6, <1>8 DEF Joined
<1>10. y[6] = 20
  <2>1. 2 \in 1..Len(l) /\ Len(x) + 2 = 6 /\ l[2] = 20
    BY <1>1, <1>3, <1>6
  <2>2. y[Len(x) + 2] = l[2]
    BY <1>8, <2>1 DEF Joined
  <2> QED BY <2>1, <2>2
<1>11. y = Bech32Prefix(ltc)
  BY <1>1, <1>2, <1>4, <1>7 DEF Bech32Prefix
<1> QED BY <1>8, <1>9, <1>10, <1>11

\* A value more, while nothing is selected.
LEMMA OnlyShifted ==
  ASSUME NEW s \in Sum6, NEW v \in Groups5, s[1] = 0, NEW t, t = Absorbed(Bech32Table, s, v)
  PROVE  t \in Sum6 /\ (\A i \in 1..5 : t[i] = s[i + 1]) /\ t[6] = v
<1>1. PICK g : g = Bech32Table[s[1]]
  OBVIOUS
<1>2. \A i \in 1..6 : g[i] = 0
  BY <1>1, NothingSelected
<1>3. Steps6(t, s, v, g)
  BY <1>1, Bech32IsTable, AbsorbedAt
<1>4. \A i \in 1..5 : i + 1 \in 1..6 /\ i \in 1..6
  OBVIOUS
<1>5. \A i \in 1..6 : s[i] \in Groups5
  BY DEF Sum6
<1>6. \A i \in 1..5 : t[i] = Xor(s[i + 1], 0)
  BY <1>2, <1>3, <1>4 DEF Steps6
<1>7. \A i \in 1..5 : t[i] = s[i + 1]
  BY <1>4, <1>5, <1>6, XorZero
<1>8. t[6] = Xor(v, 0)
  BY <1>2, <1>3 DEF Steps6
<1> QED BY <1>3, <1>7, <1>8, XorZero DEF Steps6

\* The sum when five values have been added.
AfterFive(s, x) ==
  s[1] = 1 /\ s[2] = x[1] /\ s[3] = x[2] /\ s[4] = x[3] /\ s[5] = x[4] /\ s[6] = x[5]

\* The first five values are only shifted in, since what falls out is 0 or 1 in its place.
LEMMA FirstFive ==
  ASSUME NEW x \in Seq(Groups5), NEW p, SumsOf(p, Bech32Table, x), Len(x) >= 5
  PROVE  AfterFive(p[5], x)
<1>1. /\ p[1] = Absorbed(Bech32Table, p[0], x[1]) /\ p[2] = Absorbed(Bech32Table, p[1], x[2])
      /\ p[3] = Absorbed(Bech32Table, p[2], x[3]) /\ p[4] = Absorbed(Bech32Table, p[3], x[4])
      /\ p[5] = Absorbed(Bech32Table, p[4], x[5])
  <2>1. /\ 1 \in 1..Len(x) /\ 2 \in 1..Len(x) /\ 3 \in 1..Len(x) /\ 4 \in 1..Len(x) /\ 5 \in 1..Len(x)
        /\ 1 - 1 = 0 /\ 2 - 1 = 1 /\ 3 - 1 = 2 /\ 4 - 1 = 3 /\ 5 - 1 = 4
    OBVIOUS
  <2> QED BY <2>1 DEF SumsOf
<1>2. x[1] \in Groups5 /\ x[2] \in Groups5 /\ x[3] \in Groups5 /\ x[4] \in Groups5 /\ x[5] \in Groups5
  OBVIOUS
<1>3. p[0] = Unit(6) /\ p[0] \in Sum6
  BY UnitType DEF SumsOf
<1>4. p[0][1] = 0 /\ p[0][2] = 0 /\ p[0][3] = 0 /\ p[0][4] = 0 /\ p[0][5] = 0 /\ p[0][6] = 1
  BY <1>3 DEF Unit
<1>5. /\ p[1] \in Sum6 /\ (\A i \in 1..5 : p[1][i] = p[0][i + 1]) /\ p[1][6] = x[1]
  BY <1>1, <1>2, <1>3, <1>4, OnlyShifted
<1>6. p[1][1] = 0 /\ p[1][2] = 0 /\ p[1][3] = 0 /\ p[1][4] = 0 /\ p[1][5] = 1
  BY <1>4, <1>5
<1>7. p[2] \in Sum6 /\ (\A i \in 1..5 : p[2][i] = p[1][i + 1]) /\ p[2][6] = x[2]
  BY <1>1, <1>2, <1>5, <1>6, OnlyShifted
<1>8. p[2][1] = 0 /\ p[2][2] = 0 /\ p[2][3] = 0 /\ p[2][4] = 1 /\ p[2][5] = x[1]
  BY <1>5, <1>6, <1>7
<1>9. p[3] \in Sum6 /\ (\A i \in 1..5 : p[3][i] = p[2][i + 1]) /\ p[3][6] = x[3]
  BY <1>1, <1>2, <1>7, <1>8, OnlyShifted
<1>10. p[3][1] = 0 /\ p[3][2] = 0 /\ p[3][3] = 1 /\ p[3][4] = x[1] /\ p[3][5] = x[2]
  BY <1>7, <1>8, <1>9
<1>11. p[4] \in Sum6 /\ (\A i \in 1..5 : p[4][i] = p[3][i + 1]) /\ p[4][6] = x[4]
  BY <1>1, <1>2, <1>9, <1>10, OnlyShifted
<1>12. p[4][1] = 0 /\ p[4][2] = 1 /\ p[4][3] = x[1] /\ p[4][4] = x[2] /\ p[4][5] = x[3]
  BY <1>9, <1>10, <1>11
<1>13. (\A i \in 1..5 : p[5][i] = p[4][i + 1]) /\ p[5][6] = x[5]
  BY <1>1, <1>2, <1>11, <1>12, OnlyShifted
<1>14. p[5][1] = 1 /\ p[5][2] = x[1] /\ p[5][3] = x[2] /\ p[5][4] = x[3] /\ p[5][5] = x[4] /\ p[5][6] = x[5]
  BY <1>11, <1>12, <1>13
<1> QED BY <1>14 DEF AfterFive

\* The same groups after the other prefix come to another sum.
LEMMA PrefixesApart ==
  ASSUME NEW r \in Seq(Groups5)
  PROVE  Polymod(Bech32Table, Bech32Prefix(bc) \o r) # Polymod(Bech32Table, Bech32Prefix(ltc) \o r)
<1>0. PICK b, l : b = Bech32Prefix(bc) /\ l = Bech32Prefix(ltc)
  OBVIOUS
<1>1. /\ b \in Seq(Groups5) /\ l \in Seq(Groups5) /\ Len(b) = 5 /\ Len(l) = 7
      /\ l[1] = 3 /\ l[2] = 3 /\ l[6] = 20
  BY <1>0, PrefixOfBitcoin, PrefixOfLitecoin
<1>2. PICK x, y : x = b \o r /\ y = l \o r
  OBVIOUS
<1>3. x \in Seq(Groups5) /\ y \in Seq(Groups5) /\ Joined(x, b, r) /\ Joined(y, l, r)
  BY <1>1, <1>2, Joining
<1>4. PICK m \in Nat : m = Len(r)
  OBVIOUS
<1>5. Len(x) = 5 + m /\ Len(y) = 7 + m /\ Alike(x, y, 5, 7, m)
  <2>1. Len(x) = 5 + m /\ \A k \in 1..m : x[5 + k] = r[k]
    BY <1>1, <1>3, <1>4 DEF Joined
  <2>2. Len(y) = 7 + m /\ \A k \in 1..m : y[7 + k] = r[k]
    BY <1>1, <1>3, <1>4 DEF Joined
  <2> QED BY <2>1, <2>2 DEF Alike
<1>6. y[1] = 3 /\ y[2] = 3 /\ y[6] = 20
  BY <1>1, <1>3 DEF Joined
<1>7. PICK p : SumsOf(p, Bech32Table, x)
  BY <1>3, Bech32IsTable, SumsExist
<1>8. PICK q : SumsOf(q, Bech32Table, y)
  BY <1>3, Bech32IsTable, SumsExist
<1>9. p[5][1] = 1
  <2>1. Len(x) >= 5
    BY <1>5
  <2>2. AfterFive(p[5], x)
    BY <1>3, <1>7, <2>1, FirstFive
  <2> QED BY <2>2 DEF AfterFive
<1>10. q[5][1] = 1 /\ q[5][2] = 3 /\ q[5][3] = 3
  <2>1. Len(y) >= 5
    BY <1>5
  <2>2. AfterFive(q[5], y)
    BY <1>3, <1>8, <2>1, FirstFive
  <2> QED BY <1>6, <2>2 DEF AfterFive
<1>11. /\ q[6] = Absorbed(Bech32Table, q[5], y[6]) /\ q[7] = Absorbed(Bech32Table, q[6], y[7])
       /\ q[5] \in Sum6 /\ q[6] \in Sum6 /\ q[7] \in Sum6 /\ y[6] \in Groups5 /\ y[7] \in Groups5
  <2>1. /\ 6 \in 1..Len(y) /\ 7 \in 1..Len(y) /\ 6 - 1 = 5 /\ 7 - 1 = 6
        /\ 5 \in 0..Len(y) /\ 6 \in 0..Len(y) /\ 7 \in 0..Len(y)
    BY <1>4, <1>5
  <2> QED BY <1>3, <1>8, <2>1 DEF SumsOf
<1>12. PICK g : g = Bech32Table[q[5][1]]
  OBVIOUS
<1>13. Steps6(q[6], q[5], y[6], g) /\ g[1] = 29 /\ g[2] = 22
  BY <1>10, <1>11, <1>12, Bech32IsTable, AbsorbedAt, KnownEntries
<1>14. q[6][1] = Xor(q[5][2], g[1]) /\ q[6][2] = Xor(q[5][3], g[2])
  <2>1. 1 \in 1..5 /\ 2 \in 1..5 /\ 1 + 1 = 2 /\ 2 + 1 = 3
    OBVIOUS
  <2> QED BY <1>13, <2>1 DEF Steps6
<1>15. q[6][1] = 30 /\ q[6][2] = 21
  BY <1>10, <1>13, <1>14, KnownXor
<1>16. PICK h : h = Bech32Table[q[6][1]]
  OBVIOUS
<1>17. Steps6(q[7], q[6], y[7], h) /\ h[1] = 23
  BY <1>11, <1>15, <1>16, Bech32IsTable, AbsorbedAt, KnownEntries
<1>18. q[7][1] = Xor(q[6][2], h[1])
  <2>1. 1 \in 1..5 /\ 1 + 1 = 2
    OBVIOUS
  <2> QED BY <1>17, <2>1 DEF Steps6
<1>19. q[7][1] = 2
  BY <1>15, <1>17, <1>18, KnownXor
<1>20. p[5] # q[7]
  BY <1>9, <1>19
<1>21. Polymod(Bech32Table, x) # Polymod(Bech32Table, y)
  <2>1. 5 \in Nat /\ 7 \in Nat
    OBVIOUS
  <2> QED BY <1>3, <1>4, <1>5, <1>7, <1>8, <1>20, <2>1, Bech32IsTable, StayApart
<1> QED BY <1>0, <1>2, <1>21

\* Groups of which one differs, or two neighbours are swapped, come to another sum.
LEMMA OneApart ==
  ASSUME NEW x \in Seq(Groups5), NEW y \in Seq(Groups5), Len(x) = Len(y), NEW i \in 1..Len(x), x[i] # y[i],
         \A k \in 1..Len(x) : k # i => x[k] = y[k]
  PROVE  Polymod(Bech32Table, x) # Polymod(Bech32Table, y)
<1>1. PICK p : SumsOf(p, Bech32Table, x)
  BY Bech32IsTable, SumsExist
<1>2. PICK q : SumsOf(q, Bech32Table, y)
  BY Bech32IsTable, SumsExist
<1>3. PICK n \in Nat, h \in Nat, m \in Nat : n = Len(x) /\ n = Len(y) /\ h + 1 = i /\ n = i + m
  <2>1. PICK n \in Nat : n = Len(x)
    OBVIOUS
  <2>2. i \in 1..n
    BY <2>1
  <2>3. PICK h \in Nat, m \in Nat : h = i - 1 /\ m = n - i
    BY <2>2
  <2>4. h + 1 = i /\ n = i + m
    BY <2>2, <2>3
  <2> QED BY <2>1, <2>4
<1>4. p[h] = q[h]
  <2>1. h <= Len(x) /\ h <= Len(y)
    BY <1>3
  <2>2. \A k \in 1..h : k \in 1..Len(x) /\ k # i
    BY <1>3
  <2>3. \A k \in 1..h : x[k] = y[k]
    BY <2>2
  <2>4. \A k \in 0..h : p[k] = q[k]
    BY <1>1, <1>2, <2>1, <2>3, Bech32IsTable, StayTogether
  <2> QED BY <2>4
<1>5. /\ p[i] = Absorbed(Bech32Table, p[h], x[i]) /\ q[i] = Absorbed(Bech32Table, q[h], y[i])
      /\ p[h] \in Sum6 /\ x[i] \in Groups5 /\ y[i] \in Groups5
  <2>1. i \in 1..Len(y) /\ i - 1 = h /\ h \in 0..Len(x)
    BY <1>3
  <2> QED BY <1>1, <1>2, <2>1 DEF SumsOf
<1>6. p[i] # q[i]
  BY <1>4, <1>5, Bech32IsTable, ValuesApart
<1>7. Alike(x, y, i, i, m)
  <2>1. \A k \in 1..m : i + k \in 1..n /\ i + k # i
    BY <1>3
  <2>2. \A k \in 1..m : x[i + k] = y[i + k]
    BY <1>3, <2>1
  <2> QED BY <1>3, <2>2 DEF Alike
<1> QED BY <1>1, <1>2, <1>6, <1>7, Bech32IsTable, StayApart

\* So do two neighbours that are swapped.
LEMMA SwappedApart ==
  ASSUME NEW x \in Seq(Groups5), NEW y \in Seq(Groups5), Len(x) = Len(y), NEW i \in 1..(Len(x) - 1),
         x[i] # x[i + 1], y[i] = x[i + 1], y[i + 1] = x[i],
         \A k \in 1..Len(x) : k # i /\ k # i + 1 => x[k] = y[k]
  PROVE  Polymod(Bech32Table, x) # Polymod(Bech32Table, y)
<1>1. PICK p : SumsOf(p, Bech32Table, x)
  BY Bech32IsTable, SumsExist
<1>2. PICK q : SumsOf(q, Bech32Table, y)
  BY Bech32IsTable, SumsExist
<1>3. PICK n \in Nat, h \in Nat, j \in Nat, m \in Nat :
         n = Len(x) /\ n = Len(y) /\ h + 1 = i /\ j = i + 1 /\ n = j + m
  <2>1. PICK n \in Nat : n = Len(x)
    OBVIOUS
  <2>2. i \in 1..(n - 1)
    BY <2>1
  <2>3. PICK h \in Nat, j \in Nat, m \in Nat : h = i - 1 /\ j = i + 1 /\ m = n - (i + 1)
    BY <2>2
  <2>4. h + 1 = i /\ n = j + m
    BY <2>2, <2>3
  <2> QED BY <2>1, <2>3, <2>4
<1>4. p[h] = q[h]
  <2>1. h <= Len(x) /\ h <= Len(y)
    BY <1>3
  <2>2. \A k \in 1..h : k \in 1..Len(x) /\ k # i /\ k # i + 1
    BY <1>3
  <2>3. \A k \in 1..h : x[k] = y[k]
    BY <2>2
  <2>4. \A k \in 0..h : p[k] = q[k]
    BY <1>1, <1>2, <2>1, <2>3, Bech32IsTable, StayTogether
  <2> QED BY <2>4
<1>5. PICK v \in Groups5, w \in Groups5 : v = x[i] /\ w = x[i + 1]
  <2>1. i \in 1..Len(x) /\ i + 1 \in 1..Len(x)
    OBVIOUS
  <2> QED BY <2>1
<1>6. /\ p[i] = Absorbed(Bech32Table, p[h], v) /\ q[i] = Absorbed(Bech32Table, q[h], w)
      /\ p[j] = Absorbed(Bech32Table, p[i], w) /\ q[j] = Absorbed(Bech32Table, q[i], v)
      /\ p[h] \in Sum6
  <2>0. i \in Nat /\ n = i + 1 + m
    BY <1>3
  <2>1. /\ i \in 1..Len(x) /\ i \in 1..Len(y) /\ i - 1 = h /\ h \in 0..Len(x)
        /\ j \in 1..Len(x) /\ j \in 1..Len(y) /\ j - 1 = i
    BY <1>3, <2>0
  <2>2. x[i] = v /\ y[i] = w /\ x[j] = w /\ y[j] = v
    BY <1>3, <1>5
  <2> QED BY <1>1, <1>2, <2>1, <2>2 DEF SumsOf
<1>7. p[j] # q[j]
  BY <1>4, <1>5, <1>6, Bech32IsTable, ValuesApart
<1>8. Alike(x, y, j, j, m)
  <2>1. \A k \in 1..m : j + k \in 1..n /\ j + k # i /\ j + k # i + 1
    BY <1>3
  <2>2. \A k \in 1..m : x[j + k] = y[j + k]
    BY <1>3, <2>1
  <2> QED BY <1>3, <2>2 DEF Alike
<1> QED BY <1>1, <1>2, <1>7, <1>8, Bech32IsTable, StayApart

\* Of a text that is accepted, the one without the last symbol is not.
LEMMA ShortApart ==
  ASSUME NEW x \in Seq(Groups5), NEW v \in Groups5, Polymod(Bech32Table, Append(x, v)) = Unit(6)
  PROVE  Polymod(Bech32Table, x) # Unit(6)
<1>1. PICK y : y = Append(x, v)
  OBVIOUS
<1>2. PICK n \in Nat : n = Len(x)
  OBVIOUS
<1>3. y \in Seq(Groups5) /\ Len(y) = n + 1 /\ y[n + 1] = v /\ \A k \in 1..n : x[k] = y[k]
  BY <1>1, <1>2
<1>4. PICK p : SumsOf(p, Bech32Table, x)
  BY Bech32IsTable, SumsExist
<1>5. PICK q : SumsOf(q, Bech32Table, y)
  BY <1>3, Bech32IsTable, SumsExist
<1>6. p[n] = q[n]
  <2>1. n <= Len(x) /\ n <= Len(y)
    BY <1>2, <1>3
  <2>2. \A k \in 0..n : p[k] = q[k]
    BY <1>2, <1>3, <1>4, <1>5, <2>1, Bech32IsTable, StayTogether
  <2> QED BY <2>2
<1>7. q[n + 1] = Absorbed(Bech32Table, q[n], v) /\ q[n + 1] = Unit(6)
  <2>1. n + 1 \in 1..Len(y) /\ (n + 1) - 1 = n
    BY <1>3
  <2> QED BY <1>1, <1>3, <1>5, <2>1 DEF SumsOf, Polymod
<1> SUFFICES ASSUME p[n] = Unit(6) PROVE FALSE
  BY <1>2, <1>4 DEF SumsOf, Polymod
<1>8. Unit(6)[1] = 0 /\ Unit(6)[5] = 0 /\ Unit(6)[6] = 1
  BY DEF Unit
<1>9. PICK t : t = Absorbed(Bech32Table, Unit(6), v)
  OBVIOUS
<1>10. t = Unit(6)
  BY <1>6, <1>7, <1>9
<1>11. t[5] = Unit(6)[5 + 1]
  BY <1>8, <1>9, UnitType, OnlyShifted
<1> QED BY <1>8, <1>10, <1>11

-----------------------------------------------------------------------------
(* The bits of bytes, and of groups.                                      *)

\* The sum of eight numbers.
LEMMA SumOfEight ==
  ASSUME NEW s \in [1..8 -> Nat]
  PROVE  Total(s) = s[1] + s[2] + s[3] + s[4] + s[5] + s[6] + s[7] + s[8]
<1>1. s \in Seq(Nat) /\ Len(s) = 8
  BY SeqOfFunction
<1>2. s \in Seq(Int)
  <2>1. s \in [1..8 -> Int]
    OBVIOUS
  <2> QED BY <2>1, SeqOfFunction
<1>3. PICK p : p = PrefixSums(s)
  OBVIOUS
<1>4. p[0] = 0 /\ \A i \in 1..8 : p[i] = p[i - 1] + s[i]
  BY <1>1, <1>2, <1>3, PrefixSumsStep
<1>5. \A i \in 1..8 : s[i] \in Nat
  OBVIOUS
<1>6. p[1] = s[1] /\ p[2] = p[1] + s[2] /\ p[3] = p[2] + s[3] /\ p[4] = p[3] + s[4]
  BY <1>4, <1>5
<1>7. p[5] = p[4] + s[5] /\ p[6] = p[5] + s[6] /\ p[7] = p[6] + s[7] /\ p[8] = p[7] + s[8]
  BY <1>4, <1>5
<1>8. Total(s) = p[8]
  BY <1>1, <1>3 DEF Total
<1> QED BY <1>5, <1>6, <1>7, <1>8

\* The eight bits of a byte.
Digits8(n, a, b, c, d, e, f, g, h) ==
  n = a + 2 * b + 4 * c + 8 * d + 16 * e + 32 * f + 64 * g + 128 * h

\* Every byte has eight bits.
LEMMA BitsOfEight ==
  ASSUME NEW n \in 0..255
  PROVE  /\ \A i \in 1..8 : Bit(n, i) \in {0, 1}
         /\ Digits8(n, Bit(n, 1), Bit(n, 2), Bit(n, 3), Bit(n, 4), Bit(n, 5), Bit(n, 6), Bit(n, 7), Bit(n, 8))
<1>1. /\ Bit(n, 1) = (n \div 1) % 2 /\ Bit(n, 2) = (n \div 2) % 2 /\ Bit(n, 3) = (n \div 4) % 2
      /\ Bit(n, 4) = (n \div 8) % 2 /\ Bit(n, 5) = (n \div 16) % 2 /\ Bit(n, 6) = (n \div 32) % 2
      /\ Bit(n, 7) = (n \div 64) % 2 /\ Bit(n, 8) = (n \div 128) % 2
  BY Powers DEF Bit
<1>2. \A i \in 1..8 : i \in {1, 2, 3, 4, 5, 6, 7, 8}
  OBVIOUS
<1>3. /\ (n \div 1) % 2 \in {0, 1} /\ (n \div 2) % 2 \in {0, 1} /\ (n \div 4) % 2 \in {0, 1}
      /\ (n \div 8) % 2 \in {0, 1} /\ (n \div 16) % 2 \in {0, 1} /\ (n \div 32) % 2 \in {0, 1}
      /\ (n \div 64) % 2 \in {0, 1} /\ (n \div 128) % 2 \in {0, 1}
  OBVIOUS
<1>4. PICK l \in 0..15, m \in 0..15 : l = n % 16 /\ m = n \div 16 /\ n = l + 16 * m
  OBVIOUS
<1>5. l = ((n \div 1) % 2) + 2 * ((n \div 2) % 2) + 4 * ((n \div 4) % 2) + 8 * ((n \div 8) % 2)
  BY <1>4
<1>6. m = ((n \div 16) % 2) + 2 * ((n \div 32) % 2) + 4 * ((n \div 64) % 2) + 8 * ((n \div 128) % 2)
  BY <1>4
<1>7. \A i \in 1..8 : Bit(n, i) \in {0, 1}
  BY <1>1, <1>2, <1>3
<1>8. l = Bit(n, 1) + 2 * Bit(n, 2) + 4 * Bit(n, 3) + 8 * Bit(n, 4)
  BY <1>1, <1>5
<1>9. m = Bit(n, 5) + 2 * Bit(n, 6) + 4 * Bit(n, 7) + 8 * Bit(n, 8)
  BY <1>1, <1>6
<1>10. Digits8(n, Bit(n, 1), Bit(n, 2), Bit(n, 3), Bit(n, 4), Bit(n, 5), Bit(n, 6), Bit(n, 7), Bit(n, 8))
  BY <1>4, <1>7, <1>8, <1>9 DEF Digits8
<1> QED BY <1>7, <1>10

\* A bit of a sequence of bits, with zeros after it.
BitAt(bits, i) == IF i <= Len(bits) THEN bits[i] ELSE 0
AreBits(bits) == \A i \in Nat : BitAt(bits, i) \in {0, 1} \/ i = 0

\* The k-th group of five has the bits that stand there.
FiveAt(n, bits, k) == n \in Groups5 /\ \A j \in 1..5 : Bit(n, 6 - j) = BitAt(bits, 5 * (k - 1) + j)

\* A group made of five bits has them.
LEMMA GroupOfFive ==
  ASSUME NEW bits, AreBits(bits), NEW k \in Nat, k # 0
  PROVE  FiveAt(Group(bits, 5, k), bits, k)
<1>1. PICK o \in Nat : o = 5 * (k - 1)
  OBVIOUS
<1>2. \A j \in 1..5 : o + j \in Nat /\ o + j # 0
  OBVIOUS
<1>3. \A j \in 1..5 : BitAt(bits, o + j) \in {0, 1}
  BY <1>2 DEF AreBits
<1>4. PICK e : e = [j \in 1..5 |-> BitAt(bits, o + j)]
  OBVIOUS
<1>5. PICK a \in {0, 1}, b \in {0, 1}, c \in {0, 1}, d \in {0, 1}, f \in {0, 1} :
         a = e[1] /\ b = e[2] /\ c = e[3] /\ d = e[4] /\ f = e[5]
  BY <1>3, <1>4
<1>6. PICK s : s = [j \in 1..5 |-> Power2[6 - j] * BitAt(bits, o + j)]
  OBVIOUS
<1>7. Group(bits, 5, k) = Total(s)
  BY <1>1, <1>6 DEF Group, BitAt
<1>8. s[1] = 16 * a /\ s[2] = 8 * b /\ s[3] = 4 * c /\ s[4] = 2 * d /\ s[5] = f
  <2>1. \A j \in 1..5 : s[j] = Power2[6 - j] * e[j]
    BY <1>4, <1>6
  <2>2. 6 - 1 = 5 /\ 6 - 2 = 4 /\ 6 - 3 = 3 /\ 6 - 4 = 2 /\ 6 - 5 = 1
    OBVIOUS
  <2>3. s[1] = 16 * e[1] /\ s[2] = 8 * e[2] /\ s[3] = 4 * e[3] /\ s[4] = 2 * e[4] /\ s[5] = 1 * e[5]
    BY <2>1, <2>2, Powers
  <2> QED BY <1>5, <2>3
<1>9. \A i \in 1..5 : i \in {1, 2, 3, 4, 5}
  OBVIOUS
<1>10. s \in [1..5 -> Nat]
  <2>1. s[1] \in Nat /\ s[2] \in Nat /\ s[3] \in Nat /\ s[4] \in Nat /\ s[5] \in Nat
    BY <1>5, <1>8
  <2>2. \A j \in 1..5 : s[j] \in Nat
    BY <1>9, <2>1
  <2> QED BY <1>6, <2>2
<1>11. PICK n : n = Total(s)
  OBVIOUS
<1>12. Digits5(n, f, d, c, b, a)
  <2>1. n = s[1] + s[2] + s[3] + s[4] + s[5]
    BY <1>10, <1>11, SumOfFive
  <2> QED BY <1>5, <1>8, <2>1 DEF Digits5
<1>13. /\ n \in 0..31 /\ Bit(n, 1) = f /\ Bit(n, 2) = d /\ Bit(n, 3) = c /\ Bit(n, 4) = b /\ Bit(n, 5) = a
  BY <1>5, <1>12, FiveOfBits
<1>14. \A j \in {1, 2, 3, 4, 5} : Bit(n, 6 - j) = e[j]
  BY <1>5, <1>13
<1>15. \A j \in 1..5 : Bit(n, 6 - j) = BitAt(bits, o + j)
  BY <1>4, <1>9, <1>14
<1> QED BY <1>1, <1>7, <1>11, <1>13, <1>15 DEF Groups5, FiveAt

\* The k-th group of eight is the byte of which the bits stand there.
EightAt(n, bits, k) == n \in 0..255 /\ \A j \in 1..8 : BitAt(bits, 8 * (k - 1) + j) = Bit(n, 9 - j)

\* A byte made of eight bits has them.
LEMMA GroupOfEight ==
  ASSUME NEW bits, NEW k \in Nat, NEW n, EightAt(n, bits, k)
  PROVE  Group(bits, 8, k) = n
<1>1. PICK o \in Int : o = 8 * (k - 1)
  OBVIOUS
<1>2. n \in 0..255 /\ \A j \in 1..8 : BitAt(bits, o + j) = Bit(n, 9 - j)
  BY <1>1 DEF EightAt
<1>3. PICK s : s = [j \in 1..8 |-> Power2[9 - j] * BitAt(bits, o + j)]
  OBVIOUS
<1>4. Group(bits, 8, k) = Total(s)
  BY <1>1, <1>3 DEF Group, BitAt
<1>5. PICK b1 \in {0, 1}, b2 \in {0, 1}, b3 \in {0, 1}, b4 \in {0, 1},
           b5 \in {0, 1}, b6 \in {0, 1}, b7 \in {0, 1}, b8 \in {0, 1} :
         /\ b1 = Bit(n, 1) /\ b2 = Bit(n, 2) /\ b3 = Bit(n, 3) /\ b4 = Bit(n, 4)
         /\ b5 = Bit(n, 5) /\ b6 = Bit(n, 6) /\ b7 = Bit(n, 7) /\ b8 = Bit(n, 8)
  <2>1. \A i \in 1..8 : Bit(n, i) \in {0, 1}
    BY <1>2, BitsOfEight
  <2>2. /\ Bit(n, 1) \in {0, 1} /\ Bit(n, 2) \in {0, 1} /\ Bit(n, 3) \in {0, 1} /\ Bit(n, 4) \in {0, 1}
        /\ Bit(n, 5) \in {0, 1} /\ Bit(n, 6) \in {0, 1} /\ Bit(n, 7) \in {0, 1} /\ Bit(n, 8) \in {0, 1}
    BY <2>1
  <2> QED BY <2>2
<1>6. /\ s[1] = 128 * b8 /\ s[2] = 64 * b7 /\ s[3] = 32 * b6 /\ s[4] = 16 * b5
      /\ s[5] = 8 * b4 /\ s[6] = 4 * b3 /\ s[7] = 2 * b2 /\ s[8] = b1
  <2>1. \A j \in 1..8 : s[j] = Power2[9 - j] * Bit(n, 9 - j)
    BY <1>2, <1>3
  <2>2. /\ 9 - 1 = 8 /\ 9 - 2 = 7 /\ 9 - 3 = 6 /\ 9 - 4 = 5 /\ 9 - 5 = 4 /\ 9 - 6 = 3 /\ 9 - 7 = 2 /\ 9 - 8 = 1
    OBVIOUS
  <2>3. /\ s[1] = 128 * Bit(n, 8) /\ s[2] = 64 * Bit(n, 7) /\ s[3] = 32 * Bit(n, 6) /\ s[4] = 16 * Bit(n, 5)
        /\ s[5] = 8 * Bit(n, 4) /\ s[6] = 4 * Bit(n, 3) /\ s[7] = 2 * Bit(n, 2) /\ s[8] = 1 * Bit(n, 1)
    BY <2>1, <2>2, Powers
  <2> QED BY <1>5, <2>3
<1>7. s \in [1..8 -> Nat]
  <2>1. /\ s[1] \in Nat /\ s[2] \in Nat /\ s[3] \in Nat /\ s[4] \in Nat
        /\ s[5] \in Nat /\ s[6] \in Nat /\ s[7] \in Nat /\ s[8] \in Nat
    BY <1>5, <1>6
  <2>2. \A i \in 1..8 : i \in {1, 2, 3, 4, 5, 6, 7, 8}
    OBVIOUS
  <2>3. \A j \in 1..8 : s[j] \in Nat
    BY <2>1, <2>2
  <2> QED BY <1>3, <2>3
<1>8. Total(s) = s[1] + s[2] + s[3] + s[4] + s[5] + s[6] + s[7] + s[8]
  BY <1>7, SumOfEight
<1>9. Digits8(n, b1, b2, b3, b4, b5, b6, b7, b8)
  BY <1>2, <1>5, BitsOfEight
<1>10. n = b1 + 2 * b2 + 4 * b3 + 8 * b4 + 16 * b5 + 32 * b6 + 64 * b7 + 128 * b8
  BY <1>9 DEF Digits8
<1> QED BY <1>4, <1>5, <1>6, <1>8, <1>10

\* The place of a bit in its group.
PlaceOf(i, w, q, r) == /\ q = (i - 1) \div w /\ r = (i - 1) % w /\ q \in Nat /\ r \in 0..(w - 1)
                       /\ i = w * q + r + 1

\* The groups of w bits leave no bit out.
LEMMA Places ==
  ASSUME NEW w \in Nat, w # 0, NEW i \in Nat, i # 0
  PROVE  \E q, r : PlaceOf(i, w, q, r)
<1>1. PICK a \in Nat, n \in Nat \ {0} : a = i - 1 /\ n = w
  OBVIOUS
<1>2. a = n * (a \div n) + (a % n) /\ a % n \in 0..(n - 1) /\ a \div n \in Int
  OBVIOUS
<1>3. a \div n >= 0
  OBVIOUS
<1>4. PICK q \in Nat, r \in 0..(n - 1) : q = a \div n /\ r = a % n
  BY <1>2, <1>3
<1>5. i = n * q + r + 1
  BY <1>1, <1>2, <1>4
<1>6. PlaceOf(i, w, q, r)
  BY <1>1, <1>4, <1>5 DEF PlaceOf
<1> QED BY <1>6

\* The values of a byte.
Octets == 0..255

\* The bits of bytes: as many as eight for each, those of the k-th in their places.
BitsOf(bits, data) ==
  /\ Len(bits) = 8 * Len(data) /\ AreBits(bits)
  /\ \A k \in 1..Len(data) : \A j \in 1..8 : BitAt(bits, 8 * (k - 1) + j) = Bit(data[k], 9 - j)

\* What the bits of bytes are.
LEMMA BitsOfBytes ==
  ASSUME NEW data \in Seq(Octets)
  PROVE  BitsOf(Bits(data, 8), data)
<1>1. PICK n \in Nat : n = Len(data)
  OBVIOUS
<1>2. PICK bits : bits = Bits(data, 8)
  OBVIOUS
<1>3. bits = [i \in 1..(8 * n) |-> Bit(data[((i - 1) \div 8) + 1], 8 - ((i - 1) % 8))]
  BY <1>1, <1>2 DEF Bits
<1>4. Len(bits) = 8 * n
  BY <1>3
<1>5. ASSUME NEW k \in 1..n, NEW j \in 1..8 PROVE BitAt(bits, 8 * (k - 1) + j) = Bit(data[k], 9 - j)
  <2>1. PICK i \in 1..(8 * n) : i = 8 * (k - 1) + j
    OBVIOUS
  <2>2. ((i - 1) \div 8) + 1 = k
    BY <2>1
  <2>3. 8 - ((i - 1) % 8) = 9 - j
    BY <2>1
  <2>4. bits[i] = Bit(data[k], 9 - j)
    BY <1>3, <2>2, <2>3
  <2>5. BitAt(bits, i) = bits[i]
    BY <1>4 DEF BitAt
  <2> QED BY <2>1, <2>4, <2>5
<1>6. ASSUME NEW i \in Nat, i # 0 PROVE BitAt(bits, i) \in {0, 1}
  <2>1. CASE i > 8 * n
    BY <1>4, <2>1 DEF BitAt
  <2>2. CASE i <= 8 * n
    <3>0. PICK q, r : PlaceOf(i, 8, q, r)
      BY <1>6, Places
    <3>1. /\ q \in Nat /\ r \in 0..7 /\ q = (i - 1) \div 8 /\ r = (i - 1) % 8 /\ i = 8 * q + r + 1
      BY <3>0 DEF PlaceOf
    <3>2. q + 1 \in 1..n /\ 8 - r \in 1..8 /\ i \in 1..(8 * n)
      BY <2>2, <3>1
    <3>3. bits[i] = Bit(data[q + 1], 8 - r)
      BY <1>3, <3>1, <3>2
    <3>4. data[q + 1] \in Octets
      BY <1>1, <3>2
    <3>5. bits[i] \in {0, 1}
      BY <3>2, <3>3, <3>4, BitsOfEight DEF Octets
    <3> QED BY <1>4, <2>2, <3>5 DEF BitAt
  <2> QED BY <2>1, <2>2
<1> QED BY <1>1, <1>2, <1>4, <1>5, <1>6 DEF BitsOf, AreBits

\* The same bits in groups of five, as many as are needed.
LEMMA PaddedIs ==
  ASSUME NEW data \in Seq(Octets)
  PROVE  /\ Padded(data) \in Seq(Groups5)
         /\ Len(Padded(data)) = (8 * Len(data) + 4) \div 5
         /\ \A i \in Nat : i # 0 => BitAt(Bits(Padded(data), 5), i) = BitAt(Bits(data, 8), i)
<1>1. PICK n \in Nat : n = Len(data)
  OBVIOUS
<1>2. PICK b : b = Bits(data, 8)
  OBVIOUS
<1>3. BitsOf(b, data)
  BY <1>2, BitsOfBytes
<1>4. Len(b) = 8 * n /\ AreBits(b)
  BY <1>1, <1>3 DEF BitsOf
<1>5. PICK m \in Nat : m = (8 * n + 4) \div 5
  OBVIOUS
<1>6. 5 * m >= 8 * n
  BY <1>5
<1>7. PICK g : g = Padded(data)
  OBVIOUS
<1>8. g = [k \in 1..m |-> Group(b, 5, k)]
  BY <1>2, <1>4, <1>5, <1>7 DEF Padded
<1>9. \A k \in 1..m : g[k] \in Groups5 /\ \A j \in 1..5 : Bit(g[k], 6 - j) = BitAt(b, 5 * (k - 1) + j)
  <2> TAKE k \in 1..m
  <2>1. FiveAt(g[k], b, k)
    BY <1>4, <1>8, GroupOfFive
  <2> QED BY <2>1 DEF FiveAt
<1>10. g \in Seq(Groups5) /\ Len(g) = m
  <2>1. g \in [1..m -> Groups5]
    BY <1>8, <1>9
  <2> QED BY <2>1, SeqOfFunction
<1>11. PICK c : c = Bits(g, 5)
  OBVIOUS
<1>12. c = [i \in 1..(5 * m) |-> Bit(g[((i - 1) \div 5) + 1], 5 - ((i - 1) % 5))]
  BY <1>10, <1>11 DEF Bits
<1>13. Len(c) = 5 * m
  BY <1>12
<1>14. ASSUME NEW i \in Nat, i # 0 PROVE BitAt(c, i) = BitAt(b, i)
  <2>1. CASE i > 5 * m
    BY <1>4, <1>6, <1>13, <2>1 DEF BitAt
  <2>2. CASE i <= 5 * m
    <3>0. PICK q, r : PlaceOf(i, 5, q, r)
      BY <1>14, Places
    <3>1. /\ q \in Nat /\ r \in 0..4 /\ q = (i - 1) \div 5 /\ r = (i - 1) % 5 /\ i = 5 * q + r + 1
      BY <3>0 DEF PlaceOf
    <3>a. q + 1 \in 1..m /\ r + 1 \in 1..5
      BY <2>2, <3>1
    <3>2. PICK k \in 1..m, j \in 1..5 : k = q + 1 /\ j = r + 1
      BY <3>a
    <3>3. 5 - r = 6 - j /\ 5 * (k - 1) + j = i /\ i \in 1..(5 * m)
      BY <2>2, <3>1, <3>2
    <3>4. c[i] = Bit(g[k], 6 - j)
      BY <1>12, <3>1, <3>2, <3>3
    <3>5. c[i] = BitAt(b, i)
      BY <1>9, <3>3, <3>4
    <3> QED BY <1>13, <2>2, <3>5 DEF BitAt
  <2> QED BY <2>1, <2>2
<1> QED BY <1>1, <1>2, <1>5, <1>7, <1>10, <1>11, <1>14

Filled(n, m) == n \in Nat /\ m \in Nat /\ m = (8 * n + 4) \div 5 /\ (5 * m) \div 8 = n /\ 5 * m - 8 * n < 5

\* Bytes whose bits fill groups of five but for fewer than five are read again.
LEMMA ReadAgain ==
  ASSUME NEW data \in Seq(Octets), NEW m, Filled(Len(data), m)
  PROVE  /\ Len(Padded(data)) = m
         /\ ConvertBits(Padded(data), 5, 8).ok /\ ConvertBits(Padded(data), 5, 8).out = data
<1>0. PICK n \in Nat : n = Len(data)
  OBVIOUS
<1>a. m \in Nat /\ m = (8 * n + 4) \div 5 /\ (5 * m) \div 8 = n /\ 5 * m - 8 * n < 5
  BY <1>0 DEF Filled
<1>1. PICK b, g, c : b = Bits(data, 8) /\ g = Padded(data) /\ c = Bits(g, 5)
  OBVIOUS
<1>2. BitsOf(b, data)
  BY <1>1, BitsOfBytes
<1>3. g \in Seq(Groups5) /\ Len(g) = m /\ \A i \in Nat : i # 0 => BitAt(c, i) = BitAt(b, i)
  BY <1>0, <1>a, <1>1, PaddedIs
<1>4. Len(c) = 5 * m
  BY <1>1, <1>3 DEF Bits
<1>5. Len(b) = 8 * n
  BY <1>0, <1>2 DEF BitsOf
<1>6. \A k \in 1..n : Group(c, 8, k) = data[k]
  <2> TAKE k \in 1..n
  <2>1. \A j \in 1..8 : 8 * (k - 1) + j \in Nat /\ 8 * (k - 1) + j # 0
    OBVIOUS
  <2>2. \A j \in 1..8 : BitAt(c, 8 * (k - 1) + j) = BitAt(b, 8 * (k - 1) + j)
    BY <1>3, <2>1
  <2>3. k \in 1..Len(data) /\ data[k] \in Octets
    BY <1>0
  <2>4. \A j \in 1..8 : BitAt(b, 8 * (k - 1) + j) = Bit(data[k], 9 - j)
    BY <1>2, <2>3 DEF BitsOf
  <2>5. EightAt(data[k], c, k)
    BY <2>2, <2>3, <2>4 DEF EightAt, Octets
  <2> QED BY <2>5, GroupOfEight
<1>7. \A i \in (8 * n + 1)..(5 * m) : c[i] = 0
  <2> TAKE i \in (8 * n + 1)..(5 * m)
  <2>1. i \in Nat /\ i # 0 /\ i <= 5 * m /\ ~(i <= 8 * n)
    OBVIOUS
  <2>2. BitAt(c, i) = BitAt(b, i)
    BY <1>3, <2>1
  <2>3. BitAt(b, i) = 0 /\ BitAt(c, i) = c[i]
    BY <1>4, <1>5, <2>1 DEF BitAt
  <2> QED BY <2>2, <2>3
<1>8. PICK r : r = ConvertBits(g, 5, 8)
  OBVIOUS
<1>9. r = [ok |-> 5 * m - 8 * n < 5 /\ \A i \in (8 * n + 1)..(5 * m) : c[i] = 0,
           out |-> [k \in 1..n |-> Group(c, 8, k)]]
  BY <1>a, <1>1, <1>4, <1>8 DEF ConvertBits
<1>10. r.ok
  BY <1>a, <1>7, <1>9
<1>11. r.out = data
  <2>1. data = [k \in 1..n |-> data[k]]
    BY <1>0
  <2>2. r.out = [k \in 1..n |-> Group(c, 8, k)]
    BY <1>9
  <2> QED BY <1>6, <2>1, <2>2
<1> QED BY <1>1, <1>3, <1>8, <1>10, <1>11

-----------------------------------------------------------------------------
(* Wallets of segwit.                                                     *)

\* After the same prefix too.
DiffersAt(x, y, i) == Len(x) = Len(y) /\ x[i] # y[i] /\ \A k \in 1..Len(x) : k # i => x[k] = y[k]
SwappedAt(x, y, i) == /\ Len(x) = Len(y) /\ x[i] # x[i + 1] /\ y[i] = x[i + 1] /\ y[i + 1] = x[i]
                      /\ \A k \in 1..Len(x) : k # i /\ k # i + 1 => x[k] = y[k]

\* Groups of which one differs come to different sums after the same prefix,
LEMMA OneApartAfter ==
  ASSUME NEW f \in Seq(Groups5), NEW d \in Seq(Groups5), NEW e \in Seq(Groups5), NEW i \in 1..Len(d),
         DiffersAt(d, e, i)
  PROVE  Polymod(Bech32Table, f \o d) # Polymod(Bech32Table, f \o e)
<1>1. PICK x, y : x = f \o d /\ y = f \o e
  OBVIOUS
<1>2. x \in Seq(Groups5) /\ y \in Seq(Groups5) /\ Joined(x, f, d) /\ Joined(y, f, e)
  BY <1>1, Joining
<1>3. PICK n \in Nat, m \in Nat : n = Len(f) /\ m = Len(d)
  OBVIOUS
<1>4. Len(x) = n + m /\ (\A k \in 1..n : x[k] = f[k]) /\ (\A k \in 1..m : x[n + k] = d[k])
  BY <1>2, <1>3 DEF Joined
<1>5. Len(e) = m
  BY <1>3 DEF DiffersAt
<1>6. Len(y) = n + m /\ (\A k \in 1..n : y[k] = f[k]) /\ (\A k \in 1..m : y[n + k] = e[k])
  BY <1>2, <1>3, <1>5 DEF Joined
<1>7. PICK j \in 1..(n + m) : j = n + i /\ i \in 1..m
  <2>1. i \in 1..m
    BY <1>3
  <2>2. n + i \in 1..(n + m)
    BY <2>1
  <2> QED BY <2>1, <2>2
<1>8. x[j] # y[j]
  <2>1. x[j] = d[i] /\ y[j] = e[i]
    BY <1>4, <1>6, <1>7
  <2> QED BY <2>1 DEF DiffersAt
<1>9. ASSUME NEW k \in 1..(n + m), k # j PROVE x[k] = y[k]
  <2>1. CASE k <= n
    <3>1. k \in 1..n
      BY <2>1
    <3> QED BY <1>4, <1>6, <3>1
  <2>2. CASE k > n
    <3>1. PICK l \in 1..m : k = n + l
      <4>1. k - n \in 1..m /\ k = n + (k - n)
        BY <2>2
      <4> QED BY <4>1
    <3>2. l # i
      BY <1>7, <1>9, <3>1
    <3>3. d[l] = e[l]
      BY <1>3, <3>2 DEF DiffersAt
    <3> QED BY <1>4, <1>6, <3>1, <3>3
  <2> QED BY <2>1, <2>2
<1>10. j \in 1..Len(x) /\ Len(x) = Len(y) /\ \A k \in 1..Len(x) : k # j => x[k] = y[k]
  BY <1>4, <1>6, <1>9
<1> QED BY <1>1, <1>2, <1>8, <1>10, OneApart

\* and so do those of which two neighbours are swapped.
LEMMA SwappedApartAfter ==
  ASSUME NEW f \in Seq(Groups5), NEW d \in Seq(Groups5), NEW e \in Seq(Groups5), NEW i \in 1..(Len(d) - 1),
         SwappedAt(d, e, i)
  PROVE  Polymod(Bech32Table, f \o d) # Polymod(Bech32Table, f \o e)
<1>1. PICK x, y : x = f \o d /\ y = f \o e
  OBVIOUS
<1>2. x \in Seq(Groups5) /\ y \in Seq(Groups5) /\ Joined(x, f, d) /\ Joined(y, f, e)
  BY <1>1, Joining
<1>3. PICK n \in Nat, m \in Nat : n = Len(f) /\ m = Len(d)
  OBVIOUS
<1>4. Len(x) = n + m /\ (\A k \in 1..n : x[k] = f[k]) /\ (\A k \in 1..m : x[n + k] = d[k])
  BY <1>2, <1>3 DEF Joined
<1>5. Len(e) = m
  BY <1>3 DEF SwappedAt
<1>6. Len(y) = n + m /\ (\A k \in 1..n : y[k] = f[k]) /\ (\A k \in 1..m : y[n + k] = e[k])
  BY <1>2, <1>3, <1>5 DEF Joined
<1>7. PICK j \in 1..(n + m) : j = n + i /\ i \in 1..m /\ i + 1 \in 1..m /\ j + 1 = n + (i + 1) /\ j \in 1..(n + m - 1)
  <2>1. i \in 1..(m - 1)
    BY <1>3
  <2>2. n + i \in 1..(n + m) /\ i \in 1..m /\ i + 1 \in 1..m /\ (n + i) + 1 = n + (i + 1)
        /\ n + i \in 1..(n + m - 1)
    BY <2>1
  <2> QED BY <2>2
<1>8. x[j] = d[i] /\ x[j + 1] = d[i + 1] /\ y[j] = e[i] /\ y[j + 1] = e[i + 1]
  BY <1>4, <1>6, <1>7
<1>9. x[j] # x[j + 1] /\ y[j] = x[j + 1] /\ y[j + 1] = x[j]
  BY <1>8 DEF SwappedAt
<1>10. ASSUME NEW k \in 1..(n + m), k # j, k # j + 1 PROVE x[k] = y[k]
  <2>1. CASE k <= n
    <3>1. k \in 1..n
      BY <2>1
    <3> QED BY <1>4, <1>6, <3>1
  <2>2. CASE k > n
    <3>1. PICK l \in 1..m : k = n + l
      <4>1. k - n \in 1..m /\ k = n + (k - n)
        BY <2>2
      <4> QED BY <4>1
    <3>2. l # i /\ l # i + 1
      BY <1>7, <1>10, <3>1
    <3>3. d[l] = e[l]
      BY <1>3, <3>2 DEF SwappedAt
    <3> QED BY <1>4, <1>6, <3>1, <3>3
  <2> QED BY <2>1, <2>2
<1>11. /\ j \in 1..(Len(x) - 1) /\ Len(x) = Len(y)
       /\ \A k \in 1..Len(x) : k # j /\ k # j + 1 => x[k] = y[k]
  BY <1>4, <1>6, <1>7, <1>10
<1> QED BY <1>1, <1>2, <1>9, <1>11, SwappedApart

\* What a wallet of segwit looks like.
ProgramOf(hash) == Pays(IF Len(hash) = 20 THEN "P2WPKH" ELSE "P2WSH", hash)
Segwitted(t, h, d, hash) ==
  /\ t = [prefix |-> h, data |-> d, case |-> "lower", blanks |-> FALSE, starts |-> "like bech32",
          names |-> ProgramOf(hash)]
  /\ h \in {bc, ltc} /\ d \in Seq(Groups5) /\ Len(d) >= 7
  /\ SubSeq(d, 1, Len(d) - 6) = <<0>> \o Padded(hash)
  /\ Polymod(Bech32Table, Bech32Prefix(h) \o d) = Unit(6)

\* The prefixes come to groups of five.
LEMMA PrefixType ==
  ASSUME NEW hrp \in {bc, ltc}
  PROVE  Bech32Prefix(hrp) \in Seq(Groups5)
BY PrefixOfBitcoin, PrefixOfLitecoin

\* What wallets make is of that form, with the checksum that bech32Polymod accepts.
LEMMA AddressIsSegwitted ==
  ASSUME NEW hrp \in {bc, ltc}, NEW hash \in Seq(Octets)
  PROVE  \E d : Segwitted(Bech32Address(hrp, 0, hash), hrp, d, hash)
<1>1. PICK f, g : f = Bech32Prefix(hrp) /\ g = Padded(hash)
  OBVIOUS
<1>2. f \in Seq(Groups5) /\ g \in Seq(Groups5)
  BY <1>1, PrefixType, PaddedIs
<1>3. PICK n \in Nat : n = Len(g)
  BY <1>2
<1>4. PICK z : z = <<0>>
  OBVIOUS
<1>5. z \in Seq(Groups5) /\ Len(z) = 1
  BY <1>4 DEF Groups5
<1>6. PICK d : d = z \o g
  OBVIOUS
<1>7. d \in Seq(Groups5) /\ Joined(d, z, g)
  BY <1>2, <1>5, <1>6, Joining
<1>8. Len(d) = n + 1
  BY <1>3, <1>5, <1>7 DEF Joined
<1>9. PICK x : x = f \o d
  OBVIOUS
<1>10. x \in Seq(Groups5)
  BY <1>2, <1>7, <1>9, Joining
<1>11. PICK sum : sum = Polymod(Bech32Table, x \o [i \in 1..6 |-> 0])
  OBVIOUS
<1>12. PICK v : v = XorAll(sum, Unit(6))
  OBVIOUS
<1>13. v \in Sum6 /\ Polymod(Bech32Table, x \o v) = Unit(6)
  BY <1>10, <1>11, <1>12, Bech32IsTable, ChecksumCompletes
<1>14. PICK e : e = d \o v
  OBVIOUS
<1>15. Followed(e, d, v)
  BY <1>7, <1>13, <1>14, FollowedBySix
<1>16. x \o v = f \o e
  <2>1. v \in Seq(Groups5)
    BY <1>13, SeqOfFunction DEF Sum6
  <2> QED BY <1>2, <1>7, <1>9, <1>14, <2>1, ConcatAssociative
<1>17. SubSeq(e, 1, Len(e) - 6) = d
  <2>1. Len(e) = n + 7 /\ Len(e) - 6 = n + 1 /\ e \in Seq(Groups5)
    BY <1>8, <1>15 DEF Followed
  <2>2. \A i \in 1..(n + 1) : e[i] = d[i]
    BY <1>8, <1>15 DEF Followed
  <2>3. SubSeq(e, 1, n + 1) = [i \in 1..(n + 1) |-> e[i]]
    BY <2>1
  <2>4. d = [i \in 1..(n + 1) |-> d[i]]
    BY <1>7, <1>8
  <2> QED BY <2>1, <2>2, <2>3, <2>4
<1>18. PICK t : t = Bech32Address(hrp, 0, hash)
  OBVIOUS
<1>19. t = [prefix |-> hrp, data |-> e, case |-> "lower", blanks |-> FALSE, starts |-> "like bech32",
            names |-> ProgramOf(hash)]
  BY <1>1, <1>4, <1>6, <1>9, <1>11, <1>12, <1>14, <1>18 DEF Bech32Address, Text, ProgramOf
<1>20. Len(e) >= 7 /\ e \in Seq(Groups5)
  BY <1>8, <1>15 DEF Followed
<1>21. Segwitted(t, hrp, e, hash)
  BY <1>1, <1>4, <1>6, <1>13, <1>16, <1>17, <1>19, <1>20 DEF Segwitted
<1> QED BY <1>18, <1>21

\* Twenty bytes fill 32 groups, 32 bytes 52 groups but for four bits.
LEMMA PaddedIsRead ==
  ASSUME NEW hash \in Seq(Octets), Len(hash) \in {20, 32}
  PROVE  ConvertBits(Padded(hash), 5, 8).ok /\ ConvertBits(Padded(hash), 5, 8).out = hash
<1>1. Filled(20, 32) /\ Filled(32, 52)
  BY DEF Filled
<1>2. PICK m : Filled(Len(hash), m)
  BY <1>1
<1> QED BY <1>2, ReadAgain

\* A wallet of segwit gives the script of what it names.
LEMMA SegwitIsPaid ==
  ASSUME NEW t, NEW h, NEW d, NEW hash \in Seq(Octets), Len(hash) \in {20, 32}, Segwitted(t, h, d, hash)
  PROVE  BuildOutputScript(t) = t.names /\ t.names = ProgramOf(hash)
<1>1. PICK g : g = Padded(hash)
  OBVIOUS
<1>2. g \in Seq(Groups5) /\ ConvertBits(g, 5, 8).ok /\ ConvertBits(g, 5, 8).out = hash
  BY <1>1, PaddedIs, PaddedIsRead
<1>3. PICK c : c = SubSeq(d, 1, Len(d) - 6)
  OBVIOUS
<1>4. c = <<0>> \o g
  BY <1>1, <1>3 DEF Segwitted
<1>5. Tail(c) = g /\ c # <<>> /\ c[1] = 0
  <2>1. <<0>> \in Seq(Groups5)
    BY DEF Groups5
  <2> QED BY <1>2, <1>4, <2>1
<1>6. /\ t.prefix = h /\ t.data = d /\ t.case = "lower" /\ t.blanks = FALSE /\ t.starts = "like bech32"
      /\ t.names = ProgramOf(hash)
  BY DEF Segwitted
<1>7. ~(Len(d) < 6)
  <2>1. d \in Seq(Groups5) /\ Len(d) >= 7
    BY DEF Segwitted
  <2> QED BY <2>1
<1>8. Polymod(Bech32Table, Bech32Prefix(h) \o d) = Unit(6)
  BY DEF Segwitted
<1>9. BuildSegwitScript(t) = Pays(IF Len(hash) = 20 THEN "P2WPKH" ELSE "P2WSH", hash)
  <2>1. SubSeq(t.data, 1, Len(t.data) - 6) = c
    BY <1>3, <1>6
  <2>2. ~(c[1] > 16) /\ ~(c[1] > 0)
    BY <1>5
  <2>3. ~(t.case = "mixed") /\ ~t.blanks /\ ~(Len(t.data) < 6)
    BY <1>6, <1>7
  <2>4. Polymod(Bech32Table, Bech32Prefix(t.prefix) \o t.data) = Unit(6)
    BY <1>6, <1>8
  <2> QED BY <1>2, <1>5, <2>1, <2>2, <2>3, <2>4 DEF BuildSegwitScript
<1> QED BY <1>6, <1>9 DEF BuildOutputScript, ProgramOf

\* A text of the form of segwit that another checksum ends gives none.
LEMMA WrongSum ==
  ASSUME NEW t, t.starts = "like bech32",
         Polymod(Bech32Table, Bech32Prefix(t.prefix) \o t.data) # Unit(6)
  PROVE  BuildOutputScript(t) = Nothing
BY DEF BuildOutputScript, BuildSegwitScript

\* Nor does a spoilt one.
LEMMA SpoiltIsNotPaid ==
  ASSUME NEW t, NEW h, NEW d, NEW hash, Segwitted(t, h, d, hash), NEW u \in Spoilt(t)
  PROVE  BuildOutputScript(u) = Nothing
<1>1. PICK f : f = Bech32Prefix(h)
  OBVIOUS
<1>2. f \in Seq(Groups5) /\ d \in Seq(Groups5) /\ h \in {bc, ltc}
  BY <1>1, PrefixType DEF Segwitted
<1>3. Polymod(Bech32Table, f \o d) = Unit(6)
  BY <1>1 DEF Segwitted
<1>4. PICK n \in Nat : n = Len(d)
  BY <1>2
<1>5. PICK names : t = [prefix |-> h, data |-> d, case |-> "lower", blanks |-> FALSE,
                        starts |-> "like bech32", names |-> names]
  BY DEF Segwitted
<1>a. t.data = d
  BY <1>5
<1>b. ASSUME NEW e PROVE /\ Rewritten(t, e).prefix = h /\ Rewritten(t, e).data = e
                         /\ Rewritten(t, e).starts = "like bech32"
  BY <1>5 DEF Rewritten
<1>6. CASE u \in OneChanged(t)
  <2>a. PICK i \in DOMAIN t.data, k \in 1..31 : u = Rewritten(t, Altered(t.data, i, k))
    BY <1>6 DEF OneChanged
  <2>1. i \in DOMAIN d /\ u = Rewritten(t, Altered(d, i, k))
    BY <1>a, <2>a
  <2>2. i \in 1..n
    BY <1>2, <1>4, <2>1
  <2>3. PICK a \in 0..31 : a = d[i]
    <3>1. d[i] \in Groups5
      BY <1>2, <1>4, <2>2
    <3> QED BY <3>1 DEF Groups5
  <2>4. PICK b \in 0..31 : b = (a + k) % 32 /\ a # b
    <3>1. CASE a + k < 32
      BY <3>1
    <3>2. CASE ~(a + k < 32)
      <4>1. (a + k) % 32 = a + k - 32
        BY <3>2
      <4> QED BY <3>2, <4>1
    <3> QED BY <3>1, <3>2
  <2>5. PICK e : e = [d EXCEPT ![i] = b]
    OBVIOUS
  <2>6. u.prefix = h /\ u.data = e /\ u.starts = "like bech32"
    <3>1. e = Altered(d, i, k)
      BY <2>3, <2>4, <2>5 DEF Altered
    <3> QED BY <1>b, <2>1, <3>1
  <2>7. e \in Seq(Groups5) /\ DiffersAt(d, e, i)
    <3>1. b \in Groups5
      BY DEF Groups5
    <3>2. e \in Seq(Groups5) /\ Len(e) = n
      BY <1>2, <1>4, <2>2, <2>5, <3>1
    <3>3. e[i] = b /\ \A k2 \in 1..n : k2 # i => e[k2] = d[k2]
      BY <1>2, <1>4, <2>2, <2>5
    <3> QED BY <1>4, <2>3, <2>4, <3>2, <3>3 DEF DiffersAt
  <2>8. Polymod(Bech32Table, f \o e) # Unit(6)
    BY <1>2, <1>3, <1>4, <2>2, <2>7, OneApartAfter
  <2> QED BY <1>1, <2>6, <2>8, WrongSum
<1>7. CASE u \in TwoSwapped(t)
  <2>1. PICK i \in 1..(n - 1) : d[i] # d[i + 1] /\ u = Rewritten(t, [d EXCEPT ![i] = d[i + 1], ![i + 1] = d[i]])
    BY <1>4, <1>a, <1>7 DEF TwoSwapped
  <2>2. i \in 1..n /\ i + 1 \in 1..n /\ i # i + 1
    OBVIOUS
  <2>3. PICK a \in Groups5, b \in Groups5 : a = d[i] /\ b = d[i + 1]
    BY <1>2, <1>4, <2>2
  <2>4. PICK e : e = [[d EXCEPT ![i] = b] EXCEPT ![i + 1] = a]
    OBVIOUS
  <2>5. u.prefix = h /\ u.data = e /\ u.starts = "like bech32"
    BY <1>b, <2>1, <2>3, <2>4
  <2>6. e \in Seq(Groups5) /\ Len(e) = n
    BY <1>2, <1>4, <2>2, <2>3, <2>4
  <2>7. e[i] = b /\ e[i + 1] = a /\ \A k \in 1..n : k # i /\ k # i + 1 => e[k] = d[k]
    BY <1>2, <1>4, <2>2, <2>4
  <2>8. SwappedAt(d, e, i)
    BY <1>4, <2>1, <2>3, <2>6, <2>7 DEF SwappedAt
  <2>9. Polymod(Bech32Table, f \o e) # Unit(6)
    BY <1>2, <1>3, <1>4, <2>1, <2>6, <2>8, SwappedApartAfter
  <2> QED BY <1>1, <2>5, <2>9, WrongSum
<1>8. CASE u = OtherPrefix(t)
  <2>1. PICK o : o = IF h = bc THEN ltc ELSE bc
    OBVIOUS
  <2>2. u.prefix = o /\ u.data = d /\ u.starts = "like bech32"
    BY <1>5, <1>8, <2>1 DEF OtherPrefix
  <2>3. Polymod(Bech32Table, Bech32Prefix(o) \o d) # Unit(6)
    <3>1. Polymod(Bech32Table, Bech32Prefix(bc) \o d) # Polymod(Bech32Table, Bech32Prefix(ltc) \o d)
      BY <1>2, PrefixesApart
    <3>2. (h = bc /\ o = ltc) \/ (h = ltc /\ o = bc)
      BY <1>2, <2>1
    <3> QED BY <1>1, <1>3, <3>1, <3>2
  <2> QED BY <2>2, <2>3, WrongSum
<1>9. CASE u = MixedCase(t)
  <2>1. u.case = "mixed" /\ u.starts = "like bech32"
    BY <1>5, <1>9 DEF MixedCase
  <2> QED BY <2>1 DEF BuildOutputScript, BuildSegwitScript
<1>10. CASE u = Shortened(t)
  <2>1. PICK e, v : e = SubSeq(d, 1, n - 1) /\ v = d[n]
    OBVIOUS
  <2>2. u.prefix = h /\ u.data = e /\ u.starts = "like bech32"
    BY <1>4, <1>a, <1>b, <1>10, <2>1 DEF Shortened
  <2>3. n >= 7
    BY <1>4 DEF Segwitted
  <2>4. e \in Seq(Groups5) /\ v \in Groups5 /\ d = Append(e, v)
    BY <1>2, <1>4, <2>1, <2>3
  <2>5. PICK x : x = f \o e
    OBVIOUS
  <2>6. x \in Seq(Groups5) /\ f \o d = Append(x, v)
    BY <1>2, <2>4, <2>5
  <2>7. Polymod(Bech32Table, x) # Unit(6)
    BY <1>3, <2>4, <2>6, ShortApart
  <2> QED BY <1>1, <2>2, <2>5, <2>7, WrongSum
<1> QED BY <1>6, <1>7, <1>8, <1>9, <1>10 DEF Spoilt

-----------------------------------------------------------------------------
(* Base 58: multiplying by the other base.                                *)

\* The digits of a base, and the two bases.
DigitsOf(b) == 0..(b - 1)
Bases(from, to) == (from = 256 /\ to = 58) \/ (from = 58 /\ to = 256)

\* A digit times the other base and a carry: the digit written and the carry left.
CarryStep(q, r, n, c, from, to) ==
  /\ q = (n * from + c) \div to /\ r = (n * from + c) % to
  /\ q \in DigitsOf(from) /\ r \in DigitsOf(to) /\ n * from + c = to * q + r
  /\ n # 0 /\ q = 0 => r # 0

CarriedOver(a, b, max, q, r) ==
  q \in 0..max /\ r \in 0..(b - 1) /\ a = b * q + r /\ q = a \div b /\ r = a % b

\* A number small enough is carried over to base 58,
LEMMA Divided58 ==
  ASSUME NEW a \in Nat, a <= 14847
  PROVE  CarriedOver(a, 58, 255, a \div 58, a % 58)
<1>1. PICK q \in Int, r \in Int : q = a \div 58 /\ r = a % 58
  OBVIOUS
<1>2. a = 58 * q + r /\ 0 <= r /\ r <= 57
  BY <1>1
<1>3. \A x \in Int, y \in Int : a = 58 * x + y /\ 0 <= y /\ y <= 57 => x >= 0 /\ x <= 255
  OBVIOUS
<1>4. q >= 0 /\ q <= 255
  BY <1>2, <1>3
<1> QED BY <1>1, <1>2, <1>4 DEF CarriedOver

\* and to base 256.
LEMMA Divided256 ==
  ASSUME NEW a \in Nat, a <= 14847
  PROVE  CarriedOver(a, 256, 57, a \div 256, a % 256)
<1>1. PICK q \in Int, r \in Int : q = a \div 256 /\ r = a % 256
  OBVIOUS
<1>2. a = 256 * q + r /\ 0 <= r /\ r <= 255
  BY <1>1
<1>3. \A x \in Int, y \in Int : a = 256 * x + y /\ 0 <= y /\ y <= 255 => x >= 0 /\ x <= 57
  OBVIOUS
<1>4. q >= 0 /\ q <= 57
  BY <1>2, <1>3
<1> QED BY <1>1, <1>2, <1>4 DEF CarriedOver

\* With a carry below the one base and a digit below the other, so are the next.
LEMMA CarriesOn ==
  ASSUME NEW from, NEW to, Bases(from, to), NEW n \in DigitsOf(to), NEW c \in DigitsOf(from)
  PROVE  CarryStep((n * from + c) \div to, (n * from + c) % to, n, c, from, to)
<1>1. CASE from = 256 /\ to = 58
  <2>1. n \in 0..57 /\ c \in 0..255
    BY <1>1 DEF DigitsOf
  <2>2. PICK a \in Nat : a = n * 256 + c /\ a <= 14847
    <3>1. n * 256 + c \in Nat /\ n * 256 + c <= 14847
      BY <2>1
    <3> QED BY <3>1
  <2>3. PICK q, r : CarriedOver(a, 58, 255, q, r)
    <3>1. CarriedOver(a, 58, 255, a \div 58, a % 58)
      BY <2>2, Divided58
    <3> QED BY <3>1
  <2>4. n # 0 /\ q = 0 => r # 0
    <3>1. a = 58 * q + r /\ q \in Nat /\ r \in Nat
      BY <2>3 DEF CarriedOver
    <3> QED BY <2>1, <2>2, <3>1
  <2> QED BY <1>1, <2>2, <2>3, <2>4 DEF CarryStep, DigitsOf, CarriedOver
<1>2. CASE from = 58 /\ to = 256
  <2>1. n \in 0..255 /\ c \in 0..57
    BY <1>2 DEF DigitsOf
  <2>2. PICK a \in Nat : a = n * 58 + c /\ a <= 14847
    <3>1. n * 58 + c \in Nat /\ n * 58 + c <= 14847
      BY <2>1
    <3> QED BY <3>1
  <2>3. PICK q, r : CarriedOver(a, 256, 57, q, r)
    <3>1. CarriedOver(a, 256, 57, a \div 256, a % 256)
      BY <2>2, Divided256
    <3> QED BY <3>1
  <2>4. n # 0 /\ q = 0 => r # 0
    <3>1. a = 256 * q + r /\ q \in Nat /\ r \in Nat
      BY <2>3 DEF CarriedOver
    <3> QED BY <2>1, <2>2, <3>1
  <2> QED BY <1>2, <2>2, <2>3, <2>4 DEF CarryStep, DigitsOf, CarriedOver
<1> QED BY <1>1, <1>2 DEF Bases

\* The carries of a number times a base.
CarriesOf(c, n, d, from, to) ==
  /\ c = Carries(n, d, from, to) /\ c[0] = d
  /\ \A i \in 0..Len(n) : c[i] \in DigitsOf(from)
  /\ \A i \in 1..Len(n) : CarryStep(c[i], (n[i] * from + c[i - 1]) % to, n[i], c[i - 1], from, to)

\* The carries of b58Decode and of its counterpart, all of them below the base.
LEMMA CarriesExist ==
  ASSUME NEW from, NEW to, Bases(from, to), NEW n \in Seq(DigitsOf(to)), NEW d \in DigitsOf(from)
  PROVE  \E c : CarriesOf(c, n, d, from, to)
<1>1. PICK m \in Nat : m = Len(n)
  OBVIOUS
<1>2. \A i \in 1..m : n[i] \in DigitsOf(to)
  BY <1>1
<1> DEFINE step == [i \in 1..m |-> [x \in DigitsOf(from) |-> (n[i] * from + x) \div to]]
<1>3. step \in [1..m -> [DigitsOf(from) -> DigitsOf(from)]]
  <2>1. \A i \in 1..m : \A x \in DigitsOf(from) : (n[i] * from + x) \div to \in DigitsOf(from)
    <3> TAKE i \in 1..m
    <3> TAKE x \in DigitsOf(from)
    <3>1. CarryStep((n[i] * from + x) \div to, (n[i] * from + x) % to, n[i], x, from, to)
      BY <1>2, CarriesOn
    <3> QED BY <3>1 DEF CarryStep
  <2> QED BY <2>1
<1>4. PICK g : Iterates(g, m, DigitsOf(from), d, step)
  <2> HIDE DEF step
  <2> QED BY <1>3, Iterated
<1>5. \A i \in 1..m : g[i] = (n[i] * from + g[i - 1]) \div to
  <2> TAKE i \in 1..m
  <2>1. i - 1 \in 0..m
    OBVIOUS
  <2>2. g[i - 1] \in DigitsOf(from)
    BY <1>4, <2>1 DEF Iterates
  <2>3. g[i] = step[i][g[i - 1]]
    BY <1>4 DEF Iterates
  <2> QED BY <2>2, <2>3
<1> DEFINE Is(f) == f = [i \in 0..Len(n) |-> IF i = 0 THEN d ELSE (n[i] * from + f[i - 1]) \div to]
<1>6. Is(g)
  <2>1. g = [i \in 0..m |-> g[i]] /\ g[0] = d
    BY <1>4 DEF Iterates
  <2>2. \A i \in 0..m : i = 0 \/ i \in 1..m
    OBVIOUS
  <2>3. \A i \in 0..m : g[i] = IF i = 0 THEN d ELSE (n[i] * from + g[i - 1]) \div to
    BY <1>5, <2>1, <2>2
  <2> QED BY <1>1, <2>1, <2>3
<1>7. PICK c : c = Carries(n, d, from, to)
  OBVIOUS
<1>8. c = [i \in 0..m |-> IF i = 0 THEN d ELSE (n[i] * from + c[i - 1]) \div to]
  <2>1. c = CHOOSE f : Is(f)
    BY <1>7 DEF Carries
  <2>2. Is(c)
    <3> HIDE DEF Is
    <3> QED BY <1>6, <2>1
  <2> QED BY <1>1, <2>2
<1>9. c[0] = d
  BY <1>8
<1>10. \A i \in 1..m : c[i] = (n[i] * from + c[i - 1]) \div to
  BY <1>8
<1> DEFINE T == {k \in 0..m : c[k] \in DigitsOf(from)}
<1>11. 0 \in T
  BY <1>9
<1>12. ASSUME NEW k \in 0..(m - 1), k \in T PROVE k + 1 \in T
  <2>1. k + 1 \in 1..m /\ (k + 1) - 1 = k /\ k + 1 \in 0..m
    OBVIOUS
  <2>2. c[k + 1] = (n[k + 1] * from + c[k]) \div to /\ n[k + 1] \in DigitsOf(to) /\ c[k] \in DigitsOf(from)
    BY <1>2, <1>10, <1>12, <2>1
  <2>3. CarryStep(c[k + 1], (n[k + 1] * from + c[k]) % to, n[k + 1], c[k], from, to)
    BY <2>2, CarriesOn
  <2> QED BY <2>1, <2>3 DEF CarryStep
<1>13. \A k \in 0..m : c[k] \in DigitsOf(from)
  <2> HIDE DEF T
  <2>1. \A k \in 0..m : k \in T
    BY <1>11, <1>12, Reached
  <2> QED BY <2>1 DEF T
<1>14. ASSUME NEW i \in 1..m PROVE CarryStep(c[i], (n[i] * from + c[i - 1]) % to, n[i], c[i - 1], from, to)
  <2>1. i - 1 \in 0..m
    OBVIOUS
  <2> QED BY <1>2, <1>10, <1>13, <2>1, CarriesOn
<1> QED BY <1>1, <1>7, <1>9, <1>13, <1>14 DEF CarriesOf

\* The numbers that the first digits of s are in base b, the highest digit first.
ValuesOf(v, s, b) ==
  v \in [0..Len(s) -> Nat] /\ v[0] = 0 /\ \A i \in 1..Len(s) : v[i] = b * v[i - 1] + s[i]

\* Every sequence of digits has them.
LEMMA ValuesExist ==
  ASSUME NEW b \in {58, 256}, NEW s \in Seq(DigitsOf(b))
  PROVE  \E v : ValuesOf(v, s, b)
<1>1. PICK m \in Nat : m = Len(s)
  OBVIOUS
<1>2. \A i \in 1..m : s[i] \in Nat
  <2>1. \A i \in 1..m : s[i] \in DigitsOf(b)
    BY <1>1
  <2>2. DigitsOf(b) \subseteq Nat
    BY DEF DigitsOf
  <2> QED BY <2>1, <2>2
<1> DEFINE next(i, x) == b * x + s[i]
           step == [i \in 1..m |-> [x \in Nat |-> next(i, x)]]
<1>3. step \in [1..m -> [Nat -> Nat]]
  <2>1. \A x \in Nat, y \in Nat : b * x + y \in Nat
    <3>1. \A x \in Nat, y \in Nat : 58 * x + y \in Nat /\ 256 * x + y \in Nat
      OBVIOUS
    <3> QED BY <3>1
  <2>2. \A i \in 1..m : \A x \in Nat : next(i, x) \in Nat
    BY <1>2, <2>1
  <2> HIDE DEF next
  <2> QED BY <2>2
<1>4. PICK v : Iterates(v, m, Nat, 0, step)
  <2> HIDE DEF step
  <2> QED BY <1>3, Iterated
<1>5. \A i \in 1..m : v[i] = b * v[i - 1] + s[i]
  <2> TAKE i \in 1..m
  <2>1. i - 1 \in 0..m
    OBVIOUS
  <2>2. v[i - 1] \in Nat
    BY <1>4, <2>1 DEF Iterates
  <2>3. v[i] = step[i][v[i - 1]]
    BY <1>4 DEF Iterates
  <2> QED BY <2>2, <2>3
<1>6. v \in [0..m -> Nat] /\ v[0] = 0
  BY <1>4 DEF Iterates
<1> QED BY <1>1, <1>5, <1>6 DEF ValuesOf

\* The digits that a last carry adds, the lowest first.
Extra(e, last, to) ==
  /\ e \in Seq(DigitsOf(to)) /\ Len(e) \in 0..2
  /\ Len(e) = 0 => last = 0
  /\ Len(e) = 1 => e[1] = last /\ last # 0
  /\ Len(e) = 2 => last = to * e[2] + e[1] /\ e[2] # 0

\* The last carry is written in two digits at most, the highest of them not 0.
LEMMA ExtraIs ==
  ASSUME NEW from, NEW to, Bases(from, to), NEW last \in DigitsOf(from)
  PROVE  Extra(IF last = 0 THEN <<>> ELSE IF last < to THEN <<last>> ELSE <<last % to, last \div to>>, last, to)
<1>1. CASE last = 0
  BY <1>1 DEF Extra
<1>2. CASE last # 0 /\ last < to
  <2>1. last \in DigitsOf(to)
    BY <1>2 DEF Bases, DigitsOf
  <2>2. <<last>> \in Seq(DigitsOf(to)) /\ Len(<<last>>) = 1 /\ <<last>>[1] = last
    BY <2>1
  <2>3. Extra(<<last>>, last, to)
    BY <1>2, <2>2 DEF Extra
  <2> QED BY <1>2, <2>3
<1>3. CASE last # 0 /\ ~(last < to)
  <2>1. from = 256 /\ to = 58 /\ last \in Nat /\ last <= 255
    BY <1>3 DEF Bases, DigitsOf
  <2>2. PICK q, r : CarriedOver(last, 58, 255, q, r)
    <3>1. CarriedOver(last, 58, 255, last \div 58, last % 58)
      BY <2>1, Divided58
    <3> QED BY <3>1
  <2>3. q \in Nat /\ r \in 0..57 /\ last = 58 * q + r /\ q = last \div 58 /\ r = last % 58
    BY <2>2 DEF CarriedOver
  <2>4. q # 0 /\ q \in 0..57
    BY <1>3, <2>1, <2>3
  <2>5. q \in DigitsOf(to) /\ r \in DigitsOf(to)
    BY <2>1, <2>3, <2>4 DEF DigitsOf
  <2>6. <<r, q>> \in Seq(DigitsOf(to)) /\ Len(<<r, q>>) = 2 /\ <<r, q>>[1] = r /\ <<r, q>>[2] = q
    BY <2>5
  <2>7. Extra(<<r, q>>, last, to)
    BY <2>1, <2>3, <2>4, <2>6 DEF Extra
  <2> QED BY <1>3, <2>1, <2>3, <2>7
<1> QED BY <1>1, <1>2, <1>3

\* One place of a number times the other base, with its carries.
LEMMA OnePlace ==
  ASSUME NEW from, NEW to, Bases(from, to), NEW x \in Nat, NEW n \in Nat,
         NEW c \in Nat, NEW q \in Nat, NEW r \in Nat, NEW y \in Nat,
         n * from + c = to * q + r, y = from * x + q
  PROVE  to * y + r = from * (to * x + n) + c
<1>1. CASE from = 256 /\ to = 58
  BY <1>1
<1>2. CASE from = 58 /\ to = 256
  BY <1>2
<1> QED BY <1>1, <1>2 DEF Bases

\* r is s from the end.
Turned(r, s) == r = Sequence!Reverse(s) /\ Len(r) = Len(s) /\ \A i \in 1..Len(s) : r[i] = s[Len(s) - i + 1]

\* Reversing a sequence.
LEMMA Turning ==
  ASSUME NEW S, NEW s \in Seq(S)
  PROVE  Sequence!Reverse(s) \in Seq(S) /\ Turned(Sequence!Reverse(s), s)
<1>1. PICK m \in Nat : m = Len(s)
  OBVIOUS
<1>2. PICK r : r = Sequence!Reverse(s)
  OBVIOUS
<1>3. r = [i \in 1..m |-> s[(m - i) + 1]]
  BY <1>1, <1>2 DEF Sequence!Reverse
<1>4. \A i \in 1..m : (m - i) + 1 \in 1..m /\ (m - i) + 1 = m - i + 1
  OBVIOUS
<1>5. r \in [1..m -> S]
  <2>1. \A i \in 1..m : s[i] \in S
    BY <1>1
  <2> QED BY <1>3, <1>4, <2>1
<1>6. r \in Seq(S) /\ Len(r) = m
  BY <1>5, SeqOfFunction
<1> QED BY <1>1, <1>2, <1>3, <1>4, <1>6 DEF Turned

\* n are the digits of x in base b, the lowest first, without a zero at the end.
Represents(n, x, b) ==
  /\ n \in Seq(DigitsOf(b)) /\ (Len(n) # 0 => n[Len(n)] # 0)
  /\ \E v : ValuesOf(v, Sequence!Reverse(n), b) /\ v[Len(n)] = x

\* No digits are 0.
LEMMA NothingRepresentsZero ==
  ASSUME NEW b
  PROVE  Represents(<<>>, 0, b)
<1>1. Sequence!Reverse(<<>>) = <<>>
  BY DEF Sequence!Reverse
<1> DEFINE v == [i \in 0..0 |-> 0]
<1>2. ValuesOf(v, <<>>, b)
  BY DEF ValuesOf
<1>3. v[0] = 0
  OBVIOUS
<1> HIDE DEF v
<1> QED BY <1>1, <1>2, <1>3 DEF Represents

\* What a number times a base and a digit more is made of.
TimesOf(t, n, o, e, c, d, from, to) ==
  /\ t = Times(n, d, from, to) /\ CarriesOf(c, n, d, from, to) /\ Extra(e, c[Len(n)], to)
  /\ o \in Seq(DigitsOf(to)) /\ Len(o) = Len(n)
  /\ \A i \in 1..Len(n) : CarryStep(c[i], o[i], n[i], c[i - 1], from, to)
  /\ t \in Seq(DigitsOf(to)) /\ Joined(t, o, e)

\* Every number has such a product.
LEMMA TimesIs ==
  ASSUME NEW from, NEW to, Bases(from, to), NEW n \in Seq(DigitsOf(to)), NEW d \in DigitsOf(from)
  PROVE  \E t, o, e, c : TimesOf(t, n, o, e, c, d, from, to)
<1>1. PICK c : CarriesOf(c, n, d, from, to)
  BY CarriesExist
<1>2. PICK m \in Nat : m = Len(n)
  OBVIOUS
<1>3. PICK o : o = [i \in 1..m |-> (n[i] * from + c[i - 1]) % to]
  OBVIOUS
<1>4. PICK e : e = IF c[m] = 0 THEN <<>> ELSE IF c[m] < to THEN <<c[m]>> ELSE <<c[m] % to, c[m] \div to>>
  OBVIOUS
<1>5. PICK t : t = o \o e
  OBVIOUS
<1>6. t = Times(n, d, from, to)
  BY <1>1, <1>2, <1>3, <1>4, <1>5 DEF Times, CarriesOf
<1>7. \A i \in 1..m : CarryStep(c[i], o[i], n[i], c[i - 1], from, to)
  BY <1>1, <1>2, <1>3 DEF CarriesOf
<1>8. o \in Seq(DigitsOf(to)) /\ Len(o) = m
  <2>1. \A i \in 1..m : o[i] \in DigitsOf(to)
    BY <1>7 DEF CarryStep
  <2>2. o \in [1..m -> DigitsOf(to)]
    BY <1>3, <2>1
  <2> QED BY <2>2, SeqOfFunction
<1>9. Extra(e, c[m], to)
  <2>1. m \in 0..m
    OBVIOUS
  <2>2. c[m] \in DigitsOf(from)
    BY <1>1, <1>2, <2>1 DEF CarriesOf
  <2> QED BY <1>4, <2>2, ExtraIs
<1>10. t \in Seq(DigitsOf(to)) /\ Joined(t, o, e)
  <2>1. e \in Seq(DigitsOf(to))
    BY <1>9 DEF Extra
  <2> QED BY <1>5, <1>8, <2>1, Joining
<1>11. TimesOf(t, n, o, e, c, d, from, to)
  BY <1>1, <1>2, <1>6, <1>7, <1>8, <1>9, <1>10 DEF TimesOf
<1> QED BY <1>11

\* Times is what its name says: the number times the base, and the digit more.
LEMMA TimesRepresents ==
  ASSUME NEW from, NEW to, Bases(from, to), NEW n, NEW x \in Nat, Represents(n, x, to),
         NEW d \in DigitsOf(from)
  PROVE  Represents(Times(n, d, from, to), from * x + d, to)
<1>1. n \in Seq(DigitsOf(to)) /\ (Len(n) # 0 => n[Len(n)] # 0)
  BY DEF Represents
<1>2. PICK X : ValuesOf(X, Sequence!Reverse(n), to) /\ X[Len(n)] = x
  BY DEF Represents
<1>3. PICK t, o, e, c : TimesOf(t, n, o, e, c, d, from, to)
  BY <1>1, TimesIs
<1>4. PICK m \in Nat, k \in 0..2 : m = Len(n) /\ k = Len(e) /\ Len(t) = m + k
  <2>1. Extra(e, c[Len(n)], to) /\ Joined(t, o, e) /\ Len(o) = Len(n)
    BY <1>3 DEF TimesOf
  <2>2. Len(e) \in 0..2 /\ Len(t) = Len(n) + Len(e)
    BY <2>1 DEF Extra, Joined
  <2>3. Len(n) \in Nat
    BY <1>1
  <2> QED BY <2>2, <2>3
<1>5. PICK last : last = c[m]
  OBVIOUS
<1>6. PICK rn, rt : rn = Sequence!Reverse(n) /\ rt = Sequence!Reverse(t)
  OBVIOUS
<1>7. t \in Seq(DigitsOf(to))
  BY <1>3 DEF TimesOf
<1>8. rt \in Seq(DigitsOf(to)) /\ Turned(rt, t) /\ Turned(rn, n)
  BY <1>1, <1>6, <1>7, Turning
<1>9. PICK Y : ValuesOf(Y, rt, to)
  <2>1. to \in {58, 256}
    BY DEF Bases
  <2> QED BY <1>8, <2>1, ValuesExist
<1>10. /\ Len(rt) = m + k /\ Len(rn) = m
       /\ Y \in [0..(m + k) -> Nat] /\ Y[0] = 0 /\ \A i \in 1..(m + k) : Y[i] = to * Y[i - 1] + rt[i]
       /\ X \in [0..m -> Nat] /\ X[0] = 0 /\ \A i \in 1..m : X[i] = to * X[i - 1] + rn[i]
  BY <1>2, <1>4, <1>6, <1>8, <1>9 DEF ValuesOf, Turned
<1>11. \A i \in 1..k : t[m + i] = e[i]
  BY <1>3, <1>4 DEF TimesOf, Joined
<1>12. \A i \in 1..m : t[i] = o[i]
  BY <1>3, <1>4 DEF TimesOf, Joined
<1>13. Extra(e, last, to)
  BY <1>3, <1>4, <1>5 DEF TimesOf
<1>20. \A i \in 1..k : e[i] \in DigitsOf(to)
  <2>1. e \in Seq(DigitsOf(to))
    BY <1>13 DEF Extra
  <2> QED BY <1>4, <2>1
<1>14. Y[k] = last
  <2>1. CASE k = 0
    BY <1>4, <1>10, <1>13, <2>1 DEF Extra
  <2>2. CASE k = 1
    <3>1. rt[1] = t[m + 1]
      <4>1. 1 \in 1..(m + k) /\ (m + k) - 1 + 1 = m + 1
        BY <2>2
      <4> QED BY <1>4, <1>8, <4>1 DEF Turned
    <3>2. t[m + 1] = e[1] /\ e[1] = last /\ last \in Nat
      <4>1. 1 \in 1..k
        BY <2>2
      <4>2. e[1] = last /\ e[1] \in DigitsOf(to)
        BY <1>4, <1>13, <1>20, <2>2, <4>1 DEF Extra
      <4>3. DigitsOf(to) \subseteq Nat
        BY DEF DigitsOf
      <4> QED BY <1>11, <4>1, <4>2, <4>3
    <3>3. Y[1] = to * Y[0] + rt[1]
      <4>1. 1 \in 1..(m + k) /\ 1 - 1 = 0
        BY <2>2
      <4> QED BY <1>10, <4>1
    <3>4. to * 0 = 0
      BY DEF Bases
    <3> QED BY <1>10, <2>2, <3>1, <3>2, <3>3, <3>4
  <2>3. CASE k = 2
    <3>1. rt[1] = t[m + 2] /\ rt[2] = t[m + 1]
      <4>1. 1 \in 1..(m + k) /\ (m + k) - 1 + 1 = m + 2 /\ 2 \in 1..(m + k) /\ (m + k) - 2 + 1 = m + 1
        BY <2>3
      <4> QED BY <1>4, <1>8, <4>1 DEF Turned
    <3>2. t[m + 1] = e[1] /\ t[m + 2] = e[2]
      <4>1. 1 \in 1..k /\ 2 \in 1..k
        BY <2>3
      <4> QED BY <1>11, <4>1
    <3>3. e[1] \in Nat /\ e[2] \in Nat /\ last = to * e[2] + e[1]
      <4>1. e[1] \in DigitsOf(to) /\ e[2] \in DigitsOf(to) /\ last = to * e[2] + e[1]
        <5>1. 1 \in 1..k /\ 2 \in 1..k
          BY <2>3
        <5>2. last = to * e[2] + e[1]
          BY <1>4, <1>13, <2>3 DEF Extra
        <5> QED BY <1>20, <5>1, <5>2
      <4>2. DigitsOf(to) \subseteq Nat
        BY DEF DigitsOf
      <4> QED BY <4>1, <4>2
    <3>4. Y[1] = to * Y[0] + rt[1] /\ Y[2] = to * Y[1] + rt[2]
      <4>1. 1 \in 1..(m + k) /\ 1 - 1 = 0 /\ 2 \in 1..(m + k) /\ 2 - 1 = 1
        BY <2>3
      <4> QED BY <1>10, <4>1
    <3>5. to * 0 = 0
      BY DEF Bases
    <3>6. Y[1] = e[2]
      BY <1>10, <3>1, <3>2, <3>3, <3>4, <3>5
    <3> QED BY <2>3, <3>1, <3>2, <3>3, <3>4, <3>6
  <2> QED BY <2>1, <2>2, <2>3
<1> DEFINE T == {j \in 0..m : Y[k + j] = from * X[j] + c[m - j]}
<1>15. 0 \in T
  <2>1. from * 0 = 0 /\ k + 0 = k /\ m - 0 = m
    BY DEF Bases
  <2>2. last \in Nat
    <3>1. m \in 0..m /\ DigitsOf(from) \subseteq Nat
      BY DEF DigitsOf
    <3>2. c[m] \in DigitsOf(from)
      BY <1>3, <1>4, <3>1 DEF TimesOf, CarriesOf
    <3> QED BY <1>5, <3>1, <3>2
  <2> QED BY <1>5, <1>10, <1>14, <2>1, <2>2
<1>16. ASSUME NEW j \in 0..(m - 1), j \in T PROVE j + 1 \in T
  <2>1. PICK i \in 1..m : i = m - j
    OBVIOUS
  <2>2. /\ i - 1 = m - (j + 1) /\ j + 1 \in 1..m /\ (j + 1) - 1 = j /\ j + 1 \in 0..m
        /\ k + (j + 1) \in 1..(m + k) /\ k + (j + 1) - 1 = k + j /\ k + j \in 0..(m + k)
        /\ (m + k) - (k + (j + 1)) + 1 = i /\ m - (j + 1) + 1 = i /\ i \in 0..m /\ i - 1 \in 0..m
        /\ k + (j + 1) \in 0..(m + k)
    BY <2>1
  <2>3. CarryStep(c[i], o[i], n[i], c[i - 1], from, to)
    BY <1>3, <1>4 DEF TimesOf
  <2>4. rt[k + (j + 1)] = o[i]
    <3>1. rt[k + (j + 1)] = t[i]
      <4>1. PICK p \in 1..(m + k) : p = k + (j + 1) /\ (m + k) - p + 1 = i
        BY <2>2
      <4>2. rt[p] = t[(m + k) - p + 1]
        BY <1>4, <1>8, <4>1 DEF Turned
      <4> QED BY <4>1, <4>2
    <3> QED BY <1>12, <3>1
  <2>5. rn[j + 1] = n[i]
    BY <1>4, <1>8, <2>2 DEF Turned
  <2>6. /\ Y[k + (j + 1)] = to * Y[k + j] + o[i] /\ X[j + 1] = to * X[j] + n[i]
        /\ Y[k + j] = from * X[j] + c[i]
    BY <1>10, <1>16, <2>1, <2>2, <2>4, <2>5
  <2>7. X[j] \in Nat /\ Y[k + j] \in Nat
    BY <1>10, <2>2
  <2>8. n[i] \in Nat /\ c[i] \in Nat /\ c[i - 1] \in Nat /\ o[i] \in Nat
    <3>1. n[i] \in DigitsOf(to) /\ o[i] \in DigitsOf(to)
      BY <1>1, <1>3, <1>4 DEF TimesOf
    <3>2. c[i] \in DigitsOf(from) /\ c[i - 1] \in DigitsOf(from)
      BY <1>3, <1>4, <2>2 DEF TimesOf, CarriesOf
    <3>3. DigitsOf(from) \subseteq Nat /\ DigitsOf(to) \subseteq Nat
      BY DEF DigitsOf
    <3> QED BY <3>1, <3>2, <3>3
  <2>9. n[i] * from + c[i - 1] = to * c[i] + o[i]
    BY <2>3 DEF CarryStep
  <2>10. to * Y[k + j] + o[i] = from * (to * X[j] + n[i]) + c[i - 1]
    <3>1. PICK y \in Nat, z \in Nat : y = Y[k + j] /\ z = X[j]
      BY <2>7
    <3>2. PICK u \in Nat, q \in Nat, b \in Nat, r \in Nat : u = n[i] /\ q = c[i] /\ b = c[i - 1] /\ r = o[i]
      BY <2>8
    <3>3. u * from + b = to * q + r /\ y = from * z + q
      BY <2>6, <2>9, <3>1, <3>2
    <3>4. to * y + r = from * (to * z + u) + b
      BY <3>3, OnePlace
    <3> QED BY <3>1, <3>2, <3>4
  <2> QED BY <2>2, <2>6, <2>10
<1>17. Y[m + k] = from * x + d
  <2>1. \A j \in 0..m : j \in T
    <3> HIDE DEF T
    <3> QED BY <1>15, <1>16, Reached
  <2>2. m \in 0..m /\ m - m = 0 /\ k + m = m + k
    OBVIOUS
  <2>3. Y[k + m] = from * X[m] + c[m - m]
    BY <2>1, <2>2
  <2>4. c[0] = d
    BY <1>3 DEF TimesOf, CarriesOf
  <2> QED BY <1>2, <1>4, <2>2, <2>3, <2>4
<1>18. Len(t) # 0 => t[Len(t)] # 0
  <2>1. CASE k = 0 /\ m # 0
    <3>1. m \in 1..m /\ m + k = m
      BY <2>1
    <3>2. CarryStep(c[m], o[m], n[m], c[m - 1], from, to)
      BY <1>3, <1>4, <3>1 DEF TimesOf
    <3>3. c[m] = 0 /\ n[m] # 0
      BY <1>1, <1>4, <1>5, <1>13, <2>1 DEF Extra
    <3>4. o[m] # 0
      BY <3>2, <3>3 DEF CarryStep
    <3> QED BY <1>4, <1>12, <3>1, <3>4
  <2>2. CASE k = 1
    <3>1. 1 \in 1..k
      BY <2>2
    <3> QED BY <1>4, <1>11, <1>13, <2>2, <3>1 DEF Extra
  <2>3. CASE k = 2
    <3>1. 2 \in 1..k
      BY <2>3
    <3> QED BY <1>4, <1>11, <1>13, <2>3, <3>1 DEF Extra
  <2>4. CASE k = 0 /\ m = 0
    BY <1>4, <2>4
  <2> QED BY <2>1, <2>2, <2>3, <2>4
<1>19. Represents(t, from * x + d, to)
  BY <1>4, <1>6, <1>7, <1>9, <1>17, <1>18 DEF Represents
<1> QED BY <1>3, <1>19 DEF TimesOf

-----------------------------------------------------------------------------
(* Converting from base to base.                                          *)

\* The numbers that BaseNumbers goes through.
NumbersOf(p, digits, from, to) ==
  /\ p = BaseNumbers(digits, from, to) /\ p[0] = <<>>
  /\ \A i \in 1..Len(digits) : p[i] = Times(p[i - 1], digits[i], from, to)

\* The numbers of a conversion, digit by digit.
LEMMA NumbersExist ==
  ASSUME NEW from, NEW to, Bases(from, to), NEW digits \in Seq(DigitsOf(from))
  PROVE  \E p : NumbersOf(p, digits, from, to)
<1>1. PICK m \in Nat : m = Len(digits)
  OBVIOUS
<1>2. \A i \in 1..m : digits[i] \in DigitsOf(from)
  BY <1>1
<1>3. PICK S : S = Seq(DigitsOf(to))
  OBVIOUS
<1> DEFINE step == [i \in 1..m |-> [n \in S |-> Times(n, digits[i], from, to)]]
<1>4. step \in [1..m -> [S -> S]]
  <2>1. \A i \in 1..m : \A n \in S : Times(n, digits[i], from, to) \in S
    <3> TAKE i \in 1..m
    <3> TAKE n \in S
    <3>1. PICK t, o, e, c : TimesOf(t, n, o, e, c, digits[i], from, to)
      BY <1>2, <1>3, TimesIs
    <3> QED BY <1>3, <3>1 DEF TimesOf
  <2> QED BY <2>1
<1>5. PICK g : Iterates(g, m, S, <<>>, step)
  <2>1. <<>> \in S
    BY <1>3
  <2> HIDE DEF step
  <2> QED BY <1>4, <2>1, Iterated
<1>6. \A i \in 1..m : g[i] = Times(g[i - 1], digits[i], from, to)
  <2> TAKE i \in 1..m
  <2>1. i - 1 \in 0..m
    OBVIOUS
  <2>2. g[i - 1] \in S
    BY <1>5, <2>1 DEF Iterates
  <2>3. g[i] = step[i][g[i - 1]]
    BY <1>5 DEF Iterates
  <2> QED BY <2>2, <2>3
<1> DEFINE Is(f) == f = [i \in 0..Len(digits) |->
                           IF i = 0 THEN <<>> ELSE Times(f[i - 1], digits[i], from, to)]
<1>7. Is(g)
  <2>1. g = [i \in 0..m |-> g[i]] /\ g[0] = <<>>
    BY <1>5 DEF Iterates
  <2>2. \A i \in 0..m : i = 0 \/ i \in 1..m
    OBVIOUS
  <2>3. \A i \in 0..m : g[i] = IF i = 0 THEN <<>> ELSE Times(g[i - 1], digits[i], from, to)
    BY <1>6, <2>1, <2>2
  <2> QED BY <1>1, <2>1, <2>3
<1>8. PICK p : p = BaseNumbers(digits, from, to)
  OBVIOUS
<1>9. p = [i \in 0..m |-> IF i = 0 THEN <<>> ELSE Times(p[i - 1], digits[i], from, to)]
  <2>1. p = CHOOSE f : Is(f)
    BY <1>8 DEF BaseNumbers
  <2>2. Is(p)
    <3> HIDE DEF Is
    <3> QED BY <1>7, <2>1
  <2> QED BY <1>1, <2>2
<1>10. p[0] = <<>>
  BY <1>9
<1>11. \A i \in 1..m : p[i] = Times(p[i - 1], digits[i], from, to)
  BY <1>9
<1> QED BY <1>1, <1>8, <1>10, <1>11 DEF NumbersOf

\* r writes x in base b, the highest digit first, without a zero before it.
Writes(r, x, b) ==
  /\ r \in Seq(DigitsOf(b)) /\ (Len(r) # 0 => r[1] # 0)
  /\ \E v : ValuesOf(v, r, b) /\ v[Len(r)] = x

\* A conversion writes the same number in the other base.
LEMMA ConversionWrites ==
  ASSUME NEW from, NEW to, Bases(from, to), NEW digits \in Seq(DigitsOf(from)),
         NEW v, ValuesOf(v, digits, from)
  PROVE  Writes(ConvertBase(digits, from, to), v[Len(digits)], to)
<1>1. PICK m \in Nat : m = Len(digits)
  OBVIOUS
<1>2. PICK p : NumbersOf(p, digits, from, to)
  BY NumbersExist
<1>3. \A i \in 1..m : p[i] = Times(p[i - 1], digits[i], from, to)
  BY <1>1, <1>2 DEF NumbersOf
<1>4. v \in [0..m -> Nat] /\ v[0] = 0 /\ \A i \in 1..m : v[i] = from * v[i - 1] + digits[i]
  BY <1>1 DEF ValuesOf
<1> DEFINE T == {i \in 0..m : Represents(p[i], v[i], to)}
<1>5. 0 \in T
  BY <1>2, <1>4, NothingRepresentsZero DEF NumbersOf
<1>6. ASSUME NEW k \in 0..(m - 1), k \in T PROVE k + 1 \in T
  <2>1. k + 1 \in 1..m /\ (k + 1) - 1 = k /\ k + 1 \in 0..m /\ k \in 0..m
    OBVIOUS
  <2>2. v[k] \in Nat /\ digits[k + 1] \in DigitsOf(from) /\ Represents(p[k], v[k], to)
    BY <1>1, <1>4, <1>6, <2>1
  <2>3. Represents(Times(p[k], digits[k + 1], from, to), from * v[k] + digits[k + 1], to)
    BY <2>2, TimesRepresents
  <2>4. p[k + 1] = Times(p[k], digits[k + 1], from, to) /\ v[k + 1] = from * v[k] + digits[k + 1]
    BY <1>3, <1>4, <2>1
  <2> QED BY <2>1, <2>3, <2>4
<1>7. Represents(p[m], v[m], to)
  <2>1. m \in 0..m
    OBVIOUS
  <2>2. m \in T
    <3> HIDE DEF T
    <3> QED BY <1>5, <1>6, <2>1, Reached
  <2> QED BY <2>2
<1>8. PICK n, r : n = p[m] /\ r = Sequence!Reverse(n)
  OBVIOUS
<1>9. n \in Seq(DigitsOf(to)) /\ (Len(n) # 0 => n[Len(n)] # 0)
  BY <1>7, <1>8 DEF Represents
<1>10. PICK w : ValuesOf(w, r, to) /\ w[Len(n)] = v[m]
  BY <1>7, <1>8 DEF Represents
<1>11. r \in Seq(DigitsOf(to)) /\ Turned(r, n)
  BY <1>8, <1>9, Turning
<1>12. Len(r) = Len(n) /\ (Len(r) # 0 => r[1] # 0)
  <2>1. Len(r) = Len(n) /\ Len(n) \in Nat
    BY <1>9, <1>11 DEF Turned
  <2>2. ASSUME Len(n) # 0 PROVE r[1] = n[Len(n)]
    <3>1. PICK l \in Nat : l = Len(n) /\ l # 0
      BY <2>1, <2>2
    <3>2. 1 \in 1..l /\ l - 1 + 1 = l
      BY <3>1
    <3> QED BY <1>11, <3>1, <3>2 DEF Turned
  <2> QED BY <1>9, <2>1, <2>2
<1>13. Writes(r, v[m], to)
  BY <1>10, <1>11, <1>12 DEF Writes
<1>14. r = ConvertBase(digits, from, to)
  BY <1>1, <1>2, <1>8 DEF ConvertBase, NumbersOf
<1> QED BY <1>1, <1>13, <1>14

\* Two numbers written in the same way are the same.
Placed(a, b, x, d) == a = b * x + d

\* A number has one last digit, and one number before it.
LEMMA SameDigits ==
  ASSUME NEW b \in {58, 256}, NEW a, NEW x \in Nat, NEW y \in Nat, NEW d \in DigitsOf(b), NEW e \in DigitsOf(b),
         Placed(a, b, x, d), Placed(a, b, y, e)
  PROVE  x = y /\ d = e
<1>1. CASE b = 58
  <2>1. d \in Nat /\ e \in Nat /\ d <= 57 /\ e <= 57 /\ 58 * x + d = 58 * y + e
    BY <1>1 DEF DigitsOf, Placed
  <2> QED BY <2>1
<1>2. CASE b = 256
  <2>1. d \in Nat /\ e \in Nat /\ d <= 255 /\ e <= 255 /\ 256 * x + d = 256 * y + e
    BY <1>2 DEF DigitsOf, Placed
  <2> QED BY <2>1
<1> QED BY <1>1, <1>2

\* Digits have one value.
LEMMA SameValues ==
  ASSUME NEW b, NEW s, Len(s) \in Nat, NEW v, NEW w, ValuesOf(v, s, b), ValuesOf(w, s, b)
  PROVE  v[Len(s)] = w[Len(s)]
<1>6. PICK m \in Nat : m = Len(s)
  OBVIOUS
<1>1. v[0] = 0 /\ \A i \in 1..m : v[i] = b * v[i - 1] + s[i]
  BY <1>6 DEF ValuesOf
<1>2. w[0] = 0 /\ \A i \in 1..m : w[i] = b * w[i - 1] + s[i]
  BY <1>6 DEF ValuesOf
<1> DEFINE T == {i \in 0..m : v[i] = w[i]}
<1>3. 0 \in T
  BY <1>1, <1>2
<1>4. ASSUME NEW k \in 0..(m - 1), k \in T PROVE k + 1 \in T
  <2>1. k + 1 \in 1..m /\ (k + 1) - 1 = k /\ k + 1 \in 0..m
    OBVIOUS
  <2>2. v[k + 1] = b * v[k] + s[k + 1] /\ w[k + 1] = b * w[k] + s[k + 1] /\ v[k] = w[k]
    BY <1>1, <1>2, <1>4, <2>1
  <2> QED BY <2>1, <2>2
<1>5. m \in T
  <2>1. m \in 0..m
    OBVIOUS
  <2> HIDE DEF T
  <2> QED BY <1>3, <1>4, <2>1, Reached
<1> QED BY <1>5, <1>6

\* A number that begins with another digit than 0 is not 0.
LEMMA NotZero ==
  ASSUME NEW b \in {58, 256}, NEW s \in Seq(DigitsOf(b)), Len(s) # 0, s[1] # 0,
         NEW v, ValuesOf(v, s, b), NEW i \in 1..Len(s)
  PROVE  v[i] # 0
<1>1. PICK m \in Nat : m = Len(s) /\ m >= 1
  OBVIOUS
<1>2. v \in [0..m -> Nat] /\ v[0] = 0 /\ \A k \in 1..m : v[k] = b * v[k - 1] + s[k]
  BY <1>1 DEF ValuesOf
<1>3. \A k \in 1..m : s[k] \in Nat
  <2>1. \A k \in 1..m : s[k] \in DigitsOf(b)
    BY <1>1
  <2>2. DigitsOf(b) \subseteq Nat
    BY DEF DigitsOf
  <2> QED BY <2>1, <2>2
<1>4. \A x \in Nat, d \in Nat : x # 0 \/ d # 0 => b * x + d # 0
  <2>1. \A x \in Nat, d \in Nat : x # 0 \/ d # 0 => 58 * x + d # 0 /\ 256 * x + d # 0
    OBVIOUS
  <2> QED BY <2>1
<1>10. PICK l \in Nat : l = m - 1
  BY <1>1
<1> DEFINE T == {k \in 0..l : v[k + 1] # 0}
<1>5. 0 \in T
  <2>1. 1 \in 1..m /\ 1 - 1 = 0 /\ 0 \in 0..l /\ 0 + 1 = 1
    BY <1>1, <1>10
  <2>2. v[1] = b * 0 + s[1] /\ s[1] \in Nat
    BY <1>2, <1>3, <2>1
  <2> QED BY <1>4, <2>1, <2>2
<1>6. ASSUME NEW k \in 0..(l - 1), k \in T PROVE k + 1 \in T
  <2>1. (k + 1) + 1 \in 1..m /\ ((k + 1) + 1) - 1 = k + 1 /\ k + 1 \in 0..l /\ k + 1 \in 0..m
    BY <1>1, <1>10
  <2>2. v[k + 1] # 0 /\ v[k + 1] \in Nat /\ s[(k + 1) + 1] \in Nat
    BY <1>2, <1>3, <1>6, <2>1
  <2>3. v[(k + 1) + 1] = b * v[k + 1] + s[(k + 1) + 1]
    BY <1>2, <2>1
  <2>4. b * v[k + 1] + s[(k + 1) + 1] # 0
    BY <1>4, <2>2
  <2> QED BY <2>1, <2>3, <2>4
<1>7. \A k \in 0..l : k \in T
  <2> HIDE DEF T
  <2> QED BY <1>5, <1>6, Reached
<1>8. i - 1 \in 0..l /\ (i - 1) + 1 = i
  BY <1>1, <1>10
<1>9. v[(i - 1) + 1] # 0
  BY <1>7, <1>8
<1> QED BY <1>8, <1>9

\* A number is not written in more digits than one needs,
LEMMA WrittenOnce ==
  ASSUME NEW b \in {58, 256}, NEW x, NEW r, NEW s, Writes(r, x, b), Writes(s, x, b),
         Len(r) <= Len(s)
  PROVE  r = s
<1>1. r \in Seq(DigitsOf(b)) /\ s \in Seq(DigitsOf(b)) /\ (Len(s) # 0 => s[1] # 0)
  BY DEF Writes
<1>2. PICK m \in Nat, n \in Nat : m = Len(r) /\ n = Len(s) /\ m <= n
  BY <1>1
<1>3. PICK v : ValuesOf(v, r, b) /\ v[m] = x
  BY <1>2 DEF Writes
<1>4. PICK w : ValuesOf(w, s, b) /\ w[n] = x
  BY <1>2 DEF Writes
<1>5. v \in [0..m -> Nat] /\ v[0] = 0 /\ \A i \in 1..m : v[i] = b * v[i - 1] + r[i]
  BY <1>2, <1>3 DEF ValuesOf
<1>6. w \in [0..n -> Nat] /\ w[0] = 0 /\ \A i \in 1..n : w[i] = b * w[i - 1] + s[i]
  BY <1>2, <1>4 DEF ValuesOf
<1>7. (\A i \in 1..m : r[i] \in DigitsOf(b)) /\ (\A i \in 1..n : s[i] \in DigitsOf(b))
  BY <1>1, <1>2
<1> DEFINE Same(j) == r[m - j] = s[n - j]
           T == {k \in 0..m : v[m - k] = w[n - k] /\ \A j \in 0..(k - 1) : Same(j)}
<1>8. 0 \in T
  BY <1>2, <1>3, <1>4
<1>9. ASSUME NEW k \in 0..(m - 1), k \in T PROVE k + 1 \in T
  <2>1. PICK i \in 1..m, l \in 1..n : i = m - k /\ l = n - k
    <3>1. m - k \in 1..m /\ n - k \in 1..n
      BY <1>2
    <3> QED BY <3>1
  <2>2. /\ i - 1 = m - (k + 1) /\ l - 1 = n - (k + 1) /\ i - 1 \in 0..m /\ l - 1 \in 0..n /\ k + 1 \in 0..m
        /\ (k + 1) - 1 = k
    BY <1>2, <2>1
  <2>3. v[i] = w[l] /\ v[i] = b * v[i - 1] + r[i] /\ w[l] = b * w[l - 1] + s[l]
    BY <1>5, <1>6, <1>9, <2>1
  <2>4. v[i - 1] \in Nat /\ w[l - 1] \in Nat /\ r[i] \in DigitsOf(b) /\ s[l] \in DigitsOf(b)
    <3>1. v[i - 1] \in Nat /\ w[l - 1] \in Nat
      BY <1>5, <1>6, <2>2
    <3>2. r[i] \in DigitsOf(b) /\ s[l] \in DigitsOf(b)
      BY <1>7
    <3> QED BY <3>1, <3>2
  <2>5. v[i - 1] = w[l - 1] /\ r[i] = s[l]
    <3>1. PICK y \in Nat, z \in Nat, d \in DigitsOf(b), e \in DigitsOf(b) :
                y = v[i - 1] /\ z = w[l - 1] /\ d = r[i] /\ e = s[l]
      BY <2>4
    <3>2. Placed(v[i], b, y, d) /\ Placed(v[i], b, z, e)
      BY <2>3, <3>1 DEF Placed
    <3>3. y = z /\ d = e
      BY <3>2, SameDigits
    <3> QED BY <3>1, <3>3
  <2>6. Same(k)
    BY <2>1, <2>5
  <2>7. \A j \in 0..k : Same(j)
    <3>1. \A j \in 0..k : j = k \/ j \in 0..(k - 1)
      OBVIOUS
    <3>2. \A j \in 0..(k - 1) : Same(j)
      BY <1>9
    <3> HIDE DEF Same
    <3> QED BY <2>6, <3>1, <3>2
  <2> HIDE DEF Same
  <2> QED BY <2>2, <2>5, <2>7
<1>10. m \in T
  <2>1. m \in 0..m
    OBVIOUS
  <2> HIDE DEF T
  <2> QED BY <1>8, <1>9, <2>1, Reached
<1>11. m = n
  <2>1. w[n - m] = 0
    <3>1. m - m = 0
      OBVIOUS
    <3> QED BY <1>5, <1>10, <3>1
  <2>2. ASSUME m < n PROVE FALSE
    <3>1. n - m \in 1..n /\ n # 0
      BY <2>2
    <3>2. w[n - m] # 0
      BY <1>1, <1>2, <1>4, <3>1, NotZero
    <3> QED BY <2>1, <3>2
  <2> QED BY <1>2, <2>2
<1>12. \A i \in 1..m : r[i] = s[i]
  <2> TAKE i \in 1..m
  <2>1. m - i \in 0..(m - 1) /\ m - (m - i) = i /\ n - (m - i) = i
    BY <1>11
  <2>2. Same(m - i)
    <3> HIDE DEF Same
    <3> QED BY <1>10, <2>1
  <2> QED BY <2>1, <2>2
<1>13. Len(r) = Len(s) /\ \A i \in 1..Len(r) : r[i] = s[i]
  BY <1>2, <1>11, <1>12
<1> QED BY <1>1, <1>13, SeqEqual

\* so it is written in one way.
LEMMA WrittenTheSame ==
  ASSUME NEW b \in {58, 256}, NEW x, NEW r, NEW s, Writes(r, x, b), Writes(s, x, b)
  PROVE  r = s
<1>1. Len(r) \in Nat /\ Len(s) \in Nat
  BY DEF Writes
<1>2. Len(r) <= Len(s) \/ Len(s) <= Len(r)
  BY <1>1
<1> QED BY <1>2, WrittenOnce

-----------------------------------------------------------------------------
(* Leading zeros.                                                         *)

\* The first z of s are 0, and the next is not.
Leading(z, s) ==
  z \in 0..Len(s) /\ (\A i \in 1..z : s[i] = 0) /\ (z < Len(s) => s[z + 1] # 0)

\* Only one number of zeros lead,
LEMMA LeadingOnce ==
  ASSUME NEW s, NEW m \in Nat, m = Len(s), NEW y, NEW z, Leading(y, s), Leading(z, s)
  PROVE  y = z
<1>1. y \in 0..m /\ z \in 0..m
  BY DEF Leading
<1>2. ASSUME y < z PROVE FALSE
  <2>1. y + 1 \in 1..z /\ y < m
    BY <1>1, <1>2
  <2> QED BY <2>1 DEF Leading
<1>3. ASSUME z < y PROVE FALSE
  <2>1. z + 1 \in 1..y /\ z < m
    BY <1>1, <1>3
  <2> QED BY <2>1 DEF Leading
<1> QED BY <1>1, <1>2, <1>3

\* and Zeros is it.
LEMMA ZerosLead ==
  ASSUME NEW S, NEW s \in Seq(S)
  PROVE  Leading(Zeros(s), s)
<1>1. PICK m \in Nat : m = Len(s)
  OBVIOUS
<1>2. DOMAIN s = 1..m
  BY <1>1
<1>3. CASE \A i \in 1..m : s[i] = 0
  <2>1. Zeros(s) = m
    BY <1>1, <1>2, <1>3 DEF Zeros
  <2> QED BY <1>1, <1>3, <2>1 DEF Leading
<1>4. CASE ~\A i \in 1..m : s[i] = 0
  <2> DEFINE First(i) == s[i] # 0 /\ \A j \in 1..(i - 1) : s[j] = 0
  <2>1. \E i \in 1..m : First(i)
    <3> SUFFICES ASSUME \A i \in 1..m : ~First(i) PROVE FALSE
      OBVIOUS
    <3> DEFINE T == {k \in 0..m : \A j \in 1..k : s[j] = 0}
    <3>1. 0 \in T
      OBVIOUS
    <3>2. ASSUME NEW k \in 0..(m - 1), k \in T PROVE k + 1 \in T
      <4>1. k + 1 \in 1..m /\ (k + 1) - 1 = k /\ k + 1 \in 0..m
        OBVIOUS
      <4>2. s[k + 1] = 0
        BY <3>2, <4>1
      <4>3. \A j \in 1..(k + 1) : j = k + 1 \/ j \in 1..k
        OBVIOUS
      <4> QED BY <3>2, <4>1, <4>2, <4>3
    <3>3. m \in T
      <4>1. m \in 0..m
        OBVIOUS
      <4> HIDE DEF T
      <4> QED BY <3>1, <3>2, <4>1, Reached
    <3> QED BY <1>4, <3>3
  <2>2. PICK f : f = CHOOSE i \in 1..m : First(i)
    OBVIOUS
  <2>3. f \in 1..m /\ First(f)
    <3> HIDE DEF First
    <3> QED BY <2>1, <2>2
  <2>4. Zeros(s) = f - 1
    BY <1>2, <1>4, <2>2 DEF Zeros
  <2>5. f - 1 \in 0..m /\ (f - 1) + 1 = f
    BY <2>3
  <2>6. PICK z \in 0..m : z = f - 1 /\ z + 1 = f
    BY <2>5
  <2>7. s[z + 1] # 0 /\ \A j \in 1..z : s[j] = 0
    BY <2>3, <2>6
  <2> QED BY <1>1, <2>4, <2>6, <2>7 DEF Leading
<1> QED BY <1>3, <1>4

\* s has n digits: z zeros, and the m digits of r.
Padding(s, n, z, r, m) ==
  /\ n \in Nat /\ m \in Nat /\ z \in 0..n /\ n = z + m /\ Len(s) = n /\ Len(r) = m
  /\ (\A i \in 1..z : s[i] = 0) /\ (\A i \in 1..m : r[i] = s[z + i])

\* Leading zeros do not change a number.
LEMMA WithoutZeros ==
  ASSUME NEW b \in {58, 256}, NEW s, NEW v, ValuesOf(v, s, b), NEW n, NEW z, NEW r, NEW m, Padding(s, n, z, r, m)
  PROVE  \E w : ValuesOf(w, r, b) /\ w[m] = v[n]
<1>1. v \in [0..n -> Nat] /\ v[0] = 0 /\ \A i \in 1..n : v[i] = b * v[i - 1] + s[i]
  BY DEF ValuesOf, Padding
<1>2. z \in Nat /\ z + m = n /\ n \in Nat /\ m \in Nat /\ Len(r) = m
  BY DEF Padding
<1>12. (\A i \in 1..z : s[i] = 0) /\ (\A i \in 1..m : r[i] = s[z + i])
  BY DEF Padding
<1> DEFINE T == {k \in 0..z : v[k] = 0}
<1>3. 0 \in T
  BY <1>1, <1>2
<1>4. ASSUME NEW k \in 0..(z - 1), k \in T PROVE k + 1 \in T
  <2>1. k + 1 \in 1..n /\ k + 1 \in 1..z /\ (k + 1) - 1 = k /\ k + 1 \in 0..z
    BY <1>2
  <2>2. v[k + 1] = b * v[k] + s[k + 1] /\ s[k + 1] = 0 /\ v[k] = 0
    BY <1>1, <1>4, <1>12, <2>1
  <2>3. b * 0 = 0
    OBVIOUS
  <2> QED BY <2>1, <2>2, <2>3
<1>5. v[z] = 0
  <2>1. z \in 0..z
    BY <1>2
  <2>2. z \in T
    <3> HIDE DEF T
    <3> QED BY <1>2, <1>3, <1>4, <2>1, Reached
  <2> QED BY <2>2
<1> DEFINE w == [i \in 0..m |-> v[z + i]]
<1>6. \A i \in 0..m : z + i \in 0..n
  BY <1>2
<1>7. w \in [0..m -> Nat]
  BY <1>1, <1>6
<1>8. w[0] = 0
  <2>1. 0 \in 0..m /\ z + 0 = z
    BY <1>2
  <2> QED BY <1>5, <2>1
<1>9. ASSUME NEW i \in 1..m PROVE w[i] = b * w[i - 1] + r[i]
  <2>1. z + i \in 1..n /\ (z + i) - 1 = z + (i - 1) /\ i - 1 \in 0..m /\ i \in 0..m
    BY <1>2
  <2>2. w[i] = v[z + i] /\ w[i - 1] = v[z + (i - 1)]
    BY <2>1
  <2>3. v[z + i] = b * v[(z + i) - 1] + s[z + i] /\ r[i] = s[z + i]
    BY <1>1, <1>12, <2>1
  <2> HIDE DEF w
  <2> QED BY <2>1, <2>2, <2>3
<1>10. w[m] = v[n]
  <2>1. m \in 0..m
    BY <1>2
  <2> QED BY <1>2, <2>1
<1>11. ValuesOf(w, r, b)
  <2> HIDE DEF w
  <2> QED BY <1>2, <1>7, <1>8, <1>9 DEF ValuesOf
<1> HIDE DEF w
<1> QED BY <1>10, <1>11

\* A text of base 58: the zeros of the bytes, and the number.
Encoded(bytes) == [i \in 1..Zeros(bytes) |-> 0] \o ConvertBase(bytes, 256, 58)

\* s has z zeros first, and then the digits r, which write x.
Led(s, z, r, x, b) ==
  /\ s \in Seq(DigitsOf(b)) /\ Leading(z, s) /\ Len(s) = z + Len(r) /\ s = [i \in 1..z |-> 0] \o r
  /\ \E v : ValuesOf(v, s, b) /\ v[Len(s)] = x
  /\ Writes(r, x, b)

\* What the bytes are, without their zeros.
LEMMA BytesLed ==
  ASSUME NEW s \in Seq(DigitsOf(256)), NEW v, ValuesOf(v, s, 256)
  PROVE  \E z, r : Led(s, z, r, v[Len(s)], 256) /\ z = Zeros(s)
<1>1. PICK n \in Nat : n = Len(s)
  OBVIOUS
<1>2. PICK z : z = Zeros(s)
  OBVIOUS
<1>3. Leading(z, s)
  BY <1>2, ZerosLead
<1>4. z \in 0..n /\ z \in Nat
  BY <1>1, <1>3 DEF Leading
<1>5. PICK m \in Nat : m = n - z /\ n = z + m
  BY <1>4
<1>6. PICK r : r = [i \in 1..m |-> s[z + i]]
  OBVIOUS
<1>7. \A i \in 1..n : s[i] \in DigitsOf(256)
  BY <1>1
<1>8. \A i \in 1..m : z + i \in 1..n
  BY <1>4, <1>5
<1>9. r \in [1..m -> DigitsOf(256)]
  BY <1>6, <1>7, <1>8
<1>10. r \in Seq(DigitsOf(256)) /\ Len(r) = m
  BY <1>9, SeqOfFunction
<1>11. \A i \in 1..m : r[i] = s[z + i]
  BY <1>6
<1>12. \A i \in 1..z : s[i] = 0
  BY <1>3 DEF Leading
<1>13. PICK w : ValuesOf(w, r, 256) /\ w[m] = v[n]
  <2>1. Padding(s, n, z, r, m)
    BY <1>1, <1>4, <1>5, <1>10, <1>11, <1>12 DEF Padding
  <2> QED BY <2>1, WithoutZeros
<1>14. Len(r) # 0 => r[1] # 0
  <2>1. ASSUME m # 0 PROVE r[1] # 0
    <3>1. z < n /\ 1 \in 1..m
      BY <1>4, <1>5, <2>1
    <3> QED BY <1>1, <1>3, <1>11, <3>1 DEF Leading
  <2> QED BY <1>10, <2>1
<1>15. Writes(r, v[n], 256)
  BY <1>10, <1>13, <1>14 DEF Writes
<1>16. s = [i \in 1..z |-> 0] \o r
  <2>1. PICK o : o = [i \in 1..z |-> 0]
    OBVIOUS
  <2>2. o \in Seq(DigitsOf(256)) /\ Len(o) = z
    <3>1. 0 \in DigitsOf(256)
      BY DEF DigitsOf
    <3>2. o \in [1..z -> DigitsOf(256)]
      BY <2>1, <3>1
    <3> QED BY <1>4, <3>2, SeqOfFunction
  <2>3. PICK y : y = o \o r
    OBVIOUS
  <2>4. y \in Seq(DigitsOf(256)) /\ Joined(y, o, r)
    BY <1>10, <2>2, <2>3, Joining
  <2>5. Len(y) = n
    BY <1>4, <1>5, <1>10, <2>2, <2>4 DEF Joined
  <2>6. ASSUME NEW i \in 1..n PROVE y[i] = s[i]
    <3>1. CASE i \in 1..z
      <4>1. y[i] = o[i] /\ o[i] = 0 /\ s[i] = 0
        BY <1>12, <2>1, <2>2, <2>4, <3>1 DEF Joined
      <4> QED BY <4>1
    <3>2. CASE i \notin 1..z
      <4>1. PICK j \in 1..m : i = z + j
        <5>1. i - z \in 1..m /\ i = z + (i - z)
          BY <1>4, <1>5, <3>2
        <5> QED BY <5>1
      <4>2. y[z + j] = r[j]
        BY <1>10, <2>2, <2>4 DEF Joined
      <4> QED BY <1>11, <4>1, <4>2
    <3> QED BY <3>1, <3>2
  <2>7. Len(y) = Len(s) /\ \A i \in 1..Len(y) : y[i] = s[i]
    BY <1>1, <2>5, <2>6
  <2>8. y = s
    BY <2>4, <2>7, SeqEqual
  <2> QED BY <2>1, <2>3, <2>8
<1>17. Led(s, z, r, v[n], 256)
  BY <1>1, <1>3, <1>5, <1>10, <1>15, <1>16 DEF Led
<1> QED BY <1>1, <1>2, <1>17

\* z zeros before the digits of a number.
LEMMA ZerosPut ==
  ASSUME NEW z \in Nat, NEW r, NEW x, Writes(r, x, 58)
  PROVE  Led([i \in 1..z |-> 0] \o r, z, r, x, 58)
<1>1. PICK o : o = [i \in 1..z |-> 0]
  OBVIOUS
<1>2. o \in Seq(DigitsOf(58)) /\ Len(o) = z /\ \A i \in 1..z : o[i] = 0
  <2>1. 0 \in DigitsOf(58)
    BY DEF DigitsOf
  <2>2. o \in [1..z -> DigitsOf(58)]
    BY <1>1, <2>1
  <2> QED BY <1>1, <2>2, SeqOfFunction
<1>3. r \in Seq(DigitsOf(58)) /\ (Len(r) # 0 => r[1] # 0)
  BY DEF Writes
<1>4. PICK m \in Nat : m = Len(r)
  BY <1>3
<1>5. PICK s : s = o \o r
  OBVIOUS
<1>6. s \in Seq(DigitsOf(58)) /\ Joined(s, o, r)
  BY <1>2, <1>3, <1>5, Joining
<1>7. PICK n \in Nat : n = Len(s) /\ n = z + m
  BY <1>2, <1>4, <1>6 DEF Joined
<1>8. \A i \in 1..z : s[i] = 0
  BY <1>2, <1>6 DEF Joined
<1>9. \A i \in 1..m : r[i] = s[z + i]
  BY <1>2, <1>4, <1>6 DEF Joined
<1>10. Leading(z, s)
  <2>1. z \in 0..n
    BY <1>7
  <2>2. ASSUME z < n PROVE s[z + 1] # 0
    <3>1. 1 \in 1..m /\ m # 0
      BY <1>7, <2>2
    <3> QED BY <1>3, <1>4, <1>9, <3>1
  <2> QED BY <1>7, <1>8, <2>1, <2>2 DEF Leading
<1>11. PICK v : ValuesOf(v, s, 58)
  BY <1>6, ValuesExist
<1>12. PICK w : ValuesOf(w, r, 58) /\ w[m] = v[n]
  <2>1. z \in 0..n
    BY <1>7
  <2>2. Padding(s, n, z, r, m)
    BY <1>4, <1>7, <1>8, <1>9, <2>1 DEF Padding
  <2> QED BY <1>11, <2>2, WithoutZeros
<1>13. PICK u : ValuesOf(u, r, 58) /\ u[m] = x
  BY <1>4 DEF Writes
<1>14. v[n] = x
  BY <1>4, <1>12, <1>13, SameValues
<1>15. Led(s, z, r, x, 58)
  BY <1>1, <1>4, <1>5, <1>6, <1>7, <1>10, <1>11, <1>14 DEF Led
<1> QED BY <1>1, <1>5, <1>15

\* What base 58 encodes, b58Decode gives back, whatever the bytes.
LEMMA DecodedAgain ==
  ASSUME NEW bytes \in Seq(DigitsOf(256))
  PROVE  Base58Decode(Encoded(bytes)) = bytes
<1>1. PICK v : ValuesOf(v, bytes, 256)
  BY ValuesExist
<1>2. PICK x : x = v[Len(bytes)]
  OBVIOUS
<1>3. PICK z, r : Led(bytes, z, r, x, 256) /\ z = Zeros(bytes)
  BY <1>1, <1>2, BytesLed
<1>4. z \in Nat
  <2>1. Len(bytes) \in Nat /\ z \in 0..Len(bytes)
    BY <1>3 DEF Led, Leading
  <2> QED BY <2>1
<1>5. PICK c : c = ConvertBase(bytes, 256, 58)
  OBVIOUS
<1>6. Writes(c, x, 58)
  <2>1. Bases(256, 58)
    BY DEF Bases
  <2> QED BY <1>1, <1>2, <1>5, <2>1, ConversionWrites
<1>7. PICK data : data = [i \in 1..z |-> 0] \o c
  OBVIOUS
<1>8. Encoded(bytes) = data
  BY <1>3, <1>5, <1>7 DEF Encoded
<1>9. Led(data, z, c, x, 58)
  BY <1>4, <1>6, <1>7, ZerosPut
<1>10. data \in Seq(DigitsOf(58)) /\ Leading(z, data)
  BY <1>9 DEF Led
<1>11. Zeros(data) = z
  <2>1. Len(data) \in Nat /\ Leading(Zeros(data), data)
    BY <1>10, ZerosLead
  <2> QED BY <1>10, <2>1, LeadingOnce
<1>12. PICK u : ValuesOf(u, data, 58) /\ u[Len(data)] = x
  BY <1>9 DEF Led
<1>13. PICK e : e = ConvertBase(data, 58, 256)
  OBVIOUS
<1>14. Writes(e, x, 256)
  <2>1. Bases(58, 256)
    BY DEF Bases
  <2>2. Writes(ConvertBase(data, 58, 256), u[Len(data)], 256)
    BY <1>10, <1>12, <2>1, ConversionWrites
  <2> QED BY <1>12, <1>13, <2>2
<1>15. e = r
  <2>1. Writes(r, x, 256)
    BY <1>3 DEF Led
  <2> QED BY <1>14, <2>1, WrittenTheSame
<1>16. Base58Decode(data) = [i \in 1..z |-> 0] \o r
  BY <1>11, <1>13, <1>15 DEF Base58Decode
<1>17. bytes = [i \in 1..z |-> 0] \o r
  BY <1>3 DEF Led
<1> QED BY <1>8, <1>16, <1>17

-----------------------------------------------------------------------------
(* Wallets of base 58.                                                    *)

\* The two parts of two sequences one after the other.
Parts(y, s, t, n, m) ==
  SubSeq(y, 1, n) = s /\ SubSeq(y, n + 1, n + m) = t /\ Len(y) = n + m

\* They can be had again.
LEMMA Parted ==
  ASSUME NEW S, NEW s \in Seq(S), NEW t \in Seq(S)
  PROVE  Parts(s \o t, s, t, Len(s), Len(t))
<1>7. PICK n \in Nat, m \in Nat : n = Len(s) /\ m = Len(t)
  OBVIOUS
<1>1. PICK y : y = s \o t
  OBVIOUS
<1>2. y \in Seq(S) /\ Joined(y, s, t)
  BY <1>1, Joining
<1>3. Len(y) = n + m /\ (\A i \in 1..n : y[i] = s[i]) /\ \A i \in 1..m : y[n + i] = t[i]
  BY <1>2, <1>7 DEF Joined
<1>4. SubSeq(y, 1, n) = [i \in 1..n |-> y[i]]
  BY <1>2, <1>3
<1>5. s = [i \in 1..n |-> s[i]] /\ t = [i \in 1..m |-> t[i]]
  BY <1>7
<1>6. SubSeq(y, n + 1, n + m) = [i \in 1..m |-> y[n + i]]
  <2>1. SubSeq(y, n + 1, n + m) = [i \in 1..((n + m) - (n + 1) + 1) |-> y[(n + 1) + i - 1]]
    BY <1>2, <1>3
  <2>2. (n + m) - (n + 1) + 1 = m /\ \A i \in 1..m : (n + 1) + i - 1 = n + i
    OBVIOUS
  <2> QED BY <2>1, <2>2
<1>8. Parts(y, s, t, n, m)
  BY <1>3, <1>4, <1>5, <1>6 DEF Parts
<1> QED BY <1>1, <1>7, <1>8

\* The checksum is four bytes.
LEMMA DigestType ==
  ASSUME NEW bytes \in Seq(Octets)
  PROVE  Digest(bytes) \in Seq(Octets) /\ Len(Digest(bytes)) = 4
<1>1. PICK n \in Nat : n = Len(bytes) /\ DOMAIN bytes = 1..n
  OBVIOUS
<1>2. \A i \in 1..n : bytes[i] \in Nat
  <2>1. \A i \in 1..n : bytes[i] \in Octets
    BY <1>1
  <2>2. Octets \subseteq Nat
    BY DEF Octets
  <2> QED BY <2>1, <2>2
<1>3. ASSUME NEW k \in 1..4 PROVE Total([i \in 1..n |-> (i + k) * bytes[i]]) % 251 \in Octets
  <2>1. \A i \in 1..n : (i + k) * bytes[i] \in Nat
    <3> TAKE i \in 1..n
    <3>1. PICK b \in Nat, j \in Nat : b = bytes[i] /\ j = i + k
      BY <1>2
    <3>2. j * b \in Nat
      OBVIOUS
    <3> QED BY <3>1, <3>2
  <2>2. PICK f : f = [i \in 1..n |-> (i + k) * bytes[i]]
    OBVIOUS
  <2>3. f \in [1..n -> Nat]
    BY <2>1, <2>2
  <2>4. f \in Seq(Nat)
    BY <2>3, SeqOfFunction
  <2>5. PICK a \in Nat : a = Total(f)
    BY <2>4, TotalNat
  <2>6. a % 251 \in 0..250
    OBVIOUS
  <2> QED BY <2>2, <2>5, <2>6 DEF Octets
<1>4. PICK d : d = Digest(bytes)
  OBVIOUS
<1>5. d = [k \in 1..4 |-> Total([i \in 1..n |-> (i + k) * bytes[i]]) % 251]
  BY <1>1, <1>4 DEF Digest
<1>6. d \in [1..4 -> Octets]
  BY <1>3, <1>5
<1>7. d \in Seq(Octets) /\ Len(d) = 4
  BY <1>6, SeqOfFunction
<1> QED BY <1>4, <1>7

\* A wallet of base 58 gives the script of its hash, as if it were that of a key.
LEMMA Base58IsPaid ==
  ASSUME NEW version \in Octets, NEW kind, NEW hash \in Seq(Octets), Len(hash) = 20,
         NEW t, t = Base58Address(version, kind, hash, "otherwise")
  PROVE  BuildOutputScript(t) = Pays("P2PKH", hash) /\ t.names = Pays(kind, hash)
<1>1. PICK a : a = <<version>> \o hash
  OBVIOUS
<1>2. /\ SubSeq(a, 2, 21) = hash /\ Len(a) = 21 /\ a \in Seq(Octets)
  <2>1. <<version>> \in Seq(Octets) /\ Len(<<version>>) = 1
    OBVIOUS
  <2>2. a \in Seq(Octets)
    BY <1>1, <2>1
  <2>3. PICK v : v = <<version>>
    OBVIOUS
  <2>4. Parts(a, v, hash, 1, 20)
    BY <1>1, <2>1, <2>3, Parted
  <2> QED BY <2>2, <2>4 DEF Parts
<1>3. PICK g : g = Digest(a)
  OBVIOUS
<1>4. g \in Seq(Octets) /\ Len(g) = 4
  BY <1>2, <1>3, DigestType
<1>5. PICK bytes : bytes = a \o g
  OBVIOUS
<1>6. /\ SubSeq(bytes, 1, 21) = a /\ SubSeq(bytes, 22, 25) = g /\ Len(bytes) = 25
  <2>1. Parts(bytes, a, g, 21, 4)
    BY <1>2, <1>4, <1>5, Parted
  <2> QED BY <2>1 DEF Parts
<1>7. Base58Decode(Encoded(bytes)) = bytes
  <2>1. Octets = DigitsOf(256)
    BY DEF Octets, DigitsOf
  <2>2. bytes \in Seq(Octets)
    BY <1>2, <1>4, <1>5
  <2> QED BY <2>1, <2>2, DecodedAgain
<1>8. t = [prefix |-> <<>>, data |-> Encoded(bytes), case |-> "lower", blanks |-> FALSE,
           starts |-> "otherwise", names |-> Pays(kind, hash)]
  BY <1>1, <1>3, <1>5 DEF Base58Address, Encoded, Text
<1>9. Base58Decode(t.data) = bytes /\ t.blanks = FALSE /\ t.starts = "otherwise" /\ t.names = Pays(kind, hash)
  BY <1>7, <1>8
<1>10. BuildP2PKHScript(t) = Pays("P2PKH", hash)
  <2>1. Len(bytes) - 4 = 21 /\ ~(Len(bytes) < 25) /\ 21 + 1 = 22
    BY <1>6
  <2>2. SubSeq(bytes, 1, Len(bytes) - 4) = a
    BY <1>6, <2>1
  <2>3. SubSeq(bytes, Len(a) + 1, Len(bytes)) = Digest(a)
    BY <1>2, <1>3, <1>6, <2>1
  <2> QED BY <1>2, <1>9, <2>1, <2>2, <2>3 DEF BuildP2PKHScript
<1>11. BuildOutputScript(t) = BuildP2PKHScript(t)
  BY <1>9 DEF BuildOutputScript
<1> QED BY <1>9, <1>10, <1>11

-----------------------------------------------------------------------------
(* What the wallet is paid.                                               *)

\* The hashes are bytes.
LEMMA HashesAreBytes ==
  /\ \A hash \in Hashes20 : hash \in Seq(Octets) /\ Len(hash) = 20
  /\ \A hash \in Hashes32 : hash \in Seq(Octets) /\ Len(hash) = 32
<1>1. ASSUME NEW hash \in Hashes20 PROVE hash \in Seq(Octets) /\ Len(hash) = 20
  <2>1. hash \in [1..20 -> Octets]
    BY AddressAssumption DEF Octets
  <2> QED BY <2>1, SeqOfFunction
<1>2. ASSUME NEW hash \in Hashes32 PROVE hash \in Seq(Octets) /\ Len(hash) = 32
  <2>1. hash \in [1..32 -> Octets]
    BY AddressAssumption DEF Octets
  <2> QED BY <2>1, SeqOfFunction
<1> QED BY <1>1, <1>2

\* What the script of a wallet must be, if it has been built.
LEMMA SegwitWallet ==
  ASSUME NEW t \in Segwit
  PROVE  /\ BuildOutputScript(t) = t.names /\ t.names.ok
         /\ \E h, d, hash : Segwitted(t, h, d, hash)
<1>1. PICK hrp \in {bc, ltc}, hash \in Hashes20 \union Hashes32 : t = Bech32Address(hrp, 0, hash)
  BY DEF Segwit
<1>2. hash \in Seq(Octets) /\ Len(hash) \in {20, 32}
  BY HashesAreBytes
<1>3. PICK d : Segwitted(t, hrp, d, hash)
  BY <1>1, <1>2, AddressIsSegwitted
<1>4. BuildOutputScript(t) = t.names /\ t.names = ProgramOf(hash)
  BY <1>2, <1>3, SegwitIsPaid
<1> QED BY <1>3, <1>4 DEF ProgramOf, Pays

\* A wallet of base 58 for a key gives the script of what it names.
LEMMA LegacyWallet ==
  ASSUME NEW t \in Legacy
  PROVE  BuildOutputScript(t) = t.names /\ t.names.ok
<1>1. PICK version \in {0, 48}, hash \in Hashes20 : t = Base58Address(version, "P2PKH", hash, "otherwise")
  BY DEF Legacy
<1>2. hash \in Seq(Octets) /\ Len(hash) = 20 /\ version \in Octets
  BY HashesAreBytes DEF Octets
<1>3. BuildOutputScript(t) = Pays("P2PKH", hash) /\ t.names = Pays("P2PKH", hash)
  BY <1>1, <1>2, Base58IsPaid
<1> QED BY <1>3 DEF Pays

\* Only what was spoilt names nothing.
LEMMA OnlySpoiltNamesNothing ==
  ASSUME NEW t \in Wallets, ~t.names.ok
  PROVE  \E s \in Segwit : t \in Spoilt(s)
<1>2. \A s \in Segwit : s.names.ok
  BY SegwitWallet
<1>3. \A s \in Cash : s.names.ok
  <2> TAKE s \in Cash
  <2>1. PICK kind \in {0, 1}, hash \in Hashes20 : s = CashAddress(bitcoincash, kind, hash)
    BY DEF Cash
  <2>2. s.names = Pays(IF kind = 1 THEN "P2SH" ELSE "P2PKH", hash)
    BY <2>1 DEF CashAddress, Text
  <2> QED BY <2>2 DEF Pays
<1>4. \A s \in Legacy : s.names.ok
  BY LegacyWallet
<1>5. \A s \in LegacyScript : s.names.ok
  <2> TAKE s \in LegacyScript
  <2>1. PICK hash \in Hashes20 : s = Base58Address(5, "P2SH", hash, "otherwise")
    BY DEF LegacyScript
  <2>2. s.names = Pays("P2SH", hash)
    BY <2>1 DEF Base58Address, Text
  <2> QED BY <2>2 DEF Pays
<1>6. \A s \in Lookalikes : s.names.ok
  <2> TAKE s \in Lookalikes
  <2>1. PICK hash \in Hashes20 : s = [Base58Address(48, "P2PKH", hash, "like bech32") EXCEPT !.case = "mixed"]
    BY DEF Lookalikes
  <2>2. s.names = Pays("P2PKH", hash)
    BY <2>1 DEF Base58Address, Text
  <2> QED BY <2>2 DEF Pays
<1>7. \A s \in Segwit \union Cash \union Legacy : WithBlanks(s).names.ok
  <2> TAKE s \in Segwit \union Cash \union Legacy
  <2> DEFINE IsText(u) == \E p, d, i, n : u = Text(p, d, i, n)
  <2>2. ASSUME s \in Segwit PROVE IsText(s)
    <3>1. PICK hrp \in {bc, ltc}, hash \in Hashes20 \union Hashes32 : s = Bech32Address(hrp, 0, hash)
      BY <2>2 DEF Segwit
    <3> QED BY <3>1 DEF Bech32Address
  <2>3. ASSUME s \in Cash PROVE IsText(s)
    <3>1. PICK kind \in {0, 1}, hash \in Hashes20 : s = CashAddress(bitcoincash, kind, hash)
      BY <2>3 DEF Cash
    <3> QED BY <3>1 DEF CashAddress
  <2>4. ASSUME s \in Legacy PROVE IsText(s)
    <3>1. PICK version \in {0, 48}, hash \in Hashes20 : s = Base58Address(version, "P2PKH", hash, "otherwise")
      BY <2>4 DEF Legacy
    <3> QED BY <3>1 DEF Base58Address
  <2>5. IsText(s)
    BY <2>2, <2>3, <2>4
  <2>1. WithBlanks(s).names = s.names
    BY <2>5 DEF WithBlanks, Text
  <2> QED BY <1>2, <1>3, <1>4, <2>1
<1>8. \/ t \in Segwit \/ t \in Cash \/ t \in Legacy \/ t \in LegacyScript \/ t \in Lookalikes
      \/ t \in UNION {Spoilt(s) : s \in Segwit}
      \/ t \in {WithBlanks(s) : s \in Segwit \union Cash \union Legacy}
  <2> DEFINE U == UNION {Spoilt(s) : s \in Segwit}
             B == {WithBlanks(s) : s \in Segwit \union Cash \union Legacy}
  <2>1. Wallets = Segwit \union Cash \union Legacy \union LegacyScript \union Lookalikes \union U \union B
    BY DEF Wallets
  <2> HIDE DEF U, B
  <2>2. t \in Segwit \/ t \in Cash \/ t \in Legacy \/ t \in LegacyScript \/ t \in Lookalikes \/ t \in U \/ t \in B
    BY <2>1
  <2> QED BY <2>2 DEF U, B
<1>9. t \notin {WithBlanks(s) : s \in Segwit \union Cash \union Legacy}
  BY <1>7
<1>10. t \in UNION {Spoilt(s) : s \in Segwit}
  BY <1>2, <1>3, <1>4, <1>5, <1>6, <1>8, <1>9
<1> QED BY <1>10

\* The script is what the wallet gives.
AddressInv ==
  /\ wallet \in Wallets
  /\ script \in {NoScript, IF BuildOutputScript(wallet).ok THEN BuildOutputScript(wallet)
                           ELSE Pays("OP_RETURN", <<>>)}

\* The invariant of the specification.
LEMMA AddressInvariant ==
  AddressSpec => []AddressInv
<1>1. AddressInit => AddressInv
  BY DEF AddressInit, AddressInv
<1>2. AddressInv /\ [AddressNext]_addressVars => AddressInv'
  <2> SUFFICES ASSUME AddressInv, [AddressNext]_addressVars PROVE AddressInv'
    OBVIOUS
  <2>1. CASE PayReward
    BY <2>1 DEF AddressInv, PayReward
  <2>2. CASE UNCHANGED addressVars
    BY <2>2 DEF AddressInv, addressVars
  <2> QED BY <2>1, <2>2 DEF AddressNext
<1> QED BY <1>1, <1>2, PTL DEF AddressSpec

\* RewardIsPaidToTheWallet
THEOREM RewardsReachTheWallet ==
  AddressSpec => []RewardIsPaidToTheWallet
<1>1. AddressInv => RewardIsPaidToTheWallet
  <2> SUFFICES ASSUME AddressInv, script # NoScript
               PROVE  /\ wallet \in Segwit \union Legacy => script = wallet.names
                      /\ ~wallet.names.ok => script.kind = "OP_RETURN"
    BY DEF RewardIsPaidToTheWallet
  <2>1. PICK built : built = BuildOutputScript(wallet)
    OBVIOUS
  <2>2. wallet \in Wallets /\ script = IF built.ok THEN built ELSE Pays("OP_RETURN", <<>>)
    BY <2>1 DEF AddressInv
  <2>3. ASSUME wallet \in Segwit \union Legacy PROVE script = wallet.names
    BY <2>1, <2>2, <2>3, SegwitWallet, LegacyWallet
  <2>4. ASSUME ~wallet.names.ok PROVE script.kind = "OP_RETURN"
    <3>1. PICK t \in Segwit : wallet \in Spoilt(t)
      BY <2>2, <2>4, OnlySpoiltNamesNothing
    <3>2. PICK h, d, hash : Segwitted(t, h, d, hash)
      BY SegwitWallet
    <3>3. built = Nothing
      BY <2>1, <3>1, <3>2, SpoiltIsNotPaid
    <3>4. script = Pays("OP_RETURN", <<>>)
      BY <2>2, <3>3 DEF Nothing
    <3> QED BY <3>4 DEF Pays
  <2> QED BY <2>3, <2>4
<1> QED BY <1>1, AddressInvariant, PTL

-----------------------------------------------------------------------------
(* What is never paid.                                                    *)

\* Sums of eight groups, as CashAddr has them.
Sum8 == [1..8 -> Groups5]

\* They are sequences.
LEMMA EightGroups ==
  ASSUME NEW s \in Sum8
  PROVE  s \in Seq(Groups5) /\ Len(s) = 8
<1>1. s \in [1..8 -> Groups5]
  BY DEF Sum8
<1> QED BY <1>1, SeqOfFunction

\* The generators of CashAddr are five such sums,
LEMMA CashGenType ==
  /\ \A i \in 1..5 : DOMAIN CashGen[i] = 1..8
  /\ \A i \in 1..5 : \A j \in 1..8 : CashGen[i][j] \in Groups5
<1>1. \A i \in 1..5 : i \in {1, 2, 3, 4, 5}
  OBVIOUS
<1>2. \A i \in 1..8 : i \in {1, 2, 3, 4, 5, 6, 7, 8}
  OBVIOUS
<1>3. \A i \in {1, 2, 3, 4, 5} : DOMAIN CashGen[i] = 1..8
  BY DEF CashGen
<1>4. \A i \in {1, 2, 3, 4, 5} : \A j \in {1, 2, 3, 4, 5, 6, 7, 8} : CashGen[i][j] \in Groups5
  BY DEF CashGen, Groups5
<1> QED BY <1>1, <1>2, <1>3, <1>4

\* sums are added group by group,
LEMMA XorAll8 ==
  ASSUME NEW a \in Sum8, NEW b \in Sum8
  PROVE  XorAll(a, b) \in Sum8
<1>1. DOMAIN a = 1..8 /\ \A j \in 1..8 : a[j] \in Groups5 /\ b[j] \in Groups5
  BY DEF Sum8
<1>2. \A j \in 1..8 : Xor(a[j], b[j]) \in Groups5
  BY <1>1, XorType
<1>3. XorAll(a, b) = [j \in 1..8 |-> Xor(a[j], b[j])]
  BY <1>1 DEF XorAll
<1> QED BY <1>2, <1>3 DEF Sum8

\* so the table holds sums,
LEMMA CashTableType ==
  CashTable \in [Groups5 -> Sum8]
<1>1. ASSUME NEW k \in Groups5, NEW n \in 1..5 PROVE Selects(CashGen, k, n) \in Sum8
  <2>1. PICK b \in {0, 1} : b = Bit(k, n)
    BY BitsOfFive DEF Groups5
  <2>2. PICK g : g = CashGen[n]
    OBVIOUS
  <2>3. DOMAIN g = 1..8 /\ \A j \in 1..8 : g[j] \in Groups5
    BY <2>2, CashGenType
  <2>4. Selects(CashGen, k, n) = [j \in 1..8 |-> b * g[j]]
    BY <2>1, <2>2, <2>3 DEF Selects
  <2>5. ASSUME NEW j \in 1..8 PROVE b * g[j] \in Groups5
    <3>1. PICK c \in 0..31 : c = g[j]
      BY <2>3 DEF Groups5
    <3>2. b * c \in 0..31
      BY <2>1
    <3> QED BY <3>1, <3>2 DEF Groups5
  <2> QED BY <2>4, <2>5 DEF Sum8
<1>2. ASSUME NEW k \in Groups5
      PROVE  XorAll(XorAll(XorAll(XorAll(Selects(CashGen, k, 1), Selects(CashGen, k, 2)), Selects(CashGen, k, 3)),
                   Selects(CashGen, k, 4)), Selects(CashGen, k, 5)) \in Sum8
  <2>1. \A n \in 1..5 : Selects(CashGen, k, n) \in Sum8
    BY <1>1
  <2>2. PICK s : s = [n \in 1..5 |-> Selects(CashGen, k, n)]
    OBVIOUS
  <2>3. s[1] \in Sum8 /\ s[2] \in Sum8 /\ s[3] \in Sum8 /\ s[4] \in Sum8 /\ s[5] \in Sum8
    BY <2>1, <2>2
  <2>4. XorAll(XorAll(s[1], s[2]), s[3]) \in Sum8
    BY <2>3, XorAll8
  <2>5. XorAll(XorAll(XorAll(XorAll(s[1], s[2]), s[3]), s[4]), s[5]) \in Sum8
    BY <2>3, <2>4, XorAll8
  <2> QED BY <2>2, <2>5
<1> QED BY <1>2 DEF CashTable, Selected, Groups5

\* a value more makes a sum of one,
LEMMA Absorbed8 ==
  ASSUME NEW s \in Sum8, NEW v \in Groups5
  PROVE  Absorbed(CashTable, s, v) \in Sum8
<1>1. Len(s) = 8 /\ DOMAIN s = 1..8 /\ \A i \in 1..8 : s[i] \in Groups5
  <2>1. Len(s) = 8
    BY SeqOfFunction DEF Sum8
  <2> QED BY <2>1 DEF Sum8
<1>2. Shifted(s, v) = [i \in 1..8 |-> IF i < 8 THEN s[i + 1] ELSE v]
  BY <1>1 DEF Shifted
<1>3. \A i \in 1..8 : (IF i < 8 THEN s[i + 1] ELSE v) \in Groups5
  <2>1. \A i \in 1..8 : i < 8 => i + 1 \in 1..8
    OBVIOUS
  <2> QED BY <1>1, <2>1
<1>4. Shifted(s, v) \in Sum8
  BY <1>2, <1>3 DEF Sum8
<1>5. CashTable[s[1]] \in Sum8
  BY <1>1, CashTableType
<1> QED BY <1>4, <1>5, XorAll8 DEF Absorbed

\* and so is the sum of every sequence of values (cashAddrPolymod).
LEMMA CashSumType ==
  ASSUME NEW values \in Seq(Groups5)
  PROVE  Polymod(CashTable, values) \in Sum8
<1>1. Len(CashTable[0]) = 8
  <2>1. CashTable[0] \in Sum8
    BY CashTableType DEF Groups5
  <2> QED BY <2>1, SeqOfFunction DEF Sum8
<1>2. PICK n \in Nat : n = Len(values)
  OBVIOUS
<1>3. \A i \in 1..n : values[i] \in Groups5
  BY <1>2
<1>4. Unit(8) \in Sum8
  BY DEF Unit, Sum8, Groups5
<1> DEFINE step == [i \in 1..n |-> [s \in Sum8 |-> Absorbed(CashTable, s, values[i])]]
<1>5. step \in [1..n -> [Sum8 -> Sum8]]
  BY <1>3, Absorbed8
<1>6. PICK g : Iterates(g, n, Sum8, Unit(8), step)
  <2> HIDE DEF step
  <2> QED BY <1>4, <1>5, Iterated
<1>7. \A i \in 1..n : g[i] = Absorbed(CashTable, g[i - 1], values[i])
  <2> TAKE i \in 1..n
  <2>1. i - 1 \in 0..n
    OBVIOUS
  <2>2. g[i - 1] \in Sum8
    BY <1>6, <2>1 DEF Iterates
  <2>3. g[i] = step[i][g[i - 1]]
    BY <1>6 DEF Iterates
  <2> QED BY <2>2, <2>3
<1> DEFINE Is(f) == f = [i \in 0..Len(values) |->
                           IF i = 0 THEN Unit(Len(CashTable[0])) ELSE Absorbed(CashTable, f[i - 1], values[i])]
<1>8. \A i \in 0..n : g[i] = IF i = 0 THEN Unit(8) ELSE Absorbed(CashTable, g[i - 1], values[i])
  <2>1. \A i \in 0..n : i = 0 \/ i \in 1..n
    OBVIOUS
  <2>2. g[0] = Unit(8)
    BY <1>6 DEF Iterates
  <2> QED BY <1>7, <2>1, <2>2
<1>9. Is(g)
  <2>1. g = [i \in 0..n |-> g[i]]
    BY <1>6 DEF Iterates
  <2> QED BY <1>1, <1>2, <1>8, <2>1
<1>10. PICK p : p = PolymodSums(CashTable, values)
  OBVIOUS
<1>11. p = [i \in 0..n |-> IF i = 0 THEN Unit(8) ELSE Absorbed(CashTable, p[i - 1], values[i])]
  <2>1. p = CHOOSE f : Is(f)
    BY <1>10 DEF PolymodSums
  <2>2. Is(p)
    <3> HIDE DEF Is
    <3> QED BY <1>9, <2>1
  <2> QED BY <1>1, <1>2, <2>2
<1>12. p[0] = Unit(8)
  BY <1>11
<1>13. \A i \in 1..n : p[i] = Absorbed(CashTable, p[i - 1], values[i])
  BY <1>11
<1> DEFINE T == {k \in 0..n : p[k] \in Sum8}
<1>14. 0 \in T
  BY <1>4, <1>12
<1>15. ASSUME NEW k \in 0..(n - 1), k \in T PROVE k + 1 \in T
  <2>1. k + 1 \in 1..n /\ (k + 1) - 1 = k /\ k + 1 \in 0..n
    OBVIOUS
  <2>2. p[k + 1] = Absorbed(CashTable, p[k], values[k + 1]) /\ values[k + 1] \in Groups5 /\ p[k] \in Sum8
    BY <1>3, <1>13, <1>15, <2>1
  <2>3. p[k + 1] \in Sum8
    BY <2>2, Absorbed8
  <2> QED BY <2>1, <2>3
<1>16. n \in T
  <2>1. n \in 0..n
    OBVIOUS
  <2> HIDE DEF T
  <2> QED BY <1>14, <1>15, <2>1, Reached
<1> QED BY <1>2, <1>10, <1>16 DEF Polymod

\* The prefix comes to groups of five.
LEMMA PrefixOfBitcoinCash ==
  CashPrefix(bitcoincash) \in Seq(Groups5)
<1>1. PICK p : p = bitcoincash
  OBVIOUS
<1>2. DOMAIN p = 1..11 /\ \A i \in 1..11 : p[i] \in Nat
  <2>1. \A i \in 1..11 : i \in {1, 2, 3, 4, 5, 6, 7, 8, 9, 10, 11}
    OBVIOUS
  <2>2. DOMAIN p = 1..11 /\ \A i \in {1, 2, 3, 4, 5, 6, 7, 8, 9, 10, 11} : p[i] \in Nat
    BY <1>1 DEF bitcoincash
  <2> QED BY <2>1, <2>2
<1>3. PICK l : l = [i \in 1..11 |-> p[i] % 32]
  OBVIOUS
<1>4. \A i \in 1..11 : l[i] \in Groups5
  <2> TAKE i \in 1..11
  <2>1. PICK c \in Nat : c = p[i]
    BY <1>2
  <2>2. c % 32 \in 0..31
    OBVIOUS
  <2> QED BY <1>3, <2>1, <2>2 DEF Groups5
<1>5. l \in Seq(Groups5)
  <2>1. l \in [1..11 -> Groups5]
    BY <1>3, <1>4
  <2> QED BY <2>1, SeqOfFunction
<1>6. CashPrefix(bitcoincash) = l \o <<0>>
  BY <1>1, <1>2, <1>3 DEF CashPrefix
<1>7. <<0>> \in Seq(Groups5)
  BY DEF Groups5
<1> QED BY <1>5, <1>6, <1>7

\* What is left without the first.
LEMMA OneLess ==
  ASSUME NEW S, NEW s \in Seq(S), Len(s) # 0
  PROVE  Tail(s) \in Seq(S) /\ Len(Tail(s)) = Len(s) - 1
<1>1. s # <<>>
  OBVIOUS
<1> QED BY <1>1, HeadTailProperties

\* 33 groups of five are left of an address of CashAddr, five bits too many.
LEMMA FiveBitsOver ==
  ASSUME NEW g \in Seq(Groups5), Len(g) = 33
  PROVE  ~ConvertBits(g, 5, 8).ok
<1>1. PICK b : b = Bits(g, 5)
  OBVIOUS
<1>2. Len(b) = 165
  <2>1. b = [i \in 1..(5 * 33) |-> Bit(g[((i - 1) \div 5) + 1], 5 - ((i - 1) % 5))]
    BY <1>1 DEF Bits
  <2>2. 5 * 33 = 165
    OBVIOUS
  <2> QED BY <2>1, <2>2
<1>3. 165 \div 8 = 20
  OBVIOUS
<1>4. ~(165 - 8 * 20 < 5)
  OBVIOUS
<1> QED BY <1>1, <1>2, <1>3, <1>4 DEF ConvertBits

\* A wallet of CashAddr gives no script, whatever its hash: what decodeCashAddr
\* leaves after the version is one group too long for twenty bytes.
LEMMA CashIsNotPaid ==
  ASSUME NEW t \in Cash
  PROVE  BuildOutputScript(t) = Nothing
<1>1. PICK kind \in {0, 1}, hash \in Hashes20 : t = CashAddress(bitcoincash, kind, hash)
  BY DEF Cash
<1>2. PICK d : d = Padded(<<8 * kind>> \o hash)
  OBVIOUS
<1>3. d \in Seq(Groups5) /\ Len(d) = 34
  <2>1. 8 * kind \in Octets
    BY DEF Octets
  <2>2. <<8 * kind>> \in Seq(Octets) /\ Len(<<8 * kind>>) = 1
    BY <2>1
  <2>3. PICK v : v = <<8 * kind>>
    OBVIOUS
  <2>4. Parts(v \o hash, v, hash, 1, 20)
    BY <2>2, <2>3, HashesAreBytes, Parted
  <2>5. PICK a : a = v \o hash
    OBVIOUS
  <2>6. a \in Seq(Octets) /\ Len(a) = 21
    <3>1. a \in Seq(Octets)
      BY <2>2, <2>3, <2>5, HashesAreBytes
    <3> QED BY <2>4, <2>5, <3>1 DEF Parts
  <2>7. Padded(a) \in Seq(Groups5) /\ Len(Padded(a)) = (8 * 21 + 4) \div 5
    BY <2>6, PaddedIs
  <2>8. (8 * 21 + 4) \div 5 = 34
    OBVIOUS
  <2> QED BY <1>2, <2>3, <2>5, <2>7, <2>8
<1>4. PICK sum : sum = Polymod(CashTable, CashPrefix(bitcoincash) \o d \o [i \in 1..8 |-> 0])
  OBVIOUS
<1>5. sum \in Sum8
  <2>1. PICK z : z = [i \in 1..8 |-> 0]
    OBVIOUS
  <2>2. z \in Seq(Groups5)
    <3>1. z \in [1..8 -> Groups5]
      BY <2>1 DEF Groups5
    <3> QED BY <3>1, SeqOfFunction
  <2>3. CashPrefix(bitcoincash) \o d \o z \in Seq(Groups5)
    BY <1>3, <2>2, PrefixOfBitcoinCash
  <2> QED BY <1>4, <2>1, <2>3, CashSumType
<1>6. PICK c : c = XorAll(sum, Unit(8))
  OBVIOUS
<1>7. c \in Seq(Groups5) /\ Len(c) = 8
  <2>1. Unit(8) \in Sum8
    BY DEF Unit, Sum8, Groups5
  <2>2. c \in Sum8
    BY <1>5, <1>6, <2>1, XorAll8
  <2> QED BY <2>2, EightGroups
<1>8. t.data = d \o c /\ t.starts = "with a colon"
  BY <1>1, <1>2, <1>4, <1>6 DEF CashAddress, Text
<1>9. Parts(d \o c, d, c, 34, 8)
  BY <1>3, <1>7, Parted
<1>10. SubSeq(t.data, 1, Len(t.data) - 8) = d
  <2>1. Len(t.data) = 34 + 8 /\ SubSeq(t.data, 1, 34) = d
    BY <1>8, <1>9 DEF Parts
  <2>2. (34 + 8) - 8 = 34
    OBVIOUS
  <2> QED BY <2>1, <2>2
<1>11. Tail(d) \in Seq(Groups5) /\ Len(Tail(d)) = 33
  <2>1. Len(d) # 0 /\ Len(d) - 1 = 33
    BY <1>3
  <2>2. Tail(d) \in Seq(Groups5) /\ Len(Tail(d)) = Len(d) - 1
    BY <1>3, <2>1, OneLess
  <2> QED BY <2>1, <2>2
<1>12. ~ConvertBits(Tail(d), 5, 8).ok
  BY <1>11, FiveBitsOver
<1>13. BuildCashAddrScript(t) = Nothing
  BY <1>10, <1>12 DEF BuildCashAddrScript
<1> QED BY <1>8, <1>13 DEF BuildOutputScript

\* Every reward of a wallet in CashAddr is lost.
THEOREM CashAddressesAreNeverPaid ==
  AddressSpec => [](script # NoScript /\ wallet \in Cash => script = Pays("OP_RETURN", <<>>))
<1>1. AddressInv => (script # NoScript /\ wallet \in Cash => script = Pays("OP_RETURN", <<>>))
  BY CashIsNotPaid DEF AddressInv, Nothing
<1> QED BY <1>1, AddressInvariant, PTL

\* The hash of a script is paid as that of a key.
THEOREM LegacyScriptsArePaidAsKeys ==
  AddressSpec => [](script # NoScript /\ wallet \in LegacyScript => script = Pays("P2PKH", wallet.names.hash))
<1>1. ASSUME NEW t \in LegacyScript
      PROVE  BuildOutputScript(t) = Pays("P2PKH", t.names.hash) /\ BuildOutputScript(t).ok
  <2>1. PICK hash \in Hashes20 : t = Base58Address(5, "P2SH", hash, "otherwise")
    BY DEF LegacyScript
  <2>2. hash \in Seq(Octets) /\ Len(hash) = 20 /\ 5 \in Octets
    BY HashesAreBytes DEF Octets
  <2>3. BuildOutputScript(t) = Pays("P2PKH", hash) /\ t.names = Pays("P2SH", hash)
    BY <2>1, <2>2, Base58IsPaid
  <2> QED BY <2>3 DEF Pays
<1>2. AddressInv => (script # NoScript /\ wallet \in LegacyScript => script = Pays("P2PKH", wallet.names.hash))
  BY <1>1 DEF AddressInv
<1> QED BY <1>2, AddressInvariant, PTL
=============================================================================
