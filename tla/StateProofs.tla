---------------------------- MODULE StateProofs -----------------------------
(***************************************************************************)
(* Proofs about what the pool keeps and saves: the share window            *)
(* (ShareWindow), the saves of the state files (SnapshotFile), the         *)
(* settings and their file (Settings) and the swap jobs and their file     *)
(* (Swap).  The parts share no variable, and each has an inductive         *)
(* invariant of its own.                                                   *)
(***************************************************************************)
EXTENDS ShareWindow, SnapshotFile, Settings, Swap, Lemmas

-----------------------------------------------------------------------------
(***************************************************************************)
(* ShareWindow, for every set of shares and every set of window sizes: the *)
(* buffer stays well formed, and it implements ShareLog.                   *)
(***************************************************************************)

(* The buffer stays well formed.                                           *)

WellFormed == TypeOK /\ ValidSlots

\* Advancing the write position wraps to 0 after the last slot.
LEMMA NextPosition ==
  ASSUME NEW n \in Nat \ {0}, NEW h \in 0..(n - 1)
  PROVE  (h + 1) % n = IF h + 1 = n THEN 0 ELSE h + 1
<1>1. CASE h + 1 = n
  BY <1>1, SMT
<1>2. CASE h + 1 # n
  <2>1. h + 1 \in 0..(n - 1)
    BY <1>2
  <2> QED BY <2>1, <1>2, SMT
<1> QED BY <1>1, <1>2

\* What snapshot() returns: `count' shares, in the order of the slots from
\* the oldest one.
SnapshotIs ==
  /\ Snapshot \in Seq(Share)
  /\ Len(Snapshot) = count
  /\ \A i \in 1..count :
       Snapshot[i] = IF count < cap THEN buf[i - 1]
                     ELSE IF i <= cap - head THEN buf[head + i - 1]
                     ELSE buf[i - 1 - (cap - head)]

LEMMA SnapshotProperties == WellFormed => SnapshotIs
<1> SUFFICES ASSUME WellFormed PROVE SnapshotIs
  OBVIOUS
<1>1. /\ cap \in Nat \ {0}
      /\ buf \in [0..(cap - 1) -> Share \cup {NoShare}]
      /\ head \in 0..(cap - 1)
      /\ count \in 0..cap
  BY WindowAssumption DEF WellFormed, TypeOK
<1>2. \A i \in 0..(cap - 1) : i < count => buf[i] \in Share
  BY DEF WellFormed, ValidSlots
<1>3. ASSUME NEW from \in 0..count, NEW to \in 0..count, from <= to
      PROVE  /\ Slice(buf, from, to) \in Seq(Share)
             /\ Len(Slice(buf, from, to)) = to - from
             /\ \A i \in 1..(to - from) :
                  Slice(buf, from, to)[i] = buf[from + i - 1]
  <2> DEFINE d == to - from
             f == [i \in 1..d |-> buf[from + i - 1]]
  <2>1. d \in Nat
    BY <1>1, <1>3
  <2>2. \A i \in 1..d : buf[from + i - 1] \in Share
    <3>1. \A i \in 1..d : from + i - 1 \in 0..(cap - 1) /\ from + i - 1 < count
      BY <1>1, <1>3
    <3> QED BY <3>1, <1>2
  <2>3. f \in [1..d -> Share]
    BY <2>2
  <2>4. f \in Seq(Share) /\ Len(f) = d
    <3> HIDE DEF f, d
    <3> QED BY <2>1, <2>3, SeqOfFunction
  <2> QED BY <2>4 DEF Slice
<1>4. CASE count < cap
  <2>1. Snapshot = Slice(buf, 0, count)
    BY <1>4 DEF Snapshot
  <2>2. /\ Slice(buf, 0, count) \in Seq(Share)
        /\ Len(Slice(buf, 0, count)) = count - 0
        /\ \A i \in 1..(count - 0) :
             Slice(buf, 0, count)[i] = buf[0 + i - 1]
    <3>1. 0 \in 0..count /\ count \in 0..count /\ 0 <= count
      BY <1>1
    <3> QED BY <3>1, <1>3
  <2>3. count - 0 = count /\ \A i \in 1..count : 0 + i - 1 = i - 1
    BY <1>1
  <2> QED BY <1>1, <1>4, <2>1, <2>2, <2>3 DEF SnapshotIs
<1>5. CASE ~(count < cap)
  <2> DEFINE p == Slice(buf, head, cap)
             q == Slice(buf, 0, head)
  <2>1. Snapshot = p \o q /\ count = cap
    BY <1>1, <1>5 DEF Snapshot
  <2>2. /\ p \in Seq(Share)
        /\ Len(p) = cap - head
        /\ \A i \in 1..(cap - head) : p[i] = buf[head + i - 1]
    BY <1>1, <1>3, <2>1
  <2>3. /\ q \in Seq(Share)
        /\ Len(q) = head - 0
        /\ \A i \in 1..(head - 0) : q[i] = buf[0 + i - 1]
    <3>1. 0 \in 0..count /\ head \in 0..count /\ 0 <= head
      BY <1>1, <2>1
    <3> QED BY <3>1, <1>3
  <2> HIDE DEF p, q
  <2>4. /\ p \o q \in Seq(Share)
        /\ Len(p \o q) = Len(p) + Len(q)
        /\ \A i \in 1..(Len(p) + Len(q)) :
             (p \o q)[i] = IF i <= Len(p) THEN p[i] ELSE q[i - Len(p)]
    BY <2>2, <2>3, ConcatProperties
  <2>5. Len(p) + Len(q) = cap
    BY <1>1, <2>2, <2>3
  <2>6. ASSUME NEW i \in 1..cap
        PROVE  (p \o q)[i] = IF i <= cap - head THEN buf[head + i - 1]
                             ELSE buf[i - 1 - (cap - head)]
    <3>1. CASE i <= cap - head
      BY <1>1, <2>2, <2>4, <2>5, <2>6, <3>1
    <3>2. CASE ~(i <= cap - head)
      <4>1. i - Len(p) \in 1..(head - 0) /\ 0 + (i - Len(p)) - 1 = i - 1 - (cap - head)
        BY <1>1, <2>2, <2>6, <3>2
      <4>2. (p \o q)[i] = q[i - Len(p)]
        BY <1>1, <2>2, <2>4, <2>5, <2>6, <3>2
      <4> QED BY <2>3, <4>1, <4>2, <3>2
    <3> QED BY <3>1, <3>2
  <2> QED BY <1>1, <1>5, <2>1, <2>4, <2>5, <2>6 DEF SnapshotIs
<1> QED BY <1>4, <1>5
-----------------------------------------------------------------------------
\* Pushing a share keeps the buffer well formed.
LEMMA PushWellFormed ==
  ASSUME WellFormed, NEW x \in Share, Push(x), replay' \in Seq(Share)
  PROVE  WellFormed'
<1>1. /\ cap \in Nat \ {0}
      /\ cap \in Sizes
      /\ buf \in [0..(cap - 1) -> Share \cup {NoShare}]
      /\ head \in 0..(cap - 1)
      /\ count \in 0..cap
      /\ count < cap => head = count
      /\ \A i \in 0..(cap - 1) : i < count => buf[i] \in Share
  BY WindowAssumption DEF WellFormed, TypeOK, ValidSlots
<1>2. /\ cap' = cap
      /\ buf' = [buf EXCEPT ![head] = x]
      /\ head' = IF head + 1 = cap THEN 0 ELSE head + 1
      /\ count' = IF count < cap THEN count + 1 ELSE count
  BY <1>1, NextPosition DEF Push
<1>3. TypeOK'
  BY <1>1, <1>2 DEF TypeOK
<1>4. count' < cap' => head' = count'
  BY <1>1, <1>2
<1>5. ASSUME NEW i \in 0..(cap' - 1), i < count' PROVE buf'[i] \in Share
  <2>1. CASE i = head
    BY <2>1, <1>1, <1>2
  <2>2. CASE i # head
    <3>1. buf'[i] = buf[i] /\ i < count
      BY <2>2, <1>1, <1>2, <1>5
    <3> QED BY <3>1, <1>1, <1>2, <1>5
  <2> QED BY <2>1, <2>2
<1> QED BY <1>3, <1>4, <1>5 DEF WellFormed, ValidSlots

\* A new or restarted buffer is well formed.
LEMMA NewRingWellFormed ==
  ASSUME NEW n \in Sizes, NewRing(n), replay' \in Seq(Share)
  PROVE  WellFormed'
<1>1. n \in Nat \ {0}
  BY WindowAssumption
<1> QED BY <1>1 DEF NewRing, WellFormed, TypeOK, ValidSlots

LEMMA WellFormedInit == Init => WellFormed
<1> SUFFICES ASSUME Init PROVE WellFormed
  OBVIOUS
<1>1. PICK n \in Sizes : /\ cap = n
                         /\ buf = [i \in 0..(n - 1) |-> NoShare]
                         /\ head = 0 /\ count = 0 /\ replay = << >>
  BY DEF Init
<1>2. n \in Nat \ {0}
  BY WindowAssumption
<1> QED BY <1>1, <1>2 DEF WellFormed, TypeOK, ValidSlots

LEMMA WellFormedNext == WellFormed /\ [Next]_vars => WellFormed'
<1> SUFFICES ASSUME WellFormed, [Next]_vars PROVE WellFormed'
  OBVIOUS
<1>1. ASSUME NEW x \in Share, RecordShare(x) PROVE WellFormed'
  BY <1>1, PushWellFormed DEF RecordShare, WellFormed, TypeOK
<1>2. ASSUME NEW n \in Sizes, Restart(n) PROVE WellFormed'
  <2>1. Snapshot \in Seq(Share)
    BY SnapshotProperties DEF SnapshotIs
  <2> QED BY <1>2, <2>1, NewRingWellFormed DEF Restart
<1>3. ASSUME ReplayShare PROVE WellFormed'
  <2>1. replay \in Seq(Share) /\ replay # << >>
    BY <1>3 DEF ReplayShare, WellFormed, TypeOK
  <2>2. Head(replay) \in Share /\ Tail(replay) \in Seq(Share)
    BY <2>1, HeadTailProperties
  <2> QED BY <1>3, <2>2, PushWellFormed DEF ReplayShare
<1>4. ASSUME UNCHANGED vars PROVE WellFormed'
  BY <1>4 DEF vars, WellFormed, TypeOK, ValidSlots
<1> QED BY <1>1, <1>2, <1>3, <1>4 DEF Next

\* Every reachable buffer is well formed: no snapshot contains a slot that
\* was never written, whatever window size the operator configures.
THEOREM WindowWellFormed == Spec => [](TypeOK /\ ValidSlots)
<1>1. Init => WellFormed
  BY WellFormedInit
<1>2. WellFormed /\ [Next]_vars => WellFormed'
  BY WellFormedNext
<1>3. Spec => []WellFormed
  BY <1>1, <1>2, PTL DEF Spec
<1> QED BY <1>3, PTL DEF WellFormed
-----------------------------------------------------------------------------
(* The buffer implements ShareLog.                                         *)

\* push() is "append and keep the newest cap shares", wherever the write
\* position is and whether or not the buffer has wrapped.
LEMMA PushSnapshot ==
  ASSUME WellFormed, WellFormed', NEW x \in Share, Push(x)
  PROVE  Snapshot' = PushLast(Snapshot, x, cap)
<1> DEFINE s == Snapshot
           t == Snapshot'
           u == Append(s, x)
           r == LastN(u, cap)
<1>1. /\ cap \in Nat \ {0}
      /\ buf \in [0..(cap - 1) -> Share \cup {NoShare}]
      /\ head \in 0..(cap - 1)
      /\ count \in 0..cap
      /\ count < cap => head = count
  BY WindowAssumption DEF WellFormed, TypeOK, ValidSlots
<1>2. /\ cap' = cap
      /\ buf' = [buf EXCEPT ![head] = x]
      /\ head' = IF head + 1 = cap THEN 0 ELSE head + 1
      /\ count' = IF count < cap THEN count + 1 ELSE count
  BY <1>1, NextPosition DEF Push
<1>3. /\ s \in Seq(Share)
      /\ Len(s) = count
      /\ \A i \in 1..count :
           s[i] = IF count < cap THEN buf[i - 1]
                  ELSE IF i <= cap - head THEN buf[head + i - 1]
                  ELSE buf[i - 1 - (cap - head)]
  BY SnapshotProperties DEF SnapshotIs
<1>4. SnapshotIs'
  <2>1. WellFormed' => SnapshotIs'
    BY SnapshotProperties, PTL
  <2> QED BY <2>1
<1>5. /\ t \in Seq(Share)
      /\ Len(t) = count'
      /\ \A i \in 1..count' :
           t[i] = IF count' < cap' THEN buf'[i - 1]
                  ELSE IF i <= cap' - head' THEN buf'[head' + i - 1]
                  ELSE buf'[i - 1 - (cap' - head')]
  BY <1>4 DEF SnapshotIs
<1> HIDE DEF s, t
<1>6. /\ u \in Seq(Share)
      /\ Len(u) = count + 1
      /\ \A i \in 1..count : u[i] = s[i]
      /\ u[count + 1] = x
  BY <1>3, AppendProperties
<1> HIDE DEF u
<1>7. /\ r \in Seq(Share)
      /\ Len(r) = IF Len(u) <= cap THEN Len(u) ELSE cap
      /\ \A i \in 1..Len(r) : r[i] = u[Len(u) - Len(r) + i]
  <2>1. u \in Seq(Share) /\ cap \in Nat
    BY <1>1, <1>6
  <2> QED BY <2>1, LastNProperties
<1> HIDE DEF r
<1>8. Len(r) = count' /\ count' \in Nat
  BY <1>1, <1>2, <1>6, <1>7
<1>9. ASSUME NEW i \in 1..count' PROVE t[i] = r[i]
  <2>1. \A k \in 0..(cap - 1) : buf'[k] = IF k = head THEN x ELSE buf[k]
    BY <1>1, <1>2
  <2>2. r[i] = u[count + 1 - count' + i]
    <3>1. r[i] = u[Len(u) - Len(r) + i]
      BY <1>7, <1>8, <1>9
    <3>2. Len(u) - Len(r) + i = count + 1 - count' + i
      BY <1>1, <1>6, <1>8, <1>9
    <3> QED BY <3>1, <3>2
  <2>3. CASE count < cap
    <3>1. r[i] = u[i] /\ i \in 1..(count + 1) /\ i - 1 \in 0..(cap - 1) /\ head = count
      BY <1>1, <1>2, <1>9, <2>2, <2>3
    <3>2. u[i] = IF i - 1 = head THEN x ELSE buf[i - 1]
      <4>1. count \in Nat /\ i \in Nat
        BY <1>1, <3>1
      <4>2. u[i] = IF i = count + 1 THEN x ELSE s[i]
        BY <1>6, <3>1, <4>1
      <4> QED BY <1>1, <1>3, <2>3, <3>1, <4>1, <4>2
    <3>3. t[i] = buf'[i - 1]
      BY <1>1, <1>2, <1>5, <1>9, <2>3, <3>1
    <3> QED BY <2>1, <3>1, <3>2, <3>3
  <2>4. CASE ~(count < cap)
    <3>1. count = cap /\ count' = cap /\ i \in 1..cap /\ r[i] = u[i + 1]
      BY <1>1, <1>2, <1>9, <2>2, <2>4
    <3>2. CASE head + 1 = cap
      <4>1. head' = 0 /\ t[i] = buf'[i - 1]
        <5>1. head' = 0 /\ cap' = cap
          BY <1>2, <3>2
        <5>2. ~(count' < cap') /\ i <= cap' - head' /\ head' + i - 1 = i - 1
          BY <1>1, <3>1, <5>1
        <5>3. t[i] = buf'[head' + i - 1]
          BY <1>5, <1>9, <5>2
        <5> QED BY <5>1, <5>2, <5>3
      <4>2. CASE i = cap
        <5>1. i - 1 = head /\ i - 1 \in 0..(cap - 1) /\ i + 1 = count + 1
          BY <1>1, <3>1, <3>2, <4>2
        <5>2. buf'[i - 1] = x
          BY <2>1, <5>1
        <5>3. r[i] = x
          BY <1>6, <3>1, <5>1
        <5> QED BY <4>1, <5>2, <5>3
      <4>3. CASE i # cap
        <5>1. i + 1 \in 1..count /\ ~(i + 1 <= cap - head) /\ i + 1 - 1 - (cap - head) = i - 1
          BY <1>1, <3>1, <3>2, <4>3
        <5>2. u[i + 1] = buf[i - 1]
          <6> DEFINE j == i + 1
          <6>1. j \in 1..count /\ ~(j <= cap - head) /\ j - 1 - (cap - head) = i - 1
            BY <1>1, <1>8, <1>9, <5>1
          <6> HIDE DEF j
          <6>2. u[j] = s[j] /\ s[j] = buf[j - 1 - (cap - head)]
            BY <1>3, <1>6, <2>4, <6>1
          <6> QED BY <6>1, <6>2 DEF j
        <5>3. buf'[i - 1] = buf[i - 1]
          BY <1>1, <2>1, <3>1, <3>2, <4>3
        <5> QED BY <3>1, <4>1, <5>2, <5>3
      <4> QED BY <4>2, <4>3
    <3>3. CASE head + 1 # cap
      <4>1. /\ head' = head + 1
            /\ t[i] = IF i <= cap - (head + 1) THEN buf'[head + 1 + i - 1]
                      ELSE buf'[i - 1 - (cap - (head + 1))]
        BY <1>1, <1>2, <1>5, <1>9, <3>1, <3>3
      <4>2. CASE i = cap
        <5>1. t[i] = buf'[head]
          BY <1>1, <4>1, <4>2
        <5> QED BY <1>1, <1>6, <2>1, <3>1, <4>2, <5>1
      <4>3. CASE i # cap
        <5>1. i + 1 \in 1..count
          BY <1>1, <3>1, <4>3
        <5>2. u[i + 1] = s[i + 1]
          BY <1>6, <5>1
        <5>3. s[i + 1] = IF i + 1 <= cap - head THEN buf[head + i + 1 - 1]
                         ELSE buf[i + 1 - 1 - (cap - head)]
          <6> DEFINE j == i + 1
          <6>1. j \in 1..count
            BY <5>1
          <6> HIDE DEF j
          <6>2. s[j] = IF j <= cap - head THEN buf[head + j - 1]
                       ELSE buf[j - 1 - (cap - head)]
            BY <1>3, <2>4, <6>1
          <6> QED BY <6>2, <1>1 DEF j
        <5>4. CASE i <= cap - (head + 1)
          BY <1>1, <2>1, <3>1, <4>1, <4>3, <5>2, <5>3, <5>4
        <5>5. CASE ~(i <= cap - (head + 1))
          BY <1>1, <2>1, <3>1, <4>1, <4>3, <5>2, <5>3, <5>5
        <5> QED BY <5>4, <5>5
      <4> QED BY <4>2, <4>3
    <3> QED BY <3>2, <3>3
  <2> QED BY <2>3, <2>4
<1>10. t = r
  BY <1>5, <1>7, <1>8, <1>9, SeqEqual
<1> QED BY <1>10 DEF t, r, u, s, PushLast

\* A snapshot fits the window, so the refinement mapping is the snapshot
\* itself whenever no reload is in progress.
LEMMA RecentIsSnapshot ==
  WellFormed /\ replay = << >> => LastN(Snapshot \o replay, cap) = Snapshot
<1> SUFFICES ASSUME WellFormed, replay = << >>
             PROVE  LastN(Snapshot \o replay, cap) = Snapshot
  OBVIOUS
<1>1. Snapshot \in Seq(Share) /\ Len(Snapshot) <= cap /\ cap \in Nat
  BY SnapshotProperties, WindowAssumption DEF SnapshotIs, WellFormed, TypeOK
<1>2. Snapshot \o << >> = Snapshot
  BY <1>1, ConcatEmptySeq
<1> QED BY <1>1, <1>2, LastNAll

LEMMA RefinesInit == WellFormed /\ Init => Log!Init
<1> SUFFICES ASSUME WellFormed, Init PROVE Log!Init
  OBVIOUS
<1>1. cap \in Sizes /\ count = 0 /\ replay = << >>
  BY DEF Init
<1>2. Snapshot = << >>
  BY <1>1, SnapshotProperties, EmptySeq DEF SnapshotIs
<1>3. LastN(Snapshot \o replay, cap) = << >>
  BY <1>1, <1>2, RecentIsSnapshot
<1> QED BY <1>1, <1>3 DEF Log!Init

LEMMA RefinesNext ==
  WellFormed /\ WellFormed' /\ [Next]_vars => [Log!Next]_(Log!logVars)
<1> SUFFICES ASSUME WellFormed, WellFormed', [Next]_vars
             PROVE  [Log!Next]_(Log!logVars)
  OBVIOUS
<1> DEFINE recent == LastN(Snapshot \o replay, cap)
<1>1. cap \in Nat \ {0} /\ cap' \in Nat \ {0} /\ replay \in Seq(Share)
  BY WindowAssumption DEF WellFormed, TypeOK
<1>2. Snapshot \in Seq(Share) /\ Snapshot' \in Seq(Share)
  <2>1. WellFormed' => SnapshotIs'
    BY SnapshotProperties, PTL
  <2> QED BY <2>1, SnapshotProperties DEF SnapshotIs
<1>3. replay' = << >> => recent' = Snapshot'
  <2>1. WellFormed' /\ (replay = << >>)' => (LastN(Snapshot \o replay, cap) = Snapshot)'
    BY RecentIsSnapshot, PTL
  <2> QED BY <2>1
<1>4. ASSUME NEW x \in Share, RecordShare(x) PROVE Log!Record(x)
  <2>1. replay = << >> /\ replay' = << >> /\ cap' = cap /\ Push(x)
    BY <1>4 DEF RecordShare, Push
  <2>2. recent' = PushLast(Snapshot, x, cap)
    BY <2>1, <1>3, <1>4, PushSnapshot
  <2>3. recent = Snapshot
    BY <2>1, RecentIsSnapshot
  <2> QED BY <2>1, <2>2, <2>3 DEF Log!Record, PushLast, Log!PushLast, LastN, Log!LastN
<1>5. ASSUME NEW n \in Sizes, Restart(n) PROVE Log!Resize(n)
  <2>1. replay = << >> /\ replay' = Snapshot /\ cap' = n /\ count' = 0
    BY <1>5 DEF Restart, NewRing
  <2>2. Snapshot' = << >>
    <3>1. WellFormed' => SnapshotIs'
      BY SnapshotProperties, PTL
    <3> QED BY <3>1, <2>1, EmptySeq DEF SnapshotIs
  <2>3. recent' = LastN(Snapshot, n)
    BY <2>1, <2>2, <1>2, ConcatEmptySeq
  <2>4. recent = Snapshot
    BY <2>1, RecentIsSnapshot
  <2> QED BY <2>1, <2>3, <2>4 DEF Log!Resize, LastN, Log!LastN
<1>6. ASSUME ReplayShare PROVE UNCHANGED Log!logVars
  <2> DEFINE h == Head(replay)
             t == Tail(replay)
  <2>1. replay # << >> /\ replay' = t /\ cap' = cap /\ Push(h)
    BY <1>6 DEF ReplayShare, Push
  <2>2. h \in Share /\ t \in Seq(Share) /\ replay = << h >> \o t
    <3>1. h \in Share /\ t \in Seq(Share)
      BY <1>1, <2>1, HeadTailProperties
    <3>2. << h >> \in Seq(Share) /\ Len(<< h >>) = 1 /\ << h >>[1] = h
      BY <3>1
    <3>3. Len(t) = Len(replay) - 1 /\ \A i \in 1..Len(t) : t[i] = replay[i + 1]
      BY <1>1, <2>1, HeadTailProperties
    <3>4. Len(replay) \in Nat \ {0} /\ h = replay[1]
      BY <1>1, <2>1, EmptySeq
    <3> HIDE DEF h, t
    <3>5. /\ << h >> \o t \in Seq(Share)
          /\ Len(<< h >> \o t) = 1 + Len(t)
          /\ \A i \in 1..(1 + Len(t)) :
               (<< h >> \o t)[i] = IF i <= 1 THEN << h >>[i] ELSE t[i - 1]
      BY <3>1, <3>2, ConcatProperties
    <3>6. ASSUME NEW i \in 1..Len(replay) PROVE replay[i] = (<< h >> \o t)[i]
      <4>1. CASE i = 1
        BY <3>2, <3>3, <3>4, <3>5, <4>1
      <4>2. CASE i # 1
        <5> DEFINE k == i - 1
        <5>1. k \in 1..Len(t) /\ k + 1 = i /\ i \in 1..(1 + Len(t)) /\ ~(i <= 1)
          BY <3>3, <3>4, <3>6, <4>2
        <5> HIDE DEF k
        <5>2. t[k] = replay[i] 
          BY <3>3, <5>1
        <5> QED BY <3>5, <5>1, <5>2 DEF k
      <4> QED BY <4>1, <4>2
    <3>7. Len(<< h >> \o t) = Len(replay)
      BY <3>3, <3>4, <3>5
    <3>8. replay = << h >> \o t
      BY <1>1, <3>5, <3>6, <3>7, SeqEqual
    <3> QED BY <3>1, <3>8
  <2> HIDE DEF h, t
  <2>3. Snapshot' = LastN(Append(Snapshot, h), cap)
    BY <2>1, <2>2, PushSnapshot DEF PushLast
  <2>4. Append(Snapshot, h) = Snapshot \o << h >>
    BY <1>2, <2>2, AppendIsConcat
  <2>5. << h >> \in Seq(Share) /\ Snapshot \o << h >> \in Seq(Share)
    <3>1. << h >> \in Seq(Share)
      BY <2>2
    <3> QED BY <3>1, <1>2, ConcatProperties
  <2>6. recent' = LastN((Snapshot \o << h >>) \o t, cap)
    <3>1. recent' = LastN(LastN(Snapshot \o << h >>, cap) \o t, cap)
      BY <2>1, <2>3, <2>4
    <3>2. PICK a, b : a = Snapshot \o << h >> /\ b = t
      OBVIOUS
    <3>3. a \in Seq(Share) /\ b \in Seq(Share) /\ cap \in Nat
      BY <1>1, <2>2, <2>5, <3>2
    <3>4. LastN(LastN(a, cap) \o b, cap) = LastN(a \o b, cap)
      BY <3>3, LastNConcat
    <3> QED BY <3>1, <3>2, <3>4
  <2>7. (Snapshot \o << h >>) \o t = Snapshot \o replay
    BY <1>2, <2>2, <2>5, ConcatAssociative
  <2>8. recent' = recent /\ cap' = cap
    BY <2>1, <2>6, <2>7
  <2> QED BY <2>8 DEF Log!logVars, LastN, Log!LastN
<1>7. ASSUME UNCHANGED vars PROVE UNCHANGED Log!logVars
  <2>1. Snapshot' = Snapshot
    BY <1>7 DEF vars, Snapshot
  <2> QED BY <1>7, <2>1 DEF vars, Log!logVars
<1> QED BY <1>4, <1>5, <1>6, <1>7 DEF Next, Log!Next

\* The ring buffer, its wrap-around and its reload from the state file
\* implement "the newest N shares, in order", for every N and every change
\* of N across restarts.
THEOREM WindowImplementsLog == Spec => ImplementsShareLog
<1>1. WellFormed /\ Init => Log!Init
  BY RefinesInit
<1>2. WellFormed /\ WellFormed' /\ [Next]_vars => [Log!Next]_(Log!logVars)
  BY RefinesNext
<1>3. Spec => []WellFormed
  BY WindowWellFormed, PTL DEF WellFormed
<1> QED BY <1>1, <1>2, <1>3, PTL DEF Spec, ImplementsShareLog, Log!Spec

-----------------------------------------------------------------------------
(***************************************************************************)
(* SnapshotFile: saves that run under the component's lock and go through a*)
(* temporary file are atomic, for any number of savers, versions and files *)
(* and for any sizes; and in every style nothing that a crash took from    *)
(* memory comes back from a file it left behind.                           *)
(***************************************************************************)

\* The fields keep their types, and a file is open exactly between the open
\* and the write of a save (os.WriteFile).
LEMMA SnapshotTypes == SnapshotSpec => []SnapshotTypeOK
<1>1. SnapshotInit => SnapshotTypeOK
  BY SnapshotAssumption DEF SnapshotInit, SnapshotTypeOK
<1>2. SnapshotTypeOK /\ [SnapshotNext]_snapshotVars => SnapshotTypeOK'
  <2> SUFFICES ASSUME SnapshotTypeOK, [SnapshotNext]_snapshotVars PROVE SnapshotTypeOK'
    OBVIOUS
  <2> USE SnapshotAssumption DEF SnapshotTypeOK
  <2>1. CASE Change
    BY <2>1 DEF Change
  <2>2. ASSUME NEW s \in Savers, Take(s) PROVE SnapshotTypeOK'
    BY <2>2 DEF Take
  <2>3. ASSUME NEW s \in Savers, Open(s) PROVE SnapshotTypeOK'
    <3>1. PICK i \in Opened :
            /\ fd' = [fd EXCEPT ![s] = i]
            /\ data' = [data EXCEPT ![i].len = 0]
            /\ IF Staged THEN tmp' = i /\ UNCHANGED file
                         ELSE file' = i /\ UNCHANGED tmp
      BY <2>3 DEF Open
    <3>2. i \in Inodes
      BY DEF Opened
    <3>3. data' \in [Inodes -> [ver : 0..MaxVersion, len : Nat]]
      BY <3>1, <3>2
    <3> QED BY <2>3, <3>1, <3>2, <3>3 DEF Open
  <2>4. ASSUME NEW s \in Savers, Write(s) PROVE SnapshotTypeOK'
    <3>1. fd[s] \in Inodes /\ copy[s] \in 0..MaxVersion
      BY <2>4 DEF Write
    <3>2. Larger(data[fd[s]].len, Size[copy[s]]) \in Nat
      BY <3>1 DEF Larger
    <3>3. data' = [data EXCEPT ![fd[s]] =
                     [ver |-> copy[s],
                      len |-> Larger(data[fd[s]].len, Size[copy[s]])]]
      BY <2>4, <3>1 DEF Write
    <3>4. data' \in [Inodes -> [ver : 0..MaxVersion, len : Nat]]
      BY <3>1, <3>2, <3>3
    <3>5. acked' \in 0..MaxVersion
      BY <2>4, <3>1 DEF Write, Larger
    <3> QED BY <2>4, <3>1, <3>4, <3>5 DEF Write
  <2>5. ASSUME NEW s \in Savers, SaveFails(s) PROVE SnapshotTypeOK'
    BY <2>5 DEF SaveFails
  <2>6. ASSUME NEW s \in Savers, Rename(s) PROVE SnapshotTypeOK'
    BY <2>6 DEF Rename, Larger
  <2>7. ASSUME NEW s \in Savers, RenameFails(s) PROVE SnapshotTypeOK'
    BY <2>7 DEF RenameFails
  <2>8. CASE SnapshotRestart
    BY <2>8 DEF SnapshotRestart, Loaded, Whole
  <2>9. CASE UNCHANGED snapshotVars
    BY <2>9 DEF snapshotVars
  <2> QED BY <2>1, <2>2, <2>3, <2>4, <2>5, <2>6, <2>7, <2>8, <2>9 DEF SnapshotNext
<1> QED BY <1>1, <1>2, PTL DEF SnapshotSpec
-----------------------------------------------------------------------------
(* Nothing comes back                                                        *)

\* While a saver is past its open, what the temporary name stands for was
\* truncated by a live saver, so it is empty or holds a live version.
Fresh ==
  /\ Staged \/ tmp = NoInode
  /\ \A s \in Savers : copy[s] <= version
  /\ \A s \in Savers : pc[s] \in {"open", "written"} /\ tmp # NoInode =>
       data[tmp].len = 0 \/ data[tmp].ver <= version
  /\ Whole(file) => data[file].ver <= version

\* A restart never loads a state newer than memory was, in any of the styles:
\* stale temporary files are truncated before a rename can install them.
THEOREM NothingComesBack == SnapshotSpec => []NoResurrection
<1>1. SnapshotInit => Fresh
  BY SnapshotAssumption DEF SnapshotInit, Fresh, Whole
<1>2. SnapshotTypeOK /\ Fresh /\ [SnapshotNext]_snapshotVars => Fresh'
  <2> SUFFICES ASSUME SnapshotTypeOK, Fresh, [SnapshotNext]_snapshotVars PROVE Fresh'
    OBVIOUS
  <2> USE SnapshotAssumption DEF SnapshotTypeOK, Fresh, Whole
  <2>1. CASE Change
    BY <2>1 DEF Change
  <2>2. ASSUME NEW s \in Savers, Take(s) PROVE Fresh'
    BY <2>2 DEF Take
  <2>3. ASSUME NEW s \in Savers, Open(s) PROVE Fresh'
    <3>1. PICK i \in Opened :
            /\ data' = [data EXCEPT ![i].len = 0]
            /\ IF Staged THEN tmp' = i /\ UNCHANGED file
                         ELSE file' = i /\ UNCHANGED tmp
      BY <2>3 DEF Open
    <3>2. i \in Inodes
      BY DEF Opened
    <3>3. /\ data'[i].len = 0
          /\ \A k \in Inodes : data'[k].ver = data[k].ver
          /\ \A k \in Inodes : k # i => data'[k] = data[k]
      BY <3>1, <3>2
    <3>4. \A t \in Savers : copy'[t] <= version'
      BY <2>3 DEF Open
    <3>5. Whole(file)' => data'[file'].ver <= version'
      BY <2>3, <3>1, <3>2, <3>3 DEF Open
    <3>6. \A t \in Savers : pc'[t] \in {"open", "written"} /\ tmp' # NoInode =>
            data'[tmp'].len = 0 \/ data'[tmp'].ver <= version'
      BY <3>1, <3>3 
    <3>7. Staged \/ tmp' = NoInode
      BY <3>1
    <3> QED BY <3>4, <3>5, <3>6, <3>7
  <2>4. ASSUME NEW s \in Savers, Write(s) PROVE Fresh'
    <3>1. /\ fd[s] \in Inodes
          /\ data' = [data EXCEPT ![fd[s]] =
                        [ver |-> copy[s],
                         len |-> Larger(data[fd[s]].len, Size[copy[s]])]]
      BY <2>4 DEF Write
    <3>2. \A k \in Inodes : \/ data'[k] = data[k]
                            \/ data'[k].ver <= version
      BY <3>1
    <3>3. \A t \in Savers : pc'[t] \in {"open", "written"} /\ tmp # NoInode =>
            data'[tmp].len = 0 \/ data'[tmp].ver <= version
      <4> SUFFICES ASSUME NEW t \in Savers, pc'[t] \in {"open", "written"},
                          tmp # NoInode
                   PROVE data'[tmp].len = 0 \/ data'[tmp].ver <= version
        OBVIOUS
      <4>1. pc[t] \in {"open", "written"}
        BY <2>4 DEF Write
      <4> QED BY <3>2, <4>1
    <3>4. Whole(file)' => data'[file].ver <= version
      BY <2>4, <3>2 DEF Write
    <3> QED BY <2>4, <3>3, <3>4 DEF Write
  <2>5. ASSUME NEW s \in Savers, SaveFails(s) PROVE Fresh'
    BY <2>5 DEF SaveFails
  <2>6. ASSUME NEW s \in Savers, Rename(s) PROVE Fresh'
    BY <2>6 DEF Rename
  <2>7. ASSUME NEW s \in Savers, RenameFails(s) PROVE Fresh'
    BY <2>7 DEF RenameFails
  <2>8. CASE SnapshotRestart
    BY <2>8 DEF SnapshotRestart, Loaded
  <2>9. CASE UNCHANGED snapshotVars
    BY <2>9 DEF snapshotVars
  <2> QED BY <2>1, <2>2, <2>3, <2>4, <2>5, <2>6, <2>7, <2>8, <2>9 DEF SnapshotNext
<1>3. SnapshotTypeOK /\ Fresh => NoResurrection
  BY DEF SnapshotTypeOK, Fresh, NoResurrection, Loaded
<1> QED BY SnapshotTypes, <1>1, <1>2, <1>3, PTL DEF SnapshotSpec
-----------------------------------------------------------------------------
(* Saves under the lock                                                      *)

\* One save at a time: it works on the current state, its temporary file is
\* empty until it is written and whole from then on, and it is never the
\* state file, which is whole and holds every save that succeeded.
Orderly ==
  /\ \A s, t \in Savers : pc[s] # "idle" /\ pc[t] # "idle" => s = t
  /\ \A s \in Savers : pc[s] # "idle" => copy[s] = version
  /\ \A s \in Savers : pc[s] = "open" =>
       tmp # NoInode /\ fd[s] = tmp /\ data[tmp].len = 0
  /\ \A s \in Savers : pc[s] = "written" =>
       tmp # NoInode /\ data[tmp] = [ver |-> copy[s], len |-> Size[copy[s]]]
  /\ tmp # NoInode => tmp # file
  /\ file # NoInode => Whole(file)
  /\ acked <= Loaded /\ Loaded <= version

\* The rename makes the state file whole and current.
LEMMA RenameInstalls ==
  ASSUME SnapshotTypeOK, Orderly, NEW s \in Savers, Rename(s)
  PROVE  /\ Whole(file)' /\ Loaded' = version /\ version' = version
         /\ copy[s] = version /\ copy[s] \in 0..MaxVersion
<1> USE SnapshotAssumption
<1>1. /\ tmp \in Inodes /\ file' = tmp /\ data' = data
      /\ version' = version
      /\ copy[s] = version /\ copy[s] \in 0..MaxVersion
      /\ data[tmp] = [ver |-> copy[s], len |-> Size[copy[s]]]
  BY DEF Rename, SnapshotTypeOK, Orderly
<1>2. Whole(file)' /\ data'[file'].ver = version
  BY <1>1 DEF Whole
<1> QED BY <1>1, <1>2 DEF Loaded

LEMMA OrderlySaves ==
  ASSUME UnderLock, Staged
  PROVE  SnapshotSpec => [](SnapshotTypeOK /\ Orderly)
<1>1. SnapshotInit => Orderly
  BY SnapshotAssumption DEF SnapshotInit, Orderly, Whole, Loaded
<1>2. SnapshotTypeOK /\ Orderly /\ [SnapshotNext]_snapshotVars => Orderly'
  <2> SUFFICES ASSUME SnapshotTypeOK, Orderly, [SnapshotNext]_snapshotVars PROVE Orderly'
    OBVIOUS
  <2> USE SnapshotAssumption DEF SnapshotTypeOK, Orderly, Whole, Loaded
  <2>1. CASE Change
    BY <2>1 DEF Change, AllIdle
  <2>2. ASSUME NEW s \in Savers, Take(s) PROVE Orderly'
    BY <2>2 DEF Take, AllIdle
  <2>3. ASSUME NEW s \in Savers, Open(s) PROVE Orderly'
    <3>1. PICK i \in Opened :
            /\ fd' = [fd EXCEPT ![s] = i]
            /\ data' = [data EXCEPT ![i].len = 0]
            /\ tmp' = i /\ file' = file
      BY <2>3 DEF Open
    <3>2. i \in Inodes /\ i # file
      BY <3>1 DEF Opened
    <3>3. /\ data'[i].len = 0
          /\ file # NoInode => data'[file] = data[file]
      BY <3>1, <3>2
    <3>4. /\ pc' = [pc EXCEPT ![s] = "open"] /\ pc[s] = "taken"
          /\ UNCHANGED <<version, copy, acked, file>>
      BY <2>3, <3>1 DEF Open
    <3>5. Loaded' = Loaded /\ (file' # NoInode => Whole(file)')
      BY <3>3, <3>4
    <3> QED BY <3>1, <3>2, <3>3, <3>4, <3>5
  <2>4. ASSUME NEW s \in Savers, Write(s) PROVE Orderly'
    <3>1. /\ fd[s] = tmp /\ tmp \in Inodes /\ tmp # file /\ data[tmp].len = 0
          /\ copy[s] \in 0..MaxVersion
      BY <2>4 DEF Write
    <3>2. Larger(data[tmp].len, Size[copy[s]]) = Size[copy[s]]
      BY <3>1 DEF Larger
    <3>3. data' = [data EXCEPT ![tmp] =
                     [ver |-> copy[s], len |-> Size[copy[s]]]]
      BY <2>4, <3>1, <3>2 DEF Write
    <3>4. /\ data'[tmp] = [ver |-> copy[s], len |-> Size[copy[s]]]
          /\ file # NoInode => data'[file] = data[file]
      BY <3>1, <3>3
    <3>5. /\ pc' = [pc EXCEPT ![s] = "written"] /\ pc[s] = "open"
          /\ UNCHANGED <<version, copy, acked, tmp, file>>
      BY <2>4 DEF Write
    <3>6. Loaded' = Loaded /\ (file' # NoInode => Whole(file)')
      BY <3>4, <3>5
    <3> QED BY <3>1, <3>4, <3>5, <3>6
  <2>5. ASSUME NEW s \in Savers, SaveFails(s) PROVE Orderly'
    BY <2>5 DEF SaveFails
  <2>6. ASSUME NEW s \in Savers, Rename(s) PROVE Orderly'
    <3> HIDE DEF Whole, Loaded
    <3>1. Whole(file)' /\ Loaded' = version /\ copy[s] = version
      BY <2>6, RenameInstalls
    <3>2. acked \in Nat /\ version \in Nat /\ acked <= version
      <4>1. acked <= Loaded /\ Loaded <= version /\ Loaded \in Nat
        BY DEF Loaded, Whole
      <4> QED BY <4>1
    <3>3. acked' <= version
      BY <2>6, <3>1, <3>2 DEF Rename, Larger
    <3>4. /\ version' = version /\ copy' = copy /\ tmp' = NoInode
          /\ pc' = [pc EXCEPT ![s] = "idle"]
      BY <2>6 DEF Rename
    <3>5. \A t \in Savers : pc'[t] = "idle"
      BY <2>6, <3>4 DEF Rename
    <3> QED BY <3>1, <3>2, <3>3, <3>4, <3>5
  <2>7. ASSUME NEW s \in Savers, RenameFails(s) PROVE Orderly'
    BY <2>7 DEF RenameFails
  <2>8. CASE SnapshotRestart
    BY <2>8 DEF SnapshotRestart
  <2>9. CASE UNCHANGED snapshotVars
    BY <2>9 DEF snapshotVars
  <2> QED BY <2>1, <2>2, <2>3, <2>4, <2>5, <2>6, <2>7, <2>8, <2>9 DEF SnapshotNext
<1> QED BY SnapshotTypes, <1>1, <1>2, PTL DEF SnapshotSpec

\* In the style of the uptime tracker's saveState, a crash at any moment
\* loses nothing whose save has succeeded.
THEOREM LockedSavesSurvive ==
  ASSUME UnderLock, Staged
  PROVE  SnapshotSpec => []SavesSurvive
<1>1. SnapshotTypeOK /\ Orderly => SavesSurvive
  BY SnapshotAssumption DEF SnapshotTypeOK, Orderly, SavesSurvive, Loaded
<1> QED BY OrderlySaves, <1>1, PTL

\* In that style a whole save is one atomic step: the rename installs the
\* current state, and no other step changes what a restart would load.
THEOREM LockedSaveIsAtomic ==
  ASSUME UnderLock, Staged
  PROVE  SnapshotSpec => ImplementsAtomicSave
<1>1. SnapshotInit => Atomic!Init
  BY SnapshotAssumption DEF SnapshotInit, Atomic!Init, Loaded, Whole
<1>2. SnapshotTypeOK /\ Orderly /\ Orderly' /\ [SnapshotNext]_snapshotVars => [Atomic!Next]_Atomic!saveVars
  <2> SUFFICES ASSUME SnapshotTypeOK, Orderly, Orderly', [SnapshotNext]_snapshotVars
               PROVE  [Atomic!Next]_Atomic!saveVars
    OBVIOUS
  <2> USE SnapshotAssumption
  <2> USE DEF SnapshotTypeOK, Orderly, Atomic!Next, Atomic!saveVars
  <2>1. CASE Change
    BY <2>1 DEF Change, Atomic!Change, Loaded, Whole
  <2>2. ASSUME NEW s \in Savers, Take(s) PROVE UNCHANGED Atomic!saveVars
    BY <2>2 DEF Take, Loaded, Whole
  <2>3. ASSUME NEW s \in Savers, Open(s) PROVE UNCHANGED Atomic!saveVars
    <3>1. PICK i \in Opened : data' = [data EXCEPT ![i].len = 0] /\ file' = file
      BY <2>3 DEF Open
    <3>2. file # NoInode => data'[file] = data[file]
      BY <3>1 DEF Opened
    <3> QED BY <2>3, <3>1, <3>2 DEF Open, Loaded, Whole
  <2>4. ASSUME NEW s \in Savers, Write(s) PROVE UNCHANGED Atomic!saveVars
    BY <2>4 DEF Write, Loaded, Whole
  <2>5. ASSUME NEW s \in Savers, SaveFails(s) PROVE UNCHANGED Atomic!saveVars
    BY <2>5 DEF SaveFails, Loaded, Whole
  <2>6. ASSUME NEW s \in Savers, Rename(s) PROVE Atomic!Save
    BY <2>6, RenameInstalls DEF Atomic!Save
  <2>7. ASSUME NEW s \in Savers, RenameFails(s) PROVE UNCHANGED Atomic!saveVars
    BY <2>7 DEF RenameFails, Loaded, Whole
  <2>8. CASE SnapshotRestart
    BY <2>8 DEF SnapshotRestart, Atomic!Restart, Loaded, Whole
  <2>9. CASE UNCHANGED snapshotVars
    BY <2>9 DEF snapshotVars, Loaded, Whole
  <2> QED BY <2>1, <2>2, <2>3, <2>4, <2>5, <2>6, <2>7, <2>8, <2>9 DEF SnapshotNext
<1> QED BY OrderlySaves, <1>1, <1>2, PTL DEF SnapshotSpec, ImplementsAtomicSave, Atomic!Spec

-----------------------------------------------------------------------------
(***************************************************************************)
(* Settings: what a request has marshalled or is writing is what the memory*)
(* holds, unless a reload is under way that takes over what the file said. *)
(***************************************************************************)

Configs == [Keys -> {0, 1}]
Kinds == {"form", "notifs", "tag", "coin", "pin", "rule"}

\* What a goroutine may be at.
Doing ==
  {Idle, Down}
  \cup [does : {"marshals"}, kind : Kinds, value : {0, 1}]
  \cup [does : {"opens", "writes", "answers"}, kind : Kinds, value : {0, 1}, text : Configs]
  \cup [does : {"takes over"}, kind : {"reload"}, text : Configs]

Agree(c, d) == \A k \in Keys \ {"level"} : c[k] = d[k]

\* While nothing disturbs them: a request without the lock is alone, one that holds it for
\* writing has only tags beside it that are not yet marshalled, every text about to be
\* written is that of the memory, and a file that is not will be overwritten.
OthersLocked == \A q, r \in Busy : q # r => request[q].kind \in Locked
Exclusive == \A q, r \in Busy : q # r /\ request[q].kind \in {"form", "notifs"}
                                => request[r].kind = "tag" /\ request[r].does = "marshals"
TextsAgree == \A r \in Requests : request[r].does \in {"opens", "writes", "answers"}
                                    => Agree(request[r].text, memory)
TakesFile == \A r \in Requests : request[r].does = "takes over"
                                   => cfgFile # Empty /\ request[r].text = cfgFile.config
FileAgrees == cfgFile # Empty /\ Agree(cfgFile.config, memory)
Overwritten == FileAgrees \/ \E r \in Requests : request[r].does \in {"marshals", "opens", "writes"}

InOrder == OthersLocked /\ Exclusive /\ TextsAgree /\ TakesFile /\ Overwritten

ConfigTypes ==
  /\ memory \in Configs /\ cfgFile \in {Empty} \cup {Saved(c) : c \in Configs}
  /\ request \in [Requests -> Doing] /\ disturbed \in BOOLEAN

SettingsInv ==
  /\ ConfigTypes
  /\ Working \/ \A r \in Requests : request[r] = Down
  /\ ~disturbed /\ Working => InOrder

\* The file's states are told apart.
LEMMA FileStates ==
  ASSUME ConfigTypes
  PROVE  /\ cfgFile # Empty => cfgFile.config \in Configs /\ cfgFile = Saved(cfgFile.config)
         /\ \A c : Saved(c) # Empty /\ Saved(c).config = c
<1>1. \A c : Saved(c) # Empty /\ Saved(c).config = c
  <2> TAKE c
  <2>1. Saved(c).of = "config" /\ Empty.of = "empty"
    BY DEF Saved, Empty
  <2> QED BY <2>1 DEF Saved
<1> QED BY <1>1 DEF ConfigTypes

\* And those of a goroutine.
LEMMA RequestStates ==
  ASSUME ConfigTypes, NEW r \in Requests
  PROVE  /\ Idle.does = "nothing" /\ Down.does = "not running"
         /\ request[r].does \in {"nothing", "not running", "marshals", "opens", "writes",
                                 "answers", "takes over"}
         /\ request[r] = Down <=> request[r].does = "not running"
         /\ request[r] = Idle <=> request[r].does = "nothing"
         /\ r \in Busy <=> request[r] # Idle /\ request[r] # Down
         /\ request[r].does = "marshals" =>
              request[r].kind \in Kinds /\ request[r].value \in {0, 1}
         /\ request[r].does \in {"opens", "writes", "answers"} =>
              /\ request[r].kind \in Kinds /\ request[r].value \in {0, 1}
              /\ request[r].text \in Configs
         /\ request[r].does = "takes over" =>
              request[r].kind = "reload" /\ request[r].text \in Configs
<1>1. request[r] \in Doing
  BY DEF ConfigTypes
<1>2. Idle.does = "nothing" /\ Down.does = "not running"
  BY DEF Idle, Down
<1>3. CASE request[r] \in {Idle, Down}
  BY <1>2, <1>3 DEF Busy
<1>4. CASE request[r] \in [does : {"marshals"}, kind : Kinds, value : {0, 1}]
  BY <1>2, <1>4 DEF Busy
<1>5. CASE request[r] \in [does : {"opens", "writes", "answers"}, kind : Kinds,
                           value : {0, 1}, text : Configs]
  BY <1>2, <1>5 DEF Busy
<1>6. CASE request[r] \in [does : {"takes over"}, kind : {"reload"}, text : Configs]
  BY <1>2, <1>6 DEF Busy
<1> QED BY <1>1, <1>3, <1>4, <1>5, <1>6 DEF Doing

\* A step of one goroutine changes nothing of the others.
LEMMA DoesOnly ==
  ASSUME ConfigTypes, NEW r \in Requests, NEW doing \in Doing, Does(r, doing), doing # Down,
         request[r] # Down, Working \/ \A q \in Requests : request[q] = Down
  PROVE  /\ request' \in [Requests -> Doing] /\ request'[r] = doing
         /\ \A q \in Requests : q # r => request'[q] = request[q]
         /\ Working /\ Working'
         /\ \A q \in Requests : q # r => (q \in Busy' <=> q \in Busy)
         /\ r \in Busy' <=> doing.does \notin {"nothing", "not running"}
<1>1. /\ request' \in [Requests -> Doing] /\ request'[r] = doing
      /\ \A q \in Requests : q # r => request'[q] = request[q]
  BY DEF Does, ConfigTypes
<1>2. Working /\ Working'
  BY <1>1 DEF Working
<1>3. \A q \in Requests : q # r => (q \in Busy' <=> q \in Busy)
  BY <1>1 DEF Busy
<1>4. r \in Busy' <=> doing.does \notin {"nothing", "not running"}
  BY <1>1 DEF Busy
<1> QED BY <1>1, <1>2, <1>3, <1>4

\* A request that changes the memory begins: undisturbed, the others are tags that are not
\* yet marshalled, or there is none.
LEMMA SettingKeepsOrder ==
  ASSUME SettingsInv, NEW r \in Requests, NEW kind \in Kinds, NEW v \in {0, 1},
         request[r] = Idle, Sets(r, kind, v), Beside(r, kind), memory' \in Configs,
         UNCHANGED cfgFile, kind \in Locked => Holders = {}
  PROVE  SettingsInv'
<1> DEFINE doing == [does |-> "marshals", kind |-> kind, value |-> v]
<1>0. ConfigTypes /\ request[r].does = "nothing" /\ r \notin Busy
  BY RequestStates DEF SettingsInv
<1>1. doing \in Doing /\ doing.does = "marshals" /\ doing.kind = kind
  BY DEF Doing
<1>2. Does(r, doing) /\ doing # Down
  BY <1>0, <1>1, RequestStates DEF Sets
<1> HIDE DEF doing
<1>3. /\ request' \in [Requests -> Doing] /\ request'[r] = doing
      /\ \A q \in Requests : q # r => request'[q] = request[q]
      /\ Working /\ Working' /\ r \in Busy'
      /\ \A q \in Requests : q # r => (q \in Busy' <=> q \in Busy)
  BY <1>0, <1>1, <1>2, DoesOnly, RequestStates DEF SettingsInv
<1>4. disturbed' \in BOOLEAN /\ ConfigTypes'
  BY <1>0, <1>3 DEF Beside, ConfigTypes
<1>5. ASSUME ~disturbed' PROVE InOrder'
  <2>1. ~disturbed /\ \A q \in Busy : kind \in Locked /\ request[q].kind \in Locked
    BY <1>0, <1>5 DEF Beside
  <2>2. \A q \in Busy : request[q].kind = "tag" /\ request[q].does = "marshals"
    BY <2>1 DEF Holders, Locked
  <2>3. \A q \in Busy' : /\ request'[q].does = "marshals"
                         /\ q # r => request'[q].kind = "tag" /\ kind \in Locked
    BY <1>1, <1>3, <2>1, <2>2 DEF Busy
  <2>4. \A q \in Requests : request'[q].does \notin {"opens", "writes", "answers", "takes over"}
    BY <2>3 DEF Busy
  <2>5. \A q \in Busy' : q # r => request'[q].kind \in Locked /\ request'[r].kind \in Locked
    BY <1>1, <1>3, <2>3 DEF Locked
  <2>6. OthersLocked'
    BY <2>5 DEF OthersLocked
  <2>7. Exclusive'
    BY <2>3 DEF Exclusive
  <2>8. TextsAgree' /\ TakesFile'
    BY <2>4 DEF TextsAgree, TakesFile
  <2>9. Overwritten'
    BY <1>1, <1>3 DEF Overwritten
  <2> QED BY <2>6, <2>7, <2>8, <2>9 DEF InOrder
<1> QED BY <1>3, <1>4, <1>5 DEF SettingsInv

\* A request comes a step nearer to its end, with the memory as it is.
LEMMA SavingKeepsOrder ==
  ASSUME SettingsInv, NEW r \in Requests,
         Marshal(r) \/ OpenFile(r) \/ WriteFile(r) \/ Answer(r)
  PROVE  SettingsInv'
<1>0. ConfigTypes /\ UNCHANGED <<memory, disturbed>> /\ memory \in Configs
  BY DEF SettingsInv, Marshal, OpenFile, WriteFile, Answer, setGhost, ConfigTypes
<1> DEFINE now == request[r]
<1>1. CASE Marshal(r)
  <2> DEFINE next == [does |-> "opens", kind |-> now.kind, value |-> now.value, text |-> memory]
  <2>1. /\ now.does = "marshals" /\ (now.kind = "tag" => Holders = Readers)
        /\ Does(r, next) /\ cfgFile' = cfgFile
    BY <1>1 DEF Marshal
  <2>2. now.kind \in Kinds /\ now.value \in {0, 1} /\ r \in Busy /\ now # Down
    BY <1>0, <2>1, RequestStates
  <2>3. next \in Doing /\ next.does = "opens" /\ next.kind = now.kind /\ next.text = memory
    BY <1>0, <2>2 DEF Doing
  <2>4. next # Down
    BY <1>0, <2>3, RequestStates
  <2> HIDE DEF next
  <2>5. /\ request' \in [Requests -> Doing] /\ request'[r] = next
        /\ \A q \in Requests : q # r => request'[q] = request[q]
        /\ Working /\ Working' /\ r \in Busy'
        /\ \A q \in Requests : q # r => (q \in Busy' <=> q \in Busy)
    BY <1>0, <2>1, <2>2, <2>3, <2>4, DoesOnly DEF SettingsInv
  <2>6. ConfigTypes'
    BY <1>0, <2>1, <2>5 DEF ConfigTypes
  <2>7. ASSUME ~disturbed' PROVE InOrder'
    <3>1. InOrder
      BY <1>0, <2>5, <2>7 DEF SettingsInv
    <3>2. \A q \in Requests : q \in Busy => request'[q].kind = request[q].kind
      BY <2>3, <2>5
    <3>3. \A q \in Requests : q \in Busy' <=> q \in Busy
      BY <2>2, <2>5
    <3>4. OthersLocked'
      BY <3>1, <3>2, <3>3 DEF InOrder, OthersLocked, Busy
    <3>5. ASSUME NEW p \in Busy', NEW q \in Busy', p # q,
                 request'[p].kind \in {"form", "notifs"}
          PROVE  request'[q].kind = "tag" /\ request'[q].does = "marshals"
      <4>1. p \in Busy /\ q \in Busy /\ request[p].kind \in {"form", "notifs"}
        BY <3>2, <3>3, <3>5 DEF Busy
      <4>2. request[q].kind = "tag" /\ request[q].does = "marshals"
        BY <3>1, <3>5, <4>1 DEF InOrder, Exclusive
      <4>3. q # r
        <5> SUFFICES ASSUME q = r PROVE FALSE
          OBVIOUS
        <5>1. Holders = Readers
          BY <2>1, <4>2
        <5>2. p \in Holders /\ p \notin Readers
          BY <4>1 DEF Holders, Readers, Locked
        <5> QED BY <5>1, <5>2
      <4> QED BY <2>5, <4>1, <4>2, <4>3 DEF Busy
    <3>6. TextsAgree'
      <4>1. Agree(memory, memory)
        BY DEF Agree
      <4> QED BY <1>0, <2>3, <2>5, <3>1, <4>1 DEF InOrder, TextsAgree
    <3>7. TakesFile'
      BY <2>1, <2>3, <2>5, <3>1 DEF InOrder, TakesFile
    <3>8. Overwritten'
      BY <2>3, <2>5 DEF Overwritten
    <3>9. Exclusive'
      BY <3>5 DEF Exclusive
    <3> QED BY <3>4, <3>6, <3>7, <3>8, <3>9 DEF InOrder
  <2> QED BY <2>5, <2>6, <2>7 DEF SettingsInv
<1>2. CASE OpenFile(r) \/ WriteFile(r)
  <2>1. PICK next :
          /\ now.does \in {"opens", "writes"} /\ Does(r, next)
          /\ \/ now.does = "opens" /\ next = [now EXCEPT !.does = "writes"] /\ cfgFile' = Empty
             \/ /\ now.does = "writes" /\ next = [now EXCEPT !.does = "answers"]
                /\ cfgFile' = Saved(now.text)
    BY <1>2 DEF OpenFile, WriteFile
  <2>2. /\ now.kind \in Kinds /\ now.value \in {0, 1} /\ now.text \in Configs
        /\ r \in Busy /\ now # Down
    BY <1>0, <2>1, RequestStates
  <2>3. now \in [does : {"opens", "writes", "answers"}, kind : Kinds, value : {0, 1},
                 text : Configs]
    <3>1. now \in Doing /\ now.does # "nothing" /\ now.does # "not running"
      BY <1>0, <2>1 DEF ConfigTypes
    <3> QED BY <2>1, <3>1, <1>0, RequestStates DEF Doing
  <2>4. /\ next \in Doing /\ next.kind = now.kind /\ next.text = now.text
        /\ next.does = IF now.does = "opens" THEN "writes" ELSE "answers"
    BY <2>1, <2>3 DEF Doing
  <2>5. next # Down
    BY <1>0, <2>4, RequestStates
  <2>6. /\ request' \in [Requests -> Doing] /\ request'[r] = next
        /\ \A q \in Requests : q # r => request'[q] = request[q]
        /\ Working /\ Working' /\ r \in Busy'
        /\ \A q \in Requests : q # r => (q \in Busy' <=> q \in Busy)
    BY <1>0, <2>1, <2>2, <2>4, <2>5, DoesOnly DEF SettingsInv
  <2>7. ConfigTypes'
    BY <1>0, <2>1, <2>2, <2>6 DEF ConfigTypes
  <2>8. ASSUME ~disturbed' PROVE InOrder'
    <3>1. InOrder
      BY <1>0, <2>6, <2>8 DEF SettingsInv
    <3>2. \A q \in Requests : q \in Busy => request'[q].kind = request[q].kind
      BY <2>4, <2>6
    <3>3. \A q \in Requests : q \in Busy' <=> q \in Busy
      BY <2>2, <2>6
    <3>4. OthersLocked'
      BY <3>1, <3>2, <3>3 DEF InOrder, OthersLocked, Busy
    <3>5. ASSUME NEW p \in Busy', NEW q \in Busy', p # q,
                 request'[p].kind \in {"form", "notifs"}
          PROVE  request'[q].kind = "tag" /\ request'[q].does = "marshals"
      <4>1. p \in Busy /\ q \in Busy /\ request[p].kind \in {"form", "notifs"}
        BY <3>2, <3>3, <3>5 DEF Busy
      <4>2. request[q].kind = "tag" /\ request[q].does = "marshals"
        BY <3>1, <3>5, <4>1 DEF InOrder, Exclusive
      <4>3. q # r
        BY <2>1, <4>2
      <4> QED BY <2>6, <4>1, <4>2, <4>3 DEF Busy
    <3>6. Agree(now.text, memory)
      BY <2>1, <3>1 DEF InOrder, TextsAgree
    <3>7. TextsAgree'
      BY <1>0, <2>4, <2>6, <3>1, <3>6 DEF InOrder, TextsAgree
    <3>8. \A q \in Requests : request'[q].does # "takes over"
      <4>1. \A q \in Requests : q # r /\ request[q].does = "takes over" =>
              q \in Busy /\ request[q].kind = "reload"
        BY <1>0, RequestStates
      <4>2. \A q \in Requests : q # r => request[q].does # "takes over"
        BY <2>2, <3>1, <4>1 DEF InOrder, OthersLocked, Locked
      <4> QED BY <2>4, <2>6, <4>2
    <3>9. Overwritten'
      <4>1. CASE now.does = "opens"
        BY <2>4, <2>6, <4>1 DEF Overwritten
      <4>2. CASE now.does = "writes"
        <5>1. cfgFile' = Saved(now.text)
          BY <2>1, <4>2
        <5>2. cfgFile' # Empty /\ cfgFile'.config = now.text
          BY <1>0, <5>1, FileStates
        <5> QED BY <1>0, <3>6, <5>2 DEF Overwritten, FileAgrees
      <4> QED BY <2>1, <4>1, <4>2
    <3>10. Exclusive'
      BY <3>5 DEF Exclusive
    <3>11. TakesFile'
      BY <3>8 DEF TakesFile
    <3> QED BY <3>4, <3>7, <3>9, <3>10, <3>11 DEF InOrder
  <2> QED BY <2>6, <2>7, <2>8 DEF SettingsInv
<1>3. CASE Answer(r)
  <2>1. now.does = "answers" /\ Does(r, Idle) /\ cfgFile' = cfgFile
    BY <1>3 DEF Answer
  <2>2. Idle \in Doing /\ Idle # Down /\ now # Down /\ Idle.does = "nothing"
    BY <1>0, <2>1, RequestStates DEF Doing
  <2>3. /\ request' \in [Requests -> Doing] /\ request'[r] = Idle
        /\ \A q \in Requests : q # r => request'[q] = request[q]
        /\ Working /\ Working' /\ r \notin Busy'
        /\ \A q \in Requests : q # r => (q \in Busy' <=> q \in Busy)
    BY <1>0, <2>1, <2>2, DoesOnly DEF SettingsInv
  <2>4. ConfigTypes'
    BY <1>0, <2>1, <2>3 DEF ConfigTypes
  <2>5. ASSUME ~disturbed' PROVE InOrder'
    <3>1. InOrder
      BY <1>0, <2>3, <2>5 DEF SettingsInv
    <3>2. \A q \in Busy' : q \in Busy /\ q # r /\ request'[q] = request[q]
      BY <2>3 DEF Busy
    <3>3. \A q \in Requests : \/ request'[q] = request[q]
                              \/ q = r /\ request'[q].does = "nothing"
      BY <2>2, <2>3
    <3>4. \A q \in Requests : request[q].does \in {"marshals", "opens", "writes"}
                                => request'[q] = request[q]
      BY <2>1, <2>3
    <3>5. OthersLocked' /\ Exclusive'
      BY <3>1, <3>2 DEF InOrder, OthersLocked, Exclusive
    <3>6. TextsAgree'
      BY <1>0, <3>1, <3>3 DEF InOrder, TextsAgree
    <3>7. TakesFile'
      BY <2>1, <3>1, <3>3 DEF InOrder, TakesFile
    <3>8. Overwritten'
      BY <1>0, <2>1, <3>1, <3>4 DEF InOrder, Overwritten, FileAgrees
    <3> QED BY <3>5, <3>6, <3>7, <3>8 DEF InOrder
  <2> QED BY <2>3, <2>4, <2>5 DEF SettingsInv
<1> QED BY <1>1, <1>2, <1>3

LEMMA SettingsStep ==
  ASSUME SettingsInv, [SettingsNext]_setVars
  PROVE  SettingsInv'
<1>0. ConfigTypes /\ memory \in Configs
  BY DEF SettingsInv, ConfigTypes
<1>1. ASSUME UNCHANGED <<memory, cfgFile, request>>, disturbed' = disturbed PROVE SettingsInv'
  BY <1>1 DEF SettingsInv, ConfigTypes, Working, Busy, InOrder, OthersLocked, Exclusive,
              TextsAgree, TakesFile, Overwritten, FileAgrees
<1>2. CASE LoadForm
  BY <1>1, <1>2 DEF LoadForm, setGhost
<1>3. ASSUME NEW v \in {0, 1}, LogLevel(v) PROVE SettingsInv'
  <2>1. /\ memory' = [memory EXCEPT !["level"] = v] /\ UNCHANGED <<cfgFile, request, disturbed>>
    BY <1>3 DEF LogLevel, setGhost
  <2>2. memory' \in Configs /\ \A k \in Keys \ {"level"} : memory'[k] = memory[k]
    BY <1>0, <2>1 DEF Configs
  <2>3. \A c : Agree(c, memory) => Agree(c, memory')
    BY <2>2 DEF Agree
  <2>4. InOrder => InOrder'
    BY <2>1, <2>3 DEF Busy, InOrder, OthersLocked, Exclusive, TextsAgree, TakesFile,
                      Overwritten, FileAgrees
  <2> QED BY <2>1, <2>2, <2>4 DEF SettingsInv, ConfigTypes, Working
<1>4. CASE Ends
  <2>1. /\ Working /\ request' = [r \in Requests |-> Down]
        /\ UNCHANGED <<memory, cfgFile, disturbed>>
    BY <1>4 DEF Ends, setGhost
  <2>2. request' \in [Requests -> Doing] /\ \A r \in Requests : request'[r] = Down
    BY <2>1 DEF Doing
  <2>3. CASE Requests = {}
    BY <1>1, <1>0, <2>1, <2>3 DEF ConfigTypes
  <2>4. CASE Requests # {}
    BY <1>0, <2>1, <2>2, <2>4 DEF SettingsInv, ConfigTypes, Working
  <2> QED BY <2>3, <2>4
<1>5. CASE Starts
  <2>1. /\ cfgFile # Empty /\ memory' = cfgFile.config /\ cfgFile' = cfgFile
        /\ request' = [r \in Requests |-> Idle] /\ disturbed' = FALSE
    BY <1>5 DEF Starts
  <2>2. memory' \in Configs /\ FileAgrees'
    BY <1>0, <2>1, FileStates DEF FileAgrees, Agree
  <2>3. /\ request' \in [Requests -> Doing] /\ \A r \in Requests : request'[r] = Idle
        /\ Idle.does = "nothing" /\ Idle # Down
    BY <2>1 DEF Doing, Idle, Down
  <2>4. \A r \in Requests : request'[r].does = "nothing"
    BY <2>3
  <2>5. Busy' = {} /\ Working'
    BY <2>3, <2>4 DEF Busy, Working
  <2>6. InOrder'
    BY <2>2, <2>4, <2>5 DEF InOrder, OthersLocked, Exclusive, TextsAgree, TakesFile, Overwritten
  <2>7. ConfigTypes'
    BY <1>0, <2>1, <2>2, <2>3 DEF ConfigTypes
  <2> QED BY <2>5, <2>6, <2>7 DEF SettingsInv
<1>6. CASE Initialises
  <2>1. /\ ~Working /\ cfgFile' = Saved(DefaultConfig) /\ UNCHANGED <<memory, request, disturbed>>
    BY <1>6 DEF Initialises, setGhost
  <2>2. DefaultConfig \in Configs
    BY DEF DefaultConfig, Configs
  <2> QED BY <1>0, <2>1, <2>2 DEF SettingsInv, ConfigTypes, Working
<1>7. ASSUME NEW k \in {"alerts", "coin"}, NEW v \in {0, 1}, EditFile(k, v) PROVE SettingsInv'
  <2>1. /\ cfgFile # Empty /\ cfgFile' = Saved([cfgFile.config EXCEPT ![k] = v])
        /\ disturbed' = TRUE /\ UNCHANGED <<memory, request>>
    BY <1>7 DEF EditFile
  <2>2. [cfgFile.config EXCEPT ![k] = v] \in Configs
    BY <1>0, <2>1, FileStates DEF Configs
  <2> QED BY <1>0, <2>1, <2>2 DEF SettingsInv, ConfigTypes, Working
<1>8. ASSUME NEW r \in Requests, Marshal(r) \/ OpenFile(r) \/ WriteFile(r) \/ Answer(r)
      PROVE  SettingsInv'
  BY <1>8, SavingKeepsOrder
<1>9. ASSUME NEW r \in Requests, WriteFails(r) PROVE SettingsInv'
  <2> DEFINE next == IF request[r].kind = "pin" THEN Idle
                     ELSE [request[r] EXCEPT !.does = "answers"]
  <2>1. /\ request[r].does = "writes" /\ disturbed' = TRUE /\ Does(r, next)
        /\ UNCHANGED <<memory, cfgFile>>
    BY <1>9 DEF WriteFails
  <2>2. request[r] \in [does : {"opens", "writes", "answers"}, kind : Kinds, value : {0, 1},
                        text : Configs]
    <3>1. request[r] \in Doing /\ request[r] # Idle /\ request[r] # Down
      BY <1>0, <2>1, RequestStates DEF ConfigTypes
    <3> QED BY <2>1, <3>1, <1>0 DEF Doing
  <2>3. next \in Doing /\ next.does \in {"nothing", "answers"}
    <3>1. Idle \in Doing /\ Idle.does = "nothing"
      BY DEF Doing, Idle
    <3>2. /\ [request[r] EXCEPT !.does = "answers"] \in Doing
          /\ [request[r] EXCEPT !.does = "answers"].does = "answers"
      BY <2>2 DEF Doing
    <3> QED BY <3>1, <3>2
  <2>4. next # Down /\ request[r] # Down
    BY <1>0, <2>1, <2>3, RequestStates
  <2> HIDE DEF next
  <2>5. request' \in [Requests -> Doing] /\ Working'
    BY <1>0, <2>1, <2>3, <2>4, DoesOnly DEF SettingsInv
  <2> QED BY <1>0, <2>1, <2>5 DEF SettingsInv, ConfigTypes
<1>10. ASSUME NEW r \in Requests, Reload(r) PROVE SettingsInv'
  <2> DEFINE next == [does |-> "takes over", kind |-> "reload", text |-> cfgFile.config]
  <2>1. /\ request[r] = Idle /\ cfgFile # Empty /\ Does(r, next) /\ Beside(r, "reload")
        /\ UNCHANGED <<memory, cfgFile>>
    BY <1>10 DEF Reload
  <2>2. next \in Doing /\ next.does = "takes over" /\ next.text = cfgFile.config
    BY <1>0, <2>1, FileStates DEF Doing
  <2>3. next # Down /\ request[r] # Down /\ request[r].does = "nothing" /\ r \notin Busy
    BY <1>0, <2>1, <2>2, RequestStates
  <2> HIDE DEF next
  <2>4. /\ request' \in [Requests -> Doing] /\ request'[r] = next
        /\ \A q \in Requests : q # r => request'[q] = request[q]
        /\ Working /\ Working' /\ r \in Busy'
        /\ \A q \in Requests : q # r => (q \in Busy' <=> q \in Busy)
    BY <1>0, <2>1, <2>2, <2>3, DoesOnly DEF SettingsInv
  <2>5. disturbed' \in BOOLEAN /\ ConfigTypes'
    BY <1>0, <2>1, <2>4 DEF ConfigTypes, Beside
  <2>6. ASSUME ~disturbed' PROVE InOrder'
    <3>1. ~disturbed /\ \A q \in Busy : q = r
      BY <2>1, <2>6 DEF Beside, Locked
    <3>2. InOrder /\ Busy = {}
      BY <2>3, <2>4, <3>1 DEF SettingsInv
    <3>3. \A q \in Requests : request[q].does \in {"nothing", "not running"}
      BY <3>2 DEF Busy
    <3>4. \A p, q \in Busy' : p = q
      BY <2>4, <3>2 DEF Busy
    <3>5. FileAgrees'
      BY <2>1, <3>2, <3>3 DEF InOrder, Overwritten, FileAgrees
    <3>6. \A q \in Requests : request'[q].does \notin {"opens", "writes", "answers"}
      BY <2>2, <2>4, <3>3
    <3>7. TakesFile'
      BY <2>1, <2>2, <2>4, <3>3 DEF TakesFile
    <3> QED BY <3>4, <3>5, <3>6, <3>7 DEF InOrder, OthersLocked, Exclusive, TextsAgree,
                                          Overwritten
  <2> QED BY <2>4, <2>5, <2>6 DEF SettingsInv
<1>11. ASSUME NEW r \in Requests, TakeOver(r) PROVE SettingsInv'
  <2>1. /\ request[r].does = "takes over" /\ Does(r, Idle)
        /\ memory' = [memory EXCEPT !["alerts"] = request[r].text["alerts"],
                                    !["level"] = request[r].text["level"]]
        /\ UNCHANGED <<cfgFile, disturbed>>
    BY <1>11 DEF TakeOver, setGhost
  <2>2. /\ request[r].text \in Configs /\ request[r].kind = "reload" /\ request[r] # Down
        /\ r \in Busy
    BY <1>0, <2>1, RequestStates
  <2>3. memory' \in Configs
    BY <1>0, <2>1, <2>2 DEF Configs, Keys
  <2>4. Idle \in Doing /\ Idle # Down /\ Idle.does = "nothing"
    BY DEF Doing, Idle, Down
  <2>5. /\ request' \in [Requests -> Doing] /\ request'[r] = Idle
        /\ \A q \in Requests : q # r => request'[q] = request[q]
        /\ Working /\ Working' /\ r \notin Busy'
        /\ \A q \in Requests : q # r => (q \in Busy' <=> q \in Busy)
    BY <1>0, <2>1, <2>2, <2>4, DoesOnly DEF SettingsInv
  <2>6. ConfigTypes'
    BY <1>0, <2>1, <2>3, <2>5 DEF ConfigTypes
  <2>7. ASSUME ~disturbed' PROVE InOrder'
    <3>1. InOrder
      BY <2>1, <2>5, <2>7 DEF SettingsInv
    <3>2. \A q \in Busy : q = r
      BY <2>2, <3>1 DEF InOrder, OthersLocked, Locked
    <3>3. \A q \in Requests : q # r => request[q].does \in {"nothing", "not running"}
      BY <3>2 DEF Busy
    <3>4. Busy' = {}
      BY <2>5, <3>2 DEF Busy
    <3>5. \A q \in Requests : request'[q].does \in {"nothing", "not running"}
      BY <3>4 DEF Busy
    <3>6. FileAgrees /\ request[r].text = cfgFile.config
      BY <2>1, <3>1, <3>3 DEF InOrder, Overwritten, TakesFile
    <3>7. \A k \in Keys \ {"level"} : memory'[k] = cfgFile.config[k]
      BY <1>0, <2>1, <2>2, <3>6 DEF FileAgrees, Agree, Configs, Keys
    <3>8. FileAgrees'
      BY <2>1, <3>6, <3>7 DEF FileAgrees, Agree
    <3> QED BY <3>4, <3>5, <3>8 DEF InOrder, OthersLocked, Exclusive, TextsAgree, TakesFile,
                                    Overwritten
  <2> QED BY <2>5, <2>6, <2>7 DEF SettingsInv
<1>12. ASSUME NEW r \in Requests, NEW values \in [FormKeys -> {0, 1}], PostForm(r, values)
       PROVE  SettingsInv'
  <2>1. /\ Holders = {} /\ request[r] = Idle /\ memory' = FormStored(values)
        /\ Sets(r, "form", 1) /\ Beside(r, "form") /\ UNCHANGED cfgFile
    BY <1>12 DEF PostForm, Edit
  <2>2. memory' \in Configs
    BY <1>0, <2>1 DEF FormStored, Configs
  <2>3. "form" \in Kinds /\ 1 \in {0, 1}
    BY DEF Kinds
  <2> QED BY <2>1, <2>2, <2>3, SettingKeepsOrder
<1>13. ASSUME NEW r \in Requests, NEW v \in {0, 1}, PostNotifs(r, v) \/ PostTag(r, v)
       PROVE  SettingsInv'
  <2>1. PICK k \in {"alerts", "tag"}, kind \in {"notifs", "tag"} :
          /\ Holders = {} /\ request[r] = Idle /\ memory' = [memory EXCEPT ![k] = v]
          /\ Sets(r, kind, v) /\ Beside(r, kind) /\ UNCHANGED cfgFile
    BY <1>13 DEF PostNotifs, PostTag, Edit
  <2>2. memory' \in Configs
    BY <1>0, <2>1 DEF Configs
  <2>3. kind \in Kinds
    BY DEF Kinds
  <2> QED BY <2>1, <2>2, <2>3, SettingKeepsOrder
<1>14. ASSUME NEW r \in Requests, NEW v \in {0, 1},
              EnableCoin(r, v) \/ FixDiff(r, v) \/ UpdateSwapRule(r, v)
       PROVE  SettingsInv'
  <2>1. PICK k \in {"coin", "pin", "rule"} : Unlocked(r, k, v)
    BY <1>14 DEF EnableCoin, FixDiff, UpdateSwapRule
  <2>2. /\ request[r] = Idle /\ memory' = [memory EXCEPT ![k] = v]
        /\ Sets(r, k, v) /\ Beside(r, k) /\ UNCHANGED cfgFile
    BY <2>1 DEF Unlocked, Edit
  <2>3. memory' \in Configs
    BY <1>0, <2>2 DEF Configs
  <2>4. k \in Kinds /\ k \notin Locked
    BY DEF Kinds, Locked
  <2> QED BY <2>2, <2>3, <2>4, SettingKeepsOrder
<1>15. CASE UNCHANGED setVars
  BY <1>1, <1>15 DEF setVars
<1> QED BY <1>2, <1>3, <1>4, <1>5, <1>6, <1>7, <1>8, <1>9, <1>10, <1>11, <1>12, <1>13, <1>14,
           <1>15 DEF SettingsNext

LEMMA SettingsStart == SettingsInit => SettingsInv
<1> SUFFICES ASSUME SettingsInit PROVE SettingsInv
  OBVIOUS
<1>1. /\ memory = DefaultConfig /\ cfgFile = Saved(memory) /\ disturbed = FALSE
      /\ request = [r \in Requests |-> Idle]
  BY DEF SettingsInit
<1>2. memory \in Configs
  BY <1>1 DEF DefaultConfig, Configs
<1>3. /\ request \in [Requests -> Doing] /\ \A r \in Requests : request[r] = Idle
      /\ Idle.does = "nothing" /\ Idle # Down
  BY <1>1 DEF Doing, Idle, Down
<1>4. ConfigTypes
  BY <1>1, <1>2, <1>3 DEF ConfigTypes
<1>5. FileAgrees
  BY <1>1, <1>4, FileStates DEF FileAgrees, Agree
<1>6. \A r \in Requests : request[r].does = "nothing"
  BY <1>3
<1>7. Busy = {} /\ Working
  BY <1>3, <1>6 DEF Busy, Working
<1>8. InOrder
  BY <1>5, <1>6, <1>7 DEF InOrder, OthersLocked, Exclusive, TextsAgree, TakesFile, Overwritten
<1> QED BY <1>4, <1>7, <1>8 DEF SettingsInv

\* The file holds what the program works with whenever no one is saving, as long as the
\* handlers under cfgMu have the configuration to themselves and the others come one at a
\* time: for any number of requests, edits, failures and restarts.
THEOREM FileHoldsTheMemory == SettingsSpec => []FileFollowsMemory
<1>1. SettingsInv => FileFollowsMemory
  <2> SUFFICES ASSUME SettingsInv, ~disturbed, Busy = {}, Working
               PROVE  cfgFile # Empty /\ \A k \in Keys \ {"level"} : cfgFile.config[k] = memory[k]
    BY DEF FileFollowsMemory
  <2>1. \A r \in Requests : request[r].does \in {"nothing", "not running"}
    BY DEF Busy
  <2>2. FileAgrees
    BY <2>1 DEF SettingsInv, InOrder, Overwritten
  <2> QED BY <2>2 DEF FileAgrees, Agree
<1> QED BY <1>1, SettingsStart, SettingsStep, PTL DEF SettingsSpec

\* The configuration and its file have their types.
THEOREM SettingsTypes == SettingsSpec => []SettingsTypeOK
<1> DEFINE Bounded == /\ edits \in 0..MaxEdits /\ failures \in 0..MaxFailures
                      /\ handEdits \in 0..MaxHandEdits
<1>0. MaxEdits \in Nat /\ MaxFailures \in Nat /\ MaxHandEdits \in Nat
  BY SettingsAssumption
<1>1. SettingsInit => Bounded
  BY <1>0 DEF SettingsInit
<1>2. Bounded /\ [SettingsNext]_setVars => Bounded'
  <2> SUFFICES ASSUME Bounded, [SettingsNext]_setVars PROVE Bounded'
    OBVIOUS
  <2>1. ASSUME /\ edits' = edits \/ (edits < MaxEdits /\ edits' = edits + 1)
               /\ failures' = failures \/ (failures < MaxFailures /\ failures' = failures + 1)
               /\ handEdits' = handEdits \/ (handEdits < MaxHandEdits /\ handEdits' = handEdits + 1)
        PROVE  Bounded'
    BY <1>0, <2>1
  <2> HIDE DEF Bounded
  <2>2. CASE LoadForm \/ Ends \/ Starts \/ Initialises \/ UNCHANGED setVars
    BY <2>1, <2>2 DEF LoadForm, Ends, Starts, Initialises, setVars, setBounds
  <2>3. ASSUME NEW v \in {0, 1}, LogLevel(v) PROVE Bounded'
    BY <2>1, <2>3 DEF LogLevel
  <2>4. ASSUME NEW v \in {0, 1}, NEW k, EditFile(k, v) PROVE Bounded'
    BY <2>1, <2>4 DEF EditFile
  <2>5. ASSUME NEW r \in Requests, Marshal(r) \/ OpenFile(r) \/ WriteFile(r) \/ WriteFails(r)
                                   \/ Answer(r) \/ Reload(r) \/ TakeOver(r)
        PROVE  Bounded'
    BY <2>1, <2>5 DEF Marshal, OpenFile, WriteFile, WriteFails, Answer, Reload, TakeOver,
                      setBounds
  <2>6. ASSUME NEW r \in Requests, NEW values, PostForm(r, values) PROVE Bounded'
    BY <2>1, <2>6 DEF PostForm, Edit
  <2>7. ASSUME NEW r \in Requests, NEW v, PostNotifs(r, v) \/ PostTag(r, v) PROVE Bounded'
    BY <2>1, <2>7 DEF PostNotifs, PostTag, Edit
  <2>8. ASSUME NEW r \in Requests, NEW v, EnableCoin(r, v) \/ FixDiff(r, v) \/ UpdateSwapRule(r, v)
        PROVE  Bounded'
    BY <2>1, <2>8 DEF EnableCoin, FixDiff, UpdateSwapRule, Unlocked, Edit
  <2> QED BY <2>2, <2>3, <2>4, <2>5, <2>6, <2>7, <2>8 DEF SettingsNext
<1>3. SettingsInv /\ Bounded => SettingsTypeOK
  BY DEF SettingsInv, ConfigTypes, Configs, SettingsTypeOK
<1> HIDE DEF Bounded
<1> QED BY <1>1, <1>2, <1>3, SettingsStart, SettingsStep, PTL DEF SettingsSpec
-----------------------------------------------------------------------------
(***************************************************************************)
(* Swap, for any number of coins, jobs, faults and restarts.               *)
(* That a coin is swapped once at a time rests on the job numbers: none is *)
(* given twice, so that a job is in one place of one list, in memory and   *)
(* in the file.  That an order and a payment have their job rests on how   *)
(* much the file covers: what came before its save it has, and what came   *)
(* after is given up when the process ends, and not before.                *)
(***************************************************************************)

OrderRecord == [pay : Assets, get : Assets, qty : Nat,
                status : {"open", "filled", "cancelled"}]

\* Jobs and finished jobs that are all different, with numbers up to m, and one in
\* flight per coin.
Sound(js, hs, m) ==
  /\ \A i \in 1..Len(js) : js[i].id \in 1..m
  /\ \A i \in 1..Len(hs) : hs[i] \in 1..m
  /\ \A i, k \in 1..Len(js) : js[i].id = js[k].id => i = k
  /\ \A i, k \in 1..Len(js) :
       Active(js[i]) /\ Active(js[k]) /\ js[i].src = js[k].src => i = k
  /\ \A i \in 1..Len(js), h \in 1..Len(hs) : js[i].id # hs[h]

\* A job knows the orders it waits for, out of n.
KnowsOrders(j, n) ==
  /\ j.sell \in 0..n /\ j.buy \in 0..n
  /\ j.state = "selling" => j.sell # 0
  /\ j.state = "buying" => j.buy # 0

SwapInv ==
  /\ SwapTypeOK
  /\ orders \in Seq(OrderRecord)
  /\ Sound(jobs, history, made) /\ Sound(disk.jobs, disk.history, made)
  /\ \A i \in 1..Len(jobs) : KnowsOrders(jobs[i], Len(orders))
  /\ \A i \in 1..Len(disk.jobs) : KnowsOrders(disk.jobs[i], Len(orders))
-----------------------------------------------------------------------------
(* Facts about lists of jobs.                                              *)

\* The constants, one by one.
LEMMA SwapBounds ==
  /\ MaxHistory \in Nat /\ MaxMined \in Nat /\ MaxJobs \in Nat /\ MaxFaults \in Nat
  /\ MaxCrashes \in Nat /\ MinBalance \in Nat /\ KeepBalance \in Nat
  /\ BTC \in Assets /\ \A c \in Coins : c \in Assets /\ Dest[c] \in Assets
BY SwapAssumption DEF Assets

LEMMA Fields ==
  ASSUME NEW j \in JobRecord
  PROVE  /\ j.id \in 1..MaxJobs /\ j.src \in Coins /\ j.amount \in Nat
         /\ j.state \in {"wait_deposit", "selling", "buying", "complete", "failed"}
         /\ j.sell \in Nat /\ j.buy \in Nat /\ j.proceeds \in Nat /\ j.received \in Nat
BY DEF JobRecord

\* Numbers are given once, so that there are no more jobs than numbers.
LEMMA NoMoreThanMade ==
  ASSUME NEW m \in Nat, NEW js \in Seq(JobRecord), NEW hs, Sound(js, hs, m)
  PROVE  Len(js) \in Nat /\ Len(js) <= m
<1> DEFINE f == [i \in 1..Len(js) |-> js[i].id]
<1>1. Len(js) \in Nat
  BY LenProperties
<1>2. f \in [1..Len(js) -> 1..m] /\ \A i, k \in 1..Len(js) : f[i] = f[k] => i = k
  BY DEF Sound
<1>3. f \in Injection(1..Len(js), 1..m)
  BY <1>2 DEF Injection, IsInjective
<1> HIDE DEF f
<1> QED BY <1>1, <1>3, Numbers

\* A job that is advanced keeps its number and its coin.
LEMMA SoundAdvance ==
  ASSUME NEW js \in Seq(JobRecord), NEW hs, NEW m, Sound(js, hs, m),
         NEW p \in 1..Len(js), NEW j \in JobRecord,
         j.id = js[p].id, j.src = js[p].src, Active(j) => Active(js[p])
  PROVE  LET new == [js EXCEPT ![p] = j]
         IN  /\ new \in Seq(JobRecord) /\ Len(new) = Len(js) /\ Sound(new, hs, m)
             /\ new[p] = j /\ \A i \in 1..Len(js) : i # p => new[i] = js[i]
<1> DEFINE new == [js EXCEPT ![p] = j]
<1>1. new \in Seq(JobRecord) /\ Len(new) = Len(js)
  BY ExceptSeq
<1>0. DOMAIN js = 1..Len(js)
  BY LenProperties
<1>2. new[p] = j /\ \A i \in 1..Len(js) : i # p => new[i] = js[i]
  BY <1>0
<1>3. \A i \in 1..Len(js) : /\ new[i].id = js[i].id /\ new[i].src = js[i].src
                            /\ Active(new[i]) => Active(js[i])
  BY <1>2
<1> HIDE DEF new
<1>4. Sound(new, hs, m)
  <2>1. /\ \A i \in 1..Len(new) : new[i].id \in 1..m
        /\ \A i, k \in 1..Len(new) : new[i].id = new[k].id => i = k
    BY <1>1, <1>3 DEF Sound
  <2>2. \A i, k \in 1..Len(new) :
           Active(new[i]) /\ Active(new[k]) /\ new[i].src = new[k].src => i = k
    BY <1>1, <1>3 DEF Sound
  <2>3. \A i \in 1..Len(new), h \in 1..Len(hs) : new[i].id # hs[h]
    BY <1>1, <1>3 DEF Sound
  <2>4. \A i \in 1..Len(hs) : hs[i] \in 1..m
    BY DEF Sound
  <2> QED BY <2>1, <2>2, <2>3, <2>4 DEF Sound
<1> QED BY <1>1, <1>2, <1>4 DEF new

\* A new job has the next number, and its coin has none in flight.
LEMMA SoundAppend ==
  ASSUME NEW js \in Seq(JobRecord), NEW hs, NEW m \in Nat, Sound(js, hs, m),
         NEW j \in JobRecord, j.id = m + 1,
         \A i \in 1..Len(js) : Active(js[i]) => js[i].src # j.src
  PROVE  Sound(Append(js, j), hs, m + 1)
<1> DEFINE new == Append(js, j)
<1>1. /\ Len(js) \in Nat /\ Len(new) = Len(js) + 1 /\ new[Len(js) + 1] = j
      /\ \A i \in 1..Len(js) : new[i] = js[i]
  BY LenProperties, AppendProperties
<1> HIDE DEF new
<1>2. \A i \in 1..Len(new) : i \in 1..Len(js) \/ i = Len(js) + 1
  BY <1>1
<1>3. /\ \A i \in 1..Len(new) : new[i].id \in 1..(m + 1)
      /\ \A i \in 1..Len(hs) : hs[i] \in 1..(m + 1)
  <2>1. /\ \A i \in 1..Len(js) : js[i].id \in 1..m
        /\ \A i \in 1..Len(hs) : hs[i] \in 1..m
    BY DEF Sound
  <2>2. m + 1 \in 1..(m + 1) /\ \A x \in 1..m : x \in 1..(m + 1)
    OBVIOUS
  <2>3. \A i \in 1..Len(js) : new[i].id \in 1..(m + 1)
    BY <1>1, <2>1, <2>2
  <2>4. \A i \in 1..Len(hs) : hs[i] \in 1..(m + 1)
    BY <2>1, <2>2
  <2> QED BY <1>1, <1>2, <2>2, <2>3, <2>4
<1>4. \A i \in 1..Len(js) : new[i].id # m + 1
  BY <1>1 DEF Sound
<1>5. \A i, k \in 1..Len(new) : new[i].id = new[k].id => i = k
  BY <1>1, <1>2, <1>4 DEF Sound
<1>6. \A i, k \in 1..Len(new) :
        Active(new[i]) /\ Active(new[k]) /\ new[i].src = new[k].src => i = k
  <2>1. \A i, k \in 1..Len(js) :
          Active(new[i]) /\ Active(new[k]) /\ new[i].src = new[k].src => i = k
    BY <1>1 DEF Sound
  <2>2. \A i \in 1..Len(js) : Active(new[i]) => new[i].src # new[Len(js) + 1].src
    BY <1>1
  <2> TAKE i \in 1..Len(new), k \in 1..Len(new)
  <2>3. CASE i \in 1..Len(js) /\ k \in 1..Len(js)
    BY <2>1, <2>3
  <2>4. CASE i \in 1..Len(js) /\ k = Len(js) + 1
    BY <2>2, <2>4
  <2>5. CASE i = Len(js) + 1 /\ k \in 1..Len(js)
    BY <2>2, <2>5
  <2> QED BY <1>2, <2>3, <2>4, <2>5
<1>7. \A i \in 1..Len(new), h \in 1..Len(hs) : new[i].id # hs[h]
  BY <1>1, <1>2 DEF Sound
<1> QED BY <1>3, <1>5, <1>6, <1>7 DEF Sound, new

\* What the history keeps of the jobs that have come to an end.
Keeps(all, past) ==
  /\ Len(past) <= MaxHistory
  /\ \A i \in 1..Len(past) : \E k \in 1..Len(all) : past[i] = all[k]
  /\ \A k \in 1..Len(all) : \/ all[k] \in Dropped(all)
                           \/ \E i \in 1..Len(past) : past[i] = all[k]

LEMMA RememberedProperties ==
  ASSUME NEW S, NEW s \in Seq(S), NEW r, r = Remembered(s)
  PROVE  r \in Seq(S) /\ Keeps(s, r)
<1> DEFINE m == IF Len(s) > MaxHistory THEN Len(s) - MaxHistory + 1 ELSE 1
<1>1. /\ Len(s) \in Nat /\ MaxHistory \in Nat /\ m \in 1..(Len(s) + 1)
      /\ Len(s) - m + 1 <= MaxHistory
      /\ \A k \in 1..(m - 1) : k \in 1..(Len(s) - MaxHistory)
      /\ r = SubSeq(s, m, Len(s))
  BY LenProperties, SwapBounds DEF Remembered
<1> HIDE DEF m
<1>2. /\ SubSeq(s, m, Len(s)) \in Seq(S)
      /\ Len(SubSeq(s, m, Len(s))) = IF m <= Len(s) THEN Len(s) - m + 1 ELSE 0
      /\ \A i \in 1..(Len(s) - m + 1) : SubSeq(s, m, Len(s))[i] = s[m + i - 1]
  BY <1>1, SubSeqProperties
<1>3. Len(r) = Len(s) - m + 1
  BY <1>1, <1>2
<1>4. \A i \in 1..Len(r) : m + i - 1 \in 1..Len(s) /\ r[i] = s[m + i - 1]
  BY <1>1, <1>2, <1>3
<1>5. ASSUME NEW k \in 1..Len(s)
      PROVE  s[k] \in Dropped(s) \/ \E i \in 1..Len(r) : r[i] = s[k]
  <2>1. CASE k < m
    <3>1. k \in 1..(Len(s) - MaxHistory)
      BY <1>1, <2>1
    <3> QED BY <3>1 DEF Dropped
  <2>2. CASE ~(k < m)
    <3>1. k - m + 1 \in 1..Len(r) /\ m + (k - m + 1) - 1 = k
      BY <1>1, <1>3, <2>2
    <3> QED BY <1>4, <3>1
  <2> QED BY <2>1, <2>2
<1> QED BY <1>1, <1>2, <1>3, <1>4, <1>5 DEF Keeps
-----------------------------------------------------------------------------
(* What a tick does to the job it is at.                                   *)

\* The job that looks after an order.
Owns(j, n) == \/ j.state = "selling" /\ j.sell = n
              \/ j.state = "buying" /\ j.buy = n

IsOpen(n) == n \in DOMAIN orders /\ orders[n].status = "open"

\* The job becomes j.  An open order that the engine has not lost sight of is new and
\* owned by j, or was open before, and if it was the job's, the job stays as it is.
Advances(j) ==
  /\ Becomes(j) /\ j \in JobRecord
  /\ j.id = Job.id /\ j.src = Job.src /\ (Active(j) => Active(Job))
  /\ orders' \in Seq(OrderRecord) /\ Len(orders') >= Len(orders)
  /\ avail' \in [Assets -> Nat] /\ faults' \in faults..MaxFaults
  /\ orphans \subseteq orphans' /\ orphans' \subseteq 1..Len(orders')
  /\ KnowsOrders(j, Len(orders'))
  /\ \A n \in DOMAIN orders' \ orphans' :
       orders'[n].status = "open" =>
         \/ Owns(j, n) /\ n > Len(orders)
         \/ IsOpen(n) /\ (Owns(Job, n) => j = Job)

LEMMA JobFacts ==
  ASSUME SwapInv, Advancing
  PROVE  /\ Job \in JobRecord /\ KnowsOrders(Job, Len(orders)) /\ pos \in 1..Len(jobs)
         /\ Len(jobs) \in Nat /\ Len(jobs) <= MaxJobs /\ jobs \in Seq(JobRecord)
         /\ Len(orders) \in Nat /\ avail \in [Assets -> Nat] /\ faults \in 0..MaxFaults
         /\ orders \in Seq(OrderRecord) /\ orphans \subseteq 1..Len(orders)
<1>1. /\ jobs \in Seq(JobRecord) /\ made \in 0..MaxJobs /\ pos \in 1..(MaxJobs + 1)
      /\ orders \in Seq(OrderRecord) /\ avail \in [Assets -> Nat] /\ faults \in 0..MaxFaults
      /\ Sound(jobs, history, made) /\ orphans \subseteq 1..Len(orders)
  BY DEF SwapInv, SwapTypeOK
<1>2. Len(jobs) \in Nat /\ Len(jobs) <= made /\ Len(orders) \in Nat /\ MaxJobs \in Nat
  BY <1>1, NoMoreThanMade, LenProperties, SwapBounds
<1>3. pos \in 1..Len(jobs) /\ Len(jobs) <= MaxJobs
  BY <1>1, <1>2 DEF Advancing
<1>4. Job \in JobRecord
  BY <1>1, <1>3, ElementOfSeq DEF Job
<1>5. KnowsOrders(Job, Len(orders))
  BY <1>3 DEF Job, SwapInv
<1> QED BY <1>1, <1>2, <1>3, <1>4, <1>5

LEMMA EntersProperties ==
  ASSUME NEW j \in JobRecord,
         NEW s \in {"wait_deposit", "selling", "buying", "complete", "failed"}
  PROVE  /\ Enters(j, s) \in JobRecord /\ Enters(j, s).id = j.id /\ Enters(j, s).src = j.src
         /\ Enters(j, s).state = s /\ Enters(j, s).sell = j.sell /\ Enters(j, s).buy = j.buy
BY DEF Enters, JobRecord

LEMMA OrderedProperties ==
  ASSUME NEW j \in JobRecord, NEW n \in Nat
  PROVE  /\ [j EXCEPT !.sell = n] \in JobRecord /\ [j EXCEPT !.buy = n] \in JobRecord
         /\ \A new \in {[j EXCEPT !.sell = n], [j EXCEPT !.buy = n]} :
              new.id = j.id /\ new.src = j.src /\ new.state = j.state
         /\ [j EXCEPT !.sell = n].sell = n /\ [j EXCEPT !.sell = n].buy = j.buy
         /\ [j EXCEPT !.buy = n].buy = n /\ [j EXCEPT !.buy = n].sell = j.sell
BY DEF JobRecord

\* A job that ends does not own an order; what it owned must not be open.
LEMMA JobEnds ==
  ASSUME SwapInv, Advancing, NEW j \in JobRecord, NEW s \in {"complete", "failed"},
         j.id = Job.id, j.src = Job.src,
         j.sell \in 0..Len(orders), j.buy \in 0..Len(orders),
         Becomes(Enters(j, s)),
         orders' \in Seq(OrderRecord), Len(orders') >= Len(orders),
         avail' \in [Assets -> Nat], faults' \in faults..MaxFaults,
         orphans \subseteq orphans', orphans' \subseteq 1..Len(orders'),
         \A n \in DOMAIN orders' \ orphans' :
           orders'[n].status = "open" => IsOpen(n) /\ ~Owns(Job, n)
  PROVE  \E k : Advances(k)
<1>1. /\ Enters(j, s) \in JobRecord /\ Enters(j, s).id = j.id /\ Enters(j, s).src = j.src
      /\ Enters(j, s).state = s /\ Enters(j, s).sell = j.sell /\ Enters(j, s).buy = j.buy
  BY EntersProperties
<1>2. Len(orders) \in Nat /\ Len(orders') \in Nat
  BY JobFacts, LenProperties
<1>3. KnowsOrders(Enters(j, s), Len(orders'))
  <2>1. /\ Enters(j, s).sell \in 0..Len(orders') /\ Enters(j, s).buy \in 0..Len(orders')
        /\ Enters(j, s).state \in {"complete", "failed"}
    BY <1>1, <1>2
  <2> QED BY <2>1 DEF KnowsOrders
<1>4. ~Active(Enters(j, s))
  BY <1>1 DEF Active
<1>5. Advances(Enters(j, s))
  BY <1>1, <1>3, <1>4 DEF Advances
<1> QED BY <1>5

\* Nothing the job waited for is open.
Settled == \A n \in DOMAIN orders : orders[n].status = "open" => ~Owns(Job, n)

LEMMA WithdrawAdvances ==
  ASSUME SwapInv, Advancing, Settled, NEW j \in JobRecord, j.id = Job.id, j.src = Job.src,
         j.sell \in 0..Len(orders), j.buy \in 0..Len(orders), Withdraw(j)
  PROVE  \E k : Advances(k)
<1> DEFINE coin == Dest[j.src]
           amount == IF coin = BTC THEN j.proceeds ELSE j.received
<1>1. coin \in Assets /\ amount \in Nat /\ avail \in [Assets -> Nat]
  BY JobFacts, Fields, SwapBounds
<1>2. /\ Becomes(Enters(j, "complete")) /\ orders' = orders /\ faults' = faults
      /\ orphans' = orphans
      /\ \/ amount <= avail[coin] /\ avail' = [avail EXCEPT ![coin] = @ - amount]
         \/ avail' = avail
  BY DEF Withdraw
<1> HIDE DEF coin, amount
<1>3. avail' \in [Assets -> Nat]
  BY <1>1, <1>2
<1>4. /\ orders \in Seq(OrderRecord) /\ Len(orders) \in Nat /\ faults \in 0..MaxFaults
      /\ orphans \subseteq 1..Len(orders)
  BY JobFacts
<1>5. /\ faults' \in faults..MaxFaults /\ Len(orders') >= Len(orders)
      /\ orphans \subseteq orphans' /\ orphans' \subseteq 1..Len(orders')
  BY <1>2, <1>4, SwapBounds
<1>6. \A n \in DOMAIN orders' \ orphans' : orders'[n].status = "open" => IsOpen(n) /\ ~Owns(Job, n)
  BY <1>2 DEF Settled, IsOpen
<1> QED BY <1>2, <1>3, <1>4, <1>5, <1>6, JobEnds

\* An order is opened for the job, or not, and then the job fails.
LEMMA OrderAdvances ==
  ASSUME SwapInv, Advancing, Settled, NEW j \in JobRecord, j.id = Job.id, j.src = Job.src,
         j.sell \in 0..Len(orders), j.buy \in 0..Len(orders),
         NEW done \in JobRecord, done.id = Job.id, done.src = Job.src, Active(Job),
         done.sell \in 0..(Len(orders) + 1), done.buy \in 0..(Len(orders) + 1),
         Owns(done, Len(orders) + 1),
         NEW pay \in Assets, NEW get \in Assets, NEW qty \in Nat,
         Order(j, done, pay, get, qty)
  PROVE  \E k : Advances(k)
<1>0. /\ orders \in Seq(OrderRecord) /\ Len(orders) \in Nat /\ faults \in 0..MaxFaults
      /\ avail \in [Assets -> Nat] /\ MaxFaults \in Nat /\ orphans \subseteq 1..Len(orders)
  BY JobFacts, SwapBounds
<1>1. CASE Becomes(Enters(j, "failed")) /\ UNCHANGED <<avail, orders, faults, orphans>>
  <2>1. /\ orders' = orders /\ avail' = avail /\ faults' \in faults..MaxFaults
        /\ Len(orders') >= Len(orders)
        /\ orphans \subseteq orphans' /\ orphans' \subseteq 1..Len(orders')
    BY <1>0, <1>1
  <2>2. \A n \in DOMAIN orders' \ orphans' : orders'[n].status = "open" => IsOpen(n) /\ ~Owns(Job, n)
    BY <2>1 DEF Settled, IsOpen
  <2> QED BY <1>0, <1>1, <2>1, <2>2, JobEnds
<1>2. CASE /\ qty <= avail[pay] /\ Place(pay, get, qty)
           /\ \/ Becomes(done) /\ UNCHANGED <<faults, orphans>>
              \/ /\ faults' = faults + 1 /\ faults < MaxFaults
                 /\ orphans' = orphans \cup {Len(orders) + 1}
                 /\ Becomes(Enters(j, "failed"))
  <2> DEFINE order == [pay |-> pay, get |-> get, qty |-> qty, status |-> "open"]
  <2>1. order \in OrderRecord /\ orders' = Append(orders, order)
    BY <1>2 DEF Place, OrderRecord
  <2> HIDE DEF order
  <2>2. /\ orders' \in Seq(OrderRecord) /\ Len(orders') = Len(orders) + 1
        /\ \A i \in 1..Len(orders) : orders'[i] = orders[i]
    BY <1>0, <2>1, AppendProperties
  <2>3. avail' \in [Assets -> Nat]
    BY <1>0, <1>2 DEF Place
  <2>4. CASE Becomes(done) /\ UNCHANGED <<faults, orphans>>
    <3>1. /\ faults' \in faults..MaxFaults /\ Len(orders') >= Len(orders)
          /\ orphans \subseteq orphans' /\ orphans' \subseteq 1..Len(orders')
      BY <1>0, <2>2, <2>4
    <3>2. KnowsOrders(done, Len(orders'))
      BY <1>0, <2>2 DEF KnowsOrders, Owns
    <3>3. \A n \in DOMAIN orders' :
            orders'[n].status = "open" => \/ Owns(done, n) /\ n > Len(orders)
                                          \/ IsOpen(n) /\ ~Owns(Job, n)
      <4> TAKE n \in DOMAIN orders'
      <4>1. n \in 1..(Len(orders) + 1) /\ DOMAIN orders = 1..Len(orders)
        BY <1>0, <2>2, LenProperties
      <4>2. CASE n = Len(orders) + 1
        BY <1>0, <4>2
      <4>3. CASE n # Len(orders) + 1
        <5>1. n \in 1..Len(orders)
          BY <1>0, <4>1, <4>3
        <5> QED BY <2>2, <4>1, <5>1 DEF Settled, IsOpen
      <4> QED BY <4>2, <4>3
    <3>4. Advances(done)
      BY <2>2, <2>3, <2>4, <3>1, <3>2, <3>3 DEF Advances
    <3> QED BY <3>4
  <2>5. CASE /\ faults' = faults + 1 /\ faults < MaxFaults
             /\ orphans' = orphans \cup {Len(orders) + 1}
             /\ Becomes(Enters(j, "failed"))
    <3>1. /\ faults' \in faults..MaxFaults /\ Len(orders') >= Len(orders)
          /\ orphans \subseteq orphans' /\ orphans' \subseteq 1..Len(orders')
      <4>1. faults' \in faults..MaxFaults /\ Len(orders') >= Len(orders)
        BY <1>0, <2>2, <2>5
      <4>2. Len(orders) + 1 \in 1..(Len(orders) + 1) /\ 1..Len(orders) \subseteq 1..(Len(orders) + 1)
        BY <1>0
      <4>3. orphans \subseteq orphans' /\ orphans' \subseteq 1..(Len(orders) + 1)
        BY <1>0, <2>5, <4>2
      <4> QED BY <2>2, <4>1, <4>3
    <3>2. \A n \in DOMAIN orders' \ orphans' :
            orders'[n].status = "open" => IsOpen(n) /\ ~Owns(Job, n)
      <4> TAKE n \in DOMAIN orders' \ orphans'
      <4>1. n \in 1..(Len(orders) + 1) /\ n # Len(orders) + 1 /\ DOMAIN orders = 1..Len(orders)
        BY <1>0, <2>2, <2>5, LenProperties
      <4>2. n \in 1..Len(orders)
        BY <1>0, <4>1
      <4> QED BY <2>2, <4>1, <4>2 DEF Settled, IsOpen
    <3> QED BY <2>2, <2>3, <2>5, <3>1, <3>2, JobEnds
  <2> QED BY <1>2, <2>4, <2>5
<1> QED BY <1>1, <1>2 DEF Order

LEMMA BuyAdvances ==
  ASSUME SwapInv, Advancing, Settled, NEW j \in JobRecord, j.id = Job.id, j.src = Job.src,
         j.sell \in 0..Len(orders), j.buy \in 0..Len(orders), Active(Job), Buy(j)
  PROVE  \E k : Advances(k)
<1>1. CASE Dest[j.src] = BTC
  BY <1>1, WithdrawAdvances DEF Buy
<1>2. CASE Dest[j.src] # BTC
  <2> DEFINE done == [Enters(j, "buying") EXCEPT !.buy = Len(orders) + 1]
  <2>1. Len(orders) \in Nat /\ BTC \in Assets /\ Dest[j.src] \in Assets /\ j.proceeds \in Nat
    BY JobFacts, Fields, SwapBounds
  <2>2. /\ done \in JobRecord /\ done.id = j.id /\ done.src = j.src
        /\ done.state = "buying" /\ done.sell = j.sell /\ done.buy = Len(orders) + 1
    <3>1. PICK e : e = Enters(j, "buying")
      OBVIOUS
    <3>2. /\ e \in JobRecord /\ e.id = j.id /\ e.src = j.src /\ e.state = "buying"
          /\ e.sell = j.sell
      BY <3>1, EntersProperties
    <3>3. done = [e EXCEPT !.buy = Len(orders) + 1] /\ Len(orders) + 1 \in Nat
      BY <2>1, <3>1
    <3> HIDE DEF done
    <3> QED BY <3>2, <3>3, OrderedProperties
  <2>3. Order(j, done, BTC, Dest[j.src], j.proceeds)
    BY <1>2 DEF Buy
  <2> HIDE DEF done
  <2>4. /\ done.sell \in 0..(Len(orders) + 1) /\ done.buy \in 0..(Len(orders) + 1)
        /\ Owns(done, Len(orders) + 1)
    BY <2>1, <2>2 DEF Owns
  <2> QED BY <2>1, <2>2, <2>3, <2>4, OrderAdvances
<1> QED BY <1>1, <1>2

\* A job that waits for its deposit owns no order; an order reported as filled is
\* not open, on either exchange.
LEMMA WaitsForNone ==
  ASSUME Job.state = "wait_deposit"
  PROVE  Settled
BY DEF Settled, Owns

LEMMA FilledIsSettled ==
  ASSUME \/ Job.state = "selling" /\ ReportsFilled(Job.sell)
         \/ Job.state = "buying" /\ ReportsFilled(Job.buy)
  PROVE  Settled
BY DEF Settled, Owns, ReportsFilled

\* Every way a tick deals with a job.
AdvanceJob ==
  Stays \/ DepositTimesOut \/ DepositArrived \/ SaleDone \/ PurchaseDone \/ OrderTimesOut

LEMMA EveryAdvance ==
  ASSUME SwapInv, AdvanceJob
  PROVE  Advancing /\ \E k : Advances(k)
<1>0. Advancing
  BY DEF AdvanceJob, Stays, DepositTimesOut, DepositArrived, SaleDone, PurchaseDone,
         OrderTimesOut
<1>f. /\ Job \in JobRecord /\ KnowsOrders(Job, Len(orders))
      /\ Job.sell \in 0..Len(orders) /\ Job.buy \in 0..Len(orders)
      /\ orders \in Seq(OrderRecord) /\ Len(orders) \in Nat /\ faults \in 0..MaxFaults
      /\ avail \in [Assets -> Nat] /\ MaxFaults \in Nat /\ orphans \subseteq 1..Len(orders)
  BY <1>0, JobFacts, SwapBounds DEF KnowsOrders
<1>1. CASE Stays
  <2>1. Becomes(Job) /\ UNCHANGED <<orders, avail, faults, orphans>>
    BY <1>1 DEF Stays, outside, lost
  <2>2. PICK j : j = Job
    OBVIOUS
  <2>3. KnowsOrders(j, Len(orders'))
    BY <1>f, <2>1, <2>2 DEF KnowsOrders
  <2>4. /\ faults' \in faults..MaxFaults /\ Len(orders') >= Len(orders)
        /\ orphans \subseteq orphans' /\ orphans' \subseteq 1..Len(orders')
    BY <1>f, <2>1
  <2>5. \A n \in DOMAIN orders' : orders'[n].status = "open" => IsOpen(n)
    BY <2>1 DEF IsOpen
  <2>6. Advances(j)
    BY <1>f, <2>1, <2>2, <2>3, <2>4, <2>5 DEF Advances
  <2> QED BY <1>0, <2>6
<1>2. CASE DepositTimesOut
  <2>1. /\ Becomes(Enters(Job, "failed")) /\ UNCHANGED <<orders, avail, faults, orphans>>
        /\ Settled
    BY <1>2, WaitsForNone DEF DepositTimesOut, outside, lost
  <2>2. \A n \in DOMAIN orders' : orders'[n].status = "open" => IsOpen(n) /\ ~Owns(Job, n)
    BY <2>1 DEF Settled, IsOpen
  <2>3. /\ faults' \in faults..MaxFaults /\ Len(orders') >= Len(orders)
        /\ orphans \subseteq orphans' /\ orphans' \subseteq 1..Len(orders')
    BY <1>f, <2>1
  <2> QED BY <1>0, <1>f, <2>1, <2>2, <2>3, JobEnds
<1>3. CASE DepositArrived
  <2>1. Settled /\ Active(Job) /\ Job.src \in Coins
    BY <1>3, <1>f, WaitsForNone, Fields DEF DepositArrived, Active
  <2>2. CASE Job.src = BTC
    <3> DEFINE j == [Job EXCEPT !.proceeds = avail[BTC]]
    <3>1. avail[BTC] \in Nat
      BY <1>f, SwapBounds
    <3>2. /\ j \in JobRecord /\ j.id = Job.id /\ j.src = Job.src /\ j.sell = Job.sell
          /\ j.buy = Job.buy
      BY <1>f, <3>1 DEF JobRecord
    <3>3. Buy(j)
      BY <1>3, <2>2 DEF DepositArrived
    <3> HIDE DEF j
    <3> QED BY <1>0, <1>f, <2>1, <3>2, <3>3, BuyAdvances
  <2>3. CASE Job.src # BTC
    <3> DEFINE done == [Enters(Job, "selling") EXCEPT !.sell = Len(orders) + 1]
    <3>1. Job.src \in Assets /\ BTC \in Assets /\ avail[Job.src] \in Nat
      BY <1>f, <2>1, SwapBounds
    <3>2. /\ done \in JobRecord /\ done.id = Job.id /\ done.src = Job.src
          /\ done.state = "selling" /\ done.sell = Len(orders) + 1 /\ done.buy = Job.buy
      <4>1. PICK e : e = Enters(Job, "selling")
        OBVIOUS
      <4>2. /\ e \in JobRecord /\ e.id = Job.id /\ e.src = Job.src /\ e.state = "selling"
            /\ e.buy = Job.buy
        BY <1>f, <4>1, EntersProperties
      <4>3. done = [e EXCEPT !.sell = Len(orders) + 1] /\ Len(orders) + 1 \in Nat
        BY <1>f, <4>1
      <4> HIDE DEF done
      <4> QED BY <4>2, <4>3, OrderedProperties
    <3>3. Order(Job, done, Job.src, BTC, avail[Job.src])
      BY <1>3, <2>3 DEF DepositArrived
    <3> HIDE DEF done
    <3>4. /\ done.sell \in 0..(Len(orders) + 1) /\ done.buy \in 0..(Len(orders) + 1)
          /\ Owns(done, Len(orders) + 1)
      BY <1>f, <3>2 DEF Owns
    <3> QED BY <1>0, <1>f, <2>1, <3>1, <3>2, <3>3, <3>4, OrderAdvances
  <2> QED BY <2>2, <2>3
<1>4. CASE SaleDone
  <2>1. Settled /\ Active(Job)
    BY <1>4, FilledIsSettled DEF SaleDone, Active
  <2> DEFINE j == [Job EXCEPT !.proceeds = avail[BTC]]
  <2>2. avail[BTC] \in Nat
    BY <1>f, SwapBounds
  <2>3. /\ j \in JobRecord /\ j.id = Job.id /\ j.src = Job.src /\ j.sell = Job.sell
        /\ j.buy = Job.buy
    BY <1>f, <2>2 DEF JobRecord
  <2>4. Buy(j)
    BY <1>4 DEF SaleDone
  <2> HIDE DEF j
  <2> QED BY <1>0, <1>f, <2>1, <2>3, <2>4, BuyAdvances
<1>5. CASE PurchaseDone
  <2>1. Settled
    BY <1>5, FilledIsSettled DEF PurchaseDone
  <2>2. PICK r \in {avail[Dest[Job.src]], Job.received} :
          Withdraw([Job EXCEPT !.received = r])
    BY <1>5 DEF PurchaseDone
  <2> DEFINE j == [Job EXCEPT !.received = r]
  <2>3. r \in Nat
    BY <1>f, Fields, SwapBounds
  <2>4. /\ j \in JobRecord /\ j.id = Job.id /\ j.src = Job.src /\ j.sell = Job.sell
        /\ j.buy = Job.buy
    BY <1>f, <2>3 DEF JobRecord
  <2>5. Withdraw(j)
    BY <2>2
  <2> HIDE DEF j
  <2> QED BY <1>0, <1>f, <2>1, <2>4, <2>5, WithdrawAdvances
<1>6. CASE OrderTimesOut
  <2> DEFINE n == IF Job.state = "selling" THEN Job.sell ELSE Job.buy
  <2>1. /\ Job.state \in {"selling", "buying"} /\ Becomes(Enters(Job, "failed"))
        /\ \/ /\ orders[n].status = "open"
              /\ orders' = [orders EXCEPT ![n].status = "cancelled"]
              /\ avail' = [avail EXCEPT ![orders[n].pay] = @ + orders[n].qty]
              /\ UNCHANGED <<faults, orphans>>
           \/ orders[n].status # "open" /\ UNCHANGED <<avail, orders, faults, orphans>>
           \/ /\ faults < MaxFaults /\ faults' = faults + 1
              /\ orphans' = orphans \cup {n} /\ UNCHANGED <<avail, orders>>
    BY <1>6 DEF OrderTimesOut
  <2>2. n \in 1..Len(orders) /\ \A m : Owns(Job, m) => m = n
    BY <1>f, <2>1 DEF KnowsOrders, Owns
  <2> HIDE DEF n
  <2>3. CASE /\ orders' = [orders EXCEPT ![n].status = "cancelled"]
             /\ avail' = [avail EXCEPT ![orders[n].pay] = @ + orders[n].qty]
             /\ UNCHANGED <<faults, orphans>>
    <3> DEFINE o == [orders[n] EXCEPT !.status = "cancelled"]
    <3>1. orders[n] \in OrderRecord
      BY <1>f, <2>2, ElementOfSeq
    <3>2. o \in OrderRecord /\ o.status = "cancelled"
      BY <3>1 DEF OrderRecord
    <3>3. orders' = [orders EXCEPT ![n] = o]
      BY <2>3
    <3> HIDE DEF o
    <3>4. /\ orders' \in Seq(OrderRecord) /\ Len(orders') = Len(orders)
          /\ \A i \in 1..Len(orders) : orders'[i] = IF i = n THEN o ELSE orders[i]
      BY <1>f, <2>2, <3>2, <3>3, ExceptSeq
    <3>5. avail' \in [Assets -> Nat]
      <4>1. PICK a \in Assets, q \in Nat : a = orders[n].pay /\ q = orders[n].qty
        BY <3>1 DEF OrderRecord
      <4>2. avail' = [avail EXCEPT ![a] = @ + q] /\ avail \in [Assets -> Nat]
        BY <1>f, <2>3, <4>1
      <4>3. avail[a] + q \in Nat
        BY <4>2
      <4> QED BY <4>2, <4>3
    <3>6. DOMAIN orders' = 1..Len(orders) /\ DOMAIN orders = 1..Len(orders)
      BY <1>f, <3>4, LenProperties
    <3>7. \A m \in DOMAIN orders' : orders'[m].status = "open" => IsOpen(m) /\ ~Owns(Job, m)
      BY <2>2, <3>2, <3>4, <3>6 DEF IsOpen
    <3>8. /\ faults' \in faults..MaxFaults /\ Len(orders') >= Len(orders)
          /\ orphans \subseteq orphans' /\ orphans' \subseteq 1..Len(orders')
      BY <1>f, <2>3, <3>4
    <3> QED BY <1>0, <1>f, <2>1, <3>4, <3>5, <3>7, <3>8, JobEnds
  <2>4. CASE orders[n].status # "open" /\ UNCHANGED <<avail, orders, faults, orphans>>
    <3>1. \A m \in DOMAIN orders' : orders'[m].status = "open" => IsOpen(m) /\ ~Owns(Job, m)
      BY <2>2, <2>4 DEF IsOpen
    <3>2. /\ faults' \in faults..MaxFaults /\ Len(orders') >= Len(orders)
          /\ orphans \subseteq orphans' /\ orphans' \subseteq 1..Len(orders')
      BY <1>f, <2>4
    <3> QED BY <1>0, <1>f, <2>1, <2>4, <3>1, <3>2, JobEnds
  <2>5. CASE /\ faults < MaxFaults /\ faults' = faults + 1
             /\ orphans' = orphans \cup {n} /\ UNCHANGED <<avail, orders>>
    <3>1. /\ faults' \in faults..MaxFaults /\ Len(orders') >= Len(orders)
          /\ orphans \subseteq orphans' /\ orphans' \subseteq 1..Len(orders')
      BY <1>f, <2>2, <2>5
    <3>2. \A m \in DOMAIN orders' \ orphans' :
            orders'[m].status = "open" => IsOpen(m) /\ ~Owns(Job, m)
      BY <2>2, <2>5 DEF IsOpen
    <3> QED BY <1>0, <1>f, <2>1, <2>5, <3>1, <3>2, JobEnds
  <2> QED BY <2>1, <2>3, <2>4, <2>5
<1> QED BY <1>0, <1>1, <1>2, <1>3, <1>4, <1>5, <1>6 DEF AdvanceJob
-----------------------------------------------------------------------------
(* Each step keeps the invariant.                                          *)

\* The numbers on record.
Recorded(x, js, hs) == \/ \E i \in 1..Len(js) : js[i].id = x
                       \/ \E h \in 1..Len(hs) : hs[h] = x

\* What cleanupJobs makes of jobs js and history hs, R being the places of the jobs in
\* flight and all what the history would be without its cap: the jobs in flight are
\* kept, and the others are remembered or dropped.
CleanedUp(js, hs, m, R, kept, all, past) ==
  /\ kept \in Seq(JobRecord) /\ past \in Seq(1..MaxJobs) /\ Len(past) <= MaxHistory
  /\ Sound(kept, past, m) /\ Dropped(all) \subseteq 1..m
  /\ \A i \in 1..Len(kept) : \E k \in R : kept[i] = js[k]
  /\ \A k \in R : \E i \in 1..Len(kept) : kept[i] = js[k]
  /\ \A x : Recorded(x, js, hs) => Recorded(x, kept, past) \/ x \in Dropped(all)

\* Sequence c is a and then b.
Joined(a, b, c) ==
  /\ \A i \in 1..Len(a) : i \in 1..Len(c) /\ c[i] = a[i]
  /\ \A i \in 1..Len(b) : Len(a) + i \in 1..Len(c) /\ c[Len(a) + i] = b[i]
  /\ \A i \in 1..Len(c) : i \notin 1..Len(a) => /\ i - Len(a) \in 1..Len(b)
                                                /\ c[i] = b[i - Len(a)]

LEMMA JoinedProperties ==
  ASSUME NEW S, NEW a \in Seq(S), NEW b \in Seq(S), NEW c, c = a \o b
  PROVE  c \in Seq(S) /\ Len(c) \in Nat /\ Joined(a, b, c)
<1>1. /\ c \in Seq(S) /\ Len(c) = Len(a) + Len(b)
      /\ \A i \in 1..(Len(a) + Len(b)) :
           c[i] = IF i <= Len(a) THEN a[i] ELSE b[i - Len(a)]
  BY ConcatProperties
<1>2. Len(a) \in Nat /\ Len(b) \in Nat
  BY LenProperties
<1>3. ASSUME NEW i \in 1..Len(b) PROVE Len(a) + i \in 1..Len(c) /\ c[Len(a) + i] = b[i]
  <2>1. /\ Len(a) + i \in 1..(Len(a) + Len(b)) /\ ~(Len(a) + i <= Len(a))
        /\ (Len(a) + i) - Len(a) = i
    BY <1>2
  <2> QED BY <1>1, <2>1
<1>4. ASSUME NEW i \in 1..Len(c), i \notin 1..Len(a)
      PROVE  i - Len(a) \in 1..Len(b) /\ c[i] = b[i - Len(a)]
  <2>1. /\ i \in 1..(Len(a) + Len(b)) /\ ~(i <= Len(a)) /\ i - Len(a) \in 1..Len(b)
    BY <1>1, <1>2, <1>4
  <2> QED BY <1>1, <2>1
<1>5. \A i \in 1..Len(a) : i \in 1..Len(c) /\ c[i] = a[i]
  BY <1>1, <1>2
<1> QED BY <1>1, <1>2, <1>3, <1>4, <1>5 DEF Joined

\* Function g gives the places in js of the numbers in ended: those in E.
Numbered(g, ended, js, E) ==
  /\ \A k \in 1..Len(ended) : g[k] \in E /\ ended[k] = js[g[k]].id
  /\ \A i \in E : \E k \in 1..Len(ended) : g[k] = i

\* cleanupJobs, for any jobs and any history: f picks the jobs in flight, and g those
\* that have ended.
LEMMA CleanupKeeps ==
  ASSUME NEW js \in Seq(JobRecord), NEW hs \in Seq(1..MaxJobs), NEW m \in Nat, Sound(js, hs, m),
         NEW R \in SUBSET (1..Len(js)), NEW E, E = (1..Len(js)) \ R,
         NEW kept \in Seq(JobRecord), NEW f, Picks(f, kept, js, R),
         NEW ended, NEW g, Numbered(g, ended, js, E),
         NEW all, Len(all) \in Nat, Joined(hs, ended, all),
         NEW past \in Seq(1..MaxJobs), Keeps(all, past)
  PROVE  CleanedUp(js, hs, m, R, kept, all, past)
<1>1. MaxHistory \in Nat
  BY SwapBounds
<1>2. /\ \A k \in 1..Len(kept) : f[k] \in R /\ kept[k] = js[f[k]]
      /\ \A k, l \in 1..Len(kept) : f[k] = f[l] => k = l
      /\ \A i \in R : \E k \in 1..Len(kept) : f[k] = i
  BY DEF Picks
<1>3. /\ \A i \in 1..Len(hs) : i \in 1..Len(all) /\ all[i] = hs[i]
      /\ \A i \in 1..Len(ended) : Len(hs) + i \in 1..Len(all) /\ all[Len(hs) + i] = ended[i]
      /\ \A i \in 1..Len(all) : i \notin 1..Len(hs) => /\ i - Len(hs) \in 1..Len(ended)
                                                       /\ all[i] = ended[i - Len(hs)]
  BY DEF Joined
<1>4. \A i \in 1..Len(all) : \/ \E h \in 1..Len(hs) : all[i] = hs[h]
                             \/ \E k \in E : all[i] = js[k].id
  <2> TAKE i \in 1..Len(all)
  <2>1. CASE i \in 1..Len(hs)
    BY <1>3, <2>1
  <2>2. CASE i \notin 1..Len(hs)
    <3>1. i - Len(hs) \in 1..Len(ended) /\ all[i] = ended[i - Len(hs)]
      BY <1>3, <2>2
    <3>2. g[i - Len(hs)] \in E /\ ended[i - Len(hs)] = js[g[i - Len(hs)]].id
      BY <3>1 DEF Numbered
    <3> QED BY <3>1, <3>2
  <2> QED BY <2>1, <2>2
<1>5. \A k \in E : \E h \in 1..Len(all) : all[h] = js[k].id
  <2> TAKE k \in E
  <2>1. PICK h \in 1..Len(ended) : g[h] = k
    BY DEF Numbered
  <2>2. Len(hs) + h \in 1..Len(all) /\ all[Len(hs) + h] = js[k].id
    BY <1>3, <2>1 DEF Numbered
  <2> QED BY <2>2
<1>6. /\ Len(past) <= MaxHistory
      /\ \A i \in 1..Len(past) : \E k \in 1..Len(all) : past[i] = all[k]
      /\ \A k \in 1..Len(all) : \/ all[k] \in Dropped(all)
                               \/ \E i \in 1..Len(past) : past[i] = all[k]
  BY DEF Keeps
<1>7. \A h \in 1..Len(past) : \/ \E i \in 1..Len(hs) : past[h] = hs[i]
                              \/ \E k \in E : past[h] = js[k].id
  <2> TAKE h \in 1..Len(past)
  <2>1. PICK k \in 1..Len(all) : past[h] = all[k]
    BY <1>6
  <2> QED BY <1>4, <2>1
<1>8. /\ \A i \in 1..Len(js) : js[i].id \in 1..m
      /\ \A i \in 1..Len(hs) : hs[i] \in 1..m
      /\ \A i, k \in 1..Len(js) : js[i].id = js[k].id => i = k
      /\ \A i, k \in 1..Len(js) :
           Active(js[i]) /\ Active(js[k]) /\ js[i].src = js[k].src => i = k
      /\ \A i \in 1..Len(js), h \in 1..Len(hs) : js[i].id # hs[h]
  BY DEF Sound
<1>9. \A i \in 1..Len(kept) : f[i] \in 1..Len(js) /\ f[i] \in R /\ kept[i] = js[f[i]]
  BY <1>2
<1>10. \A k \in E : k \in 1..Len(js) /\ k \notin R
  OBVIOUS
<1>11. Sound(kept, past, m)
  <2>1. \A i \in 1..Len(kept) : kept[i].id \in 1..m
    BY <1>8, <1>9
  <2>2. \A h \in 1..Len(past) : past[h] \in 1..m
    BY <1>7, <1>8, <1>10
  <2>3. ASSUME NEW i \in 1..Len(kept), NEW k \in 1..Len(kept)
        PROVE  /\ kept[i].id = kept[k].id => i = k
               /\ Active(kept[i]) /\ Active(kept[k]) /\ kept[i].src = kept[k].src => i = k
    <3>1. /\ f[i] \in 1..Len(js) /\ f[k] \in 1..Len(js)
          /\ kept[i] = js[f[i]] /\ kept[k] = js[f[k]]
      BY <1>9
    <3>2. f[i] = f[k] => i = k
      BY <1>2
    <3>3. kept[i].id = kept[k].id => f[i] = f[k]
      BY <1>8, <3>1
    <3>4. Active(kept[i]) /\ Active(kept[k]) /\ kept[i].src = kept[k].src => f[i] = f[k]
      BY <1>8, <3>1
    <3> QED BY <3>2, <3>3, <3>4
  <2>4. ASSUME NEW i \in 1..Len(kept), NEW h \in 1..Len(past) PROVE kept[i].id # past[h]
    <3>1. f[i] \in 1..Len(js) /\ f[i] \in R /\ kept[i] = js[f[i]]
      BY <1>9
    <3>2. CASE \E l \in 1..Len(hs) : past[h] = hs[l]
      BY <1>8, <3>1, <3>2
    <3>3. CASE \E k \in E : past[h] = js[k].id
      BY <1>8, <1>10, <3>1, <3>3
    <3> QED BY <1>7, <3>2, <3>3
  <2> QED BY <2>1, <2>2, <2>3, <2>4 DEF Sound
<1>12. \A i \in 1..Len(kept) : \E k \in R : kept[i] = js[k]
  BY <1>2
<1>13. \A k \in R : \E i \in 1..Len(kept) : kept[i] = js[k]
  <2> TAKE k \in R
  <2>1. PICK i \in 1..Len(kept) : f[i] = k
    BY <1>2
  <2> QED BY <1>2, <2>1
<1>14. Dropped(all) \subseteq 1..m
  <2>1. \A i \in 1..(Len(all) - MaxHistory) : i \in 1..Len(all)
    BY <1>1
  <2>2. \A i \in 1..Len(all) : all[i] \in 1..m
    BY <1>4, <1>8, <1>10
  <2> QED BY <2>1, <2>2 DEF Dropped
<1>15. ASSUME NEW x, Recorded(x, js, hs)
       PROVE  Recorded(x, kept, past) \/ x \in Dropped(all)
  <2>1. ASSUME NEW k \in 1..Len(all), all[k] = x
        PROVE  Recorded(x, kept, past) \/ x \in Dropped(all)
    BY <1>6, <2>1 DEF Recorded
  <2>2. CASE \E h \in 1..Len(hs) : hs[h] = x
    BY <1>3, <2>1, <2>2
  <2>3. ASSUME NEW i \in 1..Len(js), js[i].id = x
        PROVE  Recorded(x, kept, past) \/ x \in Dropped(all)
    <3>1. CASE i \in R
      <4>1. PICK k \in 1..Len(kept) : kept[k] = js[i]
        BY <1>13, <3>1
      <4> QED BY <2>3, <4>1 DEF Recorded
    <3>2. CASE i \notin R
      BY <1>5, <2>1, <2>3, <3>2
    <3> QED BY <3>1, <3>2
  <2> QED BY <1>15, <2>2, <2>3 DEF Recorded
<1> QED BY <1>6, <1>11, <1>12, <1>13, <1>14, <1>15 DEF CleanedUp

LEMMA CleanupProperties ==
  ASSUME NEW js \in Seq(JobRecord), NEW hs \in Seq(1..MaxJobs), NEW m \in Nat,
         Sound(js, hs, m), NEW R \in SUBSET DOMAIN js,
         NEW kept, kept = ElementsAt(js, R),
         NEW nums, nums = [i \in DOMAIN js |-> js[i].id],
         NEW all, all = hs \o ElementsAt(nums, DOMAIN js \ R),
         NEW past, past = Remembered(all)
  PROVE  CleanedUp(js, hs, m, R, kept, all, past)
<1>1. /\ DOMAIN js = 1..Len(js) /\ Len(js) \in Nat /\ Len(hs) \in Nat /\ MaxHistory \in Nat
      /\ DOMAIN js \ R \in SUBSET DOMAIN js
  BY LenProperties, SwapBounds
<1>2. PICK E : E = DOMAIN js \ R
  OBVIOUS
<1>3. PICK ended : ended = ElementsAt(nums, E)
  OBVIOUS
<1>4. nums \in Seq(1..MaxJobs) /\ DOMAIN nums = DOMAIN js
  <2>1. \A i \in 1..Len(js) : js[i].id \in 1..MaxJobs
    BY ElementOfSeq, Fields
  <2>2. nums = [i \in 1..Len(js) |-> js[i].id]
    BY <1>1
  <2>3. nums \in [1..Len(js) -> 1..MaxJobs]
    BY <2>1, <2>2
  <2> QED BY <1>1, <2>2, <2>3, SeqOfFunction
<1>5. all = hs \o ended /\ E \in SUBSET DOMAIN nums
  BY <1>1, <1>2, <1>3, <1>4
<1>6. kept \in Seq(JobRecord) /\ \E f : Picks(f, kept, js, R)
  BY ElementsAtPlaces
<1>7. PICK f : Picks(f, kept, js, R)
  BY <1>6
<1>8. ended \in Seq(1..MaxJobs) /\ \E g : Picks(g, ended, nums, E)
  BY <1>3, <1>4, <1>5, ElementsAtPlaces
<1>9. PICK g : Picks(g, ended, nums, E)
  BY <1>8
<1>10. Numbered(g, ended, js, E)
  <2>1. /\ \A k \in 1..Len(ended) : g[k] \in E /\ ended[k] = nums[g[k]]
        /\ \A i \in E : \E k \in 1..Len(ended) : g[k] = i
    BY <1>9 DEF Picks
  <2>2. \A i \in E : nums[i] = js[i].id
    BY <1>2
  <2> QED BY <2>1, <2>2 DEF Numbered
<1>11. all \in Seq(1..MaxJobs) /\ Len(all) \in Nat /\ Joined(hs, ended, all)
  BY <1>5, <1>8, JoinedProperties
<1>12. past \in Seq(1..MaxJobs) /\ Keeps(all, past)
  BY <1>11, RememberedProperties
<1>13. E = (1..Len(js)) \ R /\ R \in SUBSET (1..Len(js))
  BY <1>1, <1>2
<1> QED BY <1>6, <1>7, <1>10, <1>11, <1>12, <1>13, CleanupKeeps

\* The orders that jobs know are orders there are.
LEMMA EntriesKnow ==
  ASSUME NEW n \in Nat, NEW js \in Seq(JobRecord), \A i \in 1..Len(js) : KnowsOrders(js[i], n)
  PROVE  \A j \in Entries(js) : {j.sell, j.buy} \subseteq 0..n
BY LenProperties DEF Entries, KnowsOrders

\* What the file covers stays within what there is.
LEMMA CoveredGrows ==
  ASSUME NEW m, NEW n, NEW m2 \in Nat, NEW n2 \in Nat, m \in 0..m2, n \in 0..n2,
         NEW c \in [jobs : 0..m, orders : 0..n]
  PROVE  c \in [jobs : 0..m2, orders : 0..n2]
<1>1. c = [jobs |-> c.jobs, orders |-> c.orders] /\ c.jobs \in 0..m /\ c.orders \in 0..n
  OBVIOUS
<1>2. c.jobs \in 0..m2 /\ c.orders \in 0..n2
  BY <1>1
<1> QED BY <1>1, <1>2

\* The jobs and the history that there are satisfy what the lemmas ask for.
LEMMA Records ==
  ASSUME SwapInv
  PROVE  /\ jobs \in Seq(JobRecord) /\ history \in Seq(1..MaxJobs)
         /\ disk.jobs \in Seq(JobRecord) /\ disk.history \in Seq(1..MaxJobs)
         /\ Len(jobs) \in Nat /\ Len(history) \in Nat /\ Len(orders) \in Nat
         /\ DOMAIN jobs = 1..Len(jobs) /\ DOMAIN history = 1..Len(history)
         /\ DOMAIN orders = 1..Len(orders)
         /\ made \in Nat /\ made <= MaxJobs /\ MaxJobs \in Nat /\ MaxHistory \in Nat
         /\ covered.jobs \in 0..made /\ covered.orders \in 0..Len(orders)
         /\ sentBy \subseteq 1..made /\ orphans \subseteq 1..Len(orders)
BY SwapBounds, LenProperties DEF SwapInv, SwapTypeOK

\* A tick moves one job on.
LEMMA AdvanceKeepsInv ==
  ASSUME SwapInv, AdvanceJob
  PROVE  SwapInv'
<1>1. Advancing
  BY EveryAdvance
<1>2. PICK j : Advances(j)
  BY EveryAdvance
<1>3. UNCHANGED <<history, phase, todo, stateFile, wallet, transit, made, sentBy, crashes,
                  cutOff, forgotten>>
  BY DEF AdvanceJob, Stays, DepositTimesOut, DepositArrived, SaleDone, PurchaseDone,
         OrderTimesOut, outside, lost
<1>4. /\ pos \in 1..Len(jobs) /\ Len(jobs) \in Nat /\ Len(jobs) <= MaxJobs
      /\ jobs \in Seq(JobRecord) /\ Len(orders) \in Nat /\ faults \in 0..MaxFaults
      /\ MaxJobs \in Nat /\ MaxFaults \in Nat /\ made \in Nat
  BY <1>1, JobFacts, Records, SwapBounds
<1>5. /\ jobs' = [jobs EXCEPT ![pos] = j] /\ pos' = pos + 1 /\ late' \subseteq late
      /\ j \in JobRecord /\ j.id = jobs[pos].id /\ j.src = jobs[pos].src
      /\ (Active(j) => Active(jobs[pos]))
      /\ orders' \in Seq(OrderRecord) /\ Len(orders') >= Len(orders)
      /\ avail' \in [Assets -> Nat] /\ faults' \in faults..MaxFaults
      /\ orphans' \subseteq 1..Len(orders') /\ KnowsOrders(j, Len(orders'))
  BY <1>2 DEF Advances, Becomes, Job
<1>6. Len(orders') \in Nat
  BY <1>5, LenProperties
<1>7. /\ Sound(jobs, history, made)
      /\ \A i \in 1..Len(jobs) : KnowsOrders(jobs[i], Len(orders))
      /\ \A i \in 1..Len(disk.jobs) : KnowsOrders(disk.jobs[i], Len(orders))
  BY DEF SwapInv
<1>8. /\ jobs' \in Seq(JobRecord) /\ Len(jobs') = Len(jobs)
      /\ Sound(jobs', history, made)
      /\ jobs'[pos] = j /\ \A i \in 1..Len(jobs) : i # pos => jobs'[i] = jobs[i]
  <2>1. PICK js, hs, m, p : js = jobs /\ hs = history /\ m = made /\ p = pos
    OBVIOUS
  <2>2. /\ js \in Seq(JobRecord) /\ Sound(js, hs, m) /\ p \in 1..Len(js)
        /\ j.id = js[p].id /\ j.src = js[p].src /\ (Active(j) => Active(js[p]))
    BY <1>4, <1>5, <1>7, <2>1
  <2> DEFINE new == [js EXCEPT ![p] = j]
  <2>3. /\ new \in Seq(JobRecord) /\ Len(new) = Len(js) /\ Sound(new, hs, m)
        /\ new[p] = j /\ \A i \in 1..Len(js) : i # p => new[i] = js[i]
    BY <1>5, <2>2, SoundAdvance
  <2>4. jobs' = new
    BY <1>5, <2>1
  <2> HIDE DEF new
  <2> QED BY <2>1, <2>3, <2>4
<1>9. \A k : KnowsOrders(k, Len(orders)) => KnowsOrders(k, Len(orders'))
  BY <1>4, <1>5, <1>6 DEF KnowsOrders
<1>10. /\ \A i \in 1..Len(jobs') : KnowsOrders(jobs'[i], Len(orders'))
       /\ \A i \in 1..Len(disk.jobs) : KnowsOrders(disk.jobs[i], Len(orders'))
  BY <1>5, <1>7, <1>8, <1>9
<1>11. \A k \in Entries(jobs') : {k.sell, k.buy} \subseteq 0..Len(orders')
  BY <1>6, <1>8, <1>10, EntriesKnow
<1>12. pos' \in 1..(MaxJobs + 1) /\ faults' \in 0..MaxFaults
  BY <1>4, <1>5
<1>13. covered \in [jobs : 0..made, orders : 0..Len(orders')]
  <2>1. covered \in [jobs : 0..made, orders : 0..Len(orders)]
    BY DEF SwapInv, SwapTypeOK
  <2>2. made \in 0..made /\ Len(orders) \in 0..Len(orders')
    BY <1>4, <1>5, <1>6
  <2> QED BY <1>4, <1>6, <2>1, <2>2, CoveredGrows
<1>14. SwapTypeOK'
  BY <1>3, <1>5, <1>8, <1>11, <1>12, <1>13 DEF SwapInv, SwapTypeOK, stateFile
<1> QED BY <1>3, <1>5, <1>8, <1>10, <1>14 DEF SwapInv, stateFile

\* Steps that leave the jobs, the history, the file and the orders alone.
LEMMA OthersKeepInv ==
  ASSUME SwapInv,
         \/ TickBegins \/ OpenStateFails \/ WriteStateFails \/ UpdateRule
         \/ \E c \in Coins : PassRule(c) \/ Mined(c) \/ Credited(c)
         \/ UNCHANGED swapVars
  PROVE  SwapInv'
<1>0. MaxJobs \in Nat
  BY SwapBounds
<1>1. CASE TickBegins
  <2>1. 1 \in 1..(MaxJobs + 1)
    BY <1>0
  <2> QED BY <1>1, <2>1 DEF TickBegins, SwapInv, SwapTypeOK, outside, stateFile, lost
<1>2. ASSUME NEW c \in Coins, PassRule(c) PROVE SwapInv'
  BY <1>2 DEF PassRule, SwapInv, SwapTypeOK, outside, stateFile, lost
<1>3. ASSUME NEW c \in Coins, Mined(c) PROVE SwapInv'
  <2>1. wallet' \in [Coins -> Nat]
    BY <1>3 DEF Mined, SwapInv, SwapTypeOK
  <2> QED BY <1>3, <2>1 DEF Mined, SwapInv, SwapTypeOK, engine, stateFile, lost
<1>4. ASSUME NEW c \in Coins, Credited(c) PROVE SwapInv'
  <2>1. avail' \in [Assets -> Nat] /\ transit' \in [Coins -> Nat]
    BY <1>4, SwapBounds DEF Credited, SwapInv, SwapTypeOK
  <2> QED BY <1>4, <2>1 DEF Credited, SwapInv, SwapTypeOK, engine, stateFile, lost
<1>5. CASE UNCHANGED swapVars
  BY <1>5 DEF SwapInv, SwapTypeOK, swapVars, engine, outside, stateFile, lost
<1>6. CASE OpenStateFails \/ WriteStateFails \/ UpdateRule
  BY <1>6 DEF OpenStateFails, WriteStateFails, UpdateRule, SwapInv, SwapTypeOK, outside,
              stateFile, lost
<1> QED BY <1>1, <1>2, <1>3, <1>4, <1>5, <1>6

\* What cleanupJobs does to the jobs of the engine.
LEMMA Cleaned ==
  ASSUME SwapInv, CleanupJobs
  PROVE  /\ jobs' \in Seq(JobRecord) /\ history' \in Seq(1..MaxJobs)
         /\ Len(history') <= MaxHistory /\ Sound(jobs', history', made)
         /\ forgotten \subseteq forgotten' /\ forgotten' \subseteq 1..made
         /\ \A i \in 1..Len(jobs') : \E k \in Running : jobs'[i] = jobs[k]
         /\ \A k \in Running : \E i \in 1..Len(jobs') : jobs'[i] = jobs[k]
         /\ \A x : Recorded(x, jobs, history) =>
                     Recorded(x, jobs', history') \/ x \in forgotten'
<1>1. PICK js, hs, m, R, kept, nums, all, past :
        /\ js = jobs /\ hs = history /\ m = made /\ R = Running
        /\ kept = jobs' /\ nums = JobNumbers /\ all = Finished /\ past = history'
  OBVIOUS
<1>2. /\ kept = ElementsAt(js, R) /\ nums = [i \in DOMAIN js |-> js[i].id]
      /\ all = hs \o ElementsAt(nums, DOMAIN js \ R) /\ past = Remembered(all)
      /\ Sound(js, hs, m) /\ forgotten' = forgotten \cup Dropped(all)
  BY <1>1 DEF CleanupJobs, SwapInv, JobNumbers, Finished, Ended
<1>3. /\ js \in Seq(JobRecord) /\ hs \in Seq(1..MaxJobs) /\ m \in Nat
      /\ R \in SUBSET DOMAIN js
  BY <1>1, Records DEF Running
<1>4. CleanedUp(js, hs, m, R, kept, all, past)
  BY <1>2, <1>3, CleanupProperties
<1>5. forgotten \subseteq 1..made
  BY DEF SwapInv, SwapTypeOK
<1>6. CleanedUp(jobs, history, made, Running, jobs', Finished, history')
  BY <1>1, <1>4
<1>7. forgotten' = forgotten \cup Dropped(Finished)
  BY DEF CleanupJobs
<1> QED BY <1>5, <1>6, <1>7 DEF CleanedUp

\* The end of a tick's first loop.
LEMMA CleanupKeepsInv ==
  ASSUME SwapInv, CleanupJobs
  PROVE  SwapInv'
<1>1. /\ jobs' \in Seq(JobRecord) /\ history' \in Seq(1..MaxJobs)
      /\ Len(history') <= MaxHistory /\ Sound(jobs', history', made)
      /\ \A i \in 1..Len(jobs') : \E k \in Running : jobs'[i] = jobs[k]
      /\ forgotten' \subseteq 1..made
  BY Cleaned
<1>2. /\ phase' = "start" /\ todo' = Coins /\ pos' = 1
      /\ UNCHANGED <<late, stateFile, outside, made, sentBy, faults, crashes, cutOff, orphans>>
  BY DEF CleanupJobs
<1>3. Running \subseteq 1..Len(jobs) /\ Len(orders) \in Nat /\ 1 \in 1..(MaxJobs + 1)
  BY Records DEF Running
<1>4. \A i \in 1..Len(jobs') : KnowsOrders(jobs'[i], Len(orders))
  <2> TAKE i \in 1..Len(jobs')
  <2>1. PICK k \in Running : jobs'[i] = jobs[k]
    BY <1>1
  <2>2. KnowsOrders(jobs[k], Len(orders))
    BY <1>3 DEF SwapInv
  <2> QED BY <2>1, <2>2
<1>5. \A k \in Entries(jobs') : {k.sell, k.buy} \subseteq 0..Len(orders)
  BY <1>1, <1>3, <1>4, EntriesKnow
<1>6. SwapTypeOK'
  BY <1>1, <1>2, <1>3, <1>5 DEF SwapInv, SwapTypeOK, outside, stateFile
<1> QED BY <1>1, <1>2, <1>4, <1>6 DEF SwapInv, outside, stateFile

\* A rule starts a swap.
LEMMA InitiateKeepsInv ==
  ASSUME SwapInv, NEW c \in Coins, Initiate(c)
  PROVE  /\ SwapInv'
         /\ \E j : j.id = made + 1 /\ jobs' = Append(jobs, j)
<1> DEFINE amount == wallet[c] - KeepBalance
           job(s) == [id |-> made + 1, src |-> c, amount |-> amount, state |-> s,
                      sell |-> 0, buy |-> 0, proceeds |-> 0, received |-> 0]
<1>0. /\ jobs \in Seq(JobRecord) /\ Len(jobs) \in Nat /\ made \in Nat /\ MaxJobs \in Nat
      /\ Len(orders) \in Nat /\ wallet \in [Coins -> Nat] /\ transit \in [Coins -> Nat]
      /\ faults \in 0..MaxFaults /\ MaxFaults \in Nat /\ KeepBalance \in Nat
      /\ sentBy \subseteq 1..made /\ DOMAIN jobs = 1..Len(jobs)
  BY Records, SwapBounds DEF SwapInv, SwapTypeOK
<1>1. /\ ~HasActiveJob(c) /\ made < MaxJobs /\ amount \in Nat
      /\ made' = made + 1 /\ todo' = todo \ {c}
      /\ UNCHANGED <<history, late, phase, pos, stateFile, avail, orders, crashes, lost>>
  BY DEF Initiate
<1>2. PICK s \in {"wait_deposit", "failed"} : jobs' = Append(jobs, job(s))
  BY DEF Initiate
<1>3. PICK j : j = job(s)
  OBVIOUS
<1>4. /\ j \in JobRecord /\ j.id = made + 1 /\ j.src = c /\ jobs' = Append(jobs, j)
      /\ j.sell = 0 /\ j.buy = 0 /\ j.state \in {"wait_deposit", "failed"}
  BY <1>0, <1>1, <1>2, <1>3 DEF JobRecord
<1>5. wallet' \in [Coins -> Nat] /\ transit' \in [Coins -> Nat] /\ faults' \in 0..MaxFaults
  <2>1. CASE UNCHANGED <<wallet, transit>>
    BY <1>0, <2>1 DEF Initiate
  <2>2. CASE /\ wallet' = [wallet EXCEPT ![c] = KeepBalance]
             /\ transit' = [transit EXCEPT ![c] = @ + amount]
    <3>1. wallet' \in [Coins -> Nat] /\ transit' \in [Coins -> Nat]
      BY <1>0, <1>1, <2>2
    <3>2. faults' = faults \/ (faults' = faults + 1 /\ faults < MaxFaults)
      BY DEF Initiate
    <3> QED BY <1>0, <3>1, <3>2
  <2> QED BY <2>1, <2>2 DEF Initiate
<1>6. 1..made \subseteq 1..made' /\ sentBy' \subseteq 1..made'
  <2>1. sentBy' = sentBy \/ sentBy' = sentBy \cup {made + 1}
    BY DEF Initiate
  <2>2. 1..made \subseteq 1..(made + 1) /\ made + 1 \in 1..(made + 1)
    BY <1>0
  <2> QED BY <1>0, <1>1, <2>1, <2>2
<1> HIDE DEF amount, job
<1>7. Sound(jobs', history, made')
  <2>1. \A i \in 1..Len(jobs) : Active(jobs[i]) => jobs[i].src # j.src
    BY <1>0, <1>1, <1>4 DEF HasActiveJob, Entries
  <2>2. Sound(jobs, history, made)
    BY DEF SwapInv
  <2>3. PICK js, hs, m : js = jobs /\ hs = history /\ m = made
    OBVIOUS
  <2>4. Sound(Append(js, j), hs, m + 1)
    BY <1>0, <1>4, <2>1, <2>2, <2>3, SoundAppend
  <2> QED BY <1>1, <1>4, <2>3, <2>4
<1>8. /\ jobs' \in Seq(JobRecord) /\ Len(jobs') = Len(jobs) + 1 /\ jobs'[Len(jobs) + 1] = j
      /\ \A i \in 1..Len(jobs) : jobs'[i] = jobs[i]
  BY <1>0, <1>4, AppendProperties
<1>9. \A i \in 1..Len(jobs') : KnowsOrders(jobs'[i], Len(orders))
  <2>1. KnowsOrders(j, Len(orders))
    BY <1>0, <1>4 DEF KnowsOrders
  <2>2. \A i \in 1..Len(jobs) : KnowsOrders(jobs[i], Len(orders))
    BY DEF SwapInv
  <2>3. \A i \in 1..Len(jobs') : i \in 1..Len(jobs) \/ i = Len(jobs) + 1
    BY <1>0, <1>8
  <2> QED BY <1>8, <2>1, <2>2, <2>3
<1>10. \A k \in Entries(jobs') : {k.sell, k.buy} \subseteq 0..Len(orders)
  BY <1>0, <1>8, <1>9, EntriesKnow
<1>11. Sound(disk.jobs, disk.history, made')
  <2>1. Sound(disk.jobs, disk.history, made)
    BY DEF SwapInv
  <2>2. PICK js, hs, m, n : js = disk.jobs /\ hs = disk.history /\ m = made /\ n = made'
    OBVIOUS
  <2>3. Sound(js, hs, n)
    BY <1>6, <2>1, <2>2 DEF Sound
  <2> QED BY <2>2, <2>3
<1>12. made' \in 0..MaxJobs
  BY <1>0, <1>1
<1>13. covered \in [jobs : 0..made', orders : 0..Len(orders)]
  <2>1. covered \in [jobs : 0..made, orders : 0..Len(orders)]
    BY DEF SwapInv, SwapTypeOK
  <2>2. made \in 0..made' /\ Len(orders) \in 0..Len(orders) /\ made' \in Nat
    BY <1>0, <1>1
  <2> QED BY <1>0, <2>1, <2>2, CoveredGrows
<1>14. /\ late \subseteq 1..made' /\ cutOff \subseteq 1..made' /\ forgotten \subseteq 1..made'
       /\ todo' \subseteq Coins
  BY <1>1, <1>6 DEF SwapInv, SwapTypeOK
<1>15. SwapTypeOK'
  BY <1>1, <1>5, <1>6, <1>8, <1>10, <1>12, <1>13, <1>14
  DEF SwapInv, SwapTypeOK, stateFile, lost
<1>16. SwapInv'
  BY <1>1, <1>7, <1>9, <1>11, <1>15 DEF SwapInv, stateFile
<1> QED BY <1>4, <1>16

\* No jobs are different jobs.
LEMMA EmptyRecords ==
  /\ << >> \in Seq(JobRecord) /\ << >> \in Seq(1..MaxJobs) /\ Len(<< >>) = 0
  /\ Entries(<< >>) = {} /\ \A m \in Nat : Sound(<< >>, << >>, m)
<1>1. /\ << >> \in Seq(JobRecord) /\ << >> \in Seq(1..MaxJobs) /\ Len(<< >>) = 0
      /\ 1..0 = {} /\ DOMAIN << >> = {}
  BY EmptySeq
<1>2. PICK e : e = << >>
  OBVIOUS
<1>3. \A m \in Nat : Sound(e, e, m)
  BY <1>1, <1>2 DEF Sound
<1> QED BY <1>1, <1>2, <1>3 DEF Entries

\* The file is emptied and written.
LEMMA SavesKeepInv ==
  ASSUME SwapInv, OpenState \/ WriteState
  PROVE  SwapInv'
<1>0. /\ UNCHANGED <<jobs, history, late, pos, todo, outside, made, sentBy, faults, crashes, lost>>
      /\ phase' \in {"saving", "idle"} /\ made \in Nat /\ Len(orders) \in Nat
  BY Records DEF OpenState, WriteState
<1>1. CASE OpenState
  <2>1. disk'.jobs = << >> /\ disk'.history = << >> /\ covered' = [jobs |-> 0, orders |-> 0]
    BY <1>1 DEF OpenState, NoRecords
  <2>2. /\ << >> \in Seq(JobRecord) /\ << >> \in Seq(1..MaxJobs) /\ Len(<< >>) = 0
        /\ Sound(<< >>, << >>, made) /\ 1..0 = {}
    BY <1>0, EmptyRecords
  <2>3. covered' \in [jobs : 0..made, orders : 0..Len(orders)] /\ 0 <= MaxHistory
    BY <1>0, <2>1, SwapBounds
  <2>4. SwapTypeOK'
    BY <1>0, <2>1, <2>2, <2>3 DEF SwapInv, SwapTypeOK, outside, lost
  <2> QED BY <1>0, <2>1, <2>2, <2>4 DEF SwapInv, outside
<1>2. CASE WriteState
  <2>1. /\ disk'.jobs = jobs /\ disk'.history = history
        /\ covered' = [jobs |-> made, orders |-> Len(orders)]
    BY <1>2 DEF WriteState
  <2>2. covered' \in [jobs : 0..made, orders : 0..Len(orders)]
    BY <1>0, <2>1
  <2>3. SwapTypeOK'
    BY <1>0, <2>1, <2>2 DEF SwapInv, SwapTypeOK, outside, lost
  <2> QED BY <1>0, <2>1, <2>3 DEF SwapInv, outside
<1> QED BY <1>1, <1>2

\* The exchange fills an order.
LEMMA FilledKeepsInv ==
  ASSUME SwapInv, NEW n \in 1..Len(orders), Filled(n)
  PROVE  SwapInv' /\ Len(orders') = Len(orders)
         /\ \A i \in 1..Len(orders') : orders'[i].status = "open" => orders[i].status = "open"
<1> DEFINE o == [orders[n] EXCEPT !.status = "filled"]
<1>1. orders \in Seq(OrderRecord) /\ orders[n] \in OrderRecord
  BY ElementOfSeq DEF SwapInv
<1>2. o \in OrderRecord /\ orders' = [orders EXCEPT ![n] = o] /\ o.status = "filled"
  BY <1>1 DEF Filled, OrderRecord
<1> HIDE DEF o
<1>3. /\ orders' \in Seq(OrderRecord) /\ Len(orders') = Len(orders)
      /\ \A i \in 1..Len(orders) : orders'[i] = IF i = n THEN o ELSE orders[i]
  BY <1>1, <1>2, ExceptSeq
<1>4. avail' \in [Assets -> Nat]
  <2>1. /\ avail \in [Assets -> Nat] /\ orders[n].get \in Assets /\ orders[n].qty \in Nat
        /\ avail' = [avail EXCEPT ![orders[n].get] = @ + orders[n].qty]
    BY <1>1 DEF Filled, OrderRecord, SwapInv, SwapTypeOK
  <2>2. avail[orders[n].get] + orders[n].qty \in Nat
    BY <2>1
  <2> QED BY <2>1, <2>2
<1>5. SwapInv'
  BY <1>3, <1>4 DEF Filled, SwapInv, SwapTypeOK, engine, stateFile, lost
<1> QED BY <1>2, <1>3, <1>5

\* Time passes for a job.
LEMMA GrowsLateKeepsInv ==
  ASSUME SwapInv, NEW k \in 1..made, GrowsLate(k)
  PROVE  SwapInv'
<1>1. late' \subseteq 1..made
  BY DEF GrowsLate, SwapInv, SwapTypeOK
<1> QED BY <1>1 DEF GrowsLate, SwapInv, SwapTypeOK, outside, stateFile, lost

\* The process ends and starts again.
LEMMA RestartsKeepInv ==
  ASSUME SwapInv, Crash \/ Start
  PROVE  SwapInv'
<1>0. /\ made \in Nat /\ disk.jobs \in Seq(JobRecord) /\ disk.history \in Seq(1..MaxJobs)
      /\ Len(orders) \in Nat /\ MaxJobs \in Nat /\ MaxHistory \in Nat
      /\ 1 \in 1..(MaxJobs + 1) /\ Sound(<< >>, << >>, made) /\ << >> \in Seq(JobRecord)
      /\ << >> \in Seq(1..MaxJobs) /\ Len(<< >>) = 0 /\ Entries(<< >>) = {} /\ 1..0 = {}
  BY Records, EmptyRecords
<1>1. CASE Crash
  <2>1. /\ jobs' = << >> /\ history' = << >> /\ late' = {} /\ pos' = 1 /\ todo' = {}
        /\ phase' = "down" /\ crashes' \in 0..MaxCrashes
        /\ UNCHANGED <<stateFile, outside, made, sentBy, faults, forgotten>>
    BY <1>1, SwapBounds DEF Crash, SwapInv, SwapTypeOK
  <2>2. cutOff' \subseteq 1..made /\ orphans' \subseteq 1..Len(orders)
    <3>1. /\ (covered.jobs + 1)..made \subseteq 1..made
          /\ (covered.orders + 1)..Len(orders) \subseteq 1..Len(orders)
      BY <1>0, Records
    <3> QED BY <1>1, <3>1 DEF Crash, SwapInv, SwapTypeOK
  <2>3. SwapTypeOK'
    <3>1. /\ {jobs', disk'.jobs} \subseteq Seq(JobRecord)
          /\ {history', disk'.history} \subseteq Seq(1..MaxJobs) /\ late' \subseteq 1..made'
          /\ Len(history') <= MaxHistory /\ Len(disk'.history) <= MaxHistory
      BY <1>0, <2>1 DEF SwapInv, SwapTypeOK, stateFile
    <3>2. /\ phase' \in {"idle", "advance", "start", "saving", "down"}
          /\ pos' \in 1..(MaxJobs + 1) /\ todo' \subseteq Coins
          /\ \A j \in Entries(jobs') : {j.sell, j.buy} \subseteq 0..Len(orders')
      BY <1>0, <2>1
    <3>3. /\ wallet' \in [Coins -> Nat] /\ transit' \in [Coins -> Nat]
          /\ avail' \in [Assets -> Nat]
          /\ made' \in 0..MaxJobs /\ sentBy' \subseteq 1..made'
          /\ faults' \in 0..MaxFaults /\ crashes' \in 0..MaxCrashes
          /\ covered' \in [jobs : 0..made', orders : 0..Len(orders')]
          /\ cutOff' \subseteq 1..made' /\ orphans' \subseteq 1..Len(orders')
          /\ forgotten' \subseteq 1..made'
      BY <2>1, <2>2 DEF SwapInv, SwapTypeOK, outside, stateFile
    <3> QED BY <3>1, <3>2, <3>3 DEF SwapTypeOK
  <2>4. Sound(jobs', history', made') /\ \A i \in 1..Len(jobs') : FALSE
    BY <1>0, <2>1
  <2> QED BY <2>1, <2>3, <2>4 DEF SwapInv, outside, stateFile
<1>2. CASE Start
  <2>1. /\ jobs' = disk.jobs /\ history' = disk.history /\ phase' = "idle"
        /\ UNCHANGED <<late, pos, todo, stateFile, outside, made, sentBy, faults, crashes, lost>>
    BY <1>2 DEF Start
  <2>2. \A i \in 1..Len(disk.jobs) : KnowsOrders(disk.jobs[i], Len(orders))
    BY DEF SwapInv
  <2>3. \A k \in Entries(jobs') : {k.sell, k.buy} \subseteq 0..Len(orders)
    BY <1>0, <2>1, <2>2, EntriesKnow
  <2>4. SwapTypeOK'
    BY <1>0, <2>1, <2>3 DEF SwapInv, SwapTypeOK, outside, stateFile, lost
  <2> QED BY <2>1, <2>4 DEF SwapInv, outside, stateFile
<1> QED BY <1>1, <1>2
-----------------------------------------------------------------------------
(* The theorems.                                                           *)

LEMMA SwapInvInit == SwapInit => SwapInv
<1> SUFFICES ASSUME SwapInit PROVE SwapInv
  OBVIOUS
<1>1. /\ 1 \in 1..(MaxJobs + 1) /\ MaxHistory \in Nat /\ 0 \in 0..MaxJobs /\ 0 \in 0..MaxFaults
      /\ 0 \in 0..MaxCrashes /\ 0 \in Nat
  BY SwapBounds
<1>2. /\ << >> \in Seq(JobRecord) /\ << >> \in Seq(1..MaxJobs) /\ Len(<< >>) = 0
      /\ Entries(<< >>) = {}
      /\ Sound(<< >>, << >>, 0) /\ << >> \in Seq(OrderRecord) /\ 1..0 = {}
  BY <1>1, EmptyRecords, EmptySeq
<1>3. disk.jobs = << >> /\ disk.history = << >> /\ covered \in [jobs : 0..0, orders : 0..0]
  BY DEF SwapInit, NoRecords
<1>4. SwapTypeOK
  BY <1>1, <1>2, <1>3 DEF SwapInit, SwapTypeOK
<1> QED BY <1>2, <1>3, <1>4 DEF SwapInit, SwapInv

LEMMA SwapInvStep == SwapInv /\ [SwapNext]_swapVars => SwapInv'
<1> SUFFICES ASSUME SwapInv, [SwapNext]_swapVars PROVE SwapInv'
  OBVIOUS
<1>1. CASE AdvanceJob
  BY <1>1, AdvanceKeepsInv
<1>2. CASE \/ TickBegins \/ OpenStateFails \/ WriteStateFails \/ UpdateRule
           \/ \E c \in Coins : PassRule(c) \/ Mined(c) \/ Credited(c)
           \/ UNCHANGED swapVars
  BY <1>2, OthersKeepInv
<1>3. CASE CleanupJobs
  BY <1>3, CleanupKeepsInv
<1>4. ASSUME NEW c \in Coins, Initiate(c) PROVE SwapInv'
  BY <1>4, InitiateKeepsInv
<1>5. CASE OpenState \/ WriteState
  BY <1>5, SavesKeepInv
<1>6. ASSUME NEW n \in 1..Len(orders), Filled(n) PROVE SwapInv'
  BY <1>6, FilledKeepsInv
<1>7. ASSUME NEW k \in 1..made, GrowsLate(k) PROVE SwapInv'
  BY <1>7, GrowsLateKeepsInv
<1>8. CASE Crash \/ Start
  BY <1>8, RestartsKeepInv
<1> QED BY <1>1, <1>2, <1>3, <1>4, <1>5, <1>6, <1>7, <1>8 DEF SwapNext, Exchange, AdvanceJob

\* Balances never go negative, since whatever is ordered or withdrawn is covered;
\* the jobs know only orders that were placed, and the history keeps its cap.
THEOREM SwapTypes == SwapSpec => []SwapTypeOK
<1>1. SwapInit => SwapInv
  BY SwapInvInit
<1>2. SwapInv /\ [SwapNext]_swapVars => SwapInv'
  BY SwapInvStep
<1>3. SwapInv => SwapTypeOK
  BY DEF SwapInv
<1> QED BY <1>1, <1>2, <1>3, PTL DEF SwapSpec

\* A coin is never swapped twice at the same time, and no job is both in flight and
\* finished: not in memory, not in the file, and not after a restart at any point,
\* whatever the exchange answers.
THEOREM OneSwapPerCoin == SwapSpec => []OneActivePerCoin
<1>1. SwapInit => SwapInv
  BY SwapInvInit
<1>2. SwapInv /\ [SwapNext]_swapVars => SwapInv'
  BY SwapInvStep
<1>3. SwapInv => OneActivePerCoin
  <2> SUFFICES ASSUME SwapInv, NEW r \in {Held, disk}
               PROVE  /\ \A i, k \in DOMAIN r.jobs :
                           Active(r.jobs[i]) /\ Active(r.jobs[k]) /\ i # k
                             => r.jobs[i].src # r.jobs[k].src
                      /\ \A j \in Entries(r.jobs) : j.id \notin Entries(r.history)
    BY DEF OneActivePerCoin
  <2>1. PICK js, hs : js = r.jobs /\ hs = r.history
    OBVIOUS
  <2>2. js \in Seq(JobRecord) /\ hs \in Seq(1..MaxJobs) /\ Sound(js, hs, made)
    BY <2>1, Records DEF Held, SwapInv
  <2>3. DOMAIN js = 1..Len(js) /\ DOMAIN hs = 1..Len(hs)
    BY <2>2, LenProperties
  <2>4. ASSUME NEW i \in 1..Len(js), NEW k \in 1..Len(js), Active(js[i]), Active(js[k]), i # k
        PROVE  js[i].src # js[k].src
    BY <2>2, <2>4 DEF Sound
  <2>5. ASSUME NEW j \in Entries(js) PROVE j.id \notin Entries(hs)
    <3>1. PICK i \in 1..Len(js) : j = js[i]
      BY <2>3 DEF Entries
    <3>2. \A k \in 1..Len(hs) : js[i].id # hs[k]
      BY <2>2 DEF Sound
    <3> QED BY <2>3, <3>1, <3>2 DEF Entries
  <2> QED BY <2>1, <2>3, <2>4, <2>5
<1> QED BY <1>1, <1>2, <1>3, PTL DEF SwapSpec
-----------------------------------------------------------------------------
(***************************************************************************)
(* Orders and payments have their jobs.  Both say it of memory, while the  *)
(* engine runs, and of the file, of what came before its save; what came   *)
(* after is given up when the process ends, so that while it is down the   *)
(* file has all that is left.                                              *)
(***************************************************************************)

\* The open orders that the engine has not lost sight of, and the jobs js having one.
Watched == {n \in 1..Len(orders) : orders[n].status = "open"} \ orphans
Owned(js, n) == \E i \in 1..Len(js) : Owns(js[i], n)

OwnedInv ==
  /\ phase # "down" => \A n \in Watched : Owned(jobs, n)
  /\ \A n \in Watched : n <= covered.orders => Owned(disk.jobs, n)
  /\ phase = "down" => \A n \in Watched : n <= covered.orders

\* The payments that must be on record.
Owing == sentBy \ (forgotten \cup cutOff)

RecordedInv ==
  /\ phase # "down" => \A x \in Owing : Recorded(x, jobs, history)
  /\ \A x \in Owing : x <= covered.jobs => Recorded(x, disk.jobs, disk.history)
  /\ phase = "down" => \A x \in Owing : x <= covered.jobs

\* The steps that change no record, and neither order nor payment.
Bystander == \/ TickBegins \/ OpenStateFails \/ WriteStateFails \/ UpdateRule
             \/ \E c \in Coins : PassRule(c) \/ Mined(c) \/ Credited(c)
             \/ \E k \in 1..made : GrowsLate(k)
             \/ UNCHANGED swapVars

\* The order of the cases of a step.
LEMMA SwapSteps ==
  ASSUME [SwapNext]_swapVars
  PROVE  \/ AdvanceJob \/ CleanupJobs \/ Bystander \/ OpenState \/ WriteState
         \/ Crash \/ Start
         \/ \E c \in Coins : Initiate(c)
         \/ \E n \in 1..Len(orders) : Filled(n)
BY DEF SwapNext, AdvanceJob, Bystander, Exchange

LEMMA BystanderKeeps ==
  ASSUME Bystander
  PROVE  /\ UNCHANGED <<jobs, history, disk, covered, orders, sentBy, cutOff, orphans, forgotten>>
         /\ phase' = "down" <=> phase = "down"
BY DEF Bystander, TickBegins, OpenStateFails, WriteStateFails, UpdateRule, PassRule, Mined,
       Credited, GrowsLate, engine, outside, stateFile, lost, swapVars

\* The engine runs when it does something to its jobs.
LEMMA EngineRuns ==
  ASSUME AdvanceJob \/ CleanupJobs \/ \E c \in Coins : Initiate(c)
  PROVE  phase # "down" /\ phase' # "down" /\ UNCHANGED <<disk, covered, cutOff>>
BY DEF AdvanceJob, CleanupJobs, Initiate, Stays, DepositTimesOut, DepositArrived,
       SaleDone, PurchaseDone, OrderTimesOut, Advancing, stateFile, lost

LEMMA OwnedStep ==
  ASSUME SwapInv, [SwapNext]_swapVars, OwnedInv
  PROVE  OwnedInv'
<1>0. /\ Len(orders) \in Nat /\ covered.orders \in 0..Len(orders) /\ jobs \in Seq(JobRecord)
      /\ Len(jobs) \in Nat /\ DOMAIN jobs = 1..Len(jobs) /\ DOMAIN orders = 1..Len(orders)
  BY Records
<1>1. CASE AdvanceJob
  <2>1. Advancing
    BY <1>1, EveryAdvance
  <2>2. PICK j : Advances(j)
    BY <1>1, EveryAdvance
  <2>3. /\ pos \in 1..Len(jobs) /\ jobs' = [jobs EXCEPT ![pos] = j] /\ j \in JobRecord
        /\ orders' \in Seq(OrderRecord) /\ orphans \subseteq orphans'
        /\ \A n \in DOMAIN orders' \ orphans' :
             orders'[n].status = "open" =>
               \/ Owns(j, n) /\ n > Len(orders)
               \/ IsOpen(n) /\ (Owns(Job, n) => j = Job)
    BY <2>1, <2>2, JobFacts DEF Advances, Becomes
  <2>4. /\ Len(jobs') = Len(jobs) /\ jobs'[pos] = j
        /\ \A i \in 1..Len(jobs) : i # pos => jobs'[i] = jobs[i]
    BY <1>0, <2>3, ExceptSeq
  <2>5. DOMAIN orders' = 1..Len(orders')
    BY <2>3, LenProperties
  <2>6. \A n \in Watched' : \/ Owns(j, n) /\ n > Len(orders)
                            \/ n \in Watched /\ (Owns(Job, n) => j = Job)
    BY <1>0, <2>3, <2>5 DEF Watched, IsOpen
  <2>7. ASSUME NEW n \in Watched' PROVE Owned(jobs', n)
    <3>1. CASE Owns(j, n)
      BY <2>3, <2>4, <3>1 DEF Owned
    <3>2. CASE n \in Watched /\ (Owns(Job, n) => j = Job)
      <4>1. PICK i \in 1..Len(jobs) : Owns(jobs[i], n)
        BY <1>1, <3>2, EngineRuns DEF OwnedInv, Owned
      <4>2. jobs'[i] = jobs[i]
        BY <2>4, <3>2, <4>1 DEF Job
      <4> QED BY <2>4, <4>1, <4>2 DEF Owned
    <3> QED BY <2>6, <3>1, <3>2
  <2>8. ASSUME NEW n \in Watched', n <= covered.orders PROVE Owned(disk.jobs, n)
    <3>1. n \in 1..Len(orders')
      BY DEF Watched
    <3>2. n \in Watched
      BY <1>0, <2>6, <2>8, <3>1
    <3> QED BY <2>8, <3>2 DEF OwnedInv
  <2> QED BY <1>1, <2>7, <2>8, EngineRuns DEF OwnedInv, Owned
<1>2. CASE CleanupJobs
  <2>1. /\ \A k \in Running : \E i \in 1..Len(jobs') : jobs'[i] = jobs[k]
        /\ orphans' = orphans /\ orders' = orders
    BY <1>2, Cleaned DEF CleanupJobs, outside
  <2>2. \A k \in 1..Len(jobs) : \A n : Owns(jobs[k], n) => k \in Running
    BY <1>0 DEF Running, Owns, Active
  <2>3. \A n : Owned(jobs, n) => Owned(jobs', n)
    BY <2>1, <2>2 DEF Owned
  <2>4. Watched' = Watched
    BY <2>1 DEF Watched
  <2> QED BY <1>2, <2>3, <2>4, EngineRuns DEF OwnedInv, Owned
<1>3. ASSUME NEW c \in Coins, Initiate(c) PROVE OwnedInv'
  <2>1. PICK j : jobs' = Append(jobs, j)
    BY <1>3, InitiateKeepsInv
  <2>2. orders' = orders /\ orphans' = orphans
    BY <1>3 DEF Initiate, lost
  <2>3. jobs' \in Seq(JobRecord)
    <3>1. SwapInv'
      BY <1>3, InitiateKeepsInv
    <3> QED BY <3>1 DEF SwapInv, SwapTypeOK
  <2>4. Len(jobs') = Len(jobs) + 1 /\ \A i \in 1..Len(jobs) : jobs'[i] = jobs[i]
    BY <1>0, <2>1, <2>3, LenProperties
  <2>5. \A n : Owned(jobs, n) => Owned(jobs', n)
    BY <1>0, <2>4 DEF Owned
  <2>6. Watched' = Watched
    BY <2>2 DEF Watched
  <2> QED BY <1>3, <2>5, <2>6, EngineRuns DEF OwnedInv, Owned
<1>4. ASSUME NEW n \in 1..Len(orders), Filled(n) PROVE OwnedInv'
  <2>1. /\ UNCHANGED <<phase, jobs, disk, covered, orphans>> /\ Watched' \subseteq Watched
    BY <1>4, FilledKeepsInv DEF Filled, engine, stateFile, lost, Watched
  <2> QED BY <2>1 DEF OwnedInv, Owned
<1>5. CASE OpenState
  <2>1. UNCHANGED <<jobs, orders, orphans>> /\ phase # "down" /\ phase' # "down"
        /\ covered'.orders = 0
    BY <1>5 DEF OpenState, outside, lost
  <2>2. Watched' = Watched /\ \A n \in Watched : ~(n <= 0)
    BY <1>0, <2>1 DEF Watched
  <2> QED BY <2>1, <2>2 DEF OwnedInv, Owned
<1>6. CASE WriteState
  <2>1. /\ UNCHANGED <<jobs, orders, orphans>> /\ phase # "down" /\ phase' # "down"
        /\ disk'.jobs = jobs
    BY <1>6 DEF WriteState, outside, lost
  <2>2. Watched' = Watched
    BY <2>1 DEF Watched
  <2> QED BY <2>1, <2>2 DEF OwnedInv, Owned
<1>7. CASE Crash
  <2>1. /\ UNCHANGED <<disk, covered, orders>> /\ phase' = "down"
        /\ orphans' = orphans \cup (covered.orders + 1)..Len(orders)
    BY <1>7 DEF Crash, outside, stateFile
  <2>2. \A n \in Watched' : n \in Watched /\ n <= covered.orders
    BY <1>0, <2>1 DEF Watched
  <2> QED BY <2>1, <2>2 DEF OwnedInv, Owned
<1>8. CASE Start
  <2>1. /\ UNCHANGED <<disk, covered, orders, orphans>> /\ phase = "down" /\ phase' # "down"
        /\ jobs' = disk.jobs
    BY <1>8 DEF Start, outside, stateFile, lost
  <2>2. Watched' = Watched
    BY <2>1 DEF Watched
  <2> QED BY <2>1, <2>2 DEF OwnedInv, Owned
<1>9. CASE Bystander
  <2>1. /\ UNCHANGED <<jobs, disk, covered, orders, orphans>>
        /\ phase' = "down" <=> phase = "down"
    BY <1>9, BystanderKeeps
  <2>2. Watched' = Watched
    BY <2>1 DEF Watched
  <2> QED BY <2>1, <2>2 DEF OwnedInv, Owned
<1> QED BY <1>1, <1>2, <1>3, <1>4, <1>5, <1>6, <1>7, <1>8, <1>9, SwapSteps

\* Every order open on the exchange belongs to a job in flight, in memory or, while the
\* engine is down, in the file, wherever the process ends and whatever save fails, but
\* for orders whose placing or cancelling got no answer, and those placed after the
\* save that is in the file when the process ends.
THEOREM OrdersHaveAJob == SwapSpec => []OrdersAreOwned
<1> DEFINE Inv == SwapInv /\ OwnedInv
<1>1. SwapInit => Inv
  <2>1. SwapInit => Len(orders) = 0 /\ 1..0 = {}
    BY EmptySeq DEF SwapInit
  <2> QED BY <2>1, SwapInvInit DEF OwnedInv, Watched
<1>2. Inv /\ [SwapNext]_swapVars => Inv'
  BY SwapInvStep, OwnedStep
<1>3. Inv => OrdersAreOwned
  <2> SUFFICES ASSUME Inv, NEW n \in DOMAIN orders \ orphans, orders[n].status = "open"
               PROVE  \E j \in Entries(Held.jobs) : Owns(j, n)
    BY DEF OrdersAreOwned, Owns
  <2>1. PICK js : js = Held.jobs
    OBVIOUS
  <2>2. js \in Seq(JobRecord) /\ n \in Watched
    BY <2>1, Records DEF Held, Watched
  <2>3. Owned(js, n)
    BY <2>1, <2>2 DEF OwnedInv, Held
  <2>4. DOMAIN js = 1..Len(js)
    BY <2>2, LenProperties
  <2> QED BY <2>1, <2>3, <2>4 DEF Owned, Entries
<1> QED BY <1>1, <1>2, <1>3, PTL DEF SwapSpec

LEMMA RecordedStep ==
  ASSUME SwapInv, [SwapNext]_swapVars, RecordedInv
  PROVE  RecordedInv'
<1>0. /\ made \in Nat /\ covered.jobs \in 0..made /\ sentBy \subseteq 1..made
      /\ jobs \in Seq(JobRecord) /\ Len(jobs) \in Nat
  BY Records
<1>1. CASE AdvanceJob
  <2>1. Advancing
    BY <1>1, EveryAdvance
  <2>2. PICK j : Advances(j)
    BY <1>1, EveryAdvance
  <2>3. /\ pos \in 1..Len(jobs) /\ j \in JobRecord
        /\ jobs' = [jobs EXCEPT ![pos] = j] /\ j.id = jobs[pos].id
    BY <2>1, <2>2, JobFacts DEF Advances, Becomes, Job
  <2>4. /\ Len(jobs') = Len(jobs) /\ jobs'[pos] = j
        /\ \A i \in 1..Len(jobs) : i # pos => jobs'[i] = jobs[i]
    BY <1>0, <2>3, ExceptSeq
  <2>5. \A i \in 1..Len(jobs) : jobs'[i].id = jobs[i].id
    BY <2>3, <2>4
  <2>6. history' = history /\ sentBy' = sentBy /\ forgotten' = forgotten
    BY <1>1 DEF AdvanceJob, Stays, DepositTimesOut, DepositArrived, SaleDone, PurchaseDone,
                OrderTimesOut, lost
  <2>7. \A x : Recorded(x, jobs, history) => Recorded(x, jobs', history')
    BY <2>4, <2>5, <2>6 DEF Recorded
  <2>8. Owing' = Owing
    BY <1>1, <2>6, EngineRuns DEF Owing
  <2> QED BY <1>1, <2>7, <2>8, EngineRuns DEF RecordedInv, Recorded
<1>2. CASE CleanupJobs
  <2>1. /\ sentBy' = sentBy /\ forgotten \subseteq forgotten'
        /\ \A x : Recorded(x, jobs, history) =>
                    Recorded(x, jobs', history') \/ x \in forgotten'
    BY <1>2, Cleaned DEF CleanupJobs
  <2>2. \A x \in Owing' : x \in Owing /\ x \notin forgotten'
    BY <1>2, <2>1, EngineRuns DEF Owing
  <2> QED BY <1>2, <2>1, <2>2, EngineRuns DEF RecordedInv, Recorded
<1>3. ASSUME NEW c \in Coins, Initiate(c) PROVE RecordedInv'
  <2>1. PICK j : j.id = made + 1 /\ jobs' = Append(jobs, j)
    BY <1>3, InitiateKeepsInv
  <2>2. /\ history' = history /\ forgotten' = forgotten
        /\ (sentBy' = sentBy \/ sentBy' = sentBy \cup {made + 1})
    BY <1>3 DEF Initiate, lost
  <2>3. /\ \A i \in 1..Len(jobs) : i \in 1..Len(jobs') /\ jobs'[i] = jobs[i]
        /\ Len(jobs) + 1 \in 1..Len(jobs') /\ jobs'[Len(jobs) + 1] = j
    BY <1>0, <2>1, LenProperties
  <2>4. \A x : Recorded(x, jobs, history) => Recorded(x, jobs', history')
    BY <2>2, <2>3 DEF Recorded
  <2>5. Recorded(made + 1, jobs', history') /\ ~(made + 1 <= covered.jobs)
    BY <1>0, <2>1, <2>3 DEF Recorded
  <2>6. \A x \in Owing' : x \in Owing \/ x = made + 1
    BY <1>3, <2>2, EngineRuns DEF Owing
  <2> QED BY <1>3, <2>4, <2>5, <2>6, EngineRuns DEF RecordedInv, Recorded
<1>4. ASSUME NEW n \in 1..Len(orders), Filled(n) PROVE RecordedInv'
  <2>1. UNCHANGED <<phase, jobs, history, disk, covered, sentBy, cutOff, forgotten>>
    BY <1>4 DEF Filled, engine, stateFile, lost
  <2> QED BY <2>1 DEF RecordedInv, Recorded, Owing
<1>5. CASE OpenState
  <2>1. /\ UNCHANGED <<jobs, history, sentBy, cutOff, forgotten>>
        /\ phase # "down" /\ phase' # "down" /\ covered'.jobs = 0
    BY <1>5 DEF OpenState, lost
  <2>2. Owing' = Owing /\ \A x \in Owing : ~(x <= 0)
    BY <1>0, <2>1 DEF Owing
  <2> QED BY <2>1, <2>2 DEF RecordedInv, Recorded
<1>6. CASE WriteState
  <2>1. /\ UNCHANGED <<jobs, history, sentBy, cutOff, forgotten>>
        /\ phase # "down" /\ phase' # "down" /\ disk'.jobs = jobs /\ disk'.history = history
    BY <1>6 DEF WriteState, lost
  <2>2. Owing' = Owing
    BY <2>1 DEF Owing
  <2> QED BY <2>1, <2>2 DEF RecordedInv, Recorded
<1>7. CASE Crash
  <2>1. /\ UNCHANGED <<disk, covered, sentBy, forgotten>> /\ phase' = "down"
        /\ cutOff' = cutOff \cup (covered.jobs + 1)..made
    BY <1>7 DEF Crash, stateFile
  <2>2. \A x \in Owing' : x \in Owing /\ x <= covered.jobs
    BY <1>0, <2>1 DEF Owing
  <2> QED BY <2>1, <2>2 DEF RecordedInv, Recorded
<1>8. CASE Start
  <2>1. /\ UNCHANGED <<disk, covered, sentBy, cutOff, forgotten>>
        /\ phase = "down" /\ phase' # "down" /\ jobs' = disk.jobs /\ history' = disk.history
    BY <1>8 DEF Start, stateFile, lost
  <2>2. Owing' = Owing
    BY <2>1 DEF Owing
  <2> QED BY <2>1, <2>2 DEF RecordedInv, Recorded
<1>9. CASE Bystander
  <2>1. /\ UNCHANGED <<jobs, history, disk, covered, sentBy, cutOff, forgotten>>
        /\ phase' = "down" <=> phase = "down"
    BY <1>9, BystanderKeeps
  <2> QED BY <2>1 DEF RecordedInv, Recorded, Owing
<1> QED BY <1>1, <1>2, <1>3, <1>4, <1>5, <1>6, <1>7, <1>8, <1>9, SwapSteps

\* Whatever left a wallet for the exchange is on record, as a job in flight or in the
\* history, until fifty finished jobs push it out, wherever the process ends and
\* whatever save fails: a restart loses those payments only that came after the save
\* which is whole in the file.
THEOREM SentHasARecord == SwapSpec => []SentIsRecorded
<1> DEFINE Inv == SwapInv /\ RecordedInv
<1>1. SwapInit => Inv
  BY SwapInvInit DEF SwapInit, RecordedInv, Owing
<1>2. Inv /\ [SwapNext]_swapVars => Inv'
  BY SwapInvStep, RecordedStep
<1>3. Inv => SentIsRecorded
  <2> SUFFICES ASSUME Inv, NEW x \in Owing PROVE x \in Ids(Held)
    BY DEF SentIsRecorded, Owing
  <2>1. PICK js, hs : js = Held.jobs /\ hs = Held.history
    OBVIOUS
  <2>2. js \in Seq(JobRecord) /\ hs \in Seq(1..MaxJobs)
    BY <2>1, Records DEF Held
  <2>3. Recorded(x, js, hs)
    BY <2>1 DEF RecordedInv, Held
  <2>4. DOMAIN js = 1..Len(js) /\ DOMAIN hs = 1..Len(hs)
    BY <2>2, LenProperties
  <2> QED BY <2>1, <2>3, <2>4 DEF Recorded, Ids, Entries
<1> QED BY <1>1, <1>2, <1>3, PTL DEF SwapSpec
=============================================================================
