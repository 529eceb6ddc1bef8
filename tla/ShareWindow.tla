---------------------------- MODULE ShareWindow ----------------------------
(***************************************************************************)
(* The share window of one coin (pplns/payout.go): a ring buffer that      *)
(* RecordShare pushes into, that BlockFound and persist read through       *)
(* snapshot(), and that loadState rebuilds after a restart by pushing the  *)
(* persisted shares one by one into a new buffer, whose size is the one    *)
(* configured now and may differ from the one the shares were saved under. *)
(***************************************************************************)
EXTENDS LastNShares

CONSTANTS Share,    \* the shares a worker may submit
          Sizes,    \* the values of cfg.WindowSize
          NoShare   \* the zero Share of a slot that was never written

ASSUME WindowAssumption ==
  /\ Sizes \subseteq Nat \ {0}     \* defaults() replaces a size <= 0
  /\ NoShare \notin Share

VARIABLES cap,     \* ringBuffer.cap
          buf,     \* ringBuffer.buf, indexed from 0
          head,    \* ringBuffer.head, the next write position
          count,   \* ringBuffer.count
          replay   \* shares of the state file loadState has still to push

vars == <<cap, buf, head, count, replay>>
-----------------------------------------------------------------------------
\* The slice b[from:to] of an array, as a sequence.
Slice(b, from, to) == [i \in 1..(to - from) |-> b[from + i - 1]]

\* A slip: the buffer read from slot 0 as if it had never wrapped.
SnapshotUnrotated == Slice(buf, 0, count)

\* snapshot(): all valid shares, oldest first.
Snapshot ==
  IF count < cap
    THEN Slice(buf, 0, count)
    ELSE Slice(buf, head, cap) \o Slice(buf, 0, head)

\* newRingBuffer(n)
NewRing(n) ==
  /\ cap' = n
  /\ buf' = [i \in 0..(n - 1) |-> NoShare]
  /\ head' = 0
  /\ count' = 0

\* A slip: the position advances before the write.
PushAhead(x) ==
  /\ buf' = [buf EXCEPT ![(head + 1) % cap] = x]
  /\ head' = (head + 1) % cap
  /\ count' = IF count < cap THEN count + 1 ELSE count
  /\ UNCHANGED cap

\* push(x)
Push(x) ==
  /\ buf' = [buf EXCEPT ![head] = x]
  /\ head' = (head + 1) % cap
  /\ count' = IF count < cap THEN count + 1 ELSE count
  /\ UNCHANGED cap
-----------------------------------------------------------------------------
Init ==
  \E n \in Sizes :
    /\ cap = n
    /\ buf = [i \in 0..(n - 1) |-> NoShare]
    /\ head = 0
    /\ count = 0
    /\ replay = << >>

\* RecordShare: a new share is pushed; the constructor has returned.
RecordShare(x) ==
  /\ replay = << >>
  /\ Push(x)
  /\ UNCHANGED replay

\* The process stops after a persist and starts again with window size n:
\* loadState has read the shares of the snapshot and made an empty buffer.
Restart(n) ==
  /\ replay = << >>
  /\ replay' = Snapshot
  /\ NewRing(n)

\* One round of the loop of loadState that pushes the shares in file order.
ReplayShare ==
  /\ replay # << >>
  /\ Push(Head(replay))
  /\ replay' = Tail(replay)

Next ==
  \/ \E x \in Share : RecordShare(x)
  \/ \E n \in Sizes : Restart(n)
  \/ ReplayShare

Spec == Init /\ [][Next]_vars
-----------------------------------------------------------------------------
\* The fields of a ring buffer in use and the shares being reloaded; the
\* write position is where the next share goes as long as nothing wrapped.
TypeOK ==
  /\ cap \in Sizes
  /\ buf \in [0..(cap - 1) -> Share \cup {NoShare}]
  /\ head \in 0..(cap - 1)
  /\ count \in 0..cap
  /\ replay \in Seq(Share)

\* A snapshot never holds a slot that was not written: entries before the
\* write position are shares, and so is every entry once the buffer is full.
\* snapshot() relies on it when it copies buf[:count] or the two halves.
ValidSlots ==
  /\ count < cap => head = count
  /\ \A i \in 0..(cap - 1) : i < count => buf[i] \in Share

\* The ring buffer implements the log of the last `cap' shares: whatever the
\* position of the write head, snapshot() lists exactly the newest shares in
\* order, and a reload keeps the newest ones when the size shrinks.
Log == INSTANCE ShareLog WITH
         size <- cap,
         recent <- LastN(Snapshot \o replay, cap)

ImplementsShareLog == Log!Spec
=============================================================================
