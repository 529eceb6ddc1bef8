---------------------------- MODULE JobFeedProofs ----------------------------
(***************************************************************************)
(* Proofs about the job from the template to the miners and back to the    *)
(* node.                                                                   *)
(*                                                                         *)
(* JobFeed, for any number of connections, blocks and places in the queue: *)
(* what the property needs to be inductive is that the newest job is the   *)
(* last one in the queue, or the one being sent when the queue is empty.   *)
(* Only then may a worker that is sent an older job be sure of the current *)
(* one.                                                                    *)
(*                                                                         *)
(* Block, for any template: what is sent, found, judged and assembled is   *)
(* what follows from the template (BlockFollows), and the conversions      *)
(* agree with those of the reader: a branch leads to the root of its tree  *)
(* from whatever place, for any number of hashes; words reversed twice are *)
(* what they were; the height, the number of transactions and the          *)
(* commitment are read where and as they are written.                      *)
(***************************************************************************)
EXTENDS JobFeed, Block, Lemmas, SequenceTheorems, TLAPS

\* No job on its way is newer than the current one, which is queued once built.
JobsInOrder ==
  /\ \A i \in 1..Len(queue) : queue[i] <= current
  /\ pc = "enqueue" => current # NoJob

\* Who is served, and by whom.
Registered ==
  /\ open \subseteq Workers /\ flag \subseteq Workers /\ stuck \subseteq Workers
  /\ \A w \in Workers : at[w] \in {"flagged", "replying"} => w \in flag
  /\ targets # {} => sending # NoJob

\* The broadcaster comes to the current job last.
NewestLast ==
  \/ pc = "enqueue" \/ dropped
  \/ IF queue = << >> THEN sending \in {NoJob, current}
                      ELSE queue[Len(queue)] = current

FeedInv == TypeOK /\ JobsInOrder /\ Registered /\ NewestLast /\ NoJobLost
-----------------------------------------------------------------------------
(* Facts about the queue.                                                  *)

\* The broadcaster takes the first job; the last one stays the last.
LEMMA QueueAfterTake ==
  ASSUME NEW S, NEW q \in Seq(S), q # << >>
  PROVE  /\ Head(q) = q[1] /\ Tail(q) \in Seq(S) /\ Len(Tail(q)) = Len(q) - 1
         /\ Len(q) \in Nat \ {0}
         /\ \A i \in 1..Len(Tail(q)) : Tail(q)[i] = q[i + 1]
         /\ Tail(q) # << >> => Tail(q)[Len(Tail(q))] = q[Len(q)]
         /\ Tail(q) = << >> => Len(q) = 1
<1>1. Len(q) \in Nat \ {0}
  BY EmptySeq
<1>2. /\ Head(q) = q[1] /\ Tail(q) \in Seq(S) /\ Len(Tail(q)) = Len(q) - 1
      /\ \A i \in 1..Len(Tail(q)) : Tail(q)[i] = q[i + 1]
  BY <1>1, HeadTailProperties
<1>3. ASSUME Tail(q) # << >>
      PROVE  Tail(q)[Len(Tail(q))] = q[Len(q)]
  <2>1. Len(Tail(q)) \in Nat \ {0}
    BY <1>2, <1>3, EmptySeq
  <2> QED BY <1>1, <1>2, <2>1
<1>4. Tail(q) = << >> => Len(q) = 1
  BY <1>1, <1>2, EmptySeq
<1> QED BY <1>1, <1>2, <1>3, <1>4

\* A job that is queued becomes the last one.
LEMMA QueueAfterAppend ==
  ASSUME NEW S, NEW q \in Seq(S), NEW j \in S
  PROVE  /\ Append(q, j) \in Seq(S) /\ Append(q, j) # << >>
         /\ Len(q) \in Nat /\ Len(Append(q, j)) = Len(q) + 1
         /\ Append(q, j)[Len(q) + 1] = j
         /\ \A i \in 1..Len(q) : Append(q, j)[i] = q[i]
<1>1. Len(q) \in Nat
  BY LenProperties
<1>2. /\ Append(q, j) \in Seq(S) /\ Len(Append(q, j)) = Len(q) + 1
      /\ Append(q, j)[Len(q) + 1] = j
      /\ \A i \in 1..Len(q) : Append(q, j)[i] = q[i]
  BY AppendProperties
<1> QED BY <1>1, <1>2, EmptySeq
-----------------------------------------------------------------------------
(* Each step keeps the parts of the invariant.                             *)

\* Writing leaves a worker to write to as long as there is one.
LEMMA WritingTypes ==
  ASSUME NEW j, NEW ws \in SUBSET Workers, Writing(j, ws)
  PROVE  /\ targets' = ws /\ writing' \subseteq targets'
         /\ sending' \in {NoJob, j}
         /\ targets' # {} => sending' = j
         /\ ws # {} => sending' = j
BY DEF Writing

\* Types, the order of the jobs and who is registered.
LEMMA TypesStep ==
  ASSUME TypeOK, JobsInOrder, Registered, [Next]_vars
  PROVE  TypeOK' /\ JobsInOrder' /\ Registered'
<1> USE JobFeedAssumption DEF TypeOK, JobsInOrder, Registered, NoJob, Block
<1>1. CASE NewBlock
  BY <1>1 DEF NewBlock, poller, caster, session, ghost
<1>2. CASE SeesBlock
  BY <1>2 DEF SeesBlock, caster, session, ghost
<1>3. CASE Refresh
  BY <1>3 DEF Refresh, caster, session, ghost
<1>4. CASE Build
  BY <1>4 DEF Build, caster, session, ghost
<1>5. CASE BuildFails
  BY <1>5 DEF BuildFails, caster, session, ghost
<1>6. CASE Enqueue
  <2>1. CASE Len(queue) = QueueCap
    <3>1. queue' = queue /\ dropped'
      BY <1>6, <2>1 DEF Enqueue
    <3> QED BY <1>6, <3>1 DEF Enqueue, session
  <2>2. CASE Len(queue) # QueueCap
    <3>1. queue' = Append(queue, current) /\ ~dropped'
      BY <1>6, <2>2 DEF Enqueue
    <3>2. current \in Block /\ Len(queue) + 1 <= QueueCap
      BY <1>6, <2>2, QueueAfterAppend DEF Enqueue
    <3> QED BY <1>6, <3>1, <3>2, QueueAfterAppend DEF Enqueue, session
  <2> QED BY <2>1, <2>2
<1>7. CASE TakeJob
  BY <1>7, QueueAfterTake, WritingTypes DEF TakeJob, poller, session, ghost
<1>8. ASSUME NEW w \in Workers, Deliver(w) PROVE TypeOK' /\ JobsInOrder' /\ Registered'
  BY <1>8, WritingTypes DEF Deliver, Sent, poller, session
<1>9. ASSUME NEW w \in Workers, Connect(w) PROVE TypeOK' /\ JobsInOrder' /\ Registered'
  BY <1>9 DEF Connect, poller, caster, ghost
<1>10. ASSUME NEW w \in Workers, Authorize(w) PROVE TypeOK' /\ JobsInOrder' /\ Registered'
  BY <1>10 DEF Authorize, poller, caster, ghost
<1>11. ASSUME NEW w \in Workers, ReadJob(w) PROVE TypeOK' /\ JobsInOrder' /\ Registered'
  BY <1>11 DEF ReadJob, poller, caster, ghost
<1>12. ASSUME NEW w \in Workers, SendCurrent(w) PROVE TypeOK' /\ JobsInOrder' /\ Registered'
  <2>1. w \in flag /\ held[w] \in 0..current
    BY <1>12 DEF SendCurrent
  <2>2. work' \in [Workers -> 0..current] /\ raced' \subseteq flag
    BY <1>12, <2>1 DEF SendCurrent, Sent
  <2>3. at' \in [Workers -> {"gone", "reading", "flagged", "replying"}]
        /\ at' = [at EXCEPT ![w] = "reading"]
    BY <1>12 DEF SendCurrent
  <2>4. held' \in [Workers -> 0..current]
    BY <1>12 DEF SendCurrent
  <2>5. UNCHANGED <<open, flag, stuck, tip, lastHash, pc, current, queue, sending, targets,
                    writing, dropped>>
    BY <1>12 DEF SendCurrent, poller, caster
  <2> QED BY <2>2, <2>3, <2>4, <2>5
<1>13. ASSUME NEW w \in Workers, GetsStuck(w) PROVE TypeOK' /\ JobsInOrder' /\ Registered'
  BY <1>13 DEF GetsStuck, poller, caster, ghost
<1>14. ASSUME NEW w \in Workers, HangUp(w) PROVE TypeOK' /\ JobsInOrder' /\ Registered'
  BY <1>14 DEF HangUp, poller, caster, ghost
<1>15. ASSUME NEW w \in Workers, Cleanup(w) PROVE TypeOK' /\ JobsInOrder' /\ Registered'
  BY <1>15 DEF Cleanup, poller, caster
<1>16. CASE UNCHANGED vars
  BY <1>16 DEF vars, poller, caster, session, ghost
<1> QED
  BY <1>1, <1>2, <1>3, <1>4, <1>5, <1>6, <1>7, <1>8, <1>9, <1>10, <1>11, <1>12,
     <1>13, <1>14, <1>15, <1>16 DEF Next

\* The newest job stays the last one on its way.
LEMMA NewestStep ==
  ASSUME TypeOK, JobsInOrder, NewestLast, [Next]_vars
  PROVE  NewestLast'
<1> USE DEF TypeOK, NewestLast, NoJob
<1>1. CASE NewBlock
  BY <1>1 DEF NewBlock, poller, caster, ghost
<1>2. CASE SeesBlock \/ Refresh \/ BuildFails
  BY <1>2 DEF SeesBlock, Refresh, BuildFails, caster, ghost
<1>3. CASE Build
  BY <1>3 DEF Build
<1>4. CASE Enqueue
  <2>1. CASE Len(queue) = QueueCap
    BY <1>4, <2>1 DEF Enqueue
  <2>2. CASE Len(queue) # QueueCap
    <3>1. queue' = Append(queue, current) /\ current' = current
      BY <1>4, <2>2 DEF Enqueue
    <3>2. current \in Block
      BY <1>4, JobFeedAssumption DEF Enqueue, JobsInOrder, Block
    <3> QED BY <3>1, <3>2, QueueAfterAppend
  <2> QED BY <2>1, <2>2
<1>5. CASE TakeJob
  <2>1. /\ queue # << >> /\ queue' = Tail(queue)
        /\ UNCHANGED <<pc, current, dropped>>
    BY <1>5 DEF TakeJob, poller, ghost
  <2>2. sending' \in {NoJob, Head(queue)}
    BY <1>5 DEF TakeJob, Writing
  <2> QED BY <2>1, <2>2, QueueAfterTake
<1>6. ASSUME NEW w \in Workers, Deliver(w) PROVE NewestLast'
  BY <1>6 DEF Deliver, Writing, poller
<1>7. ASSUME NEW w \in Workers,
             \/ Connect(w) \/ Authorize(w) \/ ReadJob(w) \/ GetsStuck(w)
             \/ HangUp(w)
      PROVE  NewestLast'
  BY <1>7 DEF Connect, Authorize, ReadJob, GetsStuck, HangUp, poller, caster, ghost
<1>8. ASSUME NEW w \in Workers, SendCurrent(w) \/ Cleanup(w) PROVE NewestLast'
  BY <1>8 DEF SendCurrent, Cleanup, poller, caster
<1>9. CASE UNCHANGED vars
  BY <1>9 DEF vars, poller, caster, ghost
<1> QED
  BY <1>1, <1>2, <1>3, <1>4, <1>5, <1>6, <1>7, <1>8, <1>9 DEF Next

\* What one worker has or is about to have, as NoJobLost says of each.
HasWork(w) ==
  \/ current \in {NoJob, work[w], held[w]}
  \/ pc = "enqueue" \/ current \in Queued
  \/ sending = current /\ w \in targets
  \/ at[w] = "flagged"
  \/ dropped \/ w \in raced

\* A job that is not the current one is no loss to the worker it is sent to: the
\* current one is still queued, unless it found no room.
LEMMA NewestQueued ==
  ASSUME TypeOK, NewestLast, sending # NoJob, sending # current
  PROVE  pc = "enqueue" \/ dropped \/ current \in Queued
<1>1. CASE queue = << >>
  BY <1>1 DEF NewestLast
<1>2. CASE queue # << >>
  <2>1. Len(queue) \in DOMAIN queue
    BY <1>2, EmptySeq, LenProperties DEF TypeOK
  <2> QED BY <1>2, <2>1 DEF NewestLast, Queued
<1> QED BY <1>1, <1>2

\* An authorized worker whose connection is open keeps its work coming.
LEMMA NoJobLostStep ==
  ASSUME TypeOK, JobsInOrder, Registered, NewestLast, NoJobLost, [Next]_vars
  PROVE  NoJobLost'
<1> SUFFICES ASSUME NEW v \in Workers, v \in flag', v \in open'
             PROVE  HasWork(v)'
  BY TypesStep DEF NoJobLost, HasWork, Registered
<1>old. v \in flag /\ v \in open => HasWork(v)
  BY DEF NoJobLost, HasWork
<1> USE DEF TypeOK, NoJob
<1>1. CASE NewBlock
  BY <1>1, <1>old DEF NewBlock, HasWork, Queued, poller, caster, session, ghost
<1>2. CASE SeesBlock \/ Refresh \/ BuildFails
  BY <1>2, <1>old DEF SeesBlock, Refresh, BuildFails, HasWork, Queued, caster, session, ghost
<1>3. CASE Build
  BY <1>3 DEF Build, HasWork
<1>4. CASE Enqueue
  <2>1. CASE Len(queue) = QueueCap
    BY <1>4, <2>1 DEF Enqueue, HasWork
  <2>2. CASE Len(queue) # QueueCap
    <3>1. queue' = Append(queue, current) /\ current' = current
      BY <1>4, <2>2 DEF Enqueue
    <3>2. current \in Block
      BY <1>4, JobFeedAssumption DEF Enqueue, JobsInOrder, Block
    <3>3. Len(queue) + 1 \in DOMAIN queue' /\ queue'[Len(queue) + 1] = current
      BY <3>1, <3>2, QueueAfterAppend, LenProperties
    <3> QED BY <3>1, <3>3 DEF HasWork, Queued
  <2> QED BY <2>1, <2>2
<1>5. CASE TakeJob
  <2>1. /\ queue # << >> /\ queue' = Tail(queue) /\ sending = NoJob
        /\ UNCHANGED <<pc, current, dropped, raced, work, held, at, flag, open>>
    BY <1>5 DEF TakeJob, poller, session, ghost
  <2>2. v \in flag /\ HasWork(v)
    BY <2>1, <1>old
  <2>3. sending' = Head(queue) /\ v \in targets'
    BY <1>5, <2>2 DEF TakeJob, Writing
  <2>4. ASSUME current \in Queued PROVE current = Head(queue) \/ current \in Queued'
    <3>1. PICK i \in DOMAIN queue : current = queue[i]
      BY <2>4 DEF Queued
    <3>2. i \in 1..Len(queue) /\ Len(queue) \in Nat
      BY <3>1, LenProperties
    <3>3. CASE i = 1
      BY <2>1, <3>1, <3>3, QueueAfterTake
    <3>4. CASE i # 1
      <4>1. i - 1 \in 1..Len(Tail(queue)) /\ Tail(queue)[i - 1] = queue[i]
        BY <2>1, <3>2, <3>4, QueueAfterTake
      <4>2. i - 1 \in DOMAIN queue'
        BY <2>1, <4>1, QueueAfterTake, LenProperties
      <4> QED BY <2>1, <3>1, <4>1, <4>2 DEF Queued
    <3> QED BY <3>3, <3>4
  <2> QED BY <2>1, <2>2, <2>3, <2>4 DEF HasWork
<1>6. ASSUME NEW w \in Workers, Deliver(w) PROVE HasWork(v)'
  <2>1. /\ UNCHANGED <<queue, pc, current, dropped, held, at, flag, open>>
        /\ work' = Sent(w, sending) /\ raced' = raced \ {w}
        /\ w \in targets /\ targets' = targets \ {w}
    BY <1>6 DEF Deliver, Writing, poller, session
  <2>2. HasWork(v)
    BY <2>1, <1>old
  <2>3. CASE v = w
    <3>1. work'[v] = sending
      BY <2>1, <2>3 DEF Sent
    <3>2. CASE sending = current
      BY <2>1, <3>1, <3>2 DEF HasWork
    <3>3. CASE sending # current
      <4>1. pc = "enqueue" \/ dropped \/ current \in Queued
        BY <2>1, <3>3, NewestQueued DEF Registered
      <4> QED BY <2>1, <4>1 DEF HasWork, Queued
    <3> QED BY <3>2, <3>3
  <2>4. CASE v # w
    <3>1. work'[v] = work[v]
      BY <2>1, <2>4 DEF Sent
    <3>2. v \in targets => v \in targets' /\ sending' = sending
      BY <1>6, <2>1, <2>4 DEF Deliver, Writing
    <3> QED BY <2>1, <2>2, <2>4, <3>1, <3>2 DEF HasWork, Queued
  <2> QED BY <2>3, <2>4
<1>7. ASSUME NEW w \in Workers, Connect(w) PROVE HasWork(v)'
  BY <1>7, <1>old DEF Connect, HasWork, Queued, poller, caster, ghost
<1>8. ASSUME NEW w \in Workers, Authorize(w) PROVE HasWork(v)'
  BY <1>8, <1>old DEF Authorize, HasWork, Queued, poller, caster, ghost
<1>9. ASSUME NEW w \in Workers, ReadJob(w) PROVE HasWork(v)'
  BY <1>9, <1>old DEF ReadJob, HasWork, Queued, poller, caster, ghost
<1>10. ASSUME NEW w \in Workers, SendCurrent(w) PROVE HasWork(v)'
  BY <1>10, <1>old DEF SendCurrent, Sent, HasWork, Queued, poller, caster
<1>11. ASSUME NEW w \in Workers, GetsStuck(w) \/ HangUp(w) PROVE HasWork(v)'
  BY <1>11, <1>old DEF GetsStuck, HangUp, HasWork, Queued, poller, caster, ghost
<1>12. ASSUME NEW w \in Workers, Cleanup(w) PROVE HasWork(v)'
  BY <1>12, <1>old DEF Cleanup, HasWork, Queued, poller, caster
<1>13. CASE UNCHANGED vars
  BY <1>13, <1>old DEF vars, HasWork, Queued, poller, caster, session, ghost
<1> QED
  BY <1>1, <1>2, <1>3, <1>4, <1>5, <1>6, <1>7, <1>8, <1>9, <1>10, <1>11, <1>12, <1>13
     DEF Next
-----------------------------------------------------------------------------
LEMMA FeedInvInit == Init => FeedInv
<1> SUFFICES ASSUME Init PROVE FeedInv
  OBVIOUS
<1>1. queue = << >> /\ queue \in Seq(Block) /\ Len(queue) = 0
  BY EmptySeq DEF Init
<1>2. tip \in Block /\ Len(queue) <= QueueCap
  BY <1>1, JobFeedAssumption DEF Init, Block
<1>3. /\ lastHash \in 0..tip /\ current \in 0..tip /\ sending \in 0..current
      /\ held \in [Workers -> 0..current] /\ work \in [Workers -> 0..current]
  BY DEF Init, NoJob
<1>4. TypeOK
  BY <1>1, <1>2, <1>3 DEF Init, TypeOK
<1>5. JobsInOrder /\ Registered /\ NewestLast /\ NoJobLost
  BY <1>1 DEF Init, JobsInOrder, Registered, NewestLast, NoJobLost, NoJob
<1> QED BY <1>4, <1>5 DEF FeedInv

LEMMA FeedInvStep == FeedInv /\ [Next]_vars => FeedInv'
BY TypesStep, NewestStep, NoJobLostStep DEF FeedInv

\* For any number of connections, blocks and places in the queue: no job the server
\* holds, queues or has sent is newer than the current one, the queue keeps its
\* capacity, and only a registered connection counts as authorized.
THEOREM FeedTypes == Spec => []TypeOK
<1>1. FeedInv => TypeOK
  BY DEF FeedInv
<1> QED BY <1>1, FeedInvInit, FeedInvStep, PTL DEF Spec

\* Whatever is published while a worker is being authorized, it has the current
\* job or that is on its way, but for a full queue and a reply that is overtaken
\* (broadcastJob, jobBroadcaster and handleAuthorize of stratum/server.go).
THEOREM FeedLosesNoJob == Spec => []NoJobLost
<1>1. FeedInv => NoJobLost
  BY DEF FeedInv
<1> QED BY <1>1, FeedInvInit, FeedInvStep, PTL DEF Spec
-----------------------------------------------------------------------------
(* Proofs about Block.                                                     *)

\* The levels of the tree exist, each made of the one below.
LEMMA TreeUnfolds ==
  ASSUME NEW s, NEW p, NEW n \in Nat
  PROVE  /\ Tree(s, n, p)[0] = [level |-> s, width |-> n, at |-> p]
         /\ \A i \in 1..n : Tree(s, n, p)[i] = Raised(Tree(s, n, p)[i - 1])
<1> DEFINE Steps(k, g) == g = [i \in 0..k |-> IF i = 0 THEN [level |-> s, width |-> n, at |-> p] ELSE Raised(g[i - 1])]
           T == {k \in 0..n : \E g : Steps(k, g)}
<1>1. 0 \in T
  <2> DEFINE z == [i \in 0..0 |-> [level |-> s, width |-> n, at |-> p]]
  <2>1. Steps(0, z)
    OBVIOUS
  <2>2. 0 \in 0..n
    OBVIOUS
  <2> HIDE DEF z, Steps
  <2> QED BY <2>1, <2>2
<1>2. ASSUME NEW k \in 0..(n - 1), k \in T PROVE k + 1 \in T
  <2>1. PICK g : Steps(k, g)
    BY <1>2
  <2>2. PICK v : v = Raised(g[k + 1 - 1])
    OBVIOUS
  <2> DEFINE h == [i \in 0..(k + 1) |-> IF i = k + 1 THEN v ELSE g[i]]
  <2>3. ASSUME NEW i \in 0..(k + 1)
        PROVE  h[i] = IF i = 0 THEN [level |-> s, width |-> n, at |-> p] ELSE Raised(h[i - 1])
    <3>1. CASE i = k + 1
      <4>1. h[i] = v /\ i # 0 /\ i - 1 = k /\ h[i - 1] = g[i - 1] /\ k + 1 - 1 = k
        BY <3>1
      <4> HIDE DEF h
      <4> QED BY <2>2, <3>1, <4>1
    <3>2. CASE i # k + 1 /\ i # 0
      <4>1. i \in 0..k /\ i - 1 \in 0..(k + 1) /\ i - 1 # k + 1
        BY <3>2
      <4>2. h[i] = g[i] /\ h[i - 1] = g[i - 1]
        BY <3>2, <4>1
      <4>3. g[i] = Raised(g[i - 1])
        BY <2>1, <3>2, <4>1
      <4> HIDE DEF h
      <4> QED BY <3>2, <4>2, <4>3
    <3>3. CASE i = 0
      <4>1. h[i] = g[0] /\ 0 \in 0..k
        BY <3>3
      <4>2. g[0] = [level |-> s, width |-> n, at |-> p]
        BY <2>1, <4>1
      <4> HIDE DEF h
      <4> QED BY <3>3, <4>1, <4>2
    <3> QED BY <3>1, <3>2, <3>3
  <2>4. Steps(k + 1, h)
    <3> HIDE DEF h
    <3>1. h = [i \in 0..(k + 1) |-> h[i]]
      BY DEF h
    <3> QED BY <2>3, <3>1
  <2>5. k + 1 \in 0..n
    OBVIOUS
  <2> HIDE DEF h, Steps
  <2> QED BY <2>4, <2>5
<1>3. n \in T
  <2> HIDE DEF T
  <2>1. \A k \in 0..n : k \in T
    BY <1>1, <1>2, Reached
  <2> QED BY <2>1
<1>4. PICK f : f = CHOOSE g : Steps(n, g)
  OBVIOUS
<1>5. Steps(n, f)
  <2> HIDE DEF Steps
  <2> QED BY <1>3, <1>4
<1>6. Tree(s, n, p) = f
  BY <1>4 DEF Tree
<1>7. f[0] = [level |-> s, width |-> n, at |-> p]
  <2>1. 0 \in 0..n
    OBVIOUS
  <2> QED BY <1>5, <2>1
<1>8. ASSUME NEW i \in 1..n PROVE f[i] = Raised(f[i - 1])
  <2>1. i \in 0..n /\ i # 0
    OBVIOUS
  <2> QED BY <1>5, <2>1
<1> QED BY <1>6, <1>7, <1>8

\* So do the hashes that are left beside the coinbase.
LEMMA BesideUnfolds ==
  ASSUME NEW s, NEW n \in Nat
  PROVE  /\ Beside(s, n)[0] = s
         /\ \A i \in 1..n : Beside(s, n)[i] = Beyond(Beside(s, n)[i - 1])
<1> DEFINE Steps(k, g) == g = [i \in 0..k |-> IF i = 0 THEN s ELSE Beyond(g[i - 1])]
           T == {k \in 0..n : \E g : Steps(k, g)}
<1>1. 0 \in T
  <2> DEFINE z == [i \in 0..0 |-> s]
  <2>1. Steps(0, z)
    OBVIOUS
  <2>2. 0 \in 0..n
    OBVIOUS
  <2> HIDE DEF z, Steps
  <2> QED BY <2>1, <2>2
<1>2. ASSUME NEW k \in 0..(n - 1), k \in T PROVE k + 1 \in T
  <2>1. PICK g : Steps(k, g)
    BY <1>2
  <2>2. PICK v : v = Beyond(g[k + 1 - 1])
    OBVIOUS
  <2> DEFINE h == [i \in 0..(k + 1) |-> IF i = k + 1 THEN v ELSE g[i]]
  <2>3. ASSUME NEW i \in 0..(k + 1)
        PROVE  h[i] = IF i = 0 THEN s ELSE Beyond(h[i - 1])
    <3>1. CASE i = k + 1
      <4>1. h[i] = v /\ i # 0 /\ i - 1 = k /\ h[i - 1] = g[i - 1] /\ k + 1 - 1 = k
        BY <3>1
      <4> HIDE DEF h
      <4> QED BY <2>2, <3>1, <4>1
    <3>2. CASE i # k + 1 /\ i # 0
      <4>1. i \in 0..k /\ i - 1 \in 0..(k + 1) /\ i - 1 # k + 1
        BY <3>2
      <4>2. h[i] = g[i] /\ h[i - 1] = g[i - 1]
        BY <3>2, <4>1
      <4>3. g[i] = Beyond(g[i - 1])
        BY <2>1, <3>2, <4>1
      <4> HIDE DEF h
      <4> QED BY <3>2, <4>2, <4>3
    <3>3. CASE i = 0
      <4>1. h[i] = g[0] /\ 0 \in 0..k
        BY <3>3
      <4>2. g[0] = s
        BY <2>1, <4>1
      <4> HIDE DEF h
      <4> QED BY <3>3, <4>1, <4>2
    <3> QED BY <3>1, <3>2, <3>3
  <2>4. Steps(k + 1, h)
    <3> HIDE DEF h
    <3>1. h = [i \in 0..(k + 1) |-> h[i]]
      BY DEF h
    <3> QED BY <2>3, <3>1
  <2>5. k + 1 \in 0..n
    OBVIOUS
  <2> HIDE DEF h, Steps
  <2> QED BY <2>4, <2>5
<1>3. n \in T
  <2> HIDE DEF T
  <2>1. \A k \in 0..n : k \in T
    BY <1>1, <1>2, Reached
  <2> QED BY <2>1
<1>4. PICK f : f = CHOOSE g : Steps(n, g)
  OBVIOUS
<1>5. Steps(n, f)
  <2> HIDE DEF Steps
  <2> QED BY <1>3, <1>4
<1>6. Beside(s, n) = f
  BY <1>4 DEF Beside
<1>7. f[0] = s
  <2>1. 0 \in 0..n
    OBVIOUS
  <2> QED BY <1>5, <2>1
<1>8. ASSUME NEW i \in 1..n PROVE f[i] = Beyond(f[i - 1])
  <2>1. i \in 0..n /\ i # 0
    OBVIOUS
  <2> QED BY <1>5, <2>1
<1> QED BY <1>6, <1>7, <1>8

\* So do the hashes on the way up along a branch.
LEMMA ClimbUnfolds ==
  ASSUME NEW x, NEW p, NEW b, NEW n \in Nat, Len(b) = n
  PROVE  /\ Climbed(x, p, b)[0] = [hash |-> x, at |-> p]
         /\ \A i \in 1..n : Climbed(x, p, b)[i] = Above(Climbed(x, p, b)[i - 1], b[i])
<1> DEFINE Steps(k, g) == g = [i \in 0..k |-> IF i = 0 THEN [hash |-> x, at |-> p] ELSE Above(g[i - 1], b[i])]
           T == {k \in 0..n : \E g : Steps(k, g)}
<1>1. 0 \in T
  <2> DEFINE z == [i \in 0..0 |-> [hash |-> x, at |-> p]]
  <2>1. Steps(0, z)
    OBVIOUS
  <2>2. 0 \in 0..n
    OBVIOUS
  <2> HIDE DEF z, Steps
  <2> QED BY <2>1, <2>2
<1>2. ASSUME NEW k \in 0..(n - 1), k \in T PROVE k + 1 \in T
  <2>1. PICK g : Steps(k, g)
    BY <1>2
  <2>2. PICK v : v = Above(g[k + 1 - 1], b[k + 1])
    OBVIOUS
  <2> DEFINE h == [i \in 0..(k + 1) |-> IF i = k + 1 THEN v ELSE g[i]]
  <2>3. ASSUME NEW i \in 0..(k + 1)
        PROVE  h[i] = IF i = 0 THEN [hash |-> x, at |-> p] ELSE Above(h[i - 1], b[i])
    <3>1. CASE i = k + 1
      <4>1. h[i] = v /\ i # 0 /\ i - 1 = k /\ h[i - 1] = g[i - 1] /\ k + 1 - 1 = k
        BY <3>1
      <4> HIDE DEF h
      <4> QED BY <2>2, <3>1, <4>1
    <3>2. CASE i # k + 1 /\ i # 0
      <4>1. i \in 0..k /\ i - 1 \in 0..(k + 1) /\ i - 1 # k + 1
        BY <3>2
      <4>2. h[i] = g[i] /\ h[i - 1] = g[i - 1]
        BY <3>2, <4>1
      <4>3. g[i] = Above(g[i - 1], b[i])
        BY <2>1, <3>2, <4>1
      <4> HIDE DEF h
      <4> QED BY <3>2, <4>2, <4>3
    <3>3. CASE i = 0
      <4>1. h[i] = g[0] /\ 0 \in 0..k
        BY <3>3
      <4>2. g[0] = [hash |-> x, at |-> p]
        BY <2>1, <4>1
      <4> HIDE DEF h
      <4> QED BY <3>3, <4>1, <4>2
    <3> QED BY <3>1, <3>2, <3>3
  <2>4. Steps(k + 1, h)
    <3> HIDE DEF h
    <3>1. h = [i \in 0..(k + 1) |-> h[i]]
      BY DEF h
    <3> QED BY <2>3, <3>1
  <2>5. k + 1 \in 0..n
    OBVIOUS
  <2> HIDE DEF h, Steps
  <2> QED BY <2>4, <2>5
<1>3. n \in T
  <2> HIDE DEF T
  <2>1. \A k \in 0..n : k \in T
    BY <1>1, <1>2, Reached
  <2> QED BY <2>1
<1>4. PICK f : f = CHOOSE g : Steps(n, g)
  OBVIOUS
<1>5. Steps(n, f)
  <2> HIDE DEF Steps
  <2> QED BY <1>3, <1>4
<1>6. Climbed(x, p, b) = f
  BY <1>4 DEF Climbed
<1>7. f[0] = [hash |-> x, at |-> p]
  <2>1. 0 \in 0..n
    OBVIOUS
  <2> QED BY <1>5, <2>1
<1>8. ASSUME NEW i \in 1..n PROVE f[i] = Above(f[i - 1], b[i])
  <2>1. i \in 0..n /\ i # 0
    OBVIOUS
  <2> QED BY <1>5, <2>1
<1> QED BY <1>6, <1>7, <1>8


-----------------------------------------------------------------------------
\* What is known of a level k of a tree above n hashes: while it is not the root it is
\* lower than the one below.
Grows(node, k, n) ==
  /\ node = [level |-> node.level, width |-> node.width, at |-> node.at]
  /\ node.width \in Nat \ {0} /\ node.at \in 0..(node.width - 1)
  /\ node.width <= 1 \/ node.width + k <= n

\* A level above another is narrower, and the place lies within it.
LEMMA RaisedGrows ==
  ASSUME NEW n \in Nat, NEW k \in Nat, NEW node, Grows(node, k, n)
  PROVE  Grows(Raised(node), k + 1, n)
<1>1. PICK w \in Nat \ {0}, a \in Nat : w = node.width /\ a = node.at /\ a < w
  BY DEF Grows
<1>2. w <= 1 \/ w + k <= n
  BY <1>1 DEF Grows
<1>3. (w + 1) \div 2 \in Nat \ {0} /\ a \div 2 \in 0..((w + 1) \div 2 - 1)
  BY <1>1
<1>4. (w + 1) \div 2 <= 1 \/ (w + 1) \div 2 + (k + 1) <= n
  BY <1>1, <1>2
<1>5. Raised(node).width = (w + 1) \div 2 /\ Raised(node).at = a \div 2
  BY <1>1 DEF Raised
<1>6. Raised(node) = [level |-> Raised(node).level, width |-> Raised(node).width, at |-> Raised(node).at]
  BY DEF Raised
<1> QED BY <1>3, <1>4, <1>5, <1>6 DEF Grows

\* So it is with every level.
LEMMA TreeGrows ==
  ASSUME NEW s, NEW n \in Nat \ {0}, NEW p \in 0..(n - 1)
  PROVE  \A k \in 0..n : Grows(Tree(s, n, p)[k], k, n)
<1> DEFINE tree == Tree(s, n, p)
           T == {k \in 0..n : Grows(tree[k], k, n)}
<1>1. tree[0] = [level |-> s, width |-> n, at |-> p] /\ \A i \in 1..n : tree[i] = Raised(tree[i - 1])
  BY TreeUnfolds
<1> HIDE DEF tree
<1>2. 0 \in T
  BY <1>1 DEF Grows
<1>3. ASSUME NEW k \in 0..(n - 1), k \in T PROVE k + 1 \in T
  <2>1. Grows(Raised(tree[k]), k + 1, n)
    BY <1>3, RaisedGrows
  <2>2. tree[k + 1] = Raised(tree[k])
    <3>1. k + 1 \in 1..n /\ (k + 1) - 1 = k
      OBVIOUS
    <3> QED BY <1>1, <3>1
  <2> QED BY <2>1, <2>2
<1>4. \A k \in 0..n : k \in T
  <2> HIDE DEF T
  <2> QED BY <1>2, <1>3, Reached
<1> QED BY <1>4 DEF tree

\* The root is at a height: the first level of one hash.
LEMMA RootIsHigh ==
  ASSUME NEW s, NEW n \in Nat \ {0}, NEW p \in 0..(n - 1)
  PROVE  LET tree == Tree(s, n, p)
         IN  /\ Height(tree, n) \in 0..n /\ tree[Height(tree, n)].width = 1
             /\ tree[Height(tree, n)].at = 0
             /\ \A j \in 0..(Height(tree, n) - 1) : tree[j].width > 1
<1> DEFINE tree == Tree(s, n, p)
           T == {k \in 0..n : tree[k].width <= 1}
<1>1. \A k \in 0..n : Grows(tree[k], k, n)
  BY TreeGrows
<1> HIDE DEF tree
<1>2. n \in T
  <2>1. n \in 0..n
    OBVIOUS
  <2>2. Grows(tree[n], n, n)
    BY <1>1, <2>1
  <2>3. PICK w \in Nat : w = tree[n].width /\ (w <= 1 \/ w + n <= n)
    BY <2>2 DEF Grows
  <2>4. w <= 1
    BY <2>3
  <2> QED BY <2>1, <2>3, <2>4
<1>3. PICK k \in T : \A y \in T : k <= y
  <2>1. T \in SUBSET Nat /\ T # {}
    BY <1>2
  <2> QED BY <2>1, LeastElement
<1>4. \A j \in 0..(k - 1) : tree[j].width > 1
  <2> SUFFICES ASSUME NEW j \in 0..(k - 1) PROVE tree[j].width > 1
    OBVIOUS
  <2>1. j \in 0..n /\ ~(k <= j)
    BY <1>3
  <2>2. j \notin T /\ tree[j].width \in Nat
    BY <1>1, <1>3, <2>1 DEF Grows
  <2> QED BY <2>1, <2>2
<1>5. k \in 0..n /\ tree[k].width <= 1
  BY <1>3
<1>6. Height(tree, n) \in 0..n /\ tree[Height(tree, n)].width <= 1
      /\ \A j \in 0..(Height(tree, n) - 1) : tree[j].width > 1
  BY <1>4, <1>5 DEF Height
<1>7. tree[Height(tree, n)].width = 1 /\ tree[Height(tree, n)].at = 0
  <2>1. PICK h \in 0..n : h = Height(tree, n) /\ tree[h].width <= 1
    BY <1>6
  <2>2. Grows(tree[h], h, n)
    BY <1>1
  <2>3. PICK w \in Nat \ {0}, a \in Nat : w = tree[h].width /\ a = tree[h].at /\ a < w
    BY <2>2 DEF Grows
  <2>4. w <= 1
    BY <2>1, <2>3
  <2>5. w = 1 /\ a = 0
    BY <2>3, <2>4
  <2> QED BY <2>1, <2>3, <2>5
<1> QED BY <1>6, <1>7 DEF tree

\* It is the same from whatever place.
LEMMA OneTree ==
  ASSUME NEW s, NEW n \in Nat \ {0}, NEW p \in 0..(n - 1)
  PROVE  /\ \A k \in 0..n : /\ Tree(s, n, p)[k].level = Tree(s, n, 0)[k].level
                            /\ Tree(s, n, p)[k].width = Tree(s, n, 0)[k].width
         /\ Height(Tree(s, n, p), n) = Height(Tree(s, n, 0), n)
<1> DEFINE one == Tree(s, n, p)
           two == Tree(s, n, 0)
           T == {k \in 0..n : one[k].level = two[k].level /\ one[k].width = two[k].width}
<1>1. one[0] = [level |-> s, width |-> n, at |-> p] /\ \A i \in 1..n : one[i] = Raised(one[i - 1])
  BY TreeUnfolds
<1>2. two[0] = [level |-> s, width |-> n, at |-> 0] /\ \A i \in 1..n : two[i] = Raised(two[i - 1])
  BY TreeUnfolds
<1>3. /\ Height(one, n) \in 0..n /\ one[Height(one, n)].width = 1
      /\ \A j \in 0..(Height(one, n) - 1) : one[j].width > 1
  BY RootIsHigh
<1>4. /\ Height(two, n) \in 0..n /\ two[Height(two, n)].width = 1
      /\ \A j \in 0..(Height(two, n) - 1) : two[j].width > 1
  <2>1. 0 \in 0..(n - 1)
    OBVIOUS
  <2> QED BY <2>1, RootIsHigh
<1> HIDE DEF one, two
<1>5. 0 \in T
  BY <1>1, <1>2
<1>6. ASSUME NEW k \in 0..(n - 1), k \in T PROVE k + 1 \in T
  <2>1. k + 1 \in 1..n /\ (k + 1) - 1 = k
    OBVIOUS
  <2>2. one[k + 1] = Raised(one[k]) /\ two[k + 1] = Raised(two[k])
    BY <1>1, <1>2, <2>1
  <2>3. one[k].level = two[k].level /\ one[k].width = two[k].width
    BY <1>6
  <2>4. /\ Raised(one[k]).level = Raised(two[k]).level
        /\ Raised(one[k]).width = Raised(two[k]).width
    BY <2>3 DEF Raised
  <2> QED BY <2>1, <2>2, <2>4
<1>7. \A k \in 0..n : k \in T
  <2> HIDE DEF T
  <2> QED BY <1>5, <1>6, Reached
<1>8. Height(one, n) = Height(two, n)
  <2>1. PICK h \in 0..n, g \in 0..n : h = Height(one, n) /\ g = Height(two, n)
    BY <1>3, <1>4
  <2>2. one[h].width = 1 /\ two[g].width = 1 /\ two[h].width = 1 /\ one[g].width = 1
    BY <1>3, <1>4, <1>7, <2>1
  <2>3. ~(h < g)
    BY <1>4, <2>1, <2>2
  <2>4. ~(g < h)
    BY <1>3, <2>1, <2>2
  <2> QED BY <2>1, <2>3, <2>4
<1> QED BY <1>7, <1>8 DEF one, two

\* From a hash and its sibling to the hash above them.
LEMMA OneUp ==
  ASSUME NEW n \in Nat, NEW k \in Nat, NEW node, Grows(node, k, n), node.width > 1,
         NEW below, below.at = node.at, below.hash = node.level[node.at + 1]
  PROVE  LET up == Above(below, Sibling(node))
         IN  /\ up.at = Raised(node).at
             /\ up.hash = Raised(node).level[Raised(node).at + 1]
<1>1. PICK w \in Nat, a \in Nat : w = node.width /\ a = node.at /\ a < w
  BY DEF Grows
<1>2. PICK l : l = node.level
  OBVIOUS
<1>3. w > 1 /\ below.at = a /\ below.hash = l[a + 1]
  BY <1>1, <1>2
<1>4. a \div 2 + 1 \in 1..((w + 1) \div 2)
  BY <1>1
<1>5. PICK i \in 1..((w + 1) \div 2) : i = a \div 2 + 1
  BY <1>4
<1>6. Raised(node).at = a \div 2 /\ Raised(node).level = Paired(l, w)
  BY <1>1, <1>2 DEF Raised
<1>7. Paired(l, w)[i] = Combine(l[2 * i - 1], l[IF 2 * i <= w THEN 2 * i ELSE w])
  BY DEF Paired
<1>8. Above(below, Sibling(node)).at = a \div 2
  BY <1>3 DEF Above
<1>9. CASE a % 2 = 0
  <2>1. 2 * i - 1 = a + 1 /\ 2 * i = a + 2
    BY <1>5, <1>9
  <2>2. Sibling(node) = l[IF a + 1 < w THEN a + 2 ELSE w]
    <3>1. (a + 1) + 1 = a + 2
      OBVIOUS
    <3> QED BY <1>1, <1>2, <1>9, <3>1 DEF Sibling
  <2>3. (IF a + 1 < w THEN a + 2 ELSE w) = (IF 2 * i <= w THEN 2 * i ELSE w)
    BY <1>1, <2>1
  <2>4. a % 2 # 1
    BY <1>9
  <2>5. Above(below, Sibling(node)).hash = Combine(l[a + 1], Sibling(node))
    BY <1>3, <2>4 DEF Above
  <2> QED BY <1>5, <1>6, <1>7, <1>8, <2>1, <2>2, <2>3, <2>5
<1>10. CASE a % 2 = 1
  <2>1. 2 * i - 1 = a /\ 2 * i = a + 1 /\ a - 1 < w /\ 2 * i <= w
    BY <1>1, <1>5, <1>10
  <2>2. Sibling(node) = l[a]
    <3>1. (a - 1) + 1 = a /\ a % 2 # 0
      BY <1>10
    <3> QED BY <1>1, <1>2, <2>1, <3>1 DEF Sibling
  <2>5. Above(below, Sibling(node)).hash = Combine(Sibling(node), l[a + 1])
    BY <1>3, <1>10 DEF Above
  <2> QED BY <1>5, <1>6, <1>7, <1>8, <2>1, <2>2, <2>5
<1>11. a % 2 \in {0, 1}
  OBVIOUS
<1> QED BY <1>9, <1>10, <1>11

\* The branch of a place leads from its hash to the root.
LEMMA BranchLeadsToRoot ==
  ASSUME NEW s, NEW n \in Nat \ {0}, NEW p \in 0..(n - 1)
  PROVE  Climb(s[p + 1], p, AuxBranch(s, n, p)) = MerkleRoot(s, n)
<1>0. PICK tree, b : tree = Tree(s, n, p) /\ b = AuxBranch(s, n, p)
  OBVIOUS
<1>1. PICK h \in 0..n : h = Height(tree, n)
  BY <1>0, RootIsHigh
<1>2. tree[h].width = 1 /\ tree[h].at = 0 /\ \A j \in 0..(h - 1) : tree[j].width > 1
  BY <1>0, <1>1, RootIsHigh
<1>3. tree[0] = [level |-> s, width |-> n, at |-> p] /\ \A i \in 1..n : tree[i] = Raised(tree[i - 1])
  BY <1>0, TreeUnfolds
<1>4. \A k \in 0..n : Grows(tree[k], k, n)
  BY <1>0, TreeGrows
<1>5. b = [k \in 1..h |-> Sibling(tree[k - 1])]
  BY <1>0, <1>1 DEF AuxBranch
<1>6. Len(b) = h
  <2> DEFINE S == {Sibling(tree[k - 1]) : k \in 1..h}
  <2>1. b \in [1..h -> S]
    BY <1>5
  <2> HIDE DEF S
  <2> QED BY <2>1, SeqOfFunction
<1>7. PICK node : node = Climbed(s[p + 1], p, b)
  OBVIOUS
<1>8. node[0] = [hash |-> s[p + 1], at |-> p] /\ \A i \in 1..h : node[i] = Above(node[i - 1], b[i])
  BY <1>6, <1>7, ClimbUnfolds
<1> DEFINE T == {k \in 0..h : /\ node[k].at = tree[k].at
                              /\ node[k].hash = tree[k].level[tree[k].at + 1]}
<1>9. 0 \in T
  BY <1>3, <1>8
<1>10. ASSUME NEW k \in 0..(h - 1), k \in T PROVE k + 1 \in T
  <2>1. k + 1 \in 1..h /\ k + 1 \in 1..n /\ (k + 1) - 1 = k /\ k \in 0..n /\ k \in Nat
    BY <1>1
  <2>2. node[k + 1] = Above(node[k], Sibling(tree[k])) /\ tree[k + 1] = Raised(tree[k])
    <3>1. b[k + 1] = Sibling(tree[k])
      BY <1>5, <2>1
    <3> QED BY <1>3, <1>8, <2>1, <3>1
  <2>3. Grows(tree[k], k, n) /\ tree[k].width > 1 /\ node[k].at = tree[k].at
        /\ node[k].hash = tree[k].level[tree[k].at + 1]
    BY <1>2, <1>4, <1>10, <2>1
  <2>4. /\ Above(node[k], Sibling(tree[k])).at = Raised(tree[k]).at
        /\ Above(node[k], Sibling(tree[k])).hash = Raised(tree[k]).level[Raised(tree[k]).at + 1]
    BY <2>1, <2>3, OneUp
  <2>5. k + 1 \in 0..h
    BY <1>1
  <2> QED BY <2>2, <2>4, <2>5
<1>11. h \in T
  <2> HIDE DEF T
  <2>1. \A k \in 0..h : k \in T
    BY <1>9, <1>10, Reached
  <2> QED BY <2>1
<1>12. node[h].hash = tree[h].level[1]
  BY <1>2, <1>11
<1>13. MerkleRoot(s, n) = tree[h].level[1]
  BY <1>0, <1>1, OneTree DEF MerkleRoot
<1>14. Climb(s[p + 1], p, b) = node[h].hash
  BY <1>6, <1>7 DEF Climb
<1> QED BY <1>0, <1>12, <1>13, <1>14

-----------------------------------------------------------------------------
\* f lists n values.
Listed(f, n) == n \in Nat /\ f = [i \in 1..n |-> f[i]]

\* It is a sequence of that length.
LEMMA ListedIsSeq ==
  ASSUME NEW f, NEW n, Listed(f, n)
  PROVE  Len(f) = n /\ \A S : (\A i \in 1..n : f[i] \in S) => f \in Seq(S)
<1>1. n \in Nat /\ f = [i \in 1..n |-> f[i]]
  BY DEF Listed
<1>2. ASSUME NEW S, \A i \in 1..n : f[i] \in S PROVE f \in Seq(S) /\ Len(f) = n
  <2>1. f \in [1..n -> S]
    BY <1>1, <1>2
  <2> QED BY <1>1, <2>1, SeqOfFunction
<1>3. Len(f) = n
  <2> DEFINE S == {f[i] : i \in 1..n}
  <2>1. \A i \in 1..n : f[i] \in S
    OBVIOUS
  <2> HIDE DEF S
  <2> QED BY <1>2, <2>1
<1> QED BY <1>2, <1>3

\* d lists what f and then g lists.
Joins(d, f, g) == d = f \o g
Joined(d, f, n, g, m) ==
  /\ Listed(d, n + m) /\ Len(d) = n + m
  /\ \A i \in 1..n : d[i] = f[i]
  /\ \A i \in 1..m : d[n + i] = g[i]

\* The two lists one after the other.
LEMMA ListedConcat ==
  ASSUME NEW f, NEW n \in Nat, Listed(f, n), NEW g, NEW m \in Nat, Listed(g, m),
         NEW h, Joins(h, f, g)
  PROVE  Joined(h, f, n, g, m)
<1> DEFINE S == {f[i] : i \in 1..n} \union {g[i] : i \in 1..m}
<1>0. n \in Nat /\ m \in Nat
  BY DEF Listed
<1>1. f \in Seq(S) /\ Len(f) = n
  <2>1. \A i \in 1..n : f[i] \in S
    OBVIOUS
  <2> HIDE DEF S
  <2> QED BY <2>1, ListedIsSeq
<1>2. g \in Seq(S) /\ Len(g) = m
  <2>1. \A i \in 1..m : g[i] \in S
    OBVIOUS
  <2> HIDE DEF S
  <2> QED BY <2>1, ListedIsSeq
<1> HIDE DEF S
<1>3. h = f \o g
  BY DEF Joins
<1>4. h \in Seq(S) /\ Len(h) = n + m
      /\ \A i \in 1..(n + m) : h[i] = IF i <= n THEN f[i] ELSE g[i - n]
  BY <1>1, <1>2, <1>3, ConcatProperties
<1>5. h = [i \in 1..(n + m) |-> h[i]]
  BY <1>4
<1>6. \A i \in 1..n : h[i] = f[i]
  BY <1>0, <1>4
<1>7. \A i \in 1..m : h[n + i] = g[i]
  <2> SUFFICES ASSUME NEW i \in 1..m PROVE h[n + i] = g[i]
    OBVIOUS
  <2>1. n + i \in 1..(n + m) /\ ~(n + i <= n) /\ (n + i) - n = i
    BY <1>0
  <2> QED BY <1>4, <2>1
<1>8. Listed(h, n + m)
  BY <1>0, <1>5 DEF Listed
<1> QED BY <1>4, <1>6, <1>7, <1>8 DEF Joined

\* o is the sequence of x alone.
IsOne(o, x) == o = <<x>>

\* A single value, in front of a list and behind one.
LEMMA ListedOne ==
  ASSUME NEW x, NEW o, IsOne(o, x) PROVE Listed(o, 1) /\ o[1] = x
<1> QED BY DEF Listed, IsOne

\* d lists x and then what f lists.
Consed(d, x, f, n) ==
  /\ Listed(d, n + 1) /\ Len(d) = n + 1
  /\ d[1] = x /\ \A i \in 1..n : d[i + 1] = f[i]

LEMMA ListedCons ==
  ASSUME NEW x, NEW f, NEW n \in Nat, Listed(f, n), NEW o, IsOne(o, x), NEW d, Joins(d, o, f)
  PROVE  Consed(d, x, f, n)
<1>2. Listed(o, 1) /\ o[1] = x
  BY ListedOne
<1>4. PICK m \in Nat : m = 1
  OBVIOUS
<1>6. Listed(o, m)
  BY <1>2, <1>4
<1>7. Joined(d, o, m, f, n)
  BY <1>6, ListedConcat
<1>8. 1 \in 1..m /\ m + n = n + 1 /\ \A i \in 1..n : m + i = i + 1
  BY <1>4
<1> QED BY <1>2, <1>7, <1>8 DEF Joined, Consed

LEMMA ListedAppended ==
  ASSUME NEW x, NEW f, NEW n \in Nat, Listed(f, n), NEW o, IsOne(o, x), NEW d, Joins(d, f, o)
  PROVE  /\ Listed(d, n + 1) /\ Len(d) = n + 1
         /\ d[n + 1] = x /\ \A i \in 1..n : d[i] = f[i]
<1>2. Listed(o, 1) /\ o[1] = x
  BY ListedOne
<1>4. PICK m \in Nat : m = 1
  OBVIOUS
<1>6. Listed(o, m)
  BY <1>2, <1>4
<1>7. Joined(d, f, n, o, m)
  BY <1>6, ListedConcat
<1>8. 1 \in 1..m /\ n + m = n + 1
  BY <1>4
<1> QED BY <1>2, <1>4, <1>7, <1>8 DEF Joined

\* What is left beside the coinbase is the level without its first hash.
IsBeside(rest, node) == rest = [i \in 1..(node.width - 1) |-> node.level[i + 1]]

LEMMA BeyondIsRaised ==
  ASSUME NEW node, NEW w \in Nat \ {0}, w = node.width, NEW rest, IsBeside(rest, node)
  PROVE  IsBeside(Beyond(rest), Raised(node))
<1>1. PICK l : l = node.level /\ rest = [i \in 1..(w - 1) |-> l[i + 1]]
  BY DEF IsBeside
<1>2. Raised(node).width = (w + 1) \div 2 /\ Raised(node).level = Paired(l, w)
  BY <1>1 DEF Raised
<1>3. Listed(rest, w - 1)
  BY <1>1 DEF Listed
<1>4. Len(rest) = w - 1
  BY <1>3, ListedIsSeq
<1>5. PICK t : t = Tail(rest)
  OBVIOUS
<1>6. Beyond(rest) = Paired(t, w - 2)
  <2>1. (w - 1) - 1 = w - 2
    OBVIOUS
  <2> QED BY <1>4, <1>5, <2>1 DEF Beyond
<1>a. PICK v \in Nat : v = w - 1
  OBVIOUS
<1>7. PICK m \in Nat : m = v \div 2
  OBVIOUS
<1>b. PICK half \in Nat : half = (v + 2) \div 2 /\ half = m + 1
  BY <1>7
<1>8. ((w - 2) + 1) \div 2 = m /\ (w + 1) \div 2 = half /\ half - 1 = m
  <2>1. (w - 2) + 1 = v /\ w + 1 = v + 2
    BY <1>a
  <2> QED BY <1>7, <1>b, <2>1
<1>9. Beyond(rest) = [i \in 1..m |-> Combine(t[2 * i - 1], t[IF 2 * i <= w - 2 THEN 2 * i ELSE w - 2])]
  BY <1>6, <1>8 DEF Paired
<1>10. ASSUME NEW i \in 1..m
       PROVE  Paired(l, w)[i + 1] = Combine(t[2 * i - 1], t[IF 2 * i <= w - 2 THEN 2 * i ELSE w - 2])
  <2>1. w > 1 /\ 2 * i - 1 \in 1..(w - 2) /\ w - 2 \in 1..(w - 2)
    BY <1>a, <1>7
  <2>2. rest # << >>
    BY <1>4, <2>1
  <2>3. \A j \in 1..(w - 2) : t[j] = l[j + 2]
    <3> DEFINE S == {rest[j] : j \in 1..(w - 1)}
    <3>1. \A j \in 1..(w - 1) : rest[j] \in S
      OBVIOUS
    <3> HIDE DEF S
    <3>2. rest \in Seq(S)
      BY <1>3, <3>1, ListedIsSeq
    <3>3. Len(t) = w - 2 /\ \A j \in 1..Len(t) : t[j] = rest[j + 1]
      <4>1. Len(t) = Len(rest) - 1 /\ \A j \in 1..Len(t) : t[j] = rest[j + 1]
        BY <1>5, <2>2, <3>2, HeadTailProperties
      <4> QED BY <1>4, <4>1
    <3>4. ASSUME NEW j \in 1..(w - 2) PROVE t[j] = l[j + 2]
      <4>1. j + 1 \in 1..(w - 1) /\ (j + 1) + 1 = j + 2
        OBVIOUS
      <4> QED BY <1>1, <3>3, <4>1
    <3> QED BY <3>4
  <2>4. i + 1 \in 1..((w + 1) \div 2)
    <3>1. i + 1 \in 1..half
      BY <1>b
    <3> QED BY <1>8, <3>1
  <2>5. Paired(l, w)[i + 1]
          = Combine(l[2 * (i + 1) - 1], l[IF 2 * (i + 1) <= w THEN 2 * (i + 1) ELSE w])
    BY <2>4 DEF Paired
  <2>6. t[2 * i - 1] = l[2 * (i + 1) - 1]
    <3>1. (2 * i - 1) + 2 = 2 * (i + 1) - 1
      OBVIOUS
    <3> QED BY <2>1, <2>3, <3>1
  <2>7. CASE 2 * i <= w - 2
    <3>1. 2 * i \in 1..(w - 2) /\ 2 * i + 2 = 2 * (i + 1) /\ 2 * (i + 1) <= w
      BY <2>7
    <3>2. t[2 * i] = l[2 * (i + 1)]
      BY <2>3, <3>1
    <3>3. (IF 2 * i <= w - 2 THEN 2 * i ELSE w - 2) = 2 * i
      BY <2>7
    <3>4. (IF 2 * (i + 1) <= w THEN 2 * (i + 1) ELSE w) = 2 * (i + 1)
      BY <3>1
    <3> QED BY <2>5, <2>6, <3>2, <3>3, <3>4
  <2>8. CASE ~(2 * i <= w - 2)
    <3>1. (w - 2) + 2 = w /\ ~(2 * (i + 1) <= w)
      BY <2>8
    <3>2. t[w - 2] = l[w]
      BY <2>1, <2>3, <3>1
    <3>3. (IF 2 * i <= w - 2 THEN 2 * i ELSE w - 2) = w - 2
      BY <2>8
    <3>4. (IF 2 * (i + 1) <= w THEN 2 * (i + 1) ELSE w) = w
      BY <3>1
    <3> QED BY <2>5, <2>6, <3>2, <3>3, <3>4
  <2> QED BY <2>7, <2>8
<1>11. Beyond(rest) = [i \in 1..(half - 1) |-> Paired(l, w)[i + 1]]
  BY <1>8, <1>9, <1>10
<1> QED BY <1>2, <1>8, <1>11 DEF IsBeside

\* The branch of the job is that of the coinbase in front of the other transactions.
LEMMA BranchOfTheCoinbase ==
  ASSUME NEW n \in Nat, NEW s, Listed(s, n), NEW c
  PROVE  MerkleBranch(s, n) = AuxBranch(<<c>> \o s, 1 + n, 0)
<1>a. PICK N \in Nat \ {0} : N = 1 + n
  OBVIOUS
<1>b. PICK t : t = <<c>> \o s
  OBVIOUS
<1>c. PICK tree, rest : tree = Tree(t, N, 0) /\ rest = Beside(s, n)
  OBVIOUS
<1>0. N \in Nat \ {0} /\ N = 1 + n /\ t = <<c>> \o s /\ tree = Tree(t, N, 0) /\ rest = Beside(s, n)
  BY <1>a, <1>b, <1>c
<1>1. 0 \in 0..(N - 1) /\ n \in 0..N
  BY <1>0
<1>2. PICK h \in 0..N : h = Height(tree, N)
  BY <1>0, <1>1, RootIsHigh
<1>3. tree[h].width = 1 /\ \A j \in 0..(h - 1) : tree[j].width > 1
  BY <1>0, <1>1, <1>2, RootIsHigh
<1>4. tree[0] = [level |-> t, width |-> N, at |-> 0] /\ \A i \in 1..N : tree[i] = Raised(tree[i - 1])
  <2>1. /\ Tree(t, N, 0)[0] = [level |-> t, width |-> N, at |-> 0]
        /\ \A i \in 1..N : Tree(t, N, 0)[i] = Raised(Tree(t, N, 0)[i - 1])
    BY TreeUnfolds
  <2> QED BY <1>0, <2>1
<1>5. \A k \in 0..N : Grows(tree[k], k, N)
  BY <1>0, <1>1, TreeGrows
<1>6. rest[0] = s /\ \A i \in 1..n : rest[i] = Beyond(rest[i - 1])
  BY <1>0, BesideUnfolds
<1> DEFINE T == {k \in 0..n : tree[k].at = 0 /\ IsBeside(rest[k], tree[k])}
<1>7. 0 \in T
  <2>o. PICK o : IsOne(o, c)
    BY DEF IsOne
  <2>t. Joins(t, o, s)
    BY <1>0, <2>o DEF IsOne, Joins
  <2>2. \A i \in 1..n : t[i + 1] = s[i]
    BY <2>o, <2>t, ListedCons DEF Consed
  <2>3. s = [i \in 1..n |-> s[i]]
    BY DEF Listed
  <2>4. s = [i \in 1..(N - 1) |-> t[i + 1]]
    <3>1. N - 1 = n
      BY <1>0
    <3> QED BY <2>2, <2>3, <3>1
  <2>5. tree[0].at = 0 /\ tree[0].width = N /\ tree[0].level = t
    BY <1>4
  <2>6. IsBeside(rest[0], tree[0])
    BY <1>6, <2>4, <2>5 DEF IsBeside
  <2>7. 0 \in 0..n
    OBVIOUS
  <2> QED BY <2>5, <2>6, <2>7
<1>8. ASSUME NEW k \in 0..(n - 1), k \in T PROVE k + 1 \in T
  <2>1. k + 1 \in 1..N /\ k + 1 \in 1..n /\ (k + 1) - 1 = k /\ k \in 0..N /\ k \in Nat
    BY <1>0
  <2>2. tree[k + 1] = Raised(tree[k]) /\ rest[k + 1] = Beyond(rest[k])
    BY <1>4, <1>6, <2>1
  <2>3. PICK w \in Nat \ {0} : w = tree[k].width
    BY <1>5, <2>1 DEF Grows
  <2>4. tree[k].at = 0 /\ IsBeside(rest[k], tree[k])
    BY <1>8
  <2>5. IsBeside(rest[k + 1], Raised(tree[k]))
    <3>1. PICK node, r : node = tree[k] /\ r = rest[k]
      OBVIOUS
    <3>2. w = node.width /\ IsBeside(r, node)
      BY <2>3, <2>4, <3>1
    <3>3. IsBeside(Beyond(r), Raised(node))
      BY <3>2, BeyondIsRaised
    <3> QED BY <2>2, <3>1, <3>3
  <2>6. Raised(tree[k]).at = 0
    BY <2>4 DEF Raised
  <2>7. k + 1 \in 0..n
    OBVIOUS
  <2> QED BY <2>2, <2>5, <2>6, <2>7
<1>9. \A k \in 0..n : k \in T
  <2> HIDE DEF T
  <2> QED BY <1>7, <1>8, Reached
<1>10. ASSUME NEW k \in 0..n PROVE (rest[k] = << >>) <=> (tree[k].width <= 1)
  <2>0. k \in 0..N
    BY <1>0
  <2>1. PICK w \in Nat \ {0} : w = tree[k].width
    BY <1>5, <2>0 DEF Grows
  <2>2. rest[k] = [i \in 1..(w - 1) |-> tree[k].level[i + 1]]
    BY <1>9, <2>1 DEF IsBeside
  <2>3. Listed(rest[k], w - 1)
    BY <2>2 DEF Listed
  <2>4. Len(rest[k]) = w - 1
    BY <2>3, ListedIsSeq
  <2>5. CASE w = 1
    <3>1. rest[k] \in Seq({})
      BY <2>3, <2>5, ListedIsSeq
    <3> QED BY <2>1, <2>4, <2>5, <3>1
  <2>6. CASE w # 1
    <3>1. Len(rest[k]) # 0 /\ ~(w <= 1)
      BY <2>4, <2>6
    <3> QED BY <2>1, <3>1
  <2> QED BY <2>5, <2>6
<1>11. h \in 0..n
  <2>1. PICK w \in Nat : w = tree[n].width /\ (w <= 1 \/ w + n <= N)
    BY <1>1, <1>5 DEF Grows
  <2>2. w <= 1
    BY <1>0, <2>1
  <2>3. ~(n \in 0..(h - 1))
    BY <1>3, <2>1, <2>2
  <2> QED BY <1>0, <2>3
<1>12. Depth(rest, n) = h
  <2>1. rest[h] = << >> /\ \A j \in 0..(h - 1) : rest[j] # << >>
    <3>1. rest[h] = << >>
      BY <1>3, <1>10, <1>11
    <3>2. ASSUME NEW j \in 0..(h - 1) PROVE rest[j] # << >>
      <4>1. j \in 0..n /\ j \in 0..N
        BY <1>0, <1>11
      <4>2. PICK w \in Nat : w = tree[j].width /\ w > 1
        BY <1>3, <1>5, <4>1 DEF Grows
      <4> QED BY <1>10, <4>1, <4>2
    <3> QED BY <3>1, <3>2
  <2>2. PICK d : d = Depth(rest, n)
    OBVIOUS
  <2>3. d \in 0..n /\ rest[d] = << >> /\ \A j \in 0..(d - 1) : rest[j] # << >>
    BY <1>11, <2>1, <2>2 DEF Depth
  <2>4. ~(h < d)
    BY <1>11, <2>1, <2>3
  <2>5. ~(d < h)
    BY <1>11, <2>1, <2>3
  <2> QED BY <1>11, <2>2, <2>3, <2>4, <2>5
<1>13. ASSUME NEW k \in 1..h PROVE rest[k - 1][1] = Sibling(tree[k - 1])
  <2>1. k - 1 \in 0..n /\ k - 1 \in 0..(h - 1) /\ k - 1 \in 0..N
    BY <1>0, <1>11
  <2>2. PICK w \in Nat : w = tree[k - 1].width /\ w > 1
    BY <1>3, <1>5, <2>1 DEF Grows
  <2>3. rest[k - 1] = [i \in 1..(w - 1) |-> tree[k - 1].level[i + 1]] /\ tree[k - 1].at = 0
    BY <1>9, <2>1, <2>2 DEF IsBeside
  <2>4. rest[k - 1][1] = tree[k - 1].level[2]
    BY <2>2, <2>3
  <2>5. Sibling(tree[k - 1]) = tree[k - 1].level[2]
    BY <2>2, <2>3 DEF Sibling
  <2> QED BY <2>4, <2>5
<1>14. MerkleBranch(s, n) = [k \in 1..h |-> rest[k - 1][1]]
  BY <1>0, <1>12 DEF MerkleBranch
<1>15. AuxBranch(t, N, 0) = [k \in 1..h |-> Sibling(tree[k - 1])]
  BY <1>0, <1>2 DEF AuxBranch
<1> QED BY <1>0, <1>13, <1>14, <1>15

\* It leads from whatever coinbase to the root of the block.
LEMMA CoinbaseLeadsToRoot ==
  ASSUME NEW n \in Nat, NEW s, Listed(s, n), NEW c
  PROVE  Climb(c, 0, MerkleBranch(s, n)) = MerkleRoot(<<c>> \o s, 1 + n)
<1>a. PICK N \in Nat \ {0} : N = 1 + n
  OBVIOUS
<1>b. PICK t : t = <<c>> \o s
  OBVIOUS
<1>1. N \in Nat \ {0} /\ N = 1 + n /\ t = <<c>> \o s
  BY <1>a, <1>b
<1>2. t[0 + 1] = c
  <2>o. PICK o : IsOne(o, c)
    BY DEF IsOne
  <2>t. Joins(t, o, s)
    BY <1>1, <2>o DEF IsOne, Joins
  <2>1. t[1] = c
    BY <2>o, <2>t, ListedCons DEF Consed
  <2> QED BY <2>1
<1>3. 0 \in 0..(N - 1)
  OBVIOUS
<1>4. Climb(t[0 + 1], 0, AuxBranch(t, N, 0)) = MerkleRoot(t, N)
  BY <1>3, BranchLeadsToRoot
<1> QED BY <1>1, <1>2, <1>4, BranchOfTheCoinbase

-----------------------------------------------------------------------------
\* Where a byte goes when the bytes of its word are reversed (from 0), and back.
Other(v) == 4 * (v \div 4) + 3 - (v % 4)

\* Within words that are whole, a byte stays in its word and comes back.
LEMMA OtherTwice ==
  ASSUME NEW n \in Nat, n % 4 = 0, NEW v \in Nat, v < n
  PROVE  Other(v) \in Nat /\ Other(v) < n /\ Other(Other(v)) = v
<1>1. PICK m \in Nat : n = 4 * m
  <2>1. n = 4 * (n \div 4) + (n % 4) /\ n \div 4 \in Nat
    OBVIOUS
  <2> QED BY <2>1
<1>2. PICK q \in Nat, r \in 0..3 : q = v \div 4 /\ r = v % 4
  <2>1. v \div 4 \in Nat /\ v % 4 \in 0..3
    OBVIOUS
  <2> QED BY <2>1
<1>3. v = 4 * q + r
  BY <1>2
<1>4. PICK o \in Nat : o = 4 * q + 3 - r
  OBVIOUS
<1>5. Other(v) = o
  BY <1>2, <1>4 DEF Other
<1>6. o < n
  BY <1>1, <1>3, <1>4
<1>7. o \div 4 = q /\ o % 4 = 3 - r
  BY <1>4
<1>8. Other(o) = v
  BY <1>3, <1>7 DEF Other
<1> QED BY <1>5, <1>6, <1>8

\* Words reversed twice are what they were.
LEMMA WordsTwice ==
  ASSUME NEW b, NEW n \in Nat, Listed(b, n), n % 4 = 0
  PROVE  ReverseWords(ReverseWords(b)) = b
<1>1. b = [i \in 1..n |-> b[i]] /\ DOMAIN b = 1..n
  BY DEF Listed
<1>2. PICK c : c = ReverseWords(b)
  OBVIOUS
<1>0. ASSUME NEW i \in 1..n
      PROVE  4 * ((i - 1) \div 4) + 4 - ((i - 1) % 4) = Other(i - 1) + 1
  BY DEF Other
<1>3. c = [i \in 1..n |-> b[Other(i - 1) + 1]] /\ DOMAIN c = 1..n
  BY <1>0, <1>1, <1>2 DEF ReverseWords
<1>4. ReverseWords(c) = [i \in 1..n |-> c[Other(i - 1) + 1]]
  <2>1. ReverseWords(c) = [i \in 1..n |-> c[4 * ((i - 1) \div 4) + 4 - ((i - 1) % 4)]]
    BY <1>3 DEF ReverseWords
  <2>2. PICK d : d = [i \in 1..n |-> c[4 * ((i - 1) \div 4) + 4 - ((i - 1) % 4)]]
    OBVIOUS
  <2>3. \A i \in 1..n : d[i] = c[Other(i - 1) + 1]
    BY <1>0, <2>2
  <2>4. d = [i \in 1..n |-> d[i]]
    BY <2>2
  <2> QED BY <2>1, <2>2, <2>3, <2>4
<1>5. ASSUME NEW i \in 1..n PROVE c[Other(i - 1) + 1] = b[i]
  <2>1. PICK v \in Nat : v = i - 1 /\ v < n
    OBVIOUS
  <2>2. PICK o \in Nat : o = Other(v)
    BY <2>1, OtherTwice
  <2>3. o < n /\ Other(o) = v
    BY <2>1, <2>2, OtherTwice
  <2>4. o + 1 \in 1..n /\ (o + 1) - 1 = o
    BY <2>3
  <2>5. c[o + 1] = b[Other(o) + 1]
    BY <1>3, <2>4
  <2>6. Other(o) + 1 = i
    BY <2>1, <2>3
  <2> QED BY <2>1, <2>2, <2>5, <2>6
<1> QED BY <1>1, <1>2, <1>4, <1>5

\* The bytes of a number make it up.
MakeUp(n, b, u, v, w) ==
  /\ b[1] = u /\ b[2] = v /\ b[3] = w
  /\ n = u + 256 * v + 65536 * w
  /\ (n < 65536 => w = 0) /\ (n < 256 => v = 0)

\* Three bytes are enough for what a template holds.
LEMMA BytesMakeUp ==
  ASSUME NEW n \in Nat, n < Weight[4], NEW b, b = Bytes(n, 3)
  PROVE  \E u, v, w \in 0..255 : MakeUp(n, b, u, v, w)
<1>1. Weight[1] = 1 /\ Weight[2] = 256 /\ Weight[3] = 65536
  BY DEF Weight
<1>2. PICK u \in Nat, v \in Nat, w \in Nat :
        u = n % 256 /\ v = (n \div 256) % 256 /\ w = (n \div 65536) % 256
  <2>1. n \div 256 \in Nat /\ n \div 65536 \in Nat
    OBVIOUS
  <2> QED BY <2>1
<1>3. u \in 0..255 /\ v \in 0..255 /\ w \in 0..255 /\ n = u + 256 * v + 65536 * w
  <2>1. Weight[4] = 16777216
    BY DEF Weight
  <2>2. PICK q \in Nat : n = 256 * q + u /\ u \in 0..255 /\ q = n \div 256
    BY <1>2
  <2>3. PICK p \in Nat : q = 256 * p + v /\ v \in 0..255 /\ p = q \div 256
    BY <1>2, <2>2
  <2>4. n \div 65536 = p
    BY <2>2, <2>3
  <2>5. p < 256
    BY <2>1, <2>2, <2>3
  <2>6. w = p
    BY <1>2, <2>4, <2>5
  <2> QED BY <2>2, <2>3, <2>5, <2>6
<1>4. (n < 65536 => w = 0) /\ (n < 256 => v = 0)
  BY <1>3
<1>5. Bytes(n, 3)[1] = u /\ Bytes(n, 3)[2] = v /\ Bytes(n, 3)[3] = w
  <2>1. Bytes(n, 3)[1] = (n \div 1) % 256 /\ n \div 1 = n
    BY <1>1 DEF Bytes
  <2>2. Bytes(n, 3)[2] = (n \div 256) % 256 /\ Bytes(n, 3)[3] = (n \div 65536) % 256
    BY <1>1 DEF Bytes
  <2> QED BY <1>2, <2>1, <2>2
<1>6. u \in 0..255 /\ v \in 0..255 /\ w \in 0..255
  BY <1>3
<1>7. b[1] = u /\ b[2] = v /\ b[3] = w
  BY <1>5
<1>8. MakeUp(n, b, u, v, w)
  BY <1>3, <1>4, <1>7 DEF MakeUp
<1> QED BY <1>6, <1>8

\* The four bytes of a height make it up; the highest bit is not set.
MakeUpFour(n, b, u, v, w, x) ==
  /\ b[1] = u /\ b[2] = v /\ b[3] = w /\ b[4] = x
  /\ n = u + 256 * v + 65536 * w + 16777216 * x /\ x <= 127
  /\ (n < 16777216 => x = 0) /\ (n < 65536 => w = 0) /\ (n < 256 => v = 0)

LEMMA BytesMakeUpFour ==
  ASSUME NEW n \in Nat, n <= LastHeight, NEW b, b = Bytes(n, 4)
  PROVE  \E u, v, w, x \in 0..255 : MakeUpFour(n, b, u, v, w, x)
<1>1. Weight[1] = 1 /\ Weight[2] = 256 /\ Weight[3] = 65536 /\ Weight[4] = 16777216
  BY SMT DEF Weight
<1>2. PICK u \in Nat, v \in Nat, w \in Nat, x \in Nat :
        /\ u = n % 256 /\ v = (n \div 256) % 256 /\ w = (n \div 65536) % 256
        /\ x = (n \div 16777216) % 256
  <2>1. n \div 256 \in Nat /\ n \div 65536 \in Nat /\ n \div 16777216 \in Nat
    BY SMT
  <2> QED BY <2>1, SMT
<1>3. /\ u \in 0..255 /\ v \in 0..255 /\ w \in 0..255 /\ x <= 127
      /\ n = u + 256 * v + 65536 * w + 16777216 * x
  <2>1. n <= 2147483647
    BY SMT DEF LastHeight
  <2>2. PICK q \in Nat : n = 256 * q + u /\ u \in 0..255 /\ q = n \div 256
    BY <1>2, SMT
  <2>3. PICK p \in Nat : q = 256 * p + v /\ v \in 0..255 /\ p = q \div 256
    BY <1>2, <2>2, SMT
  <2>4. n \div 65536 = p
    BY <2>2, <2>3, SMT
  <2>5. PICK r \in Nat : p = 256 * r + w /\ w \in 0..255 /\ r = p \div 256
    BY <1>2, <2>3, <2>4, SMT
  <2>a. q = 65536 * r + 256 * w + v
    BY <2>3, <2>5, SMT
  <2>7. n = u + 256 * v + 65536 * w + 16777216 * r
    BY <2>2, <2>a, SMT
  <2>b. PICK z \in Nat : z = u + 256 * v + 65536 * w /\ z < 16777216
    BY <2>2, <2>3, <2>5, SMT
  <2>c. n = 16777216 * r + z
    BY <2>7, <2>b, SMT
  <2>6. n \div 16777216 = r
    BY <2>b, <2>c, SMT
  <2>8. r <= 127
    BY <2>1, <2>7, SMT
  <2>9. x = r
    BY <1>2, <2>6, <2>8, SMT
  <2> QED BY <2>2, <2>3, <2>5, <2>7, <2>8, <2>9
<1>4. (n < 16777216 => x = 0) /\ (n < 65536 => w = 0) /\ (n < 256 => v = 0)
  BY <1>3, SMT
<1>5. b[1] = u /\ b[2] = v /\ b[3] = w /\ b[4] = x
  <2>1. b[1] = (n \div 1) % 256 /\ n \div 1 = n
    BY <1>1, SMT DEF Bytes
  <2>2. b[2] = (n \div 256) % 256 /\ b[3] = (n \div 65536) % 256
    BY <1>1, SMT DEF Bytes
  <2>d. b[4] = (n \div Weight[4]) % 256
    BY SMT DEF Bytes
  <2>3. b[4] = (n \div 16777216) % 256
    BY <1>1, <2>d, SMT
  <2> QED BY <1>2, <2>1, <2>2, <2>3, SMT
<1>6. MakeUpFour(n, b, u, v, w, x)
  BY <1>3, <1>4, <1>5, SMT DEF MakeUpFour
<1>7. x \in 0..255
  BY <1>3, SMT
<1>8. /\ u \in 0..255 /\ v \in 0..255 /\ w \in 0..255
  BY <1>3
<1> QED BY <1>6, <1>7, <1>8, ZenonT(30)

\* Fewer bytes are the first ones of three, and of four.
LEMMA BytesListed ==
  ASSUME NEW n, NEW k \in 1..4
  PROVE  /\ Listed(Bytes(n, k), k)
         /\ k <= 3 => \A i \in 1..k : Bytes(n, k)[i] = Bytes(n, 3)[i]
         /\ \A i \in 1..k : Bytes(n, k)[i] = Bytes(n, 4)[i]
<1>1. Bytes(n, k) = [i \in 1..k |-> (n \div Weight[i]) % 256]
      /\ Bytes(n, 3) = [i \in 1..3 |-> (n \div Weight[i]) % 256]
      /\ Bytes(n, 4) = [i \in 1..4 |-> (n \div Weight[i]) % 256]
  BY DEF Bytes
<1>2. \A i \in 1..k : i \in 1..4 /\ (k <= 3 => i \in 1..3)
  OBVIOUS
<1> QED BY <1>1, <1>2 DEF Listed

\* A height has as many bytes as it needs.
LEMMA PushSizeFits ==
  ASSUME NEW n \in Nat
  PROVE  \E k \in 1..4 : /\ k = PushSize(n)
                         /\ (k <= 1 => n < 256) /\ (k <= 2 => n < 65536)
                         /\ (k <= 3 => n < 16777216)
<1>1. Weight[2] = 256 /\ Weight[3] = 65536 /\ Weight[4] = 16777216
  BY DEF Weight
<1> DEFINE Fits(k) == (k > 1 => n >= Weight[k]) /\ (k < 4 => n < Weight[k + 1])
<1>2. /\ Fits(1) <=> n < 256
      /\ Fits(2) <=> n >= 256 /\ n < 65536
      /\ Fits(3) <=> n >= 65536 /\ n < 16777216
      /\ Fits(4) <=> n >= 16777216
  <2>1. 1 + 1 = 2 /\ 2 + 1 = 3 /\ 3 + 1 = 4
    OBVIOUS
  <2> QED BY <1>1, <2>1
<1>3. PushSize(n) = CHOOSE k \in 1..4 : Fits(k)
  BY DEF PushSize
<1> HIDE DEF Fits
<1>4. \E k \in 1..4 : Fits(k)
  BY <1>2
<1>5. PICK k \in 1..4 : k = PushSize(n) /\ Fits(k)
  BY <1>3, <1>4
<1> QED BY <1>2, <1>5

\* A node reads the number of transactions that was written.
LEMMA CountIsRead ==
  ASSUME NEW n \in Nat, n < Weight[4]
  PROVE  ReadVarInt(VarInt(n)) = n
<1>1. PICK b : b = Bytes(n, 3)
  OBVIOUS
<1>a. PICK u, v, w \in 0..255 : MakeUp(n, b, u, v, w)
  BY <1>1, BytesMakeUp
<1>2. /\ u \in 0..255 /\ v \in 0..255 /\ w \in 0..255
      /\ b[1] = u /\ b[2] = v /\ b[3] = w
      /\ n = u + 256 * v + 65536 * w
      /\ (n < 65536 => w = 0) /\ (n < 256 => v = 0)
  BY <1>a DEF MakeUp
<1>3. CASE n < 253
  <2>1. VarInt(n) = <<n>>
    BY <1>3 DEF VarInt
  <2> QED BY <1>3, <2>1 DEF ReadVarInt
<1>4. CASE n >= 253 /\ n <= 65535
  <2>1. PICK c : c = Bytes(n, 2)
    OBVIOUS
  <2>2. Listed(c, 2) /\ c[1] = b[1] /\ c[2] = b[2]
    BY <1>1, <2>1, BytesListed
  <2>3. VarInt(n) = <<253>> \o c
    BY <1>4, <2>1 DEF VarInt
  <2>4. PICK o : IsOne(o, 253)
    BY DEF IsOne
  <2>d. PICK d : Joins(d, o, c)
    BY DEF Joins
  <2>k. PICK k \in Nat : k = 2
    OBVIOUS
  <2>5. d[1] = 253 /\ d[2] = u /\ d[3] = v
    <3>1. Listed(c, k)
      BY <2>2, <2>k
    <3>2. d[1] = 253 /\ \A i \in 1..k : d[i + 1] = c[i]
      BY <2>4, <2>d, <2>k, <3>1, ListedCons DEF Consed
    <3>3. d[1] = 253 /\ d[1 + 1] = c[1] /\ d[2 + 1] = c[2]
      BY <2>k, <3>2
    <3> QED BY <1>2, <2>2, <3>3
  <2>6. ReadVarInt(d) = u + 256 * v + 0
    BY <2>5 DEF ReadVarInt
  <2>7. u + 256 * v + 0 = n
    BY <1>2, <1>4
  <2> QED BY <2>3, <2>4, <2>d, <2>6, <2>7 DEF Joins, IsOne
<1>5. CASE n > 65535
  <2>2. Listed(b, 3)
    BY <1>1, BytesListed
  <2>3. VarInt(n) = (<<254>> \o b) \o <<0>>
    BY <1>1, <1>5 DEF VarInt
  <2>4. PICK o : IsOne(o, 254)
    BY DEF IsOne
  <2>c. PICK c : Joins(c, o, b)
    BY DEF Joins
  <2>k. PICK k, l \in Nat : k = 3 /\ l = k + 1
    OBVIOUS
  <2>5. Listed(c, l) /\ c[1] = 254 /\ c[2] = u /\ c[3] = v /\ c[4] = w
    <3>0. Listed(b, k)
      BY <2>2, <2>k
    <3>1. Listed(c, k + 1) /\ c[1] = 254 /\ \A i \in 1..k : c[i + 1] = b[i]
      BY <2>4, <2>c, <2>k, <3>0, ListedCons DEF Consed
    <3>2. c[1 + 1] = b[1] /\ c[2 + 1] = b[2] /\ c[3 + 1] = b[3]
      BY <2>k, <3>1
    <3> QED BY <1>2, <2>k, <3>1, <3>2
  <2>z. PICK z : IsOne(z, 0)
    BY DEF IsOne
  <2>6. PICK d : Joins(d, c, z)
    BY DEF Joins
  <2>7. d[1] = 254 /\ d[2] = u /\ d[3] = v /\ d[4] = w
    <3>0. Listed(c, l) /\ l \in Nat
      BY <2>k, <2>5
    <3>1. \A i \in 1..l : d[i] = c[i]
      BY <3>0, <2>z, <2>6, ListedAppended
    <3> QED BY <2>k, <2>5, <3>1
  <2>8. ReadVarInt(d) = u + 256 * v + 65536 * w
    BY <2>7 DEF ReadVarInt
  <2>9. VarInt(n) = d
    BY <2>3, <2>4, <2>c, <2>z, <2>6 DEF Joins, IsOne
  <2>10. u + 256 * v + 65536 * w = n
    BY <1>2
  <2> QED BY <2>8, <2>9, <2>10
<1> QED BY <1>3, <1>4, <1>5

\* d pushes L bytes that make up h, and of which the last leaves the sign alone.
Pushes(d, L, h, u, v, w, x) ==
  /\ d[1] = L /\ d[2] = u /\ h = u + 256 * v + 65536 * w + 16777216 * x
  /\ (IF L >= 2 THEN d[3] = v ELSE v = 0)
  /\ (IF L >= 3 THEN d[4] = w ELSE w = 0)
  /\ (IF L = 4 THEN d[5] = x ELSE x = 0)
  /\ ~(d[L + 1] >= 128)

\* z is b with x appended.
IsAppended(z, b, x) == z = Append(b, x)

\* A list with a value appended.
LEMMA AppendIsListed ==
  ASSUME NEW b, NEW k \in Nat, Listed(b, k), NEW x, NEW z, IsAppended(z, b, x)
  PROVE  /\ Listed(z, k + 1) /\ Len(z) = k + 1
         /\ z[k + 1] = x /\ \A i \in 1..k : z[i] = b[i]
<1> DEFINE S == {b[i] : i \in 1..k} \union {x}
<1>1. b \in Seq(S) /\ Len(b) = k /\ x \in S
  <2>1. \A i \in 1..k : b[i] \in S
    OBVIOUS
  <2>2. x \in S
    OBVIOUS
  <2> HIDE DEF S
  <2> QED BY <2>1, <2>2, ListedIsSeq
<1> HIDE DEF S
<1>2. z \in Seq(S) /\ Len(z) = k + 1 /\ z[k + 1] = x /\ \A i \in 1..k : z[i] = b[i]
  BY <1>1, AppendProperties DEF IsAppended
<1>3. z = [i \in 1..(k + 1) |-> z[i]]
  BY <1>2
<1>4. k + 1 \in Nat
  OBVIOUS
<1>5. Listed(z, k + 1)
  BY <1>3, <1>4 DEF Listed
<1> QED BY <1>2, <1>5

\* d is the push of the height h, in L bytes.
Written(d, L, h) == /\ d = EncodeHeight(h) /\ Listed(d, L + 1)
                    /\ \E u, v, w, x \in 0..255 : Pushes(d, L, h, u, v, w, x)

\* The height is written in one to four bytes.
LEMMA HeightIsWritten ==
  ASSUME NEW h \in Nat, h <= LastHeight
  PROVE  \E d : \E L \in 1..4 : Written(d, L, h)
<1>1. PICK b : b = Bytes(h, 4)
  OBVIOUS
<1>a. PICK u, v, w, x \in 0..255 : MakeUpFour(h, b, u, v, w, x)
  BY <1>1, BytesMakeUpFour
<1>2. PICK k \in 1..4 : /\ k = PushSize(h)
                        /\ (k <= 1 => h < 256) /\ (k <= 2 => h < 65536)
                        /\ (k <= 3 => h < 16777216)
  BY PushSizeFits
<1>3. PICK c : c = Bytes(h, k)
  OBVIOUS
<1>4. Listed(c, k) /\ \A i \in 1..k : c[i] = b[i]
  BY <1>1, <1>3, BytesListed
<1>5. Len(c) = k /\ k \in Nat
  BY <1>4, ListedIsSeq
<1>6. PICK z : z = IF c[k] >= 128 THEN Append(c, 0) ELSE c
  OBVIOUS
<1>7. EncodeHeight(h) = <<Len(z)>> \o z
  BY <1>2, <1>3, <1>5, <1>6 DEF EncodeHeight
<1>8. (k <= 1 => v = 0) /\ (k <= 2 => w = 0) /\ (k <= 3 => x = 0) /\ x <= 127
      /\ h = u + 256 * v + 65536 * w + 16777216 * x
      /\ c[1] = u /\ (k >= 2 => c[2] = v) /\ (k >= 3 => c[3] = w) /\ (k = 4 => c[4] = x)
  <2>1. (k <= 1 => v = 0) /\ (k <= 2 => w = 0) /\ (k <= 3 => x = 0) /\ x <= 127
        /\ h = u + 256 * v + 65536 * w + 16777216 * x
    BY <1>a, <1>2 DEF MakeUpFour
  <2>2. c[1] = u /\ (k >= 2 => c[2] = v) /\ (k >= 3 => c[3] = w) /\ (k = 4 => c[4] = x)
    BY <1>a, <1>4 DEF MakeUpFour
  <2> QED BY <2>1, <2>2
<1>9. PICK L \in 1..4 : /\ Listed(z, L) /\ Len(z) = L /\ z[1] = u
                        /\ (IF L >= 2 THEN z[2] = v ELSE v = 0)
                        /\ (IF L >= 3 THEN z[3] = w ELSE w = 0)
                        /\ (IF L = 4 THEN z[4] = x ELSE x = 0)
                        /\ ~(z[L] >= 128)
  <2>1. CASE c[k] >= 128
    <3>0. k <= 3
      BY <1>8, <2>1
    <3>1. IsAppended(z, c, 0)
      BY <1>6, <2>1 DEF IsAppended
    <3>2. PICK l \in 1..4 : l = k + 1
      BY <3>0
    <3>3. Listed(z, l) /\ Len(z) = l /\ z[l] = 0 /\ \A i \in 1..k : z[i] = c[i]
      BY <1>4, <1>5, <3>1, <3>2, AppendIsListed
    <3>4. z[1] = u /\ (k >= 2 => z[2] = v) /\ (k = 3 => z[3] = w)
      BY <1>8, <3>3
    <3> QED BY <1>8, <3>0, <3>2, <3>3, <3>4
  <2>2. CASE ~(c[k] >= 128)
    <3>1. z = c
      BY <1>6, <2>2
    <3> QED BY <1>4, <1>5, <1>8, <2>2, <3>1
  <2> QED BY <2>1, <2>2
<1>10. PICK o : IsOne(o, L)
  BY DEF IsOne
<1>11. PICK d : Joins(d, o, z)
  BY DEF Joins
<1>12. PICK l \in Nat : l = L
  OBVIOUS
<1>13. Listed(d, l + 1) /\ d[1] = L /\ \A i \in 1..l : d[i + 1] = z[i]
  <2>1. Listed(z, l) /\ l \in Nat
    BY <1>9, <1>12
  <2>2. Consed(d, L, z, l)
    BY <1>10, <1>11, <2>1, ListedCons
  <2> QED BY <2>2 DEF Consed
<1>14. d[1 + 1] = u /\ (L >= 2 => d[2 + 1] = z[2]) /\ (L >= 3 => d[3 + 1] = z[3])
       /\ (L = 4 => d[4 + 1] = z[4]) /\ d[L + 1] = z[L]
  BY <1>9, <1>12, <1>13
<1>16. d = EncodeHeight(h)
  BY <1>7, <1>9, <1>10, <1>11 DEF IsOne, Joins
<1>15. Pushes(d, L, h, u, v, w, x)
  BY <1>8, <1>9, <1>13, <1>14 DEF Pushes
<1>17. Written(d, L, h)
  BY <1>12, <1>13, <1>15, <1>16 DEF Written
<1> QED BY <1>17

\* script begins with the n values of d.
Begins(script, d, n) == \A i \in 1..n : script[i] = d[i]

\* A node reads the height that was written, whatever follows it in the script.
LEMMA HeightIsRead ==
  ASSUME NEW h \in Nat, NEW d, NEW L \in 1..4, NEW u \in 0..255, NEW v \in 0..255,
         NEW w \in 0..255, NEW x \in 0..255, Pushes(d, L, h, u, v, w, x),
         NEW script, Begins(script, d, L + 1)
  PROVE  ReadHeight(script) = h
<1>0. \A i \in 1..(L + 1) : script[i] = d[i]
  BY DEF Begins
<1>1. /\ script[1] = L /\ script[2] = u 
      /\ h = u + 256 * v + 65536 * w + 16777216 * x
      /\ (IF L >= 2 THEN script[3] = v ELSE v = 0)
      /\ (IF L >= 3 THEN script[4] = w ELSE w = 0)
      /\ (IF L = 4 THEN script[5] = x ELSE x = 0)
      /\ ~(script[L + 1] >= 128)
  BY <1>0 DEF Pushes
<1>2. PICK f : f = [i \in 1..L |-> script[i + 1] * Weight[i]]
  OBVIOUS
<1>3. ReadHeight(script) = Total(f)
  BY <1>1, <1>2 DEF ReadHeight
<1>4. Weight[1] = 1 /\ Weight[2] = 256 /\ Weight[3] = 65536 /\ Weight[4] = 16777216
  BY DEF Weight
<1>5. f[1] = u /\ (L >= 2 => f[2] = 256 * v) /\ (L >= 3 => f[3] = 65536 * w) /\ (L = 4 => f[4] = 16777216 * x)
  <2>1. f[1] = script[1 + 1] * Weight[1]
    BY <1>2
  <2>2. L >= 2 => f[2] = script[2 + 1] * Weight[2]
    BY <1>2
  <2>3. L >= 3 => f[3] = script[3 + 1] * Weight[3]
    BY <1>2
  <2>4. L = 4 => f[4] = script[4 + 1] * Weight[4]
    BY <1>2
  <2> QED BY <1>1, <1>4, <2>1, <2>2, <2>3, <2>4
<1>6. f \in Seq(Int) /\ Len(f) = L
  <2>1. \A i \in 1..L : f[i] \in Int
    BY <1>5
  <2>2. Listed(f, L)
    BY <1>2 DEF Listed
  <2> QED BY <2>1, <2>2, ListedIsSeq
<1>7. PICK p : p = PrefixSums(f)
  OBVIOUS
<1>8. p[0] = 0 /\ \A i \in 1..L : p[i] = p[i - 1] + f[i]
  BY <1>6, <1>7, PrefixSumsStep
<1>9. p[1] = p[0] + f[1] /\ (L >= 2 => p[2] = p[1] + f[2])
      /\ (L >= 3 => p[3] = p[2] + f[3]) /\ (L = 4 => p[4] = p[3] + f[4])
  <2>1. p[1] = p[1 - 1] + f[1]
    BY <1>8
  <2>2. L >= 2 => p[2] = p[2 - 1] + f[2]
    BY <1>8
  <2>3. L >= 3 => p[3] = p[3 - 1] + f[3]
    BY <1>8
  <2>4. L = 4 => p[4] = p[4 - 1] + f[4]
    BY <1>8
  <2> QED BY <2>1, <2>2, <2>3, <2>4
<1>10. p[L] = h
  <2>1. CASE L = 1
    BY <1>1, <1>5, <1>8, <1>9, <2>1
  <2>2. CASE L = 2
    BY <1>1, <1>5, <1>8, <1>9, <2>2
  <2>3. CASE L = 3
    BY <1>1, <1>5, <1>8, <1>9, <2>3
  <2>4. CASE L = 4
    BY <1>1, <1>5, <1>8, <1>9, <2>4
  <2> QED BY <2>1, <2>2, <2>3, <2>4
<1> QED BY <1>3, <1>6, <1>7, <1>10 DEF Total

-----------------------------------------------------------------------------
\* What the code may rely on of a template.
LEMMA TemplateFacts ==
  ASSUME NEW t \in Templates
  PROVE  /\ t.height \in Nat /\ t.height <= LastHeight
         /\ t.txs \in Nat /\ 1 + t.txs < Weight[4]
         /\ t.aux \in Nat /\ t.tag \in Nat
         /\ t.prev \in Seq(Nat) /\ Len(t.prev) % 4 = 0
<1> QED BY BlockAssumption DEF IsTemplate

\* A run of the same byte.
LEMMA RunIsListed ==
  ASSUME NEW x, NEW n \in Nat PROVE Listed(Run(x, n), n) /\ \A i \in 1..n : Run(x, n)[i] = x
<1> QED BY DEF Run, Listed

\* The tag has 20 bytes at most.
LEMMA TagFits ==
  ASSUME NEW length \in Nat, NEW others \in Nat PROVE TagLength(length, others) \in 0..20
<1> QED BY DEF TagLength

\* The commitment to the aux chains has 44 bytes, the root after the magic.
Commits(a, size, n) ==
  /\ size \in {0, 44} /\ Listed(a, size)
  /\ n # 0 => size = 44 /\ a[1] = "magic" /\ a[5] = MerkleRoot(AuxHashes(n), n)

\* It is that long for any number of chains, and has none for none.
LEMMA CommitmentIsListed ==
  ASSUME NEW n \in Nat PROVE \E size : Commits(AuxCommitment(n), size, n)
<1>1. CASE n = 0
  <2>1. AuxCommitment(n) = << >>
    BY <1>1 DEF AuxCommitment
  <2>2. Listed(<< >>, 0)
    BY DEF Listed
  <2> QED BY <1>1, <2>1, <2>2 DEF Commits
<1>2. CASE n # 0
  <2>r. PICK root : root = MerkleRoot(AuxHashes(n), n)
    OBVIOUS
  <2>1. PICK r1, r2, r3, r4, r5, r6 :
          /\ r1 = Run("magic", 4) /\ IsOne(r2, root) /\ r3 = Run("of the root", 31)
          /\ r4 = Bytes(n, 3) /\ IsOne(r5, 0) /\ r6 = Run(0, 4)
    BY DEF IsOne
  <2>n. PICK n1 \in Nat, n2 \in Nat, n3 \in Nat, n4 \in Nat :
          n1 = 4 /\ n2 = 1 /\ n3 = 31 /\ n4 = 3
    OBVIOUS
  <2>2. /\ n1 \in Nat /\ n2 \in Nat /\ n3 \in Nat /\ n4 \in Nat /\ n1 + n2 \in Nat
        /\ (n1 + n2) + n3 \in Nat /\ ((n1 + n2) + n3) + n4 \in Nat
        /\ (((n1 + n2) + n3) + n4) + n2 \in Nat
        /\ ((((n1 + n2) + n3) + n4) + n2) + n1 = 44
    BY <2>n
  <2>3. /\ Listed(r1, n1) /\ Listed(r2, n2) /\ Listed(r3, n3)
        /\ Listed(r4, n4) /\ Listed(r5, n2) /\ Listed(r6, n1)
    <3>1. Listed(r1, n1) /\ Listed(r3, n3) /\ Listed(r6, n1)
      BY <2>1, <2>n, RunIsListed
    <3>2. Listed(r2, n2) /\ Listed(r5, n2)
      BY <2>1, <2>n, ListedOne
    <3>3. Listed(r4, n4)
      <4>1. Listed(Bytes(n, n4), n4)
        BY <2>n, BytesListed
      <4> QED BY <2>1, <2>n, <4>1
    <3> QED BY <3>1, <3>2, <3>3
  <2>4. PICK a2 : Joins(a2, r1, r2)
    BY DEF Joins
  <2>5. PICK a3 : Joins(a3, a2, r3)
    BY DEF Joins
  <2>6. PICK a4 : Joins(a4, a3, r4)
    BY DEF Joins
  <2>7. PICK a5 : Joins(a5, a4, r5)
    BY DEF Joins
  <2>8. PICK a6 : Joins(a6, a5, r6)
    BY DEF Joins
  <2>9. AuxCommitment(n) = a6
    BY <1>2, <2>r, <2>1, <2>4, <2>5, <2>6, <2>7, <2>8 DEF AuxCommitment, Joins, IsOne
  <2>12. Joined(a2, r1, n1, r2, n2)
    BY <2>2, <2>3, <2>4, ListedConcat
  <2>13. Joined(a3, a2, n1 + n2, r3, n3)
    <3>1. Listed(a2, n1 + n2)
      BY <2>12 DEF Joined
    <3> QED BY <2>2, <2>3, <2>5, <3>1, ListedConcat
  <2>14. Joined(a4, a3, (n1 + n2) + n3, r4, n4)
    <3>1. Listed(a3, (n1 + n2) + n3)
      BY <2>13 DEF Joined
    <3> QED BY <2>2, <2>3, <2>6, <3>1, ListedConcat
  <2>15. Joined(a5, a4, ((n1 + n2) + n3) + n4, r5, n2)
    <3>1. Listed(a4, ((n1 + n2) + n3) + n4)
      BY <2>14 DEF Joined
    <3> QED BY <2>2, <2>3, <2>7, <3>1, ListedConcat
  <2>16. Joined(a6, a5, (((n1 + n2) + n3) + n4) + n2, r6, n1)
    <3>1. Listed(a5, (((n1 + n2) + n3) + n4) + n2)
      BY <2>15 DEF Joined
    <3> QED BY <2>2, <2>3, <2>8, <3>1, ListedConcat
  <2>17. Listed(a6, 44)
    BY <2>2, <2>16 DEF Joined
  <2>18. ASSUME NEW i \in 1..5 PROVE a6[i] = a2[i]
    <3>1. /\ i \in 1..(n1 + n2) /\ i \in 1..((n1 + n2) + n3) /\ i \in 1..(((n1 + n2) + n3) + n4)
          /\ i \in 1..((((n1 + n2) + n3) + n4) + n2)
      BY <2>n
    <3>2. a3[i] = a2[i]
      BY <2>13, <3>1 DEF Joined
    <3>3. a4[i] = a3[i]
      BY <2>14, <3>1 DEF Joined
    <3>4. a5[i] = a4[i]
      BY <2>15, <3>1 DEF Joined
    <3>5. a6[i] = a5[i]
      BY <2>16, <3>1 DEF Joined
    <3> QED BY <3>2, <3>3, <3>4, <3>5
  <2>19. a2[1] = "magic" /\ a2[5] = root
    <3>1. 1 \in 1..n1 /\ 1 \in 1..n2 /\ n1 + 1 = 5
      BY <2>n
    <3>2. a2[1] = r1[1] /\ a2[n1 + 1] = r2[1]
      BY <2>12, <3>1 DEF Joined
    <3>3. r1[1] = "magic"
      <4>1. \A i \in 1..n1 : Run("magic", n1)[i] = "magic"
        BY <2>2, RunIsListed
      <4> QED BY <2>1, <2>n, <3>1, <4>1
    <3>4. r2[1] = root
      BY <2>1, ListedOne
    <3> QED BY <3>1, <3>2, <3>3, <3>4
  <2>20. a6[1] = "magic" /\ a6[5] = root
    BY <2>18, <2>19
  <2> QED BY <2>r, <2>9, <2>17, <2>20 DEF Commits
<1> QED BY <1>1, <1>2

\* What a node finds in the script of a coinbase for t.
Laid(script, size, t) ==
  /\ size \in 2..100 /\ Listed(script, size)
  /\ ReadHeight(script) = t.height
  /\ t.aux # 0 => /\ script[size - 43] = "magic"
                  /\ script[size - 39] = MerkleRoot(AuxHashes(t.aux), t.aux)

\* The script of the job's coinbase is laid out so around the extranonce.
LEMMA ScriptIsLaid ==
  ASSUME NEW t \in Templates, NEW parts, parts = CoinbaseParts(t),
         NEW script, script = parts.part1 \o Extranonce \o parts.part2
  PROVE  \E size : Laid(script, size, t) /\ parts.declared = size
<1>1. PICK h \in Nat, n \in Nat, w \in Nat : h = t.height /\ h <= LastHeight /\ n = t.aux /\ w = t.tag
  BY TemplateFacts
<1>2. PICK d : \E L \in 1..4 : Written(d, L, h)
  BY <1>1, HeightIsWritten
<1>2a. PICK L \in 1..4 : Written(d, L, h)
  BY <1>2
<1>3. /\ d = EncodeHeight(h) /\ Listed(d, L + 1)
      /\ \E u, v, x, y \in 0..255 : Pushes(d, L, h, u, v, x, y)
  BY <1>2a DEF Written
<1>4. PICK u, v, x, s \in 0..255 : Pushes(d, L, h, u, v, x, s)
  BY <1>3
<1>5. PICK a, c : a = AuxCommitment(n) /\ Commits(a, c, n)
  BY <1>1, CommitmentIsListed
<1>6. c \in {0, 44} /\ c \in Nat /\ Listed(a, c)
      /\ (n # 0 => c = 44 /\ a[1] = "magic" /\ a[5] = MerkleRoot(AuxHashes(n), n))
  BY <1>5 DEF Commits
<1>7. PICK m \in Nat : m = L + 1 /\ m \in 2..5
  OBVIOUS
<1>8. PICK e \in Nat : e = ExtranonceLength /\ e = 12
  BY DEF ExtranonceLength
<1>9. Len(d) = m /\ Len(a) = c
  BY <1>3, <1>6, <1>7, ListedIsSeq
<1>10. PICK g \in Nat : g = TagLength(w, m + e + c) /\ g <= 20
  <2>1. m + e + c \in Nat
    BY <1>6, <1>7, <1>8
  <2>2. TagLength(w, m + e + c) \in 0..20
    BY <1>1, <2>1, TagFits
  <2> QED BY <2>2
<1>11. PICK r, x1 : r = Run("tag", g) /\ x1 = Extranonce
  OBVIOUS
<1>12. Listed(d, m) /\ Listed(r, g) /\ Listed(x1, e) /\ g \in Nat
  <2>1. Listed(d, m)
    BY <1>3, <1>7
  <2>2. g \in Nat
    BY <1>10
  <2>3. Listed(r, g)
    BY <1>11, <2>2, RunIsListed
  <2>4. Listed(x1, e)
    BY <1>8, <1>11, RunIsListed DEF Extranonce
  <2> QED BY <2>1, <2>2, <2>3, <2>4
<1>13. PICK q : Joins(q, d, r)
  BY DEF Joins
<1>14. PICK y : Joins(y, q, x1)
  BY DEF Joins
<1>15. PICK z : Joins(z, y, a)
  BY DEF Joins
<1>16. /\ parts.part1 = d \o r /\ parts.part2 = a /\ parts.declared = m + g + e + c
  <2>1. EncodeHeight(t.height) = d /\ AuxCommitment(t.aux) = a
        /\ TagLength(t.tag, Len(d) + ExtranonceLength + Len(a)) = g
    BY <1>1, <1>3, <1>5, <1>8, <1>9, <1>10
  <2>2. /\ parts.part1 = d \o Run("tag", g) /\ parts.part2 = a
        /\ parts.declared = Len(d) + g + ExtranonceLength + Len(a)
    BY <2>1 DEF CoinbaseParts
  <2> QED BY <1>8, <1>9, <1>11, <2>2
<1>17. z = script
  BY <1>11, <1>13, <1>14, <1>15, <1>16 DEF Joins
<1>18. PICK o1, o2, o3 \in Nat : o1 = m + g /\ o2 = o1 + e /\ o3 = o2 + c
  BY <1>6, <1>7, <1>8, <1>12
<1>19. Joined(q, d, m, r, g)
  BY <1>7, <1>12, <1>13, ListedConcat
<1>20. Joined(y, q, o1, x1, e)
  <2>1. Listed(q, o1)
    BY <1>18, <1>19 DEF Joined
  <2> QED BY <1>8, <1>12, <1>14, <1>18, <2>1, ListedConcat
<1>21. Joined(z, y, o2, a, c)
  <2>1. Listed(y, o2)
    BY <1>18, <1>20 DEF Joined
  <2> QED BY <1>6, <1>15, <1>18, <2>1, ListedConcat
<1>22. Listed(z, o3)
  BY <1>18, <1>21 DEF Joined
<1>23. o3 \in 2..100 /\ m + g + e + c = o3
  <2>1. c \in Nat /\ c <= 44
    BY <1>6
  <2>2. m \in Nat /\ 2 <= m /\ m <= 5 /\ g \in Nat /\ g <= 20 /\ e = 12
    BY <1>7, <1>8, <1>10
  <2>3. m + g + e + c = o3
    BY <1>18, <2>1, <2>2
  <2>4. o3 \in Nat /\ 2 <= o3 /\ o3 <= 100
    BY <2>1, <2>2, <2>3
  <2> QED BY <2>3, <2>4
<1>24. ReadHeight(z) = h
  <2>1. ASSUME NEW i \in 1..(L + 1) PROVE z[i] = d[i]
    <3>1. i \in 1..m /\ i \in 1..o1 /\ i \in 1..o2
      BY <1>7, <1>8, <1>12, <1>18
    <3>2. q[i] = d[i]
      BY <1>19, <3>1 DEF Joined
    <3>3. y[i] = q[i]
      BY <1>20, <3>1 DEF Joined
    <3>4. z[i] = y[i]
      BY <1>21, <3>1 DEF Joined
    <3> QED BY <3>2, <3>3, <3>4
  <2>2. Begins(z, d, L + 1)
    BY <2>1 DEF Begins
  <2> QED BY <1>4, <2>2, HeightIsRead
<1>25. ASSUME n # 0
       PROVE  z[o3 - 43] = "magic" /\ z[o3 - 39] = MerkleRoot(AuxHashes(n), n)
  <2>1. c = 44 /\ a[1] = "magic" /\ a[5] = MerkleRoot(AuxHashes(n), n)
    BY <1>6, <1>25
  <2>2. 1 \in 1..c /\ 5 \in 1..c /\ o2 + 1 = o3 - 43 /\ o2 + 5 = o3 - 39
    BY <1>18, <2>1
  <2>3. z[o2 + 1] = a[1] /\ z[o2 + 5] = a[5]
    BY <1>21, <2>2 DEF Joined
  <2> QED BY <2>1, <2>2, <2>3
<1>26. Laid(z, o3, t)
  BY <1>1, <1>22, <1>23, <1>24, <1>25 DEF Laid
<1> QED BY <1>16, <1>17, <1>23, <1>26

-----------------------------------------------------------------------------
\* What follows from what, from the template to the block.
Found(found, job) ==
  \E roll \in RollSets, hash \in HashesMined, reversed \in BOOLEAN :
    found = Solution(job, roll, hash, reversed)

BlockFollows ==
  /\ tmpl \in Templates
  /\ sent = None \/ sent = Job(tmpl)
  /\ mined = None \/ (sent = Job(tmpl) /\ Found(mined, sent))
  /\ checked = None \/ (mined # None /\ checked = Judged(tmpl, sent, mined))
  /\ \/ block = None
     \/ checked # None /\ checked.block /\ block = Assembled(tmpl, sent, mined, checked.header)

\* Every step keeps it so.
LEMMA BlockFollowsStep == BlockFollows /\ [BlockNext]_blockVars => BlockFollows'
<1> SUFFICES ASSUME BlockFollows, [BlockNext]_blockVars PROVE BlockFollows'
  OBVIOUS
<1>1. CASE BuildJob
  BY <1>1 DEF BlockFollows, BuildJob
<1>2. CASE \E roll \in RollSets, hash \in HashesMined, reversed \in BOOLEAN :
             Mines(roll, hash, reversed)
  <2>1. PICK roll \in RollSets, hash \in HashesMined, reversed \in BOOLEAN :
          Mines(roll, hash, reversed)
    BY <1>2
  <2>2. sent = Job(tmpl) /\ mined' = Solution(sent, roll, hash, reversed)
        /\ UNCHANGED <<tmpl, sent, checked, block>> /\ mined = None
    BY <2>1 DEF Mines, BlockFollows
  <2>3. Found(mined', sent)
    BY <2>2 DEF Found
  <2>4. checked = None /\ block = None
    BY <2>2 DEF BlockFollows
  <2> QED BY <2>2, <2>3, <2>4 DEF BlockFollows, Found
<1>3. CASE ValidateShare
  BY <1>3 DEF BlockFollows, ValidateShare, Found
<1>4. CASE AssembleBlock
  BY <1>4 DEF BlockFollows, AssembleBlock, Found
<1>5. CASE UNCHANGED blockVars
  BY <1>5 DEF BlockFollows, blockVars, Found
<1> QED BY <1>1, <1>2, <1>3, <1>4, <1>5 DEF BlockNext

LEMMA BlockFollowsInit == BlockInit => BlockFollows
<1> QED BY DEF BlockInit, BlockFollows

\* A verdict of low difficulty is for no block.
LEMMA BlockOf ==
  ASSUME NEW v, NEW x, NEW y, v = [of |-> x, block |-> y] PROVE v.block = y
<1> QED OBVIOUS

LEMMA LowDifficulty ==
  ASSUME NEW v, v = [of |-> "low difficulty", block |-> FALSE] PROVE ~v.block
<1>1. v.block = FALSE
  BY BlockOf, Zenon
<1> QED BY <1>1, Zenon

\* The header that is found good is one of those that are tried.
LEMMA HeaderIsTried ==
  ASSUME NEW t, NEW job, NEW found, NEW headers, headers = Candidates(t, job, found),
         NEW good, good = {i \in DOMAIN headers : Meets(found, headers[i], t.shareTarget)},
         NEW verdict, verdict = Judged(t, job, found)
  PROVE  /\ good = {} => ~verdict.block
         /\ good # {} => \E i \in good :
              verdict = [of |-> "share", header |-> headers[i],
                         block |-> Meets(found, headers[i], t.blockTarget)]
<1>1. CASE good = {}
  <2>1. verdict = [of |-> "low difficulty", block |-> FALSE]
    BY <1>1 DEF Judged
  <2>3. ~verdict.block
    BY <2>1, LowDifficulty
  <2> QED BY <1>1, <2>3
<1>2. CASE good # {}
  <2>1. good \in SUBSET Nat
    <3>1. DOMAIN headers \subseteq Nat
      BY DEF Candidates
    <3> QED BY <3>1
  <2>2. PICK x : x \in good /\ \A j \in good : x <= j
    BY <1>2, <2>1, LeastElement
  <2>3. PICK i : i = CHOOSE k \in good : \A j \in good : k <= j
    OBVIOUS
  <2>4. i \in good
    BY <2>2, <2>3
  <2>5. verdict = [of |-> "share", header |-> headers[i],
                   block |-> Meets(found, headers[i], t.blockTarget)]
    BY <1>2, <2>3 DEF Judged
  <2> QED BY <1>2, <2>4, <2>5
<1> QED BY <1>1, <1>2

\* A header that is tried says what the job says, to whoever reads the block.
LEMMA HeaderOfTheJob ==
  ASSUME NEW t \in Templates, t.server = "stratum", NEW job, job = Job(t),
         NEW roll, NEW hash, NEW reversed \in BOOLEAN,
         NEW found, found = Solution(job, roll, hash, reversed),
         NEW i \in DOMAIN Candidates(t, job, found),
         NEW header, header = Candidates(t, job, found)[i]
  PROVE  /\ header.prev = ReverseBytes(t.prev)
         /\ header.root = MerkleRoot(<<Coinbase(job, found.extranonce)>> \o Hashed(t.txs), 1 + t.txs)
<1>1. \E nonce : header = Header(job, found, nonce)
  BY DEF Candidates
<1>2. PICK nonce : header = Header(job, found, nonce)
  BY <1>1
<1>3. /\ header.prev = ReverseWords(job.prev)
      /\ header.root = Climb(Coinbase(job, found.extranonce), 0, job.branches)
  BY <1>2 DEF Header
<1>4. job.prev = ReverseWords(ReverseBytes(t.prev)) /\ job.branches = MerkleBranch(Hashed(t.txs), t.txs)
  BY DEF Job
<1>5. PICK n \in Nat, b \in {ReverseBytes(t.prev)} : b = ReverseBytes(t.prev) /\ n = Len(t.prev) /\ n % 4 = 0
  BY TemplateFacts, LenProperties
<1>6. Listed(b, n)
  BY <1>5 DEF Listed, ReverseBytes
<1>7. header.prev = b
  BY <1>3, <1>4, <1>5, <1>6, WordsTwice
<1>8. PICK m \in Nat, c \in {Coinbase(job, found.extranonce)}, s \in {Hashed(t.txs)} : c = Coinbase(job, found.extranonce) /\ s = Hashed(t.txs) /\ m = t.txs
  BY TemplateFacts
<1>9. Listed(s, m)
  BY <1>8 DEF Listed, Hashed
<1>10. Climb(c, 0, MerkleBranch(s, m)) = MerkleRoot(<<c>> \o s, 1 + m)
  BY <1>9, CoinbaseLeadsToRoot
<1> QED BY <1>3, <1>4, <1>5, <1>7, <1>8, <1>10

\* A block that there is was made of the job of its template.
LEMMA BlockIsOfItsJob ==
  ASSUME BlockFollows, block # None
  PROVE  /\ tmpl \in Templates /\ mined # None /\ sent = Job(tmpl) /\ Found(mined, sent)
         /\ checked # None /\ checked = Judged(tmpl, sent, mined) /\ checked.block
         /\ block = Assembled(tmpl, sent, mined, checked.header)
         /\ mined.extranonce = Extranonce /\ sent.parts = CoinbaseParts(tmpl)
         /\ block.coinbase = Coinbase(sent, Extranonce)
<1>1. /\ tmpl \in Templates /\ mined # None /\ sent = Job(tmpl) /\ Found(mined, sent)
      /\ checked # None /\ checked = Judged(tmpl, sent, mined) /\ checked.block
      /\ block = Assembled(tmpl, sent, mined, checked.header)
  BY DEF BlockFollows
<1>2. mined.extranonce = Extranonce
  <2>1. PICK roll, hash, reversed : mined = Solution(sent, roll, hash, reversed)
    BY <1>1 DEF Found
  <2> QED BY <2>1 DEF Solution
<1>3. sent.parts = CoinbaseParts(tmpl)
  BY <1>1 DEF Job
<1>4. block.coinbase = Coinbase(sent, mined.extranonce)
  BY <1>1 DEF Assembled
<1> QED BY <1>1, <1>2, <1>3, <1>4

\* The script ends with the commitment, and each branch leads to its root.
LEMMA FollowsVerify == BlockFollows => ProofsVerify
<1> SUFFICES ASSUME BlockFollows,
                    NEW i \in DOMAIN (IF block = None THEN <<>> ELSE block.proofs)
             PROVE  /\ block.coinbase.script[Len(block.coinbase.script) - 43] = "magic"
                    /\ block.coinbase.script[Len(block.coinbase.script) - 43 + 4] =
                         Climb(block.proofs[i].hash, block.proofs[i].place, block.proofs[i].branch)
  BY DEF ProofsVerify
<1>1. block # None /\ i \in DOMAIN block.proofs
  OBVIOUS
<1>2. /\ tmpl \in Templates /\ sent.parts = CoinbaseParts(tmpl)
      /\ block = Assembled(tmpl, sent, mined, checked.header)
      /\ block.coinbase = Coinbase(sent, Extranonce)
  BY <1>1, BlockIsOfItsJob
<1>3. block.proofs = IF tmpl.server = "quai" THEN <<>> ELSE AuxProofs(tmpl.aux)
  BY <1>2 DEF Assembled
<1>4. block.proofs = AuxProofs(tmpl.aux)
  BY <1>1, <1>3
<1>5. PICK n \in Nat : n = tmpl.aux
  BY <1>2, TemplateFacts
<1>6. i \in 1..n /\ block.proofs[i] = [hash |-> AuxHash(i), place |-> i - 1,
                                       branch |-> AuxBranch(AuxHashes(n), n, i - 1)]
  BY <1>1, <1>4, <1>5 DEF AuxProofs
<1>7. Climb(AuxHash(i), i - 1, AuxBranch(AuxHashes(n), n, i - 1)) = MerkleRoot(AuxHashes(n), n)
  <2>1. PICK p \in 0..(n - 1) : p = i - 1 /\ p + 1 = i
    BY <1>6
  <2>2. PICK s : s = AuxHashes(n)
    OBVIOUS
  <2>3. s[p + 1] = AuxHash(i)
    BY <1>6, <2>1, <2>2 DEF AuxHashes
  <2>4. n \in Nat \ {0}
    BY <1>6
  <2>5. Climb(s[p + 1], p, AuxBranch(s, n, p)) = MerkleRoot(s, n)
    BY <2>1, <2>4, BranchLeadsToRoot
  <2> QED BY <2>1, <2>2, <2>3, <2>5
<1>8. PICK script : script = block.coinbase.script
  OBVIOUS
<1>9. script = sent.parts.part1 \o Extranonce \o sent.parts.part2
  <2>1. Coinbase(sent, Extranonce).script = sent.parts.part1 \o Extranonce \o sent.parts.part2
    BY DEF Coinbase
  <2> QED BY <1>2, <1>8, <2>1
<1>10. PICK size : Laid(script, size, tmpl)
  BY <1>2, <1>9, ScriptIsLaid
<1>11. n # 0
  BY <1>6
<1>12. /\ size \in Nat /\ Listed(script, size)
       /\ script[size - 43] = "magic" /\ script[size - 39] = MerkleRoot(AuxHashes(n), n)
  BY <1>5, <1>10, <1>11 DEF Laid
<1>13. Len(script) = size /\ size - 43 + 4 = size - 39
  BY <1>12, ListedIsSeq
<1> QED BY <1>6, <1>7, <1>8, <1>12, <1>13

\* Each aux chain finds its work at the root that the coinbase commits to.
THEOREM AuxProofsAreFound == BlockSpec => []ProofsVerify
<1> QED BY FollowsVerify, BlockFollowsInit, BlockFollowsStep, PTL DEF BlockSpec

\* What the miner has found is one of the headers that the server tries.
LEMMA MinedIsTried ==
  ASSUME NEW t \in Templates, t.server = "stratum", t.version \intersect RollMask = {},
         NEW job, job = Job(t), NEW roll, NEW hash, NEW reversed \in BOOLEAN,
         NEW found, found = Solution(job, roll, hash, reversed),
         NEW headers, headers = Candidates(t, job, found)
  PROVE  \E i \in DOMAIN headers : headers[i] = found.header
<1>1. headers = <<Header(job, found, found.nonce), Header(job, found, ReverseBytes(found.nonce))>>
  BY DEF Candidates
<1>2. DOMAIN headers = 1..2 /\ headers[1] = Header(job, found, found.nonce)
      /\ headers[2] = Header(job, found, ReverseBytes(found.nonce))
  BY <1>1
<1>3. ReverseBytes(ReverseBytes(Nonce)) = Nonce
  BY DEF ReverseBytes, Nonce
<1>4. ASSUME NEW nonce, nonce = Nonce PROVE Header(job, found, nonce) = found.header
  <2>1. job.version = t.version
    BY DEF Job
  <2>2. (t.version \ RollMask) \union roll = t.version \union roll
    OBVIOUS
  <2>3. found.roll = roll /\ found.extranonce = Extranonce
        /\ found.header =
             [version |-> (job.version \ RollMask) \union roll, prev |-> ReverseWords(job.prev),
              root |-> Climb(Coinbase(job, Extranonce), 0, job.branches),
              time |-> ReverseBytes(Time), bits |-> ReverseBytes(NBits), nonce |-> Nonce]
    BY DEF Solution
  <2> QED BY <1>4, <2>1, <2>2, <2>3 DEF Header
<1>5. CASE reversed
  <2>1. found.nonce = Nonce
    BY <1>5 DEF Solution
  <2> QED BY <1>2, <1>4, <2>1
<1>6. CASE ~reversed
  <2>1. found.nonce = ReverseBytes(Nonce)
    BY <1>6 DEF Solution
  <2>2. ReverseBytes(found.nonce) = Nonce
    BY <1>3, <2>1
  <2> QED BY <1>2, <1>4, <2>2
<1> QED BY <1>5, <1>6

\* The fields of a coinbase.
LEMMA CoinbaseFields ==
  ASSUME NEW job, NEW x, NEW c, c = Coinbase(job, x)
  PROVE  /\ c.script = job.parts.part1 \o x \o job.parts.part2
         /\ c.declared = job.parts.declared
         /\ c.outputs = job.parts.outputs /\ c.scripts = job.parts.scripts
<1> QED BY DEF Coinbase

\* The outputs: the wallet's script, and k commitments to the witnesses.
Outputs(t, parts, pays, witness, k) ==
  /\ k \in Nat /\ Listed(witness, k) /\ (IF t.witness = "none" THEN k = 0 ELSE k = 1)
  /\ t.wallet = "valid" => pays = <<"script of the wallet">>
  /\ parts.outputs = 1 + k /\ parts.scripts = <<pays>> \o witness

\* Those of the job are as many as it says.
LEMMA OutputsListed ==
  ASSUME NEW t, NEW parts, parts = CoinbaseParts(t)
  PROVE  \E pays, witness, k : Outputs(t, parts, pays, witness, k)
<1>1. PICK pays : pays = IF t.wallet = "valid" THEN <<"script of the wallet">> ELSE <<"OP_RETURN">>
  OBVIOUS
<1>2. PICK witness : witness = IF t.witness = "none" THEN <<>> ELSE << <<"header", "commitment">> >>
  OBVIOUS
<1>3. parts.outputs = 1 + Len(witness) /\ parts.scripts = <<pays>> \o witness
  BY <1>1, <1>2 DEF CoinbaseParts
<1>4. CASE t.witness = "none"
  <2>1. Listed(witness, 0) /\ Len(witness) = 0
    BY <1>2, <1>4 DEF Listed
  <2>2. Outputs(t, parts, pays, witness, 0)
    BY <1>1, <1>3, <1>4, <2>1 DEF Outputs
  <2> QED BY <2>2
<1>5. CASE t.witness # "none"
  <2>1. Listed(witness, 1) /\ Len(witness) = 1
    BY <1>2, <1>5 DEF Listed
  <2>2. Outputs(t, parts, pays, witness, 1)
    BY <1>1, <1>3, <1>5, <2>1 DEF Outputs
  <2> QED BY <2>2
<1> QED BY <1>4, <1>5

\* Of what follows from the template, a node reads what the template said.
LEMMA FollowsArrive == BlockFollows => BlocksArriveWhole
<1> SUFFICES ASSUME BlockFollows, tmpl.server = "stratum"
             PROVE  GoodSharesPass /\ (block # None => FitsItsParent /\ CoinbaseIsRead)
  BY DEF BlocksArriveWhole
<1>1. GoodSharesPass
  <2> SUFFICES ASSUME checked # None, mined.hash <= tmpl.shareTarget,
                      tmpl.version \intersect RollMask = {}
               PROVE  checked = [of |-> "share", header |-> mined.header,
                                 block |-> mined.hash <= tmpl.blockTarget]
    BY DEF GoodSharesPass
  <2>1. /\ tmpl \in Templates /\ sent = Job(tmpl) /\ Found(mined, sent)
        /\ checked = Judged(tmpl, sent, mined)
    BY DEF BlockFollows
  <2>2. PICK roll \in RollSets, hash \in HashesMined, reversed \in BOOLEAN :
          mined = Solution(sent, roll, hash, reversed)
    BY <2>1 DEF Found
  <2>3. PICK headers : headers = Candidates(tmpl, sent, mined)
    OBVIOUS
  <2>4. PICK j \in DOMAIN headers : headers[j] = mined.header
    BY <2>1, <2>2, <2>3, MinedIsTried
  <2>5. PICK good : good = {i \in DOMAIN headers : Meets(mined, headers[i], tmpl.shareTarget)}
    OBVIOUS
  <2>6. j \in good
    BY <2>4, <2>5 DEF Meets
  <2>7. PICK i \in good :
          checked = [of |-> "share", header |-> headers[i],
                     block |-> Meets(mined, headers[i], tmpl.blockTarget)]
    BY <2>1, <2>3, <2>5, <2>6, HeaderIsTried
  <2>8. headers[i] = mined.header
    BY <2>5, <2>7 DEF Meets
  <2>9. Meets(mined, headers[i], tmpl.blockTarget) = (mined.hash <= tmpl.blockTarget)
    BY <2>8 DEF Meets
  <2> QED BY <2>7, <2>8, <2>9
<1>2. ASSUME block # None PROVE FitsItsParent /\ CoinbaseIsRead
  <2>1. /\ tmpl \in Templates /\ mined # None /\ sent = Job(tmpl) /\ Found(mined, sent)
        /\ checked # None /\ checked = Judged(tmpl, sent, mined) /\ checked.block
        /\ block = Assembled(tmpl, sent, mined, checked.header)
        /\ mined.extranonce = Extranonce /\ sent.parts = CoinbaseParts(tmpl)
        /\ block.coinbase = Coinbase(sent, Extranonce)
    BY <1>2, BlockIsOfItsJob
  <2>2. PICK roll \in RollSets, hash \in HashesMined, reversed \in BOOLEAN :
          mined = Solution(sent, roll, hash, reversed)
    BY <2>1 DEF Found
  <2>3. PICK headers : headers = Candidates(tmpl, sent, mined)
    OBVIOUS
  <2>4. PICK i \in DOMAIN headers : checked.header = headers[i]
    <3>1. PICK good : good = {i \in DOMAIN headers : Meets(mined, headers[i], tmpl.shareTarget)}
      OBVIOUS
    <3>2. good # {}
      BY <2>1, <2>3, <3>1, HeaderIsTried
    <3>3. PICK i \in good :
            checked = [of |-> "share", header |-> headers[i],
                       block |-> Meets(mined, headers[i], tmpl.blockTarget)]
      BY <2>1, <2>3, <3>1, <3>2, HeaderIsTried
    <3>4. checked.header = headers[i] /\ i \in DOMAIN headers
      BY <3>1, <3>3
    <3> QED BY <3>4
  <2>5. /\ checked.header.prev = ReverseBytes(tmpl.prev)
        /\ checked.header.root =
             MerkleRoot(<<Coinbase(sent, mined.extranonce)>> \o Hashed(tmpl.txs), 1 + tmpl.txs)
    BY <2>1, <2>2, <2>3, <2>4, HeaderOfTheJob
  <2>6. /\ block.header = checked.header /\ block.count = VarInt(1 + tmpl.txs)
        /\ block.others = [k \in 1..tmpl.txs |-> ShownId(k)]
    BY <2>1 DEF Assembled
  <2>7. FitsItsParent
    <3>0. PICK n \in Nat : n = tmpl.txs /\ 1 + n < Weight[4]
      BY <2>1, TemplateFacts
    <3>1. PICK m \in Nat : n = tmpl.txs /\ m = 1 + n /\ m < Weight[4] /\ n \in Nat
      BY <3>0
    <3>2. ReadVarInt(VarInt(m)) = m
      BY <3>1, CountIsRead
    <3>3. Len(block.others) = n
      <4>1. Listed(block.others, n)
        BY <2>6, <3>1 DEF Listed
      <4> QED BY <3>1, <4>1, ListedIsSeq
    <3> QED BY <2>1, <2>5, <2>6, <3>1, <3>2, <3>3 DEF FitsItsParent
  <2>8. CoinbaseIsRead
    <3>1. PICK c, parts, script :
            c = block.coinbase /\ parts = sent.parts /\ script = c.script
      OBVIOUS
    <3>2. /\ script = parts.part1 \o Extranonce \o parts.part2 /\ c.declared = parts.declared
          /\ c.outputs = parts.outputs /\ c.scripts = parts.scripts
      <4>1. c = Coinbase(sent, Extranonce)
        BY <2>1, <3>1
      <4>2. /\ c.script = sent.parts.part1 \o Extranonce \o sent.parts.part2
            /\ c.declared = sent.parts.declared
            /\ c.outputs = sent.parts.outputs /\ c.scripts = sent.parts.scripts
        BY <4>1, CoinbaseFields
      <4> QED BY <3>1, <4>2
    <3>p. parts = CoinbaseParts(tmpl) /\ tmpl \in Templates
      BY <2>1, <3>1
    <3>3. PICK size : Laid(script, size, tmpl) /\ parts.declared = size
      <4>1. script = parts.part1 \o Extranonce \o parts.part2
        BY <3>2
      <4> QED BY <3>p, <4>1, ScriptIsLaid
    <3>4. size \in 2..100 /\ Listed(script, size) /\ ReadHeight(script) = tmpl.height
      BY <3>3 DEF Laid
    <3>5. Len(script) = size
      BY <3>4, ListedIsSeq
    <3>6. PICK pays, witness, k : Outputs(tmpl, parts, pays, witness, k)
      BY <3>p, OutputsListed
    <3>7. /\ k \in Nat /\ Listed(witness, k) /\ (IF tmpl.witness = "none" THEN k = 0 ELSE k = 1)
          /\ tmpl.wallet = "valid" => pays = <<"script of the wallet">>
          /\ parts.outputs = 1 + k /\ parts.scripts = <<pays>> \o witness
      BY <3>6 DEF Outputs
    <3>9. PICK o : IsOne(o, pays)
      BY DEF IsOne
    <3>10. PICK d : Joins(d, o, witness)
      BY DEF Joins
    <3>11. Consed(d, pays, witness, k)
      BY <3>7, <3>9, <3>10, ListedCons
    <3>12. d = parts.scripts
      BY <3>7, <3>9, <3>10 DEF IsOne, Joins
    <3>13. Len(d) = k + 1 /\ d[1] = pays
      BY <3>11 DEF Consed
    <3>14. tmpl.wallet = "valid" => c.scripts[1] = <<"script of the wallet">>
      BY <3>2, <3>7, <3>12, <3>13
    <3>15. c.outputs = 1 + k /\ Len(c.scripts) = k + 1
      BY <3>2, <3>7, <3>12, <3>13
    <3>k. k \in Nat /\ (IF tmpl.witness = "none" THEN k = 0 ELSE k = 1)
      BY <3>7
    <3>s. PICK sum \in Nat : sum = 1 + k /\ sum = k + 1
      BY <3>k
    <3>16. c.outputs = sum /\ Len(c.scripts) = sum
      BY <3>s, <3>15
    <3>17. (tmpl.witness # "none") <=> (sum = 2)
      BY <3>k, <3>s
    <3>18. (tmpl.witness # "none") = (c.outputs = 2)
      BY <3>16, <3>17
    <3> QED BY <3>1, <3>2, <3>3, <3>4, <3>5, <3>14, <3>16, <3>18 DEF CoinbaseIsRead
  <2> QED BY <2>7, <2>8
<1> QED BY <1>1, <1>2

\* What the miner finds passes for what it is, and arrives as a block to the node.
THEOREM BlocksAreReadWhole == BlockSpec => []BlocksArriveWhole
<1> QED BY FollowsArrive, BlockFollowsInit, BlockFollowsStep, PTL DEF BlockSpec

\* The template, the job, the work, the verdict and the block have their types.
THEOREM BlockTypes == BlockSpec => []BlockTypeOK
<1>1. BlockFollows => BlockTypeOK
  <2> SUFFICES ASSUME BlockFollows PROVE BlockTypeOK
    OBVIOUS
  <2>1. tmpl \in Templates /\ tmpl.server \in {"stratum", "quai"}
    BY BlockAssumption DEF BlockFollows, IsTemplate
  <2>2. sent.of \in {"none", tmpl.server} /\ (sent = Job(tmpl) => sent.of = tmpl.server)
    BY DEF BlockFollows, None, Job
  <2>3. mined.of \in {"none", sent.of} /\ (mined # None => sent.of = tmpl.server)
    BY <2>2 DEF BlockFollows, None, Found, Solution
  <2>4. checked.of \in {"none", "share", "low difficulty"}
    <3>1. CASE checked = None
      BY <3>1 DEF None
    <3>2. CASE checked = Judged(tmpl, sent, mined)
      <4>1. PICK headers, good : /\ headers = Candidates(tmpl, sent, mined)
                                /\ good = {i \in DOMAIN headers : Meets(mined, headers[i], tmpl.shareTarget)}
        OBVIOUS
      <4>2. CASE good = {}
        BY <3>2, <4>1, <4>2 DEF Judged
      <4>3. CASE good # {}
        <5>1. PICK i \in good :
                checked = [of |-> "share", header |-> headers[i],
                           block |-> Meets(mined, headers[i], tmpl.blockTarget)]
          BY <3>2, <4>1, <4>3, HeaderIsTried
        <5> QED BY <5>1
      <4> QED BY <4>2, <4>3
    <3> QED BY <3>1, <3>2 DEF BlockFollows
  <2>5. block.of \in {"none", sent.of}
    BY <2>3 DEF BlockFollows, None, Assembled
  <2> QED BY <2>1, <2>2, <2>3, <2>4, <2>5 DEF BlockTypeOK
<1> QED BY <1>1, BlockFollowsInit, BlockFollowsStep, PTL DEF BlockSpec
=============================================================================
