------------------------------- MODULE JobFeed -------------------------------
(***************************************************************************)
(* How work reaches the miners of one coin (stratum/server.go).  One       *)
(* goroutine asks the coin daemon for its best block, builds a job when it *)
(* has changed (a ticker of 2 s, or a ZMQ notification) and another one    *)
(* every 45 s (refresh), makes it current and queues it for broadcast.  A  *)
(* second goroutine takes jobs off the queue, copies the list of           *)
(* authorized workers and writes to one after the other.  Each connection  *)
(* has a goroutine of its own, which answers mining.authorize with the     *)
(* current job.  s.mu and w.mu are held for single steps only, so that the *)
(* three interleave between any two of the actions below.  A miner that no *)
(* longer reads blocks whoever writes to it: no write has a deadline.  A   *)
(* miner that hangs falls silent as well, so that the read deadline ends   *)
(* its connection; one that sends and never reads is left out.             *)
(*                                                                         *)
(* A block is its position in the order in which the daemon made blocks    *)
(* its best one, and a job is the block it builds on; 0 is none.  The      *)
(* window of recent jobs and the clean_jobs flag are in StaleKick.         *)
(***************************************************************************)
EXTENDS Integers, Sequences

CONSTANTS
  Workers,     \* connections
  QueueCap,    \* capacity of jobBroadcast
  MaxBlock     \* bound: blocks after the first

ASSUME JobFeedAssumption ==
  /\ QueueCap \in Nat \ {0}
  /\ MaxBlock \in Nat

VARIABLES
  tip,       \* the daemon's best block
  lastHash,  \* the poller's lastHash
  pc,        \* the poller: wait, build, enqueue
  current,   \* currentJob
  queue,     \* jobBroadcast
  sending,   \* the job the broadcaster has taken off the queue
  targets,   \* the workers of its copy it has still to write to
  writing,   \* the one of them it is writing to, if any
  at,        \* of each connection: gone, reading, flagged, replying
  open,      \* the connections not closed
  flag,      \* those with w.authorized
  stuck,     \* those whose miner no longer reads
  held,      \* the job handleAuthorize has read and not yet sent
  work,      \* the last job each worker was sent
  dropped,   \* for the properties: the current job found no room
  raced      \* and the workers that were sent an older job after it

poller == <<lastHash, pc, current>>
caster == <<queue, sending, targets, writing>>
session == <<at, open, flag, stuck, held>>
ghost == <<dropped, raced>>
vars == <<tip, poller, caster, session, work, ghost>>

Block == 1..(MaxBlock + 1)
NoJob == 0
Queued == {queue[i] : i \in DOMAIN queue}
-----------------------------------------------------------------------------
Init ==
  /\ tip = 1
  /\ lastHash = 0 /\ pc = "wait" /\ current = NoJob
  /\ queue = << >> /\ sending = NoJob /\ targets = {} /\ writing = {}
  /\ at = [w \in Workers |-> "gone"]
  /\ open = {} /\ flag = {} /\ stuck = {}
  /\ held = [w \in Workers |-> NoJob]
  /\ work = [w \in Workers |-> NoJob]
  /\ dropped = FALSE /\ raced = {}

\* The daemon has a new best block.
NewBlock ==
  /\ tip <= MaxBlock
  /\ tip' = tip + 1
  /\ UNCHANGED <<poller, caster, session, work, ghost>>

\* The ticker or a notification: the best block is not the last one seen.
\* While the daemon does not answer none of the poller's steps is taken.
SeesBlock ==
  /\ pc = "wait" /\ tip # lastHash
  /\ lastHash' = tip
  /\ pc' = "build"
  /\ UNCHANGED <<current, tip, caster, session, work, ghost>>

\* A slip: no refresh when the last block seen has its job already.
RefreshIfNew ==
  /\ pc = "wait" /\ lastHash # 0 /\ current < lastHash
  /\ \E w \in Workers : at[w] # "gone"
  /\ pc' = "build"
  /\ UNCHANGED <<lastHash, current, tip, caster, session, work, ghost>>

\* The refresh ticker.
Refresh ==
  /\ pc = "wait" /\ lastHash # 0
  /\ \E w \in Workers : at[w] # "gone"
  /\ pc' = "build"
  /\ UNCHANGED <<lastHash, current, tip, caster, session, work, ghost>>

\* buildJob, with a template of whatever is the best block now, and the
\* first half of broadcastJob.
Build ==
  /\ pc = "build"
  /\ current' = tip
  /\ pc' = "enqueue"
  /\ UNCHANGED <<lastHash, tip, caster, session, work, ghost>>

\* GetBlockTemplate fails: lastHash stays what it is.
BuildFails ==
  /\ pc = "build"
  /\ pc' = "wait"
  /\ UNCHANGED <<lastHash, current, tip, caster, session, work, ghost>>

\* The job goes to the queue; with no room it is dropped.
Enqueue ==
  /\ pc = "enqueue"
  /\ dropped' = (Len(queue) = QueueCap)
  /\ queue' = IF dropped' THEN queue ELSE Append(queue, current)
  /\ pc' = "wait"
  /\ UNCHANGED <<lastHash, current, sending, targets, writing, raced, tip,
                 session, work>>
-----------------------------------------------------------------------------
\* The broadcaster has job j to write to these, one after the other in no
\* particular order; when none is left it is done with it.
Writing(j, workers) ==
  /\ targets' = workers
  /\ writing' \in IF workers = {} THEN {{}} ELSE {{w} : w \in workers}
  /\ sending' = IF workers = {} THEN NoJob ELSE j

\* A slip: workers that are still being authorized are left out.
TakeJobReady ==
  /\ sending = NoJob /\ queue # << >>
  /\ queue' = Tail(queue)
  /\ Writing(Head(queue), {w \in flag : at[w] = "reading"})
  /\ UNCHANGED <<tip, poller, session, work, ghost>>

\* The broadcaster takes a job and copies the list of authorized workers.
TakeJob ==
  /\ sending = NoJob /\ queue # << >>
  /\ queue' = Tail(queue)
  /\ Writing(Head(queue), flag)
  /\ UNCHANGED <<tip, poller, session, work, ghost>>

\* Whether a write to w returns: with an error when the connection is closed.
Writes(w) == w \notin stuck \/ w \notin open

\* What w was sent last, after a write of job j to it.
Sent(w, j) == IF w \in open THEN [work EXCEPT ![w] = j] ELSE work

\* sendJob to the worker it is at; an error is only logged.
Deliver(w) ==
  /\ w \in writing /\ Writes(w)
  /\ work' = Sent(w, sending)
  /\ raced' = raced \ {w}
  /\ Writing(sending, targets \ {w})
  /\ UNCHANGED <<queue, tip, poller, session, dropped>>
-----------------------------------------------------------------------------
\* handleWorker registers a new connection; w stands for it once nothing is
\* meant for the one it stood for before.
Connect(w) ==
  /\ at[w] = "gone" /\ w \notin targets
  /\ at' = [at EXCEPT ![w] = "reading"]
  /\ open' = open \cup {w}
  /\ UNCHANGED <<flag, stuck, held, tip, poller, caster, work, ghost>>

\* handleAuthorize marks the worker authorized ...
Authorize(w) ==
  /\ at[w] = "reading" /\ w \in open \ stuck
  /\ flag' = flag \cup {w}
  /\ at' = [at EXCEPT ![w] = "flagged"]
  /\ UNCHANGED <<open, stuck, held, tip, poller, caster, work, ghost>>

\* ... reads the current job ...
ReadJob(w) ==
  /\ at[w] = "flagged"
  /\ held' = [held EXCEPT ![w] = current]
  /\ at' = [at EXCEPT ![w] = "replying"]
  /\ UNCHANGED <<open, flag, stuck, tip, poller, caster, work, ghost>>

\* ... and sends it, if there is one.
SendCurrent(w) ==
  /\ at[w] = "replying" /\ Writes(w)
  /\ IF held[w] = NoJob
       THEN UNCHANGED <<work, raced>>
       ELSE /\ work' = Sent(w, held[w])
            /\ raced' = IF held[w] = current THEN raced \ {w}
                                             ELSE raced \cup {w}
  /\ held' = [held EXCEPT ![w] = NoJob]
  /\ at' = [at EXCEPT ![w] = "reading"]
  /\ UNCHANGED <<open, flag, stuck, tip, poller, caster, dropped>>

\* The miner hangs: it sends and reads nothing more and the buffers fill up.
GetsStuck(w) ==
  /\ w \in open \ stuck /\ at[w] = "reading"
  /\ stuck' = stuck \cup {w}
  /\ UNCHANGED <<at, open, flag, held, tip, poller, caster, work, ghost>>

\* The miner hangs up, the server kicks it, or the read deadline passes.  The
\* handler notices in its next read.
HangUp(w) ==
  /\ w \in open /\ at[w] = "reading"
  /\ open' = open \ {w}
  /\ UNCHANGED <<at, flag, stuck, held, tip, poller, caster, work, ghost>>

\* The read fails; handleWorker removes the connection.  What the broadcaster
\* still means to write to it will fail.
Cleanup(w) ==
  /\ at[w] = "reading" /\ w \notin open
  /\ at' = [at EXCEPT ![w] = "gone"]
  /\ flag' = flag \ {w} /\ stuck' = stuck \ {w}
  /\ work' = [work EXCEPT ![w] = NoJob]
  /\ raced' = raced \ {w}
  /\ UNCHANGED <<open, held, tip, poller, caster, dropped>>

Next ==
  \/ NewBlock
  \/ SeesBlock \/ Refresh
  \/ Build \/ BuildFails \/ Enqueue
  \/ TakeJob
  \/ \E w \in Workers :
       \/ Deliver(w)
       \/ Connect(w) \/ Authorize(w) \/ ReadJob(w) \/ SendCurrent(w)
       \/ GetsStuck(w) \/ HangUp(w) \/ Cleanup(w)

Spec == Init /\ [][Next]_vars

\* The tickers keep firing and the daemon answers at last, goroutines run,
\* and the read deadline ends a connection that has fallen silent.  Nothing
\* is assumed of miners, blocks and failures.
Fairness ==
  /\ SF_vars(SeesBlock) /\ SF_vars(Refresh)
  /\ SF_vars(Build) /\ WF_vars(Enqueue)
  /\ WF_vars(TakeJob) /\ WF_vars(\E w \in Workers : Deliver(w))
  /\ \A w \in Workers :
       /\ WF_vars(ReadJob(w)) /\ WF_vars(SendCurrent(w))
       /\ WF_vars(w \in stuck /\ HangUp(w)) /\ WF_vars(Cleanup(w))

FairSpec == Spec /\ Fairness
-----------------------------------------------------------------------------
\* The fields of the server; the queue keeps its capacity, and a worker counts
\* as authorized only while its connection is registered.
TypeOK ==
  /\ tip \in Block
  /\ lastHash \in 0..tip /\ current \in 0..tip /\ sending \in 0..current
  /\ dropped \in BOOLEAN
  /\ pc \in {"wait", "build", "enqueue"}
  /\ queue \in Seq(Block) /\ Len(queue) <= QueueCap
  /\ at \in [Workers -> {"gone", "reading", "flagged", "replying"}]
  /\ \A w \in open \cup flag \cup stuck : at[w] # "gone"
  /\ held \in [Workers -> 0..current] /\ work \in [Workers -> 0..current]
  /\ raced \subseteq flag /\ writing \subseteq targets /\ targets \subseteq Workers

\* An authorized worker has work on the current block, or it is on its way,
\* whatever was published while the worker was being authorized.  The
\* exceptions are the two the code has: a full queue, and a worker that is
\* sent an older job by handleAuthorize after the broadcast of a newer one.
NoJobLost ==
  \A w \in flag \cap open :
    \/ current \in {NoJob, work[w], held[w]}
    \/ pc = "enqueue" \/ current \in Queued
    \/ sending = current /\ w \in targets
    \/ at[w] = "flagged"
    \/ dropped \/ w \in raced

\* Every authorized miner that still reads is sent work on the block the
\* daemon works on, or on a newer one, even if a call fails, a job is dropped,
\* a job overtakes another or another miner hangs.
EveryoneCatchesUp ==
  \A w \in Workers, b \in Block :
    (w \in flag \cap open /\ tip = b)
      ~> (w \notin open \/ w \in stuck \/ work[w] >= b)
=============================================================================
