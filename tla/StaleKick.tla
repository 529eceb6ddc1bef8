------------------------------ MODULE StaleKick ------------------------------
(***************************************************************************)
(* The window of recent jobs and the miners that ignore new ones           *)
(* (stratum/server.go).  Two goroutines install jobs: the poller, and the  *)
(* reader of the upstream pool while the node is down; each makes its job  *)
(* before it takes the lock.  handleSubmit judges a share by the window,   *)
(* counts stale shares per connection and disconnects at StaleKickCount;   *)
(* the poller disconnects at every new block whoever has a stale share     *)
(* since its last accepted one.  Kicks are counted per name and hour.      *)
(*                                                                         *)
(* Jobs are numbered as they are made, which is also the order of their    *)
(* CreatedAt.  Everything happens within one hour, so that no kick gets    *)
(* too old to count.  Lines that were read before a connection was closed  *)
(* are still handled after it.  A miner that comes back has a connection   *)
(* that the poller did not have on its list.                               *)
(***************************************************************************)
EXTENDS Integers, FiniteSets

CONSTANTS
  Miners,              \* connections that may be open at once
  Owner,               \* the worker name of each
  ExtranonceSub,       \* those whose miners take a new extranonce
  RecentMax,           \* recentJobsMax
  KickAt,              \* StaleKickCount
  RejectPct, RejectMin,\* AutoKickRejectPct, AutoKickMinShares; 0: never
  AlertAt,             \* threshold of recordStaleKick (3)
  MaxJobs,             \* bound: jobs made
  MaxSubmits,          \* bound: shares counted per connection
  MaxSessions          \* bound: connections opened

ASSUME StaleKickAssumption ==
  /\ ExtranonceSub \subseteq Miners
  /\ {RecentMax, KickAt, AlertAt} \subseteq Nat \ {0}
  /\ {RejectPct, RejectMin, MaxJobs, MaxSubmits, MaxSessions} \subseteq Nat

VARIABLES
  made,        \* jobs made so far
  building,    \* the poller's job: made, not yet installed; 0: none
  clean,       \* whether that job is for a new block
  notice,      \* a new block was broadcast: streaks are looked at next
  victims,     \* connections the poller is about to disconnect
  relaying,    \* the upstream reader's job, not yet installed; 0: none
  proxying,    \* the upstream proxy is active
  currentJob, recentJobs,
  line,        \* of each connection: gone, open, closed
  leaving,     \* connections whose own goroutine is about to end them
  streak,      \* staleJobStreak
  lastStale,   \* lastStaleJobID
  counts,      \* sharesAccepted, sharesRejected, sharesStale
  kickTimes,   \* per name, the kicks of this hour: workerKickTimes
  relayed,     \* for the properties: an upstream job was ever made
  run,         \* stale shares of the connection since its last accepted one
  kicked,      \* per name: connections closed for stale shares
  sessions,    \* connections opened so far
  alerted      \* names OnStaleKick was called for

jobs == <<made, building, clean, notice, relaying, proxying, currentJob,
          recentJobs, relayed>>
kicks == <<kickTimes, kicked, alerted>>
conns == <<line, leaving, streak, lastStale, counts, run, sessions>>
kickVars == <<jobs, victims, conns, kicks>>

Names == {Owner[c] : c \in Miners}
Counted(c) == counts[c].accepted + counts[c].rejected + counts[c].stale
-----------------------------------------------------------------------------
KickInit ==
  /\ made = 0 /\ building = 0 /\ clean = FALSE /\ notice = FALSE
  /\ victims = {} /\ relaying = 0 /\ proxying = FALSE
  /\ currentJob = 0 /\ recentJobs = {} /\ relayed = FALSE
  /\ line = [c \in Miners |-> "gone"] /\ leaving = {}
  /\ streak = [c \in Miners |-> 0] /\ lastStale = [c \in Miners |-> 0]
  /\ counts = [c \in Miners |-> [accepted |-> 0, rejected |-> 0, stale |-> 0]]
  /\ run = [c \in Miners |-> 0]
  /\ kickTimes = [n \in Names |-> 0] /\ kicked = [n \in Names |-> 0]
  /\ alerted = {} /\ sessions = 0

\* Closing a connection that is open already closed does nothing more.
Closed(cs) == [c \in Miners |-> IF c \in cs /\ line[c] = "open" THEN "closed"
                                ELSE line[c]]

\* The poller does one thing after the other.
PollerFree == building = 0 /\ ~notice /\ victims = {}

\* The oldest job but the others.
WithoutOldest(w) == w \ {CHOOSE j \in w : \A k \in w : j <= k}

\* buildJob, for a new block or a refresh.
PolledJob(isNew) ==
  /\ PollerFree /\ ~proxying /\ made < MaxJobs
  /\ made' = made + 1 /\ building' = made + 1 /\ clean' = isNew
  /\ UNCHANGED <<notice, relaying, proxying, currentJob, recentJobs, relayed,
                 victims, conns, kicks>>

\* Two slips: the window is cut before the new job is in it, or not at all.
InstallLate ==
  /\ building # 0 /\ currentJob' = building
  /\ recentJobs' = {building} \cup
       (IF Cardinality(recentJobs) >= RecentMax - 1 /\ recentJobs # {}
          THEN WithoutOldest(recentJobs) ELSE recentJobs)
  /\ building' = 0 /\ notice' = clean
  /\ UNCHANGED <<made, clean, relaying, proxying, relayed, victims, conns, kicks>>

InstallUncut ==
  /\ building # 0 /\ currentJob' = building
  /\ recentJobs' = recentJobs \cup {building}
  /\ building' = 0 /\ notice' = clean
  /\ UNCHANGED <<made, clean, relaying, proxying, relayed, victims, conns, kicks>>

\* broadcastJob under s.mu.
Install ==
  /\ building # 0
  /\ currentJob' = building
  /\ LET all == recentJobs \cup {building}
     IN  recentJobs' = IF Cardinality(all) > RecentMax THEN WithoutOldest(all)
                       ELSE all
  /\ building' = 0 /\ notice' = clean
  /\ UNCHANGED <<made, clean, relaying, proxying, relayed, victims, conns, kicks>>

\* kickStaleStreakWorkers, under the read lock.
PickVictims ==
  /\ notice /\ notice' = FALSE
  /\ victims' = {c \in Miners : line[c] # "gone" /\ streak[c] > 0}
  /\ UNCHANGED <<made, building, clean, relaying, proxying, currentJob,
                 recentJobs, relayed, conns, kicks>>

\* recordStaleKick for the worker of c.
RecordKick(c) ==
  LET n == Owner[c]
      count == kickTimes[n] + 1
  IN  /\ kickTimes' = [kickTimes EXCEPT ![n] = count]
      /\ alerted' = IF count % AlertAt = 0 THEN alerted \cup {n} ELSE alerted
      /\ kicked' = [kicked EXCEPT
                      ![n] = IF line[c] = "open" THEN @ + 1 ELSE @]

\* ... then one victim after the other.
KickVictim(c) ==
  /\ c \in victims /\ victims' = victims \ {c}
  /\ RecordKick(c)
  /\ line' = Closed({c})
  /\ UNCHANGED <<jobs, leaving, streak, lastStale, counts, run, sessions>>

\* The upstream reader has read a mining.notify: handleNotify makes a job.
UpstreamNotify ==
  /\ proxying /\ relaying = 0 /\ made < MaxJobs
  /\ made' = made + 1 /\ relaying' = made + 1 /\ relayed' = TRUE
  /\ UNCHANGED <<building, clean, notice, proxying, currentJob, recentJobs,
                 victims, conns, kicks>>

\* The callback of activateProxy; it may run after the proxy was left.  The
\* new extranonce disconnects the miners that do not take one.
InstallUpstream ==
  /\ relaying # 0
  /\ currentJob' = relaying
  /\ recentJobs' = IF Cardinality(recentJobs) > RecentMax THEN {relaying}
                   ELSE recentJobs \cup {relaying}
  /\ relaying' = 0
  /\ line' = Closed(Miners \ ExtranonceSub)
  /\ UNCHANGED <<made, building, clean, notice, proxying, relayed, victims,
                 leaving, streak, lastStale, counts, run, sessions, kicks>>

\* The node is down for long, or is back, which disconnects everybody.
SwitchProxy ==
  /\ PollerFree
  /\ proxying' = ~proxying
  /\ line' = IF proxying THEN Closed(Miners) ELSE line
  /\ UNCHANGED <<made, building, clean, notice, relaying, currentJob,
                 recentJobs, relayed, victims, leaving, streak, lastStale,
                 counts, run, sessions, kicks>>
-----------------------------------------------------------------------------
Connect(c) ==
  /\ line[c] = "gone" /\ c \notin victims
  /\ sessions < MaxSessions /\ sessions' = sessions + 1
  /\ line' = [line EXCEPT ![c] = "open"]
  /\ streak' = [streak EXCEPT ![c] = 0]
  /\ lastStale' = [lastStale EXCEPT ![c] = 0]
  /\ counts' = [counts EXCEPT ![c] = [accepted |-> 0, rejected |-> 0, stale |-> 0]]
  /\ run' = [run EXCEPT ![c] = 0]
  /\ UNCHANGED <<jobs, victims, leaving, kicks>>

\* handleSubmit goes on with a share of c for a job j that was sent out.
Submits(c, j) ==
  /\ line[c] \in {"open", "closed"} /\ c \notin leaving
  /\ currentJob # 0 /\ Counted(c) < MaxSubmits
  /\ j \in (1..made) \ {building, relaying}
  /\ UNCHANGED <<jobs, victims, sessions, kicks>>

\* The job is not in the window.
StaleShare(c, j) ==
  /\ Submits(c, j) /\ j \notin recentJobs
  /\ counts' = [counts EXCEPT ![c].stale = @ + 1]
  /\ run' = [run EXCEPT ![c] = @ + 1]
  /\ lastStale' = [lastStale EXCEPT ![c] = j]
  /\ streak' = [streak EXCEPT ![c] = IF lastStale[c] = j THEN @ + 1 ELSE 1]
  /\ leaving' = IF streak'[c] >= KickAt THEN leaving \cup {c} ELSE leaving
  /\ UNCHANGED line

\* The rest of the kick, once the reply is written.
KickSelf(c) ==
  /\ c \in leaving /\ leaving' = leaving \ {c}
  /\ RecordKick(c)
  /\ line' = Closed({c})
  /\ UNCHANGED <<jobs, victims, streak, lastStale, counts, run, sessions>>

\* A slip: the streak goes on.
AcceptedInStreak(c, j) ==
  /\ Submits(c, j) /\ j \in recentJobs
  /\ counts' = [counts EXCEPT ![c].accepted = @ + 1]
  /\ run' = [run EXCEPT ![c] = 0]
  /\ UNCHANGED <<line, leaving, lastStale, streak>>

AcceptedShare(c, j) ==
  /\ Submits(c, j) /\ j \in recentJobs
  /\ counts' = [counts EXCEPT ![c].accepted = @ + 1]
  /\ streak' = [streak EXCEPT ![c] = 0]
  /\ run' = [run EXCEPT ![c] = 0]
  /\ UNCHANGED <<line, leaving, lastStale>>

\* A share above its target.  High reject rates end the connection.
RejectedShare(c, j) ==
  /\ Submits(c, j) /\ j \in recentJobs
  /\ counts' = [counts EXCEPT ![c].rejected = @ + 1]
  /\ LET total == Counted(c) + 1
         tooMany == /\ RejectPct > 0 /\ RejectMin > 0
                    /\ total >= RejectMin
                    /\ counts'[c].rejected * 100 >= RejectPct * total
     IN  line' = IF tooMany THEN Closed({c}) ELSE line
  /\ UNCHANGED <<leaving, streak, lastStale, run>>

\* The miner goes away or falls silent.
HangUp(c) ==
  /\ line[c] = "open"
  /\ line' = Closed({c})
  /\ UNCHANGED <<jobs, victims, leaving, streak, lastStale, counts, run, sessions, kicks>>

\* The deferred cleanup of handleWorker forgets the kicks of the name.
Cleanup(c) ==
  /\ line[c] = "closed" /\ c \notin leaving
  /\ line' = [line EXCEPT ![c] = "gone"]
  /\ kickTimes' = [kickTimes EXCEPT ![Owner[c]] = 0]
  /\ UNCHANGED <<jobs, victims, leaving, streak, lastStale, counts, run, sessions, kicked,
                 alerted>>

KickNext ==
  \/ \E isNew \in BOOLEAN : PolledJob(isNew)
  \/ Install \/ PickVictims \/ UpstreamNotify \/ InstallUpstream \/ SwitchProxy
  \/ \E c \in Miners :
       \/ KickVictim(c) \/ Connect(c) \/ KickSelf(c) \/ HangUp(c) \/ Cleanup(c)
       \/ \E j \in 1..MaxJobs :
            StaleShare(c, j) \/ AcceptedShare(c, j) \/ RejectedShare(c, j)

KickSpec == KickInit /\ [][KickNext]_kickVars
-----------------------------------------------------------------------------
\* Types.  The window may have one job more than RecentMax, after an upstream
\* job: the callback of activateProxy cuts it when it is longer already.
StaleKickTypeOK ==
  /\ made \in 0..MaxJobs /\ {building, relaying, currentJob} \subseteq 0..made
  /\ {clean, notice, proxying, relayed} \subseteq BOOLEAN
  /\ recentJobs \subseteq 1..made
  /\ Cardinality(recentJobs) <= RecentMax + (IF relayed THEN 1 ELSE 0)
  /\ victims \subseteq Miners /\ leaving \subseteq Miners
  /\ line \in [Miners -> {"gone", "open", "closed"}]
  /\ streak \in [Miners -> 0..MaxSubmits] /\ lastStale \in [Miners -> 0..made]
  /\ run \in [Miners -> 0..MaxSubmits]
  /\ counts \in [Miners -> [accepted : 0..MaxSubmits, rejected : 0..MaxSubmits,
                            stale : 0..MaxSubmits]]
  /\ kickTimes \in [Names -> Nat] /\ kicked \in [Names -> Nat]
  /\ alerted \subseteq Names /\ sessions \in 0..MaxSessions

\* A share for the job that miners were sent last is never stale, whichever of
\* the two goroutines installed it and whatever the other one was doing.  And as
\* long as the upstream pool was not used, the window is exactly the newest
\* RecentMax jobs: a share is stale only if that many came after its job.
NewestKept ==
  /\ currentJob # 0 => currentJob \in recentJobs
  /\ ~relayed => recentJobs = {j \in 1..currentJob : j > currentJob - RecentMax}

\* Streaks are earned: none counts a share sent before the last accepted one,
\* and none reaches StaleKickCount on a connection that stays.
StreaksAreEarned ==
  \A c \in Miners :
    /\ streak[c] <= run[c]
    /\ streak[c] >= KickAt => line[c] # "open" \/ c \in leaving

\* "OnStaleKick fires when a worker's hourly stale-kick count crosses the
\* threshold" (server.go, above the field): refuted, the cleanup of each kicked
\* connection forgets what was counted.
KicksAreReported ==
  \A n \in Names : kicked[n] >= AlertAt => n \in alerted
=============================================================================
