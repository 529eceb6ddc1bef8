------------------------------ MODULE Failover ------------------------------
(***************************************************************************)
(* Where the work of one coin comes from (pollBlockTemplate in             *)
(* stratum/server.go, and stratum/proxy.go): the primary node, the backup  *)
(* node, or, when neither has answered for a while, an upstream pool.      *)
(* The poller asks the node in use, turns to the other one when it fails,  *)
(* restarts the daemon's service after a longer outage, and starts and     *)
(* stops the proxy; the proxy's reader installs the pool's jobs and its    *)
(* extranonce by a callback of its own.                                    *)
(*                                                                         *)
(* A call to a node succeeds if the node is up.  Both nodes see a block at *)
(* the same moment.  Time is counted in steps of 30 s, ages only as far as *)
(* the code compares them; how long the poller sleeps after a failure is   *)
(* left open.  A job is a block to build on; 0 is no block yet.            *)
(***************************************************************************)
EXTENDS Integers, FiniteSets

CONSTANTS
  Miners, ExtranonceSub, \* connections; those that take a new extranonce
  HasBackup,             \* backup_node is configured
  ProxyAfter,            \* 30 s without a node: the proxy starts
  RestartAfter,          \* watchdogDelay
  Cooldown,              \* watchdogCooldown
  MaxTip,                \* bound: blocks
  MaxOutages              \* bound: nodes and pool going down

ASSUME FailoverAssumption ==
  /\ ExtranonceSub \subseteq Miners /\ HasBackup \in BOOLEAN
  /\ {ProxyAfter, RestartAfter, Cooldown, MaxOutages} \subseteq Nat
  /\ MaxTip \in Nat \ {0}

VARIABLES
  up,           \* the nodes that answer
  poolUp,       \* the upstream pool accepts connections
  tip,          \* the newest block
  usingBackup,
  lastHash,     \* the block the poller saw last
  polling,        \* the poller: idle, activating, kicking (all, and
                \* then a new block or not), building
  wasDown,      \* daemonWasDown
  downFor,      \* age of daemonDownSince
  sinceRestart, \* age of lastWatchdogRestart
  upstream,     \* the proxy's connection: none, live, broken, dead
  proxyActive,
  relaying,     \* its callback: none, read, installed
  poolNonce,    \* upstreamEn1 is set
  job,          \* currentJob
  nonce,        \* of each miner: off, own or pool, as its connection stands
  quiet,        \* for the properties: age of the last answer of a node
  restarts,     \* services restarted so far, modulo two
  outages

world == <<up, poolUp, tip, outages>>
poller == <<usingBackup, lastHash, polling, wasDown>>
clocks == <<downFor, sinceRestart, quiet>>
proxy == <<upstream, proxyActive, relaying, poolNonce>>
failoverVars == <<world, poller, clocks, proxy, job, nonce, restarts>>

Nodes == {"primary"} \cup (IF HasBackup THEN {"backup"} ELSE {})
NoJob == [from |-> "none", block |-> 0]
PoolJob == [from |-> "pool", block |-> 0]

\* activeRPC, and the node the poller tries when it fails.
Active == IF usingBackup THEN "backup" ELSE "primary"
Other == IF usingBackup THEN "primary" ELSE "backup"
Answers == Active \in up \/ (HasBackup /\ Other \in up)
-----------------------------------------------------------------------------
FailoverInit ==
  /\ up = Nodes /\ poolUp = TRUE /\ tip = 1 /\ outages = 0
  /\ usingBackup = FALSE /\ lastHash = 0 /\ polling = "idle" /\ wasDown = FALSE
  /\ downFor = 0 /\ sinceRestart = Cooldown + 1 /\ quiet = 0
  /\ upstream = "none" /\ proxyActive = FALSE
  /\ relaying = "none" /\ poolNonce = FALSE
  /\ job = NoJob /\ nonce = [m \in Miners |-> "off"]
  /\ restarts = 0

\* The poll finds the node in use alive, or the other one.  After an outage it
\* reports the node online and leaves the proxy first.
PollAnswered ==
  /\ polling = "idle" /\ Answers
  /\ usingBackup' = IF Active \in up THEN usingBackup ELSE ~usingBackup
  /\ wasDown' = FALSE /\ quiet' = 0
  /\ lastHash' = tip
  /\ IF wasDown /\ proxyActive
       THEN /\ upstream' = "none" /\ proxyActive' = FALSE
            /\ polling' = IF tip = lastHash THEN "kicking" ELSE "kickingFirst"
       ELSE /\ polling' = IF tip = lastHash THEN "idle" ELSE "building"
            /\ UNCHANGED <<upstream, proxyActive>>
  /\ UNCHANGED <<world, downFor, sinceRestart, relaying, poolNonce, job, nonce,
                 restarts>>

\* kickAllConnected, at the end of deactivateProxy; then the poll goes on.
KickAll ==
  /\ polling \in {"kicking", "kickingFirst"}
  /\ nonce' = [m \in Miners |-> "off"]
  /\ polling' = IF polling = "kicking" THEN "idle" ELSE "building"
  /\ UNCHANGED <<world, usingBackup, lastHash, wasDown, clocks, proxy, job, restarts>>

\* The watchdog of one failed poll.
Watchdog ==
  IF downFor' > RestartAfter /\ sinceRestart > Cooldown
    THEN sinceRestart' = 0 /\ restarts' = 1 - restarts
    ELSE UNCHANGED <<sinceRestart, restarts>>

\* The rest of it: the proxy's first connection is made here, by the poller.
MaybeActivate ==
  IF ~proxyActive /\ downFor' > ProxyAfter /\ poolUp
    THEN upstream' = "live" /\ polling' = "activating"
    ELSE UNCHANGED <<upstream, polling>>

\* A slip: an outage is timed from the first one there ever was.
PollFailsUnreset ==
  /\ polling = "idle" /\ ~Answers
  /\ wasDown' = TRUE /\ UNCHANGED downFor
  /\ Watchdog /\ MaybeActivate
  /\ UNCHANGED <<world, usingBackup, lastHash, quiet, proxyActive, relaying,
                 poolNonce, job, nonce>>

\* No node answers.  The first time starts the outage.
PollFails ==
  /\ polling = "idle" /\ ~Answers
  /\ wasDown' = TRUE
  /\ downFor' = IF wasDown THEN downFor ELSE 0
  /\ Watchdog /\ MaybeActivate
  /\ UNCHANGED <<world, usingBackup, lastHash, quiet, proxyActive, relaying,
                 poolNonce, job, nonce>>

\* activateProxy returns; the reader may have a job by now.
ProxyStarted ==
  /\ polling = "activating" /\ polling' = "idle"
  /\ proxyActive' = TRUE
  /\ UNCHANGED <<world, usingBackup, lastHash, wasDown, clocks, upstream,
                 relaying, poolNonce, job, nonce, restarts>>

\* broadcastJob: the template may fail, and lastHash stays as it is.
Build ==
  /\ polling = "building" /\ polling' = "idle"
  /\ job' = IF Active \in up THEN [from |-> "node", block |-> tip] ELSE job
  /\ UNCHANGED <<world, usingBackup, lastHash, wasDown, clocks, proxy, nonce,
                 restarts>>

\* The refresh ticker; a slip that refreshes the jobs of a node only.
RefreshOwn ==
  /\ polling = "idle" /\ lastHash # 0 /\ ~wasDown /\ job.from = "node"
  /\ \E m \in Miners : nonce[m] # "off"
  /\ polling' = "building"
  /\ UNCHANGED <<world, usingBackup, lastHash, wasDown, clocks, proxy, job, nonce,
                 restarts>>

Refresh ==
  /\ polling = "idle" /\ lastHash # 0 /\ ~wasDown
  /\ \E m \in Miners : nonce[m] # "off"
  /\ polling' = "building"
  /\ UNCHANGED <<world, usingBackup, lastHash, wasDown, clocks, proxy, job, nonce,
                 restarts>>

\* A notification over ZMQ: a poll of the node in use alone.
Notified ==
  /\ polling = "idle" /\ ~wasDown /\ Active \in up /\ tip # lastHash
  /\ lastHash' = tip /\ polling' = "building"
  /\ quiet' = 0
  /\ UNCHANGED <<world, usingBackup, wasDown, downFor, sinceRestart, proxy, job,
                 nonce, restarts>>
-----------------------------------------------------------------------------
\* run reads a mining.notify of the pool.
PoolNotifies ==
  /\ upstream = "live" /\ poolUp /\ relaying = "none"
  /\ relaying' = "read"
  /\ UNCHANGED <<world, poller, clocks, upstream, proxyActive, poolNonce, job,
                 nonce, restarts>>

\* The callback under s.mu, whether or not the proxy was stopped meanwhile.
InstallPoolJob ==
  /\ relaying = "read" /\ relaying' = "installed"
  /\ job' = PoolJob /\ poolNonce' = TRUE
  /\ UNCHANGED <<world, poller, clocks, upstream, proxyActive, nonce, restarts>>

\* A slip: the others keep the extranonce they have.
TellSubscribersOnly ==
  /\ relaying = "installed" /\ relaying' = "none"
  /\ nonce' = [m \in Miners |-> IF m \in ExtranonceSub /\ nonce[m] # "off"
                                THEN "pool" ELSE nonce[m]]
  /\ UNCHANGED <<world, poller, clocks, upstream, proxyActive, poolNonce, job,
                 restarts>>

\* updateExtraNonce.
UpdateExtraNonce ==
  /\ relaying = "installed" /\ relaying' = "none"
  /\ nonce' = [m \in Miners |-> IF m \in ExtranonceSub /\ nonce[m] # "off"
                                THEN "pool" ELSE "off"]
  /\ UNCHANGED <<world, poller, clocks, upstream, proxyActive, poolNonce, job,
                 restarts>>

\* The pool hangs up; the reader waits 15 s and connects once more.
PoolHangsUp ==
  /\ upstream = "live" /\ relaying = "none" /\ ~poolUp
  /\ upstream' = "broken"
  /\ UNCHANGED <<world, poller, clocks, proxyActive, relaying, poolNonce, job,
                 nonce, restarts>>

\* The proxy's Start from within run.  Nothing comes after its failure.
Reconnect ==
  /\ upstream = "broken"
  /\ upstream' = IF poolUp THEN "live" ELSE "dead"
  /\ UNCHANGED <<world, poller, clocks, proxyActive, relaying, poolNonce, job,
                 nonce, restarts>>

\* handleSubscribe, on a new connection.
Subscribe(m) ==
  /\ nonce[m] = "off"
  /\ nonce' = [nonce EXCEPT ![m] = IF proxyActive /\ poolNonce THEN "pool"
                                   ELSE "own"]
  /\ UNCHANGED <<world, poller, clocks, proxy, job, restarts>>
-----------------------------------------------------------------------------
NodeFails(n) ==
  /\ n \in up /\ up' = up \ {n}
  /\ outages < MaxOutages /\ outages' = outages + 1
  /\ UNCHANGED <<poolUp, tip, poller, clocks, proxy, job, nonce, restarts>>

NodeReturns(n) ==
  /\ n \in Nodes \ up /\ up' = up \cup {n}
  /\ UNCHANGED <<poolUp, tip, outages, poller, clocks, proxy, job, nonce, restarts>>

PoolFails ==
  /\ poolUp /\ poolUp' = FALSE
  /\ outages < MaxOutages /\ outages' = outages + 1
  /\ UNCHANGED <<up, tip, poller, clocks, proxy, job, nonce, restarts>>

PoolReturns ==
  /\ ~poolUp /\ poolUp' = TRUE
  /\ UNCHANGED <<up, tip, outages, poller, clocks, proxy, job, nonce, restarts>>

NewBlock ==
  /\ tip < MaxTip /\ tip' = tip + 1
  /\ UNCHANGED <<up, poolUp, outages, poller, clocks, proxy, job, nonce, restarts>>

Older(age, cap) == IF age < cap THEN age + 1 ELSE age

TimePasses ==
  /\ downFor' = Older(downFor, RestartAfter + 1)
  /\ sinceRestart' = Older(sinceRestart, Cooldown + 1)
  /\ quiet' = Older(quiet, RestartAfter + 1)
  /\ UNCHANGED <<world, poller, proxy, job, nonce, restarts>>

Polling == PollAnswered \/ PollFails
Poller == KickAll \/ ProxyStarted \/ Build
Reader == InstallPoolJob \/ UpdateExtraNonce \/ PoolHangsUp \/ Reconnect

FailoverNext ==
  \/ Polling \/ Poller \/ Reader \/ Refresh \/ Notified \/ PoolNotifies
  \/ \E m \in Miners : Subscribe(m)
  \/ \E n \in Nodes : NodeFails(n) \/ NodeReturns(n)
  \/ PoolFails \/ PoolReturns \/ NewBlock \/ TimePasses

FailoverSpec == FailoverInit /\ [][FailoverNext]_failoverVars

\* The select of the poller is fair to its tickers, goroutines run, time
\* passes, miners come back, and the pool sends jobs while it is connected.
FailoverFairness ==
  /\ SF_failoverVars(Polling) /\ SF_failoverVars(Refresh)
  /\ WF_failoverVars(Poller) /\ WF_failoverVars(Reader)
  /\ SF_failoverVars(PoolNotifies) /\ WF_failoverVars(TimePasses)
  /\ \A m \in Miners : SF_failoverVars(Subscribe(m))

FailoverFairSpec == FailoverSpec /\ FailoverFairness
-----------------------------------------------------------------------------
\* Types; the backup is in use only where there is one, and the proxy is not
\* started when there is a session already.
WorldOK ==
  /\ up \subseteq Nodes /\ poolUp \in BOOLEAN
  /\ tip \in 1..MaxTip /\ outages \in 0..MaxOutages

PollerOK ==
  /\ usingBackup \in BOOLEAN /\ (usingBackup => HasBackup)
  /\ lastHash \in 0..tip /\ wasDown \in BOOLEAN
  /\ polling \in {"idle", "activating", "kicking", "kickingFirst", "building"}

ClocksOK ==
  /\ downFor \in 0..(RestartAfter + 1) /\ quiet \in 0..(RestartAfter + 1)
  /\ sinceRestart \in 0..(Cooldown + 1) /\ restarts \in {0, 1}

ProxyOK ==
  /\ upstream \in {"none", "live", "broken", "dead"}
  /\ proxyActive \in BOOLEAN /\ poolNonce \in BOOLEAN
  /\ relaying \in {"none", "read", "installed"}
  /\ polling = "activating" => ~proxyActive

WorkOK ==
  /\ job \in [from : {"none", "node", "pool"}, block : Nat] /\ job.block <= tip
  /\ nonce \in [Miners -> {"off", "own", "pool"}]

FailoverTypeOK == WorldOK /\ PollerOK /\ ClocksOK /\ ProxyOK /\ WorkOK

\* The watchdog restarts a service only when no node has answered for longer
\* than watchdogDelay: neither an outage that is over nor a failover counts.
RestartsAreDue == [][restarts' # restarts => quiet > RestartAfter]_failoverVars

\* When a node is back for good the miners get its work again: the proxy is
\* left, and what a late callback installed is replaced by a refresh.
WorkComesHome ==
  <>[]("primary" \in up) => <>[](~proxyActive /\ job = [from |-> "node", block |-> tip])

\* While no node answers and the session with the pool lasts, everybody who is
\* connected works at last on the pool's jobs with the pool's extranonce.
PoolServes ==
  <>[](up = {} /\ poolUp /\ upstream \in {"none", "live"})
    => <>[](job = PoolJob /\ \A m \in Miners : nonce[m] # "own")

\* "When the primary recovers, PiPool switches back automatically"
\* (README.md:412): refuted, it stays with the backup.
SwitchesBack == <>[]("primary" \in up) => <>[](~usingBackup)

\* "When local node is offline, transparently proxies miners to a configured
\* upstream pool" (README.md:43): refuted, a reconnection is tried only once.
ProxyRecovers == <>[](up = {} /\ poolUp) => <>[](upstream = "live")
=============================================================================
