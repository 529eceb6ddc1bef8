# PiPool, specified

TLA+ modules about PiPool, a solo mining pool in Go: the coordination of its
goroutines, the money its payout and swap engines keep track of, the work it
hands to miners and the blocks it makes of it, and the files it survives
restarts with. TLC checks every module on small instances; TLAPS proves the main
invariants of every one of them for all values of their constants.

Contents: [the system](#the-system), [the modules](#the-modules),
[the runs](#the-runs), [fairness](#fairness), [what is proved](#what-is-proved),
[where the code departs from its own words](#where-the-code-departs-from-its-own-words),
[what is not modelled](#what-is-not-modelled), [the plan](#the-plan).

To parse, check and prove:

    tlasany Sessions.tla
    tlc -workers 2 -config MCSessions.cfg MCSessions
    tlapm PplnsProofs.tla

## The system

One process. `cmd/pipool/main.go` starts a stratum server per coin and connects
the rest to it by callbacks. What each part keeps and does, how the parts
interact, what is hard about them and what makes them right:

| component | state | operations | interacts with | hard | correct when |
|---|---|---|---|---|---|
| Stratum job feed (`stratum/server.go`) | `currentJob`, `recentJobs`, the channel `jobBroadcast` (4), the poller's `lastHash` | poll (2 s) or ZMQ, refresh (45 s), buildJob, broadcast, send on authorize | coin daemon; one goroutine per connection | three goroutines that hold a lock for single steps; a full channel; a failed template; writes without a deadline | every authorized miner has the current job or it is on its way; at last everybody works on the current block |
| Stratum sessions (same file) | `workers`, `seenWorkers`, `ipConns`, `connectedMiners` | accept (plain and TLS), authorize, submit, cleanup, offline timer, Stop | Discord alerts, the payout engine (every accepted share) | the cleanup is in two critical sections; two connections of one name; eviction at 500 names; a timer against a reconnect | places and counts are given back; totals add up; who stays away is reported |
| Stale kicks (same file) | `staleJobStreak`, `lastStaleJobID`, `workerKickTimes` | submit, new block, cleanup | job window | streaks of different jobs; counts forgotten by the cleanup | only who ignores new blocks is kicked |
| Failover and watchdog (same file) | `usingBackup`, `daemonWasDown`, times | poll, restart of a service | two coin daemons | a found block goes to the primary whichever node made its template | work and blocks go to a node that is up |
| Stratum proxy (`stratum/proxy.go`) | upstream connection, extranonces, pending submits | activate, deactivate, forward | upstream pool, job feed | jobs of the pool that arrive after it was left | a share goes where its job came from |
| Vardiff (`stratum/server.go`) | difficulty, the one before, pins, share times per worker | on share, on suggestion, on idle, pinned by the dashboard | sessions, configuration | changed under a lock and sent after it, by two goroutines | the miner works at what its shares are held to |
| Block log and confirmations (same file) | `blockLog`, confirmations, a file | record, track, save, load | coin daemon, earnings | restarts between two confirmations, orphans | each block is counted once |
| PPLNS share window (`pplns/payout.go`) | ring buffer: `buf`, `head`, `count` | push, snapshot, reload under another size | payout engine | indices at the wrap, a smaller window after a restart | it is the log of the last N shares |
| PPLNS payout engine (same file) | `balances`, `paid`, `payouts` (200), windows, a file | RecordShare, BlockFound, ProcessPayouts, persist, loop, Stop, loadState | stratum callbacks, coin daemon (SendToAddress) | copies written late and out of order, lost answers, a failed payment among others, exit while servers run | nothing is owed that was not earned, nothing booked that was not sent |
| Auto-swap engine (`swap/engine.go`) | `jobs`, `history` (50), a file | tick, advance per state, initiate, cleanup, UpdateRule | wallets, one exchange account for all jobs | money in flight over restarts, a file rewritten in place once per tick, refused cancellations, a shared balance | money that left is on record, one swap per coin, every swap ends |
| State files (pplns, earnings, hashstore, uptime, swap) | the file and its `.tmp` | save, load | their components | overlapping saves through one temporary name, a crash between any two steps | a finished save survives |
| Earnings tracker (`earnings/tracker.go`) | totals, recent blocks (100) | RecordBlock, confirmations, import, prices | block log | a block seen twice, an orphan, a list shorter than its totals | totals are the sum of the confirmed blocks |
| Uptime tracker (`uptime/tracker.go`) | events per worker | online, offline, percentages | sessions | windows that begin inside an outage | percentages are those of the events |
| Guardian (`guardian/guardian.go`, `GuardianAlert` of `discord/notifier.go`) | cooldowns, readings, a ring of events; the times of alerts | tick: rules for machine, chains, workers | system monitor, stratum (kick), Discord | two limits one behind the other, alerts switched off and posts that fail, a ring that wraps | no alarm is held back for good |
| Hashrate store (`hashstore/store.go`) | samples | record, compact, query | dashboard | samples averaged twice | the history stays small and stands for every measurement |
| Quai server (`quai/server.go`) | template, jobs by id, workers | poll, authorize, submit, cleanup, difficulty loop | Quai node | the loop and the handlers write to one miner; a miner that does not read | nobody is left out, and a share is stale only when its job is old |
| Merge mining (`merge/auxpow.go`, a callback of `main.go`) | aux work, tree | poll, commit, prove, submit | aux daemons, job feed | works that change between a job and its proof; the shape of the tree | a proof is for what its block commits to |
| Blocks and addresses (`stratum/server.go`, `rpc/client.go`, `bech32.go`, `cashaddr.go`, `base58.go`) | none | coinbase, header, share check, assembly, output script | nodes, miners' firmware | orders of bytes, lengths at their limits, checksums | the block sent is the one that was hashed, and pays the wallet |
| Configuration (`config/config.go`; dashboard, control socket, editor) | the configuration in memory, its file | load, save, forms, `pipoolctl`, reload, `-init` | everything that reads it | requests in parallel, a file written in place, a failing write | the file is the memory once the last save is done |
| Router, exchange clients, RPC transport, ZMQ, ASIC poller, monitor, metrics, TLS, scripts | little or none | requests, formatting | everything | — | — |

`PROJECT.json` lists every component with its status, and under `hazards` what
is hard to test in this code, each at its line, with the properties that cover
it or the reason why none does.

## The modules

| module | models | by way of |
|---|---|---|
| `LastNShares`, `Tally` | the data side of the window and of a split: the last N of a sequence, sums by folding, rounding to the nearest unit | operators |
| `ShareLog` | what the share window promises: a log cut to its newest N | abstract specification |
| `ShareWindow` | the ring buffer (`pplns/payout.go` 72–111) with its indices, and the reload of the newest shares under a new size | implements `ShareLog` |
| `Pplns` | the payout engine, the daemon it pays through, its state file, shutdown and restart | one action per critical section |
| `AtomicSave` | what a save promises: the file is the state of some moment, and never goes back behind a finished save | abstract specification |
| `SnapshotFile` | the ways the components save: through `.tmp` or in place, under the lock or after it | implements `AtomicSave` under the lock |
| `Swap` | the swap engine with the exchange, the wallets and time | one action per job of a tick |
| `JobFeed` | how a template becomes work at every miner | one action per critical section |
| `Sessions` | connections, limits, the workers known, their totals, the offline alerts | one action per critical section |
| `StaleKick` | the window of recent jobs, what is stale, who is disconnected for it | one action per critical section |
| `Failover` | which node or pool the work comes from: poller, watchdog, proxy | one action per step between two calls |
| `Vardiff` | the difficulty of a worker, at the server, on the wire, at the miner | one action per critical section |
| `Ledger` | block log, confirmations, lifetime earnings, both files | one action per critical section or callback |
| `Uptime` | what the server tells of a worker, the event log, the percentages | one action per call |
| `Hashstore` | hashrate samples, compaction, save and load | one action per call, the downsampling as a function |
| `Settings` | the configuration in memory and on disk, and everybody who changes it | one action per step of a request |
| `Guardian` | a tick with all its rules, cooldowns, ring, and the limit of the notifier | one action, composed of functions |
| `Merge` | aux works, commitments in jobs, proofs, daemons | one action per step between two calls |
| `Block` | the bytes: job, header, share check, block, aux proofs, Quai header | functions, in three steps of one behaviour |
| `Address` | the output script of a wallet: bech32, CashAddr, base58 with checksums | functions, in one step |
| `Quai` | templates to miners over the write locks of the connections, jobs by age | one action per critical section |
| `Subsequences` | the elements of a sequence at some of its places: what a loop leaves that appends what it keeps | operators, without recursion |
| `Lemmas` | what the operators on sequences, sums and subsequences return | lemmas |
| `StateProofs` | theorems about `ShareWindow`, `SnapshotFile`, `Settings` and `Swap` | proofs |
| `PplnsProofs`, `AddressProofs` | theorems about the module of that name | proofs |
| `JobFeedProofs` | theorems about `JobFeed` and `Block` | proofs |
| `RecordsProofs` | theorems about `Ledger`, `Uptime` and `Hashstore` | proofs |
| `ConnectionsProofs` | theorems about `Sessions` and `Failover` | proofs |
| `MiningProofs` | theorems about `StaleKick`, `Vardiff`, `Merge`, `Quai` and `Guardian` | proofs |
| `MC...` | values of the constants for TLC; `MCMining` and `MCRecords` put parts side by side | |

Every module names the functions it models in the comments above its actions.
`PROJECT.json` maps each definition to source lines. In some modules a
definition is preceded by *a slip*: the same operation with a plausible mistake
in it (a dropped guard, a wrong order). It is not part of the specification;
put in the place of the right one, it must make TLC refute the property that is
there to catch it (the list is `mutants` in `PROJECT.json`).

### Share window and payout engine

`ShareWindow` is one ring buffer: `buf`, `head` and `count` as in the code, with
positions counted from 0. `Push` writes at `head`, `Snapshot` copies from the
oldest entry on, `Restart` makes a new ring of any size in `Sizes`, and
`ReplayShare` pushes what loadState replays, a share at a time. The refinement
mapping sends the ring to its snapshot. `Pplns` uses the log (`PushLast`), which
the refinement permits.

`Pplns` keeps the critical sections of `e.mu` as actions: `RecordShare`,
`BlockFound` (credits by `Credit`), and `ProcessPayouts`, which holds the lock
over several RPC calls and is therefore `BeginPayouts`, one of `SendSucceeds`,
`SendFails`, `AnswerLost` per due account, and `EndPayouts`; while `payer` is
set nobody else gets in (`Unlocked`). `persist` copies under the lock
(`TakeSnapshot`) and writes after it (`WriteState`); the goroutines that the
code starts for it, its loop, and `Stop` are the members of `Persists`. The file
is written in one step here, and in detail in `SnapshotFile`. `earned` and
`sent` are what the workers are owed and what the daemon did: history
variables.

### State files

`SnapshotFile` has names (`tmp`, `file`), inodes with contents, and savers whose
open descriptor stays on the inode it was opened on, whatever is renamed. That
is what makes overlapping saves interesting: a descriptor still writes to the
file that was installed in the meantime. A version is longer or shorter than the
one before, and a file that was truncated or written half is not whole. `acked`
is the newest version whose save reported success.

`UnderLock = TRUE, Staged = TRUE` is the uptime tracker (and any component as
long as its saves do not overlap); `UnderLock = FALSE` is the payout engine, the
hashrate store and the earnings tracker; `Staged = FALSE` is the swap engine.

### Swap engine

A tick is `TickBegins`, then for each job one of the advance actions, then
`CleanupJobs`, for each rule `PassRule` or `Initiate`, and the save. saveState
rewrites the file in place (`os.WriteFile`) and only logs an error: `OpenState`
empties the file or `OpenStateFails` leaves the old one, `WriteState` fills it or
`WriteStateFails` leaves it cut short, which a restart reads as no swaps. `Crash`
may come between any two of all these steps. `UpdateRule` goes the way of a tick
from its save on; as a rule may be switched off in any tick, `PassRule` is
always possible.

The exchange has balances and orders; `Exchange` credits deposits and fills orders
between any two steps. All prices are 1, so that coins can be followed from the
wallet to the exchange and back. The two exchanges differ in what they report
of an order that is not open (`ReportsFilled`) and in whether they can
withdraw. An answer that is lost and a cancellation that is refused each cost
one of `MaxFaults`. History variables remember what no file could know:
`covered` is what there was at the save that is whole in the file, `cutOff` and
`orphans` the swaps and orders that came after it when the process ended.

### Job feed

A job is the number of the block it builds on. The poller is `SeesBlock` or
`Refresh`, then `Build`, then `Enqueue`; `BuildFails` leaves `lastHash` as it is,
as the code does, so that the block is not seen as new again. The broadcaster
takes a job and a copy of the list of workers (`TakeJob`) and writes to one of
them after the other (`Deliver`); a miner that no longer reads holds it up until
its connection is closed (`Writes`). A connection's goroutine authorizes
(`Authorize`), reads the current job (`ReadJob`) and sends it (`SendCurrent`) in
three steps, any of which the other two may come between.

### Sessions

`Accept` is the loop of either listener, `Register` the beginning of
handleWorker. handleAuthorize is `Authorize` (its part under `s.mu`: the map of
workers and eviction) and `Authorized` (its part under `w.mu`, and the count);
handleSubmit is `Submit` and `Share`; the cleanup is `Unregister` (under `s.mu`)
and `Leave` (the count and the timer). Two connections of one name are allowed.
Where the code gives no guarantee for them (one sets the other offline, both
count from one base) the properties speak of names with one connection at a time
(`mixed` remembers the others); everything else holds for all.

### Stale kicks

`StaleKick` takes up what `JobFeed` leaves out: which old jobs are still good.
Two goroutines install jobs, the poller (`PolledJob`, `Install`, then
`PickVictims` and `KickVictim`, one after the other and without the lock) and
the reader of the upstream pool (`UpstreamNotify`, `InstallUpstream`); each makes
its job before it takes the lock, so that a job may be installed after a younger
one. `Submits` finds the job of a share in the window or does not
(`StaleShare`, `KickSelf`), and `Cleanup` forgets the kicks of the name, as the
code does.

### Failover, watchdog and proxy

`PollAnswered` and `PollFails` are one turn of the poller with both nodes and
the watchdog; `activateProxy` connects inside it (`MaybeActivate`, then
`ProxyStarted`), `deactivateProxy` ends with `KickAll`. The reader of the pool's
session is `PoolNotifies` and `InstallPoolJob`: the callback may run after the
proxy was left. `Reconnect` is the one attempt the reader makes. Time counts in
steps of 30 s, no further than the code compares.

### Vardiff

`ShareAccepted`, `Suggested` and `Pinned` change the difficulty of the worker;
the connection's goroutine then writes it (`Told`). `IdleDecays` halves it under
the lock, `IdleTold` writes it once all workers have been seen. `wire` keeps the
order of writing, so that an old difficulty may be written after a new one; the
property says exactly when.

### Block log and earnings

`BlockAccepted` is recordBlock; `RecordBlock` is the callback that enters the
block in the books; `Check` and `ApplyAnswers` are a turn of the confirmation
tracker, whose callbacks (`Verdict`) run in goroutines of their own and in any
order with `RecordBlock`. `CopyLog` and `WriteLog` save the log in place, so that
a crash may leave half a file; `WriteBooks` is a staged save (detailed in
`SnapshotFile`). A start loads both files and takes the blocks of the log over
into the books (`StartFrom`). Blocks leave the chain and come back (`Reorg`).

### Uptime

`Connects`, `Greets`, `Disconnects`, `Wakes` and `Reports` are the stratum server
as far as it speaks to the tracker; the last two are a goroutine that looks
first and reports later. `WorkerOnline` and `WorkerOffline` append to the log,
cut it and save it; `Uptime(w)` is what `calcUptimePct` counts of a window, moment
by moment, and the properties compare it with who really was connected.

### Hashrate history

`Compact` cuts and downsamples as the code does, with its bisection, its zones
and its flush of the last bucket. In place of its average a sample carries the moments
of the measurements it stands for; that of a bucket has those of all its samples.

### Configuration

A request goes through `Marshal`, `OpenFile` (which empties the file), `WriteFile`
and `Answer`; what it changed in memory it changed before, under `cfgMu` or not,
as its handler does. `WriteFails`, `Ends` (in the middle of anything), `Starts`
(which fails on an empty file), `Initialises`, `EditFile` and `Reload` are the
rest of the file's life. The form of the browser is a state of its own: it sends
back what it loaded earlier.

### Guardian

`Tick` is `evaluate`: one function per rule, each from a guardian to a guardian,
chained in the order of the code. An observation gives each figure the class
that the rules give it. Some alerts are throttled by the rule, all by the
notifier, by title (`GuardianAlert`, `RateLimited`): nothing is asked of the
limit while the alerts are off, and a post that fails has used its title up for
five minutes all the same. The ring is read back by `Events` as the dashboard
does.

### Merge mining

`Merge` follows works: `PollAux` into the coordinator, `NewParentJob` into the
commitment of a job, `Solves` and `SubmitParent` to the parent's node, `Proven`
into proofs, `SubmitAux` to the daemons, each between any steps of the others.
`Proven` reads the variable of the range loop of `main.go` (`loopCoin`), which
moves on by `NextCoin`: `go.mod` says 1.21, where one variable serves all turns.

### Blocks and addresses

`Block` is conversion only. A hash is a term (`<<"H", a, b>>`), so that equality
of terms means that the same bytes were hashed in the same order. `BuildJob`
makes the job, `Mines` the header as the firmware makes it (modelled from the
comment in `buildJob`), `ValidateShare` and `AssembleBlock` the server's side;
what a node makes of the block is stated in the properties from the rules of the
format (`ReadVarInt`, `ReadHeight`, `MerkleRoot`), not from the server's code; of a
daemon's rules for aux proofs only the branch and the place of the commitment, not those
for the size of the tree and the index of a chain in it. The
levels of a merkle tree are a recursive function (`Tree`), of which the root and each
branch are read; the branch of the coinbase is made the way `buildMerkleBranch` makes
it, without the tree (`Beside`).

`Address` computes the real checksums: the polynomials of bech32 and CashAddr
over groups of five bits, the conversions between bases and bits. Only the
double SHA-256 is some function of the bytes.

### Quai

The poll loop serves its workers one after the other: it looks whether one is
authorized with the lock of its connection (`ServeSkips`, `ServePicks`), stores the
job with the lock of the server (`ServeStores`), and takes the first one again to
write (`ServeLocks`, `ServeWritten`). The handler authorizes, reads the template
and stores its job (`AuthorizeFetch`) and writes later (`AuthorizeLocks`,
`AuthorizeWritten`). `QuaiDeadline` ends silent connections and blocked writes.
Time is `JobAges`; `QuaiCleanup` drops the jobs that are ten minutes old and waits
for nobody, so that a job may go while it is being written.

### Parts side by side

`MCMining` and `MCRecords` extend seven modules each that share no state, and
choose in the initial state which `part` works; the others keep their initial
values. A run then has the sum of the parts' states, not their product, and
nothing is lost: no action of one part reads or writes a variable of another.
Liveness cannot be checked there, because a resting part is given no fairness;
the components with liveness properties have runs of their own.

## The runs

Every run is exhaustive for its constants.

| run | question | bounds, and why they are enough |
|---|---|---|
| `pplns_books` | can the books owe more than was earned, or claim what was not paid? are they exact without faults? is a split fair? | two workers, a window of two shares, one account that the daemon accepts and one that it refuses, blocks shared or won alone, up to three payments of one account, one fault of any kind, a goroutine besides loop and Stop: two persists may overlap, and the payout log of two passes its cap |
| `pplns_live` | is a due balance paid? | one block, one fault |
| `swap_one` | is money that left on record? does every swap end? | two swaps of one coin on XeggeX, a history of one that the second pushes out, a lost answer or refused cancellation, saves that fail, a restart within a tick, a save or between two |
| `job_feed` | does every miner get its work, at once or at last? | two connections, a queue of one (full as soon as the broadcaster is held up), two blocks and any number of refreshes |
| `sessions` | are places, counts, totals and alerts right? | three connections from an address that may have two, two names of which the map remembers one, three authorizations |
| `failover` | are restarts due, does the pool serve, does the work of the node come home? | two nodes and the pool with three outages between them (all three down at once, or the same one repeatedly), two blocks, a miner that takes no new extranonce and has to be disconnected |
| `mining` | see below | see below |
| `records` | see below | see below |
| `snapshot_unlocked` | is a save without the lock safe? (no) | two savers, two versions |
| `sessions_again` | and when a miner authorizes twice? (no) | two connections |
| `merge_proofs` | is an accepted block proved to the aux chains? (no) | a parent and two aux chains |
| `cash_addresses` | is a CashAddr wallet paid? (no) | three hashes, keys and scripts |

The parts of `mining`:

| part | properties | bounds |
|---|---|---|
| `StaleKick` | `NewestKept`, `StreaksAreEarned` | two connections of one worker, one that takes a new extranonce; four jobs, a window of two, kicks at two: jobs fall out of the window while shares on them are on their way |
| `Vardiff` | `MinerIsTold` | difficulties 1 to 4 and a pin above, two messages on the wire, one suggestion or pin |
| `Guardian` | `AlarmsAreRaised` | four ticks with longer and shorter cooldowns, alerts on or off and posts that fail in each, a ring of five that wraps, observations that fire each rule |
| `Merge` | `ProofsAreCommitted` | two aux chains, two works of each, two jobs, two shares: a proof may be of the older work or of the newer |
| `Block` | `BlocksArriveWhole`, `ProofsVerify` | up to nine transactions, and 253 (the longer count); up to five aux chains (odd and even levels, a place at the odd end); heights of one to four bytes, where the length or the sign bit changes, and the last that 32 bits with a sign hold; all combinations of share and block target |
| `Address` | `RewardIsPaidToTheWallet` | hashes of 20 and 32 bytes, with zeros in front, behind or not; each segwit address with any one symbol changed to any other, two neighbours swapped, the last one missing, the wrong prefix or case |
| `Quai` | `StaleIsOld`, `NobodyIsSkipped` | two connections, two templates: enough for the loop and a handler to write templates in either order; one job that grows old, at any moment from its storing on |

The parts of `records`:

| part | properties | bounds |
|---|---|---|
| `Ledger` | `BooksAddUp`, `VerdictsReachTheBooks` | two blocks, a log of one (the second pushes out the first), two copies of the books to be written in any order, one reorganisation, one restart of either kind |
| `Uptime` | `UptimeIsEarned` | three visits in eight moments with a grace of one, windows of 2, 3 and 5, four events kept, a restart: events are cut by age and by number |
| `Hashstore` | `HistoryIsBounded` | eighteen moments through zones that end at 2, 4, 8 and 16, buckets of 1, 2 and 4: samples cross every zone and are cut at the end; a gap, a crash |
| `Settings` | `FileFollowsMemory` | two requests at once, two edits, a failure and an edit by hand |
| `ShareWindow` | `ValidSlots`, `ImplementsShareLog` | sizes 1 to 4: full, partly filled and wrapped rings, and every change of size across a restart |
| `SnapshotFile` | `NoResurrection`, `ImplementsAtomicSave` | two savers under the lock, three versions that grow and shrink, three inodes (two named files and one left open) |
| `Swap` | `OneActivePerCoin`, `OrdersAreOwned` | two coins, BTC among them, two jobs and a history that has room for both (`swap_one` passes its cap), on TradeOgre, saves that fail, a restart at any moment |

`TypesOK` of each is the conjunction of the parts' type invariants.

`CHECK_DEADLOCK FALSE` stands in `MCMining`, `MCRecords`, `MCMergeProved` and
`MCAddressCash`, where a part whose bounds are used up, or that is one
conversion, comes to its end. Everywhere else deadlock is checked: no model
comes to a stop that the code would not.

The bounds that are not in the code are marked *bound* where they are declared:
`MaxEarned`, `MaxFaults`, `Goroutines` (`Pplns`), `MaxVersion`, `Savers`, `Inodes`
(`SnapshotFile`), `MaxMined`, `MaxJobs`, `MaxFaults`, `MaxCrashes` (`Swap`),
`MaxBlock` (`JobFeed`), `MaxShares`, `MaxSessions` (`Sessions`), `MaxJobs`,
`MaxSubmits`, `MaxSessions` (`StaleKick`), `MaxTip`, `MaxOutages` (`Failover`),
`MaxWire`, `MaxChanges` (`Vardiff`), `MaxTicks` (`Guardian`), `MaxWorks`,
`MaxParents`, `MaxSolves` (`Merge`), `MaxTemplates`, `MaxAged` (`Quai`), `MaxBlocks`,
`MaxSaves`, `MaxWrites`, `MaxReorgs`, `MaxRestarts` (`Ledger`), `UpEnd`,
`MaxVisits`, `UpRestarts` (`Uptime`), `HashEnd`, `MaxGaps`, `HashCrashes`
(`Hashstore`), `MaxEdits`, `MaxFailures`, `MaxHandEdits` (`Settings`). Limits the
code has are made small enough to be reached: `WindowSize`, `MaxPayoutLog`,
`MaxHistory`, `QueueCap`, `SeenCap`, `RecentMax`, `LogCap`, `BooksCap`,
`MaxEvents`, `RingCap`, `Burst`, and the times of `Uptime`, `Hashstore` and
`Guardian`, which keep their order.

## Fairness

- `Pplns`: the loop ticks, goroutines run, and a daemon that is asked again and
  again answers at last. Nothing is assumed of shares, blocks or restarts.
- `Swap`: the tick keeps coming, and gets the lock though the dashboard may take it
  for a rule again and again (strong fairness of `TickBegins`; a `sync.Mutex` starves
  nobody); a save ends one way or the other; time passes, and among infinitely many
  calls for a job one succeeds. Nothing is assumed of deposits and fills: they may never
  come, and the swap must end all the same, by its timeouts.
- `JobFeed`: both tickers fire, goroutines run, the daemon's answers are fair, and
  the read deadline ends a connection that has fallen silent
  (`WF(w \in stuck /\ HangUp(w))`; `server.go` 901 sets it before each read).
  Miners and blocks are free.
- `Sessions`: goroutines run and timers fire. Miners are free.
- `Failover`: the poller's `select` is fair to its two tickers, which are never both
  ready for ever (strong fairness of a poll and of a refresh, which a step of the
  poller disables), its steps and the reader's go on, time passes. Miners that were
  disconnected come back, and a pool that is connected sends jobs; without these
  nobody could be served. Nodes, pool and blocks are free.

`Quai` states the fairness of its loop, handlers and deadlines (`QuaiFairSpec`); its
properties in the runs are safety.

## What is proved

The last column names the run that checks the property on a small instance; *no
run* where the theorem is one the others rest on.

| theorem | says | checked by |
|---|---|---|
| `WindowWellFormed`, `WindowImplementsLog` | the ring's indices are in range, every slot a snapshot reads was written, and ring, wrap and reload implement the log of the newest N shares, for all sizes and shares | `records` |
| `PplnsTypes` | types, and the caps of windows and payout log in memory, in every copy and on disk | no run |
| `PplnsNothingInvented` | no state the engine has, holds a copy of, or may restart from owes a worker more than it earned | `pplns_books` |
| `PplnsClaimsAreReal` | every payment in the books was made | `pplns_books` |
| `PplnsExact` | until the first fault pending plus paid is earned, and paid is sent | `pplns_books` |
| `PplnsCreditsFit` | a credit is within half a unit of the worker's exact part, for all difficulties, rewards and fees | `pplns_books` |
| `NothingComesBack` | a file a dead process left behind is never what a restart loads, in all three styles | `records` |
| `LockedSavesSurvive` | staged saves under the lock lose nothing whose save succeeded | no run under the lock; `snapshot_unlocked` shows the loss without it |
| `LockedSaveIsAtomic` | staged saves under the lock implement `AtomicSave`, for any number of savers, inodes and versions | `records` |
| `FileHoldsTheMemory` | the configuration file is what the program works with whenever no one is saving, until something disturbs it | `records` |
| `LedgerTypes` | types, and the caps of both lists | no run (a part of `TypesOK` in `records`) |
| `TotalsOfTheBooks` | the lifetime totals are those of the blocks listed and of those cut, in memory, on disk and in every copy between | `records` |
| `OrphansReachTheBooks` | an orphan is one in the books once its callback has run, and maturity is told once per life of the process | `records` |
| `UptimeTypes` | types of the uptime tracker | no run (a part of `TypesOK` in `records`) |
| `UptimeIsJust` | the log stays a history whose sessions and downtimes fill the time; since its first event no moment online is missing, and without a restart every moment too many is within the grace after a leave, for all visits, cuts, windows and caps | `records` |
| `HashTypes` | types of the hashrate store | no run (a part of `TypesOK` in `records`) |
| `HistoryIsKept` | the history, compacted, saved, lost and loaded however often, stands for exactly the measurements neither cut with the month nor lost unsaved, for each in one sample only | `records` (the first conjunct of `HistoryIsBounded`) |
| `SettingsTypes` | types of the configuration in memory and in its file | no run (a part of `TypesOK` in `records`) |
| `FeedTypes` | types of the job feed | no run |
| `FeedLosesNoJob` | whatever is published while a miner is being authorized, it has the current job or that job is on its way | `job_feed` |
| `SessionTypes` | types of the sessions | no run |
| `PlacesAreReturned` | an address gets every place back, whoever leaves when | `sessions` |
| `MinersAreCounted`, `OnlineHasConnection`, `TotalsSurviveReconnects` | the count is that of the authorized connections; who is shown online is connected; totals go on after a reconnect: if miners authorize once per connection | `sessions` |
| `FailoverTypes` | types of poller, watchdog and proxy | no run |
| `RestartsNeedSilence` | no restart of a service unless no node has answered for the delay (an action property) | `failover` |
| `SwapTypes` | types, histories within their cap | no run (a part of `TypesOK` in `records`) |
| `OneSwapPerCoin` | a coin is never swapped twice at a time, and no job is in flight and finished, in memory, in the file, and after an end at any point, within a tick too | `records` |
| `OrdersHaveAJob` | every open order belongs to a job in flight, in memory or in the file, unless an answer about it was lost or the process ended before a whole save knew of it | `records` |
| `SentHasARecord` | whatever left a wallet is on record until later jobs push it out of the history, but for the swaps that no whole save knew when the process ended; ends at any moment and failing saves included | `swap_one` |
| `StaleSharesAreOld` | the Quai server calls a share stale only when its job is ten minutes old, however loop, handlers, blocked writes and cleanup overlap | `mining` |
| `EveryMinerIsServed` | when a template has been sent round, every authorized miner that listens was sent it | `mining` |
| `MinerWorksAtItsDifficulty` | with nothing under way the miner works at the difficulty its shares are held to, unless an idle decay was overtaken | `mining` |
| `NewestJobIsKept` | a share for the job sent last is never stale; without the upstream pool the window is that of the newest jobs | `mining` |
| `StreaksAreJust` | a streak counts no share sent before the last accepted one, and none reaches its limit on a connection that stays | `mining` |
| `ProofsMatchTheirBlock` | every aux proof is for what its block commits to, at its place, however the works changed meanwhile | `mining` |
| `GuardianTypes` | types of the guardian, the trend within its length | no run (a part of `TypesOK` in `mining`) |
| `AuxProofsAreFound` | for any number of aux chains, the branch of each proof leads from the chain's hash at its place to the root in the submitted coinbase, which stands where a reader looks for it | `mining` |
| `BlocksAreReadWhole` | for any template, at every height a node can count to, a share that is good passes whichever way round its nonce is sent, and what is submitted is a block on the template's parent, with a merkle root, count, coinbase length, height and outputs that a node reads as they were meant | `mining` |
| `QuaiTypes`, `DiffTypes`, `KickTypes`, `MergeTypes`, `BlockTypes` | types of `Quai`, `Vardiff`, `StaleKick`, `Merge` and `Block` | no run (parts of `TypesOK` in `mining`) |
| `AlarmsReachTheOperator` | what a tick finds wrong is recorded, or was within the rule's time; what it alerts of while alerts are on was posted within five minutes, or the webhook failed within them; the events shown are the newest, however often the ring has wrapped | `mining` |
| `RewardsReachTheWallet` | for every hash, a segwit address, or one of base58 for a key, is paid what it names; a segwit address with any one symbol changed, two neighbours swapped, the last symbol missing, another prefix or mixed cases is paid to OP_RETURN, never to anybody else | `mining` |
| `CashAddressesAreNeverPaid`, `LegacyScriptsArePaidAsKeys` | for every hash, what the code does instead of what its comments say (see below): a CashAddr wallet's reward goes to OP_RETURN, and the hash of a script is paid as that of a key | no run; `cash_addresses` shows the first on an instance |

How the arguments go:

- *Share window.* The inductive invariant relates `head`, `count` and the written
  slots: the newest `count` pushes are at the `count` positions before `head`,
  modulo the size. The step that needs work is the push on a full ring, where the
  oldest slot is the one written; lemmas on `%` carry it.
- *Payout engine.* The same inequality is stated of four kinds of images of the
  books: memory, the copies that goroutines hold, the file, and the state before
  a payment is booked. An image is only ever made from memory, and memory only
  from memory or the file, so that an old image satisfies what a newer history
  demands because `earned` and `sent` never shrink. That monotony is what the
  invariant adds to the property. Folds over sequences appear only through
  lemmas of `Lemmas`.
- *State files.* The invariant says who may hold which inode: at most one saver is
  past the lock, no open descriptor is on the installed file, and a temporary
  file that is to be renamed was truncated and written by its own saver.
- *Configuration.* While nothing disturbs (`InOrder`): a request without the lock is
  alone, one that holds it for writing has only tags beside it, every text about to
  be written is that of the memory, and a file that is not will be overwritten. A
  reload takes over the file it read, which is then the file still.
- *Ledger.* The totals alone are not inductive, for two reasons. A verdict finds its
  entry by the hash, so hashes must be distinct in every image of books and log. And
  an orphan that a start took over before it had a confirmation would be counted if
  it were reported mature later, so it must be an orphan wherever the log is kept
  (`Settled`). What the lists count up to is stated by places: the totals of a list
  are the numbers of its places of each kind, which an insertion, a cut and a sort
  move by a bijection.
- *Uptime.* An event more, or a cut, changes nothing the log tells of the past as far as
  it reaches back, so that what was counted for a window still is. The sums of sessions
  and downtimes are compared at the least place where they could differ. That no moment
  too many is counted needs that a worker which has left is about to be reported, or was
  within the grace.
- *Hashrate history.* The cut, the merge of a bucket, the zones put together and the sort
  all make new samples of groups of old ones; the groups do not overlap and take up what
  is kept (`Once`, `Stands`). Nothing is said of the order of times, which is
  not kept (`TimeOrdered` below), so that the search for the cut is only known to find
  some place of the list.
- *Job feed.* The newest job is the last in the queue, or the one being sent when
  the queue is empty (`NewestLast`): only then may a miner that is sent an older job
  be sure of the current one.
- *Sessions.* Where a connection stands decides what is known of it (`Lifecycle`),
  which gives the places of an address; the count is never less than the miners.
  What is said of names needs that a name that is not `mixed` has one connection
  (`OneEach`), and that its base and its session's shares are what it was told
  (`BaseAddsUp`).
- *Failover.* The watchdog looks at the age of an outage, the property at the time
  since a node last answered; an outage is no older than that silence.
- *Swaps.* Job numbers are given once, so that a job is in one place of one list, in
  memory and in the file (`Sound`); a job waits only for orders that were placed. Who
  owns an open order, and where a payment is recorded, is stated of what is held in
  memory or, while the engine is down, in the file. The file is behind the memory from
  the first payment or order of a tick on, and for longer if a save fails, so the
  invariant says of it what it knows: the jobs and orders there were at its save
  (`covered`), as far as they still matter.
- *Quai.* What is written to a miner was stored before, and what was stored is known
  or ten minutes old (`KnownInv`); whoever listens was sent
  the template, is yet to be served, is being written to, or is authorizing and will
  fetch it (`Served`).
- *Vardiff.* The last difficulty told, in the order about to be sent, idle decay, wire,
  miner, is that of the worker (`LastTold`).
- *Stale kicks.* A job of the poller is younger than every other until it is installed,
  as the upstream reader makes none meanwhile; without the upstream pool jobs are
  installed in the order they were made (`WindowInv`). A streak is never longer than
  the run of stale shares that the history variable counts.
- *Merge mining.* Whatever a goroutine holds was made from one snapshot of the works,
  and the place that is looked up in it is one of the commitment made of it.
- *Blocks.* What is sent, found, judged and assembled follows from the template
  (`BlockFollows`); the rest is about the conversions. Each level of a tree is the pairs
  of the one below, so that a climb that holds the hash at its place in one level holds
  it in the next (`OneUp`), up to the only level of width one (`BranchLeadsToRoot`). What
  `buildMerkleBranch` has left beside the coinbase is the level without its first hash
  (`BeyondIsRaised`), and so its branch is that of place 0. Scripts, counts and heights
  are lists put together (`Listed`, `Joined`), read at the places where each part begins.
- *Guardian.* Within a tick the guardian stays watchful: the time of a rule begins only
  with a record of this tick, what was found wrong is within its time, and the slot that
  is i back from the next one holds the i-th newest event, which rests on lemmas about
  remainders. Every rule keeps that; the loop over the chains is a recursive function, of
  which each value keeps it if the one before does. The notifier's own time of a title is
  that of its last post or of its last failure, whichever came later.
- *Addresses.* There is one step, and the rest is about the conversions. A step of the
  checksum can be undone, so that sums that differ stay different while the same values
  follow, and sums that agree stay equal: a changed symbol, or two swapped, make the sum
  differ once, and it never comes back (`OneApartAfter`). That is an induction over the
  values, which `Reached` does by the least place where it would fail. The six last
  values are added to what six zeros would give (`ComeIn`), which is why they can be chosen
  to make the sum 1. The bits of the groups are the bits of the bytes, four zeros at most
  behind them; with the version's eight bits read as five, the rest is a whole group too
  long. In base 58 a step
  is a multiplication and an addition of the number that the digits stand for, a number
  without leading zeros is written in one way only, and the leading zeros are counted
  apart; so the bytes come back, and with them the digest behind them.

Assumptions are those of the modules (`PplnsAssumption` and so on): natural numbers, a
fee of at most 100 %, names that differ, finitely many connections, thresholds in
their order (`MatureAt < TrackTo`), chains of the merge coordinator listed in a
sequence, as are those of the guardian; of a template (`IsTemplate`), that the parent's
hash is whole words, that transactions and aux chains are numbers of three bytes, and
that the height is from 17 to 2^31 - 1 (a node counts blocks in 32 bits with a sign); of hashes (`AddressAssumption`), that they are 20 or 32 bytes. Three theorems
about sessions assume `~Again`: a miner authorizes once per
connection. The code does not enforce that, and `sessions_again` shows that
`MinersAreCounted` fails without it. All others hold without a condition.

Some definitions changed their form for the proofs, not what they compute: loops that
append what they keep (`Swap`, `Merge`, `Ledger`, `Uptime`, `Hashstore`) are written by
`Subsequences` rather than by recursion; the totals of `Ledger` are numbers of places, and
sums of `Uptime` those of `Tally`; a place is looked for among those of the commitment, so
that it is defined whatever is found; the guardian's loop over the chains has a name
(`EvalChains`); the bisection of `Hashstore` is an iterated function, its buckets are runs
of places, and a sample carries the set of what it stands for rather than the number; the
trees of `Block` carry their widths, and its conversions take the template, the job and
what was found as arguments. In `Address` running sums and numbers in a base are functions
of the number of values read, the table of selected sums is a function, and one value more
(`Absorbed`, `Times`) has a name.

Model-checked only:

- liveness (`DueGetsPaid`, `JobsEnd`, `EveryoneCatchesUp`, `OfflineIsReported`,
  `WorkComesHome`, `PoolServes`), which the prover does not do;
- the second conjunct of `HistoryIsBounded`, the length after a compaction: as times do
  not stay in order, it depends on how many runs one bucket can come in, that is on how the
  ends of the zones lie to the widths of the buckets, of which the code has one choice;
- that base58 texts or CashAddr texts with a fault are refused: the first rests on the double
  SHA-256, which is some function here, and the second are refused without a fault as well;
- `TypesOK`, the conjunction of the parts' types in `MCMining` and `MCRecords`: proved
  for each part.

## Where the code departs from its own words

Four runs end in a counterexample, each to a sentence of the repository:

- `snapshot_unlocked`: persist is said to write "atomically" and to be "safe to
  call from any goroutine" (`payout.go` 525). Two of them share one temporary
  name, and one can truncate what the other is about to install.
- `sessions_again`: the count of miners "stays in sync with the workers table"
  (`server.go` 1241). It counts authorizations, and gives one back per connection.
- `merge_proofs`: "AuxPoW for LTC+DOGE and BTC+BCH — one sync, two rewards"
  (`README.md` 34). The callbacks share the variable of the range loop of `main.go`
  (go 1.21), so that `OnAuxBlockFound` asks for the aux chains of the coin that
  comes last, which has none.
- `cash_addresses`: "Bitcoin Cash CashAddr: bitcoincash:q... (P2PKH) or
  bitcoincash:p... (P2SH)" (`bech32.go` 146). The version byte is read from one
  group of five bits; the rest is refused, and the reward goes to OP_RETURN.

More statements are in the modules, and TLC refutes them as well; add the
property to the configuration named, with the change of constants if there is
one:

| property | of | says | configuration |
|---|---|---|---|
| `SwapsSurviveRestarts` | `Swap` | swap state "survives restarts" (`README.md` 327): not an end within a tick, which sends before it saves, nor one in or after a save that leaves the file cut short | `MCSwapOne` |
| `KicksAreReported` | `StaleKick` | the third kick within an hour is reported (`OnStaleKick`): the cleanup of each kicked connection forgets the count | `MCMining`, `AlertAt = 2` (two sessions cannot be kicked three times) |
| `SwitchesBack` | `Failover` | "When the primary recovers, PiPool switches back automatically" (`README.md` 412) | `MCFailover` |
| `ProxyRecovers` | `Failover` | miners are proxied while the node is offline (`README.md` 43): one reconnection is tried | `MCFailover` |
| `AuxSolutionsAreProved` | `Merge` | aux coins "are earned for free" (`README.md` 84): only by blocks of the parent | `MCMining` |
| `LegacyScriptsArePaid` | `Address` | "3... M..." addresses (`bech32.go` 144): paid as if the hash of a script were that of a key | `MCMining` |
| `QuaiChecksTheMinersHeader` | `Block` | "Build the 80-byte header the miner hashed" (`quai/server.go` 569) | `MCMining` |
| `UptimeIsTrue` | `Uptime` | the state before the first event is its opposite (`tracker.go` 257): always offline | `MCRecords` |
| `StatusIsTrue` | `Uptime` | "true = online" (`tracker.go` 42): a late report after a new greeting | `MCRecords` |
| `TimeOrdered` | `Hashstore` | "samples are time-ordered" (`store.go` 114): a bucket cut by a zone has its middle on the other side | `MCRecords` |
| `RemovedPinsGo` | `Settings` | the button *Remove* of the editor (`dashboard/server.go` 3302) | `MCRecords` |
| `EnabledIsSaved` | `Settings` | "enabled and saved" (`main.go` 2361) | `MCRecords` |
| `HistoryIsPickedUp` | `Ledger` | block logs are merged at a start (`tracker.go` 267): the glob of `main.go` 279 looks for `blocklog.json`, the server writes `..._blocklog_SYM.json` | `MCRecords`, `GlobMatches = FALSE` |

With `GlobMatches = FALSE`, which is what the names give, the properties of
`records` hold too; `TRUE`, the harder case, is a file linked to where the glob
looks.

Met while modelling and stated by no property:

- *Payouts.* Credit for a block found during shutdown is lost. A share is
  credited with the present difficulty (`server.go` 1421) though it was judged by the
  one before.
- *Swaps.* Two swaps in flight take each other's BTC; a swap completes with nothing
  withdrawn when a balance call fails; a refused cancellation leaves an order open. After
  a save that left its file cut short, a restart knows of no swap and may start another
  of the same coin while the first is on the exchange.
- *Sessions and work.* Two connections of one worker set each other offline and
  share one base; the TLS listener outlives Stop; a miner that sends and never
  reads stops the feed for everybody; found blocks always go through the
  primary's client (`server.go` 1477), whichever node made the template.
- *Main.* The other callbacks of the servers name the last coin, too.
- *Blocks.* validateShare looks at the share's target first, so that a block of an
  easy chain above it is discarded; a template that sets a bit within the version
  mask cannot be solved by a miner that clears it.
- *Addresses.* Taproot, "LTC1…" in base58, texts with blanks, and CashAddr without its
  prefix give OP_RETURN. Nothing checks the wallet before a block is found.
- *Quai.* The handler may write the older template after the loop wrote the younger,
  and the miner stays on it until the next (therefore `NobodyIsSkipped` says "was
  sent", not "works on"). The job of the current template goes after ten minutes as well,
  if the node has no newer one, and the shares on it are called stale. The limit of 64 connections is read before they count.
- *Vardiff.* A suggestion of the miner is no floor for the idle decay; what the decay
  sends may arrive after a younger change.
- *Configuration.* The editor writes defaults where nothing was set. Save empties the
  file first: after an end in between the pool does not start until `pipool -init`. The
  handlers of `pipoolctl` and the swap page take no lock; `pipoolctl vardiff` only
  answers.
- *Records.* The log of blocks is saved in place and without its confirmations; a block
  cut from the hundred recent ones is counted again if the import finds it. After a
  crash the uptime tracker has the workers online until they reconnect and leave.
- *Guardian.* The notifier limits alerts by title, so that two chains with one title
  share the five minutes.

## What is not modelled

- Prices, fees and amounts of the exchange; logging and the texts of alerts; the loss
  of unsynced data in a power failure (the code never calls Sync).
- Shares forwarded to the upstream pool and their answers; the difficulty loop of the
  Quai server and its two algorithms side by side; the daily figures and fiat values
  of the earnings; the worker state file of the stratum server.
- Components that only translate: exchange clients, RPC transport, worker router, ZMQ,
  ASIC poller, system monitor, metrics, TLS, the HTML of the dashboard, the other messages
  of the notifier, the scripts. They have no state worth a model; what their calls mean
  to the others is in the modules that make them. `main.go` is modelled where it wires
  components together and where it shuts them down; the rest of it fills the
  dashboard's snapshot.

Each component is in `PROJECT.json` with its status and the reason.

## The plan

Done: the payout engine and its window, state files, swap engine, job feed and
sessions; stale kicks, failover with the proxy, vardiff; block log, earnings, uptime,
hashrate history, configuration; guardian; merge mining, blocks, addresses; Quai.
There are theorems about all of them.

What is left, and lies outside what TLAPS does or the code allows to say: liveness, and a
bound on the length of the hashrate history for all zones and buckets. The downsampling
does not keep the order of times (`TimeOrdered`), so that such a bound would have to count
how often a bucket can be cut.
