-------------------------------- MODULE Swap --------------------------------
(***************************************************************************)
(* The auto-swap engine (swap/engine.go) with the exchange and the coin    *)
(* wallets it talks to.  One goroutine runs tick with e.mu held: it moves  *)
(* every job in flight one step, retires finished jobs, starts new swaps,  *)
(* and writes jobs and history to the state file.  The exchange credits    *)
(* deposits and fills orders in between.  A tick is one action per job and *)
(* per rule, and two for the file, which is emptied before it is written,  *)
(* because the process may end between them: Stop only closes a channel,   *)
(* so even a clean exit cuts off a running tick.                           *)
(*                                                                         *)
(* All prices are 1 and fees are left out: an amount of the source, of     *)
(* BTC and of the destination is the same number of units, so that where   *)
(* coins go can be followed.  The alerts are left out.                     *)
(***************************************************************************)
EXTENDS Subsequences

CONSTANTS
  Coins,        \* source coins that have a wallet and a deposit address
  BTC,          \* the coin every market is quoted in
  Dest,         \* Dest[c]: the destination of c's rule
  MinBalance,   \* of every rule
  KeepBalance,  \* of every rule
  Xeggex,       \* the exchange: XeggeX, or else TradeOgre
  MaxHistory,   \* finished jobs kept (50 in cleanupJobs)
  MaxMined,     \* bound: units mined per coin
  MaxJobs,      \* bound: jobs created
  MaxFaults,    \* bound: answers lost and cancellations refused
  MaxCrashes    \* bound: restarts

ASSUME SwapAssumption ==
  /\ DOMAIN Dest = Coins
  /\ \A c \in Coins : Dest[c] # c      \* such a market does not exist
  /\ MinBalance \in Nat /\ KeepBalance \in Nat
  /\ Xeggex \in BOOLEAN
  /\ {MaxHistory, MaxMined, MaxJobs, MaxFaults, MaxCrashes} \subseteq Nat

VARIABLES
  jobs,      \* Engine.jobs
  history,   \* Engine.history, oldest first, by the numbers of the jobs
  phase,     \* idle between ticks; advance, start, saving: in a tick; down
  late,      \* the jobs that have waited 6 hours for a deposit, 2 for an order
  pos,       \* advance: the index in jobs of the next job to move
  todo,      \* start: the coins whose rule has still to be looked at
  disk,      \* what loadState would get from the state file
  wallet,    \* confirmed balances of the coin daemons
  transit,   \* sent to the exchange, not yet credited
  avail,     \* available balances on the exchange
  orders,    \* orders ever placed, the order's id is its index
  made,      \* number of jobs created
  sentBy,    \* the jobs whose coins have left the wallet
  faults,    \* answers lost and cancellations refused so far
  crashes,   \* restarts so far
  covered,   \* the jobs and orders there were at the save that disk is of
  cutOff,    \* jobs made since that save when the process ended
  orphans,   \* orders the engine lost sight of
  forgotten  \* finished jobs that the full history dropped

engine == <<jobs, history, late, phase, pos, todo>>
stateFile == <<disk, covered>>
outside == <<wallet, transit, avail, orders>>
lost == <<cutOff, orphans, forgotten>>
swapVars == <<engine, stateFile, outside, made, sentBy, faults, crashes, lost>>
-----------------------------------------------------------------------------
Assets == Coins \cup {BTC} \cup {Dest[c] : c \in Coins}
Entries(s) == {s[i] : i \in DOMAIN s}

Active(j) == j.state \in {"wait_deposit", "selling", "buying"}
\* A slip: only a job waiting for its deposit counts as in flight.
HasWaitingJob(c) == \E j \in Entries(jobs) : j.src = c /\ j.state = "wait_deposit"

\* hasActiveJob
HasActiveJob(c) == \E j \in Entries(jobs) : j.src = c /\ Active(j)

Enters(j, s) == [j EXCEPT !.state = s]

\* The job being advanced becomes j, and the tick goes on to the next.  In another
\* state UpdatedAt is now: it has waited for no time.
Becomes(j) ==
  /\ jobs' = [jobs EXCEPT ![pos] = j]
  /\ late' = IF j.state = jobs[pos].state THEN late ELSE late \ {j.id}
  /\ pos' = pos + 1

\* The exchange opens order n: qty units of one coin against another.
Place(pay, get, qty) ==
  /\ orders' = Append(orders, [pay |-> pay, get |-> get, qty |-> qty,
                               status |-> "open"])
  /\ avail' = [avail EXCEPT ![pay] = @ - qty]

\* GetOrder: XeggeX reports the status; TradeOgre no longer knows an order
\* that is not open, and the adapter takes that for filled.
ReportsFilled(n) ==
  IF Xeggex THEN orders[n].status = "filled" ELSE orders[n].status # "open"
-----------------------------------------------------------------------------
\* What loadState gets from a file that is empty or cut short: nothing.
NoRecords == [jobs |-> << >>, history |-> << >>]

SwapInit ==
  /\ jobs = << >> /\ history = << >> /\ late = {}
  /\ phase = "idle" /\ pos = 1 /\ todo = {}
  /\ disk = NoRecords /\ covered = [jobs |-> 0, orders |-> 0]
  /\ wallet = [c \in Coins |-> 0] /\ transit = [c \in Coins |-> 0]
  /\ avail = [a \in Assets |-> 0]
  /\ orders = << >>
  /\ made = 0 /\ sentBy = {} /\ faults = 0 /\ crashes = 0
  /\ cutOff = {} /\ orphans = {} /\ forgotten = {}

\* tick begins: its first loop will visit the jobs in order.
TickBegins ==
  /\ phase = "idle"
  /\ phase' = "advance" /\ pos' = 1
  /\ UNCHANGED <<jobs, history, late, todo, stateFile, outside, made, sentBy,
                 faults, crashes, lost>>

Advancing == phase = "advance" /\ pos <= Len(jobs)
Job == jobs[pos]

\* A finished job is skipped, and a call that fails leaves a job as it is.
Stays ==
  /\ Advancing
  /\ Becomes(Job)
  /\ UNCHANGED <<history, phase, todo, stateFile, outside, made, sentBy,
                 faults, crashes, lost>>

\* A slip: the wait begins anew instead of ending.
DepositWaitsAgain ==
  /\ Advancing /\ Job.state = "wait_deposit"
  /\ avail[Job.src] < Job.amount /\ Job.id \in late
  /\ jobs' = jobs /\ late' = late \ {Job.id} /\ pos' = pos + 1
  /\ UNCHANGED <<history, phase, todo, stateFile, outside, made, sentBy,
                 faults, crashes, lost>>

\* advanceWaitDeposit: still not credited after 6 hours.
DepositTimesOut ==
  /\ Advancing /\ Job.state = "wait_deposit"
  /\ avail[Job.src] < Job.amount /\ Job.id \in late
  /\ Becomes(Enters(Job, "failed"))
  /\ UNCHANGED <<history, phase, todo, stateFile, outside, made, sentBy,
                 faults, crashes, lost>>

\* initiateWithdraw: the job is complete whether or not the exchange sends;
\* TradeOgre has no such call, XeggeX refuses what it does not have.
Withdraw(j) ==
  LET coin == Dest[j.src]
      amount == IF coin = BTC THEN j.proceeds ELSE j.received
  IN  /\ Becomes(Enters(j, "complete"))
      /\ \/ /\ Xeggex /\ 0 < amount /\ amount <= avail[coin]
            /\ avail' = [avail EXCEPT ![coin] = @ - amount]
         \/ UNCHANGED avail
      /\ UNCHANGED <<orders, faults, orphans>>

\* An order for job j: opened (done), refused or no ticker (failed), or
\* opened with the answer lost, which the engine takes for refused.
Order(j, done, pay, get, qty) ==
  \/ /\ Becomes(Enters(j, "failed"))
     /\ UNCHANGED <<avail, orders, faults, orphans>>
  \/ /\ 0 < qty /\ qty <= avail[pay]
     /\ Place(pay, get, qty)
     /\ \/ Becomes(done) /\ UNCHANGED <<faults, orphans>>
        \/ /\ faults < MaxFaults
           /\ faults' = faults + 1
           /\ orphans' = orphans \cup {Len(orders) + 1}
           /\ Becomes(Enters(j, "failed"))

\* placeBuyOrder: everything the job calls its proceeds, unless it is BTC
\* that was wanted.
Buy(j) ==
  IF Dest[j.src] = BTC THEN Withdraw(j)
  ELSE Order(j, [Enters(j, "buying") EXCEPT !.buy = Len(orders) + 1],
             BTC, Dest[j.src], j.proceeds)

\* advanceWaitDeposit and placeSellOrder: the whole available balance is
\* sold, whoever brought it there; BTC needs no sale.
DepositArrived ==
  /\ Advancing /\ Job.state = "wait_deposit"
  /\ avail[Job.src] >= Job.amount
  /\ IF Job.src = BTC
       THEN Buy([Job EXCEPT !.proceeds = avail[BTC]])
       ELSE Order(Job,
                  [Enters(Job, "selling") EXCEPT !.sell = Len(orders) + 1],
                  Job.src, BTC, avail[Job.src])
  /\ UNCHANGED <<history, phase, todo, stateFile, wallet, transit, made,
                 sentBy, crashes, cutOff, forgotten>>

\* advanceSelling: the order is filled, and the whole BTC balance is taken
\* for the proceeds of this job.
SaleDone ==
  /\ Advancing /\ Job.state = "selling"
  /\ ReportsFilled(Job.sell)
  /\ Buy([Job EXCEPT !.proceeds = avail[BTC]])
  /\ UNCHANGED <<history, phase, todo, stateFile, wallet, transit, made,
                 sentBy, crashes, cutOff, forgotten>>

\* advanceBuying: filled.  What was received is the balance of the
\* destination, or nothing when the balance cannot be had.
PurchaseDone ==
  /\ Advancing /\ Job.state = "buying"
  /\ ReportsFilled(Job.buy)
  /\ \E r \in {avail[Dest[Job.src]], Job.received} :
       Withdraw([Job EXCEPT !.received = r])
  /\ UNCHANGED <<history, phase, todo, stateFile, wallet, transit, made,
                 sentBy, crashes, cutOff, forgotten>>

\* advanceSelling, advanceBuying: not filled in 2 hours.  TradeOgre's adapter
\* says so too when the exchange answers with another error.  The result of
\* CancelOrder is not looked at; a refused one leaves the order open.
OrderTimesOut ==
  /\ Advancing /\ Job.state \in {"selling", "buying"} /\ Job.id \in late
  /\ LET n == IF Job.state = "selling" THEN Job.sell ELSE Job.buy
     IN  /\ Xeggex => ~ReportsFilled(n)
         /\ \/ /\ orders[n].status = "open"
               /\ orders' = [orders EXCEPT ![n].status = "cancelled"]
               /\ avail' = [avail EXCEPT ![orders[n].pay] = @ + orders[n].qty]
               /\ UNCHANGED <<faults, orphans>>
            \/ /\ orders[n].status # "open"
               /\ UNCHANGED <<avail, orders, faults, orphans>>
            \/ /\ faults < MaxFaults
               /\ faults' = faults + 1
               /\ orphans' = orphans \cup {n}
               /\ UNCHANGED <<avail, orders>>
  /\ Becomes(Enters(Job, "failed"))
  /\ UNCHANGED <<history, phase, todo, stateFile, wallet, transit, made,
                 sentBy, crashes, cutOff, forgotten>>

\* The jobs in flight, by their places, and what the history keeps of these.
Running == {i \in DOMAIN jobs : Active(jobs[i])}
Remembered(finished) ==
  SubSeq(finished,
         IF Len(finished) > MaxHistory THEN Len(finished) - MaxHistory + 1 ELSE 1,
         Len(finished))

Ended == DOMAIN jobs \ Running
JobNumbers == [i \in DOMAIN jobs |-> jobs[i].id]
Finished == history \o ElementsAt(JobNumbers, Ended)
Dropped(finished) == {finished[i] : i \in 1..(Len(finished) - MaxHistory)}

\* A slip: failed jobs are dropped.
CleanupForgets ==
  /\ phase = "advance" /\ pos > Len(jobs)
  /\ LET complete == {i \in DOMAIN jobs : jobs[i].state = "complete"}
     IN  history' = Remembered(history \o ElementsAt(JobNumbers, complete))
  /\ jobs' = ElementsAt(jobs, Running)
  /\ forgotten' = forgotten \cup Dropped(Finished)
  /\ phase' = "start" /\ pos' = 1 /\ todo' = Coins
  /\ UNCHANGED <<late, stateFile, outside, made, sentBy, faults, crashes,
                 cutOff, orphans>>

\* cleanupJobs: finished jobs go to the history, which keeps the newest.
CleanupJobs ==
  /\ phase = "advance" /\ pos > Len(jobs)
  /\ history' = Remembered(Finished)
  /\ jobs' = ElementsAt(jobs, Running)
  /\ forgotten' = forgotten \cup Dropped(Finished)
  /\ phase' = "start" /\ pos' = 1 /\ todo' = Coins
  /\ UNCHANGED <<late, stateFile, outside, made, sentBy, faults, crashes,
                 cutOff, orphans>>

\* A rule that starts nothing: it is not enabled (any may be, in any tick), a job
\* is in flight, the wallet does not answer, or holds too little.
PassRule(c) ==
  /\ phase = "start" /\ c \in todo
  /\ todo' = todo \ {c}
  /\ UNCHANGED <<jobs, history, late, phase, pos, stateFile, outside, made, sentBy,
                 faults, crashes, lost>>

\* checkAndInitiate: the coins are sent, or not; without an answer they may
\* be gone although the job is recorded as failed.
Initiate(c) ==
  /\ phase = "start" /\ c \in todo /\ ~HasActiveJob(c)
  /\ made < MaxJobs
  /\ LET amount == wallet[c] - KeepBalance
         job(s) == [id |-> made + 1, src |-> c, amount |-> amount, state |-> s,
                    sell |-> 0, buy |-> 0, proceeds |-> 0, received |-> 0]
         sends == /\ amount > 0
                  /\ wallet' = [wallet EXCEPT ![c] = KeepBalance]
                  /\ transit' = [transit EXCEPT ![c] = @ + amount]
                  /\ sentBy' = sentBy \cup {made + 1}
     IN  /\ amount \in Nat /\ amount >= MinBalance
         /\ \/ /\ sends
               /\ jobs' = Append(jobs, job("wait_deposit"))
               /\ UNCHANGED faults
            \/ /\ faults < MaxFaults /\ faults' = faults + 1
               /\ sends
               /\ jobs' = Append(jobs, job("failed"))
            \/ /\ jobs' = Append(jobs, job("failed"))
               /\ UNCHANGED <<wallet, transit, sentBy, faults>>
  /\ made' = made + 1
  /\ todo' = todo \ {c}
  /\ UNCHANGED <<history, late, phase, pos, stateFile, avail, orders, crashes, lost>>

\* saveState, the end of tick, rewrites the file in place: os.WriteFile empties
\* it first.
OpenState ==
  /\ phase = "start" /\ todo = {}
  /\ disk' = NoRecords /\ covered' = [jobs |-> 0, orders |-> 0]
  /\ phase' = "saving"
  /\ UNCHANGED <<jobs, history, late, pos, todo, outside, made, sentBy,
                 faults, crashes, lost>>

\* It cannot be opened: the error is logged, and the file stays as it was.
OpenStateFails ==
  /\ phase = "start" /\ todo = {}
  /\ phase' = "idle"
  /\ UNCHANGED <<jobs, history, late, pos, todo, stateFile, outside, made, sentBy,
                 faults, crashes, lost>>

WriteState ==
  /\ phase = "saving"
  /\ disk' = [jobs |-> jobs, history |-> history]
  /\ covered' = [jobs |-> made, orders |-> Len(orders)]
  /\ phase' = "idle"
  /\ UNCHANGED <<jobs, history, late, pos, todo, outside, made, sentBy,
                 faults, crashes, lost>>

\* The disk is full: logged, and the file stays cut short.
WriteStateFails ==
  /\ phase = "saving"
  /\ phase' = "idle"
  /\ UNCHANGED <<jobs, history, late, pos, todo, stateFile, outside, made, sentBy,
                 faults, crashes, lost>>

\* UpdateRule, from the dashboard, between two ticks: any rule may be another now,
\* and it saves as a tick does.
UpdateRule ==
  /\ phase = "idle"
  /\ phase' = "start"
  /\ UNCHANGED <<jobs, history, late, pos, todo, stateFile, outside, made, sentBy,
                 faults, crashes, lost>>
-----------------------------------------------------------------------------
\* A block reward matures in the wallet.
Mined(c) ==
  /\ wallet[c] < MaxMined
  /\ wallet' = [wallet EXCEPT ![c] = @ + 1]
  /\ UNCHANGED <<engine, stateFile, transit, avail, orders, made, sentBy, faults,
                 crashes, lost>>

\* The exchange credits what has arrived.
Credited(c) ==
  /\ transit[c] > 0
  /\ avail' = [avail EXCEPT ![c] = @ + transit[c]]
  /\ transit' = [transit EXCEPT ![c] = 0]
  /\ UNCHANGED <<engine, stateFile, wallet, orders, made, sentBy, faults, crashes,
                 lost>>

\* The exchange fills an open order.
Filled(n) ==
  /\ n \in DOMAIN orders /\ orders[n].status = "open"
  /\ orders' = [orders EXCEPT ![n].status = "filled"]
  /\ avail' = [avail EXCEPT ![orders[n].get] = @ + orders[n].qty]
  /\ UNCHANGED <<engine, stateFile, wallet, transit, made, sentBy, faults, crashes,
                 lost>>

\* Time, between two ticks: job k has been in its state for 6 hours or 2.  After a
\* restart time passes anew, maybe before the first tick.
GrowsLate(k) ==
  /\ phase = "idle"
  /\ \E j \in Entries(jobs) : j.id = k /\ Active(j) /\ k \notin late
  /\ late' = late \cup {k}
  /\ UNCHANGED <<jobs, history, phase, pos, todo, stateFile, outside, made, sentBy,
                 faults, crashes, lost>>

\* The process ends at any moment, within a tick or a save too, and memory is
\* lost.  The file knows nothing of what came after its save.
Crash ==
  /\ phase # "down" /\ crashes < MaxCrashes
  /\ phase' = "down"
  /\ jobs' = << >> /\ history' = << >> /\ late' = {} /\ pos' = 1 /\ todo' = {}
  /\ crashes' = crashes + 1
  /\ cutOff' = cutOff \cup (covered.jobs + 1)..made
  /\ orphans' = orphans \cup (covered.orders + 1)..Len(orders)
  /\ UNCHANGED <<stateFile, outside, made, sentBy, faults, forgotten>>

\* A slip: the jobs in flight are not loaded.
StartWithoutJobs ==
  /\ phase = "down"
  /\ jobs' = << >> /\ history' = disk.history
  /\ phase' = "idle"
  /\ UNCHANGED <<late, pos, todo, stateFile, outside, made, sentBy, faults,
                 crashes, lost>>

\* New: loadState, and Start runs the loop.
Start ==
  /\ phase = "down"
  /\ jobs' = disk.jobs /\ history' = disk.history
  /\ phase' = "idle"
  /\ UNCHANGED <<late, pos, todo, stateFile, outside, made, sentBy, faults,
                 crashes, lost>>

Exchange == \/ \E c \in Coins : Mined(c) \/ Credited(c)
            \/ \E n \in 1..Len(orders) : Filled(n)

SwapNext ==
  \/ TickBegins \/ Stays \/ DepositTimesOut \/ DepositArrived \/ SaleDone
  \/ PurchaseDone \/ OrderTimesOut \/ CleanupJobs
  \/ \E c \in Coins : PassRule(c) \/ Initiate(c)
  \/ UpdateRule \/ OpenState \/ OpenStateFails \/ WriteState \/ WriteStateFails
  \/ Exchange
  \/ \E k \in 1..made : GrowsLate(k)
  \/ Crash \/ Start

SwapSpec == SwapInit /\ [][SwapNext]_swapVars

\* The ticker keeps firing, and the tick gets e.mu at last though the dashboard
\* takes it again and again (a sync.Mutex starves nobody); time passes, and an
\* exchange that is asked again and again answers at last.  Nothing is assumed
\* of deposits and fills.
SwapFairness ==
  /\ SF_swapVars(TickBegins) /\ WF_swapVars(Stays) /\ WF_swapVars(CleanupJobs)
  /\ WF_swapVars(\E c \in Coins : PassRule(c))
  /\ WF_swapVars(OpenState \/ OpenStateFails) /\ WF_swapVars(WriteState \/ WriteStateFails)
  /\ SF_swapVars(\/ DepositTimesOut \/ DepositArrived
                 \/ SaleDone \/ PurchaseDone \/ OrderTimesOut)
  /\ SF_swapVars(\E k \in 1..MaxJobs : GrowsLate(k))

SwapFairSpec == SwapSpec /\ SwapFairness
-----------------------------------------------------------------------------
JobRecord ==
  [id : 1..MaxJobs, src : Coins, amount : Nat,
   state : {"wait_deposit", "selling", "buying", "complete", "failed"},
   sell : Nat, buy : Nat, proceeds : Nat, received : Nat]

\* The records a restart continues from or the engine works on.
Held == IF phase = "down" THEN disk ELSE [jobs |-> jobs, history |-> history]
Ids(r) == {j.id : j \in Entries(r.jobs)} \cup Entries(r.history)

\* The fields of the engine and of the exchange; balances never go negative
\* (whatever the engine orders is covered), the history keeps its cap.
SwapTypeOK ==
  /\ {jobs, disk.jobs} \subseteq Seq(JobRecord)
  /\ {history, disk.history} \subseteq Seq(1..MaxJobs) /\ late \subseteq 1..made
  /\ Len(history) <= MaxHistory /\ Len(disk.history) <= MaxHistory
  /\ phase \in {"idle", "advance", "start", "saving", "down"} /\ pos \in 1..(MaxJobs + 1)
  /\ todo \subseteq Coins
  /\ wallet \in [Coins -> Nat] /\ transit \in [Coins -> Nat]
  /\ avail \in [Assets -> Nat]
  /\ \A j \in Entries(jobs) : {j.sell, j.buy} \subseteq 0..Len(orders)
  /\ made \in 0..MaxJobs /\ sentBy \subseteq 1..made
  /\ faults \in 0..MaxFaults /\ crashes \in 0..MaxCrashes
  /\ covered \in [jobs : 0..made, orders : 0..Len(orders)]
  /\ cutOff \subseteq 1..made /\ orphans \subseteq 1..Len(orders)
  /\ forgotten \subseteq 1..made

\* A coin is never swapped twice at the same time, and no job is both in
\* flight and finished, in memory or in the file, across restarts.
OneActivePerCoin ==
  \A r \in {Held, disk} :
    /\ \A i, k \in DOMAIN r.jobs :
         Active(r.jobs[i]) /\ Active(r.jobs[k]) /\ i # k
           => r.jobs[i].src # r.jobs[k].src
    /\ \A j \in Entries(r.jobs) : j.id \notin Entries(r.history)

\* Whatever left a wallet for the exchange is on record, as a job in flight or in
\* the history, until fifty later jobs push it out, through saves that fail and
\* ends at any moment: a restart loses no swap but those started since the save
\* that is whole in the file.
SentIsRecorded == sentBy \subseteq Ids(Held) \cup forgotten \cup cutOff

\* An order open on the exchange belongs to a job in flight, which will look after
\* it, in memory or, while the engine is down, in the file.  The exceptions: the
\* answer that it was placed is lost, its cancellation refused, or the process ends
\* before a save that knows of it.
OrdersAreOwned ==
  \A n \in DOMAIN orders \ orphans : orders[n].status = "open" =>
    \E j \in Entries(Held.jobs) :
      \/ j.state = "selling" /\ j.sell = n
      \/ j.state = "buying" /\ j.buy = n

\* Not so: what the manual says of the state, that it survives restarts.  Coins are
\* sent before anything is saved, and a save empties the file before it fills it.
SwapsSurviveRestarts == sentBy \subseteq Ids(Held) \cup forgotten

\* Every swap in flight comes to an end, even if the deposit never arrives
\* and no order is ever filled.
JobsEnd ==
  \A k \in 1..MaxJobs : []<>(\A j \in Entries(jobs) : j.id = k => ~Active(j))
=============================================================================
