------------------------------- MODULE Pplns -------------------------------
(***************************************************************************)
(* The PPLNS payout engine (pplns/payout.go) with its callers in           *)
(* cmd/pipool/main.go: shares are recorded, a found block credits the      *)
(* workers of the share window, a ticker pays balances that are due        *)
(* through the coin daemon, and the state is persisted by goroutines that  *)
(* copy it under the lock and write the file after releasing it.  The      *)
(* process stops on a signal, crashes, and starts again from the file.     *)
(*                                                                         *)
(* Amounts are whole units of 1e-8 coin.  Every method holds e.mu for its  *)
(* whole duration, so it is one action, except ProcessPayouts, which calls *)
(* the daemon with the lock held: each call is an action.  Writing the     *)
(* file is one action here; SnapshotFile looks inside it.                  *)
(***************************************************************************)
EXTENDS LastNShares, Tally, FiniteSets

CONSTANTS
  Coins,         \* coin symbols
  Workers,       \* the worker names shares are recorded under
  Diffs,         \* share difficulties
  WindowSize,    \* cfg.WindowSize
  Rewards,       \* block rewards passed to BlockFound
  FeePct,        \* cfg.PoolFeeRate
  MinPayout,     \* MinPayout[c]: cfg.MinPayout or the fallback, > 0
  RpcCoins,      \* the coins ProcessPayouts has a client for
  Payable,       \* the worker names the daemon accepts as addresses
  MaxPayoutLog,  \* maxPayoutLog
  Goroutines,    \* bound: `go e.persist()' goroutines alive at once
  MaxEarned,     \* bound: credit of one account
  MaxFaults      \* bound: crashes, shutdowns and lost answers

ASSUME PplnsAssumption ==
  /\ Diffs \subseteq Nat \ {0}            \* RecordShare rejects d <= 0
  /\ WindowSize \in Nat \ {0}             \* defaults()
  /\ Rewards \subseteq Nat \ {0}          \* BlockFound rejects r <= 0
  /\ FeePct \in 0..100                    \* defaults()
  /\ MinPayout \in [Coins -> Nat \ {0}]
  /\ RpcCoins \subseteq Coins
  /\ Payable \subseteq Workers
  /\ MaxPayoutLog \in Nat
  /\ MaxEarned \in Nat
  /\ MaxFaults \in Nat
  /\ {"loop", "stop"} \cap Goroutines = {}

Accounts == Coins \X Workers
Share == [worker : Workers, diff : Diffs]
Payment == [account : Accounts, amount : Nat]
Image == [window : [Coins -> Seq(Share)], balances : [Accounts -> Nat],
          paid : [Accounts -> Nat], payouts : Seq(Payment)]

\* The persists in progress: spawned ones, the loop's, and Stop's.
Persists == Goroutines \cup {"loop", "stop"}

VARIABLES
  window,    \* Engine.windows, each as its snapshot()
  balances,  \* Engine.balances; 0 stands for a missing entry
  paid,      \* Engine.paid
  payouts,   \* Engine.payouts, newest first
  payer,     \* who runs ProcessPayouts and holds e.mu: none, ticker, main
  todo,      \* the due accounts this ProcessPayouts has still to visit
  stage,     \* of each persist: idle, wanted (spawned), taken (copy made)
  snap,      \* the copy a taken persist will write
  phase,     \* up; draining, closing, closed: a shutdown; down
  disk,      \* the contents of the state file
  sent,      \* what the daemons really sent to each account
  earned,    \* all credit ever given to each account
  faults     \* crashes, shutdowns and lost answers so far

memory == <<window, balances, paid, payouts>>
vars == <<window, balances, paid, payouts, payer, todo, stage, snap, phase,
          disk, sent, earned, faults>>

Blank == [window |-> [c \in Coins |-> << >>],
          balances |-> [a \in Accounts |-> 0],
          paid |-> [a \in Accounts |-> 0],
          payouts |-> << >>]
-----------------------------------------------------------------------------
Alive == phase # "down"
Unlocked == payer = "none"

\* buildPersistState
Current == [window |-> window, balances |-> balances, paid |-> paid,
            payouts |-> payouts]

\* Difficulty of the shares of w in a window, and of all of them.
WorkerDiff(win, w) ==
  Total([i \in 1..Len(win) |-> IF win[i].worker = w THEN win[i].diff ELSE 0])
TotalDiff(win) == Total([i \in 1..Len(win) |-> win[i].diff])

\* A slip: the pool fee is not taken.
CreditBeforeFee(win, w, r) == RoundDiv(r * WorkerDiff(win, w), TotalDiff(win))

\* roundTo(distributable * share, 8)
Credit(win, w, r) ==
  RoundDiv(r * (100 - FeePct) * WorkerDiff(win, w), 100 * TotalDiff(win))

\* What BlockFound adds to the balance of account a.
Gain(a, c, r) == IF a[1] = c THEN Credit(window[c], a[2], r) ELSE 0

\* The accounts ProcessPayouts does not skip.
Due == {a \in Accounts : a[1] \in RpcCoins /\ balances[a] >= MinPayout[a[1]]}

\* The payout log after one more record.
Logged(p) ==
  LET all == << p >> \o payouts
  IN  IF Len(all) > MaxPayoutLog THEN SubSeq(all, 1, MaxPayoutLog) ELSE all
-----------------------------------------------------------------------------
Init ==
  /\ window = Blank.window /\ balances = Blank.balances
  /\ paid = Blank.paid /\ payouts = Blank.payouts
  /\ payer = "none" /\ todo = {}
  /\ stage = [k \in Persists |-> "idle"]
  /\ snap = [k \in Persists |-> Blank]
  /\ phase = "down"
  /\ disk = Blank
  /\ sent = [a \in Accounts |-> 0]
  /\ earned = [a \in Accounts |-> 0]
  /\ faults = 0

\* A share accepted by a stratum server; the servers run until the exit.
RecordShare(c, w, d) ==
  /\ Alive /\ Unlocked
  /\ window' = [window EXCEPT
                  ![c] = PushLast(@, [worker |-> w, diff |-> d], WindowSize)]
  /\ UNCHANGED <<balances, paid, payouts, payer, todo, stage, snap, phase,
                 disk, sent, earned, faults>>

\* go e.persist()
Spawn(g) ==
  /\ stage[g] = "idle"
  /\ stage' = [stage EXCEPT ![g] = "wanted"]

BlockFound(c, r) ==
  /\ Alive /\ Unlocked
  /\ window[c] # << >>
  /\ \A a \in Accounts : earned[a] + Gain(a, c, r) <= MaxEarned
  /\ balances' = [a \in Accounts |-> balances[a] + Gain(a, c, r)]
  /\ earned' = [a \in Accounts |-> earned[a] + Gain(a, c, r)]
  /\ \E g \in Goroutines : Spawn(g)
  /\ UNCHANGED <<window, paid, payouts, payer, todo, snap, phase, disk, sent,
                 faults>>

\* A slip: a balance that just reaches the minimum is skipped.
BeginPayoutsAbove(who) ==
  /\ Alive /\ Unlocked
  /\ who = "main" => phase = "draining"
  /\ \E g \in Goroutines : stage[g] = "idle"
  /\ payer' = who
  /\ todo' = {a \in Due : balances[a] > MinPayout[a[1]]}
  /\ UNCHANGED <<window, balances, paid, payouts, stage, snap, phase, disk,
                 sent, earned, faults>>

\* ProcessPayouts takes the lock: on a tick, or once more on shutdown.  The
\* bound on goroutines leaves room for the one it spawns at the end.
BeginPayouts(who) ==
  /\ Alive /\ Unlocked
  /\ who = "main" => phase = "draining"
  /\ \E g \in Goroutines : stage[g] = "idle"
  /\ payer' = who
  /\ todo' = Due
  /\ UNCHANGED <<window, balances, paid, payouts, stage, snap, phase, disk,
                 sent, earned, faults>>

\* Two slips: the balance stays, the total paid is overwritten.
BookUndeducted(a) ==
  /\ UNCHANGED balances
  /\ paid' = [paid EXCEPT ![a] = @ + balances[a]]
  /\ payouts' = Logged([account |-> a, amount |-> balances[a]])

BookOverwrites(a) ==
  /\ balances' = [balances EXCEPT ![a] = 0]
  /\ paid' = [paid EXCEPT ![a] = balances[a]]
  /\ payouts' = Logged([account |-> a, amount |-> balances[a]])

\* The books after account a was paid its balance.
Book(a) ==
  /\ balances' = [balances EXCEPT ![a] = 0]
  /\ paid' = [paid EXCEPT ![a] = @ + balances[a]]
  /\ payouts' = Logged([account |-> a, amount |-> balances[a]])

\* SendToAddress returned a transaction id.
SendSucceeds(a) ==
  /\ a \in todo /\ a[2] \in Payable
  /\ sent' = [sent EXCEPT ![a] = @ + balances[a]]
  /\ Book(a)
  /\ todo' = todo \ {a}
  /\ UNCHANGED <<window, payer, stage, snap, phase, disk, earned, faults>>

\* A slip: a failed payment is booked like a made one.
SendFailsBooked(a) ==
  /\ a \in todo
  /\ Book(a)
  /\ todo' = todo \ {a}
  /\ UNCHANGED <<window, payer, stage, snap, phase, disk, sent, earned, faults>>

\* SendToAddress returned an error and nothing was sent.
SendFails(a) ==
  /\ a \in todo
  /\ todo' = todo \ {a}
  /\ UNCHANGED <<window, balances, paid, payouts, payer, stage, snap, phase,
                 disk, sent, earned, faults>>

\* The daemon sent the coins, but its answer did not arrive within the
\* client's timeout: SendToAddress returns an error all the same.
AnswerLost(a) ==
  /\ faults < MaxFaults
  /\ a \in todo /\ a[2] \in Payable
  /\ sent' = [sent EXCEPT ![a] = @ + balances[a]]
  /\ todo' = todo \ {a}
  /\ faults' = faults + 1
  /\ UNCHANGED <<window, balances, paid, payouts, payer, stage, snap, phase,
                 disk, earned>>

\* ProcessPayouts spawns a persist and returns; main goes on to Stop.
EndPayouts ==
  /\ payer # "none" /\ todo = {}
  /\ \E g \in Goroutines : Spawn(g)
  /\ phase' = IF payer = "main" THEN "closing" ELSE phase
  /\ payer' = "none"
  /\ UNCHANGED <<window, balances, paid, payouts, todo, snap, disk, sent,
                 earned, faults>>
-----------------------------------------------------------------------------
\* The ticker of loop() fires; it may still be chosen after close(stopCh).
LoopTick ==
  /\ phase \in {"up", "draining", "closing"}
  /\ stage["loop"] = "idle" /\ stage["stop"] = "idle"
  /\ stage' = [stage EXCEPT !["loop"] = "wanted"]
  /\ UNCHANGED <<window, balances, paid, payouts, payer, todo, snap, phase,
                 disk, sent, earned, faults>>

\* persist(), first half: the copy is made under the read lock.
TakeSnapshot(k) ==
  /\ stage[k] = "wanted" /\ Unlocked
  /\ stage' = [stage EXCEPT ![k] = "taken"]
  /\ snap' = [snap EXCEPT ![k] = Current]
  /\ UNCHANGED <<window, balances, paid, payouts, payer, todo, phase, disk,
                 sent, earned, faults>>

\* persist(), second half: writeState, with no lock.  After its own persist
\* Stop returns and main stops the other components.
WriteState(k) ==
  /\ stage[k] = "taken"
  /\ disk' = snap[k]
  /\ stage' = [stage EXCEPT ![k] = "idle"]
  /\ snap' = [snap EXCEPT ![k] = Blank]
  /\ phase' = IF k = "stop" THEN "closed" ELSE phase
  /\ UNCHANGED <<window, balances, paid, payouts, payer, todo, sent, earned,
                 faults>>
-----------------------------------------------------------------------------
\* A signal: main will run the final ProcessPayouts, then Stop.
Shutdown ==
  /\ phase = "up" /\ faults < MaxFaults
  /\ phase' = "draining"
  /\ faults' = faults + 1
  /\ UNCHANGED <<window, balances, paid, payouts, payer, todo, stage, snap,
                 disk, sent, earned>>

\* Stop: wg.Wait returns when loop() has, then the last persist begins.
StopPersist ==
  /\ phase = "closing"
  /\ stage["loop"] = "idle" /\ stage["stop"] = "idle"
  /\ stage' = [stage EXCEPT !["stop"] = "wanted"]
  /\ UNCHANGED <<window, balances, paid, payouts, payer, todo, snap, phase,
                 disk, sent, earned, faults>>

\* The process is gone, and with it its memory and its goroutines.
Gone ==
  /\ phase' = "down"
  /\ window' = Blank.window /\ balances' = Blank.balances
  /\ paid' = Blank.paid /\ payouts' = Blank.payouts
  /\ payer' = "none" /\ todo' = {}
  /\ stage' = [k \in Persists |-> "idle"]
  /\ snap' = [k \in Persists |-> Blank]

\* main returns.
Exit ==
  /\ phase = "closed"
  /\ Gone
  /\ UNCHANGED <<disk, sent, earned, faults>>

Crash ==
  /\ Alive /\ faults < MaxFaults
  /\ Gone
  /\ faults' = faults + 1
  /\ UNCHANGED <<disk, sent, earned>>

\* New: loadState, and the engine runs.
Start ==
  /\ phase = "down"
  /\ phase' = "up"
  /\ window' = [c \in Coins |-> LastN(disk.window[c], WindowSize)]
  /\ balances' = disk.balances
  /\ paid' = disk.paid
  /\ payouts' = disk.payouts
  /\ UNCHANGED <<payer, todo, stage, snap, disk, sent, earned, faults>>

Next ==
  \/ \E c \in Coins, w \in Workers, d \in Diffs : RecordShare(c, w, d)
  \/ \E c \in Coins, r \in Rewards : BlockFound(c, r)
  \/ \E who \in {"ticker", "main"} : BeginPayouts(who)
  \/ \E a \in Accounts : SendSucceeds(a) \/ SendFails(a) \/ AnswerLost(a)
  \/ EndPayouts
  \/ LoopTick
  \/ \E k \in Persists : TakeSnapshot(k) \/ WriteState(k)
  \/ Shutdown \/ StopPersist \/ Exit \/ Crash \/ Start

Spec == Init /\ [][Next]_vars

\* The payout ticker keeps firing, e.mu is granted, every call to the daemon
\* returns (the RPC client gives up after 3 s), goroutines run, and a daemon
\* that is asked to pay an address it accepts again and again pays at last.
\* Nothing is assumed of crashes, shutdowns, miners or blocks.
Fairness ==
  /\ SF_vars(BeginPayouts("ticker"))
  /\ \A a \in Accounts :
       /\ WF_vars(SendSucceeds(a) \/ SendFails(a) \/ AnswerLost(a))
       /\ SF_vars(SendSucceeds(a))
  /\ WF_vars(EndPayouts)
  /\ \A k \in Persists : SF_vars(TakeSnapshot(k)) /\ WF_vars(WriteState(k))

FairSpec == Spec /\ Fairness
-----------------------------------------------------------------------------
\* Every state the engine may continue from: its memory, the copies about to
\* be written, and the file a restart loads.
Images == {Current, disk} \cup {snap[k] : k \in Persists}

\* The fields of the engine; in memory, in every copy and in the file the
\* windows never exceed N and the log never exceeds its cap.
TypeOK ==
  /\ \A img \in Images : /\ img \in Image
                         /\ \A c \in Coins : Len(img.window[c]) <= WindowSize
                         /\ Len(img.payouts) <= MaxPayoutLog
  /\ snap \in [Persists -> Image]
  /\ payer \in {"none", "ticker", "main"} /\ todo \subseteq Accounts
  /\ stage \in [Persists -> {"idle", "wanted", "taken"}]
  /\ phase \in {"up", "draining", "closing", "closed", "down"}
  /\ sent \in [Accounts -> Nat] /\ earned \in [Accounts -> Nat]
  /\ faults \in 0..MaxFaults

\* No state that is or may become the engine's owes a worker more than it
\* earned, counting what it was paid: neither an old copy written late nor a
\* restart from it invents money (BlockFound, ProcessPayouts, loadState).
NothingInvented ==
  \A img \in Images : \A a \in Accounts :
    img.balances[a] + img.paid[a] <= earned[a]

\* Every payment the books show as made was really made by the daemon, in
\* memory and in every file, whatever errors and lost answers came before.
ClaimsAreReal ==
  \A img \in Images : \A a \in Accounts : img.paid[a] <= sent[a]

\* As long as the process was neither stopped nor killed and no answer was
\* lost, the books are exact to the unit: all credit is either pending or
\* paid, and each payment was sent once.
ExactWhileFaultless ==
  faults = 0 /\ Alive =>
    \A a \in Accounts : /\ sent[a] = paid[a]
                        /\ balances[a] + paid[a] = earned[a]

\* What a block would credit, whatever the window holds: each worker gets its
\* part of the reward after the fee to within half a unit, so the credits of
\* n workers miss the distributable amount by at most n / 2 units.
CreditsFitReward ==
  \A c \in Coins, r \in Rewards : window[c] # << >> =>
    LET net == r * (100 - FeePct)
        all == TotalDiff(window[c])
        off(w) == 100 * all * Credit(window[c], w, r)
                    - net * WorkerDiff(window[c], w)
    IN  \A w \in Workers : -50 * all <= off(w) /\ off(w) <= 50 * all

\* A balance at or above the minimum of an address the daemon accepts is
\* paid at last, even if answers are lost on the way, unless the process
\* ends first.
DueGetsPaid ==
  \A a \in Coins \X Payable :
    (phase = "up" /\ a \in Due) ~> (phase # "up" \/ a \notin Due)
=============================================================================
