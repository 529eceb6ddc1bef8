------------------------------- MODULE Vardiff --------------------------------
(***************************************************************************)
(* The difficulty of one authorized worker (stratum/server.go).  The       *)
(* goroutine of its connection changes it at shares and at suggestions of  *)
(* the miner and tells the miner; a goroutine of the server halves it when *)
(* no share comes, and tells the miner only after it has been through all  *)
(* workers, without the lock.  The connection keeps the order of what is   *)
(* written to it.                                                          *)
(*                                                                         *)
(* A difficulty is an integer; which one a retarget arrives at before its  *)
(* limits is any of them.  Time is counted in halves of the retarget       *)
(* window; the 5 seconds after which a burst of shares counts are one.     *)
(***************************************************************************)
EXTENDS Integers, Sequences

CONSTANTS
  MinDiff, MaxDiff, Start,   \* limits, and the difficulty at authorization
  Fixes,                     \* difficulties the configuration may pin
  Burst,                     \* the 50 shares of an emergency retarget
  MaxWire,                   \* bound: messages under way to the miner
  MaxChanges                 \* bound: suggestions and changes of the configuration

ASSUME VardiffAssumption ==
  /\ {MinDiff, MaxDiff, Start} \union Fixes \subseteq Nat \ {0}
  /\ MinDiff <= Start /\ Start <= MaxDiff
  /\ {Burst, MaxWire, MaxChanges} \subseteq Nat \ {0}

VARIABLES
  worker,     \* difficulty, prevDifficulty, fixedDiff, suggestedMinDiff,
              \* sharesSinceRetarget, and the time since the last retarget and
              \* since the last accepted share
  pinned,     \* the difficulty the configuration pins, or 0
  toSend,     \* what the connection's goroutine is about to write, or 0
  idleSend,   \* what idleVardiffDecay is about to write, or 0
  wire,       \* difficulties under way to the miner
  miner,      \* the difficulty the miner works at
  share,      \* that of its share under way, or 0
  overtaken,  \* for the properties: an idle decay was written after a change
              \* that is younger
  changes

diffVars == <<worker, pinned, toSend, idleSend, wire, miner, share, overtaken,
              changes>>

Window == 2
Capped(n, top) == IF n > top THEN top ELSE n

DiffInit ==
  /\ worker = [diff |-> Start, prev |-> 0, fixed |-> 0, floor |-> 0, shares |-> 0,
               since |-> 0, dry |-> 2 * Window]
  /\ pinned = 0 /\ toSend = 0 /\ idleSend = 0 /\ wire = <<>>
  /\ miner = Start /\ share = 0 /\ overtaken = FALSE /\ changes = 0
-----------------------------------------------------------------------------
Within(d) == LET low == IF d < MinDiff THEN MinDiff ELSE d
                 mid == IF low < worker.floor THEN worker.floor ELSE low
             IN  IF mid > MaxDiff THEN MaxDiff ELSE mid
Halved(d) == IF d \div 2 < MinDiff THEN MinDiff ELSE d \div 2

\* validationDiff
Required(w) == IF w.prev > 0 /\ w.prev < w.diff THEN w.prev ELSE w.diff

Emergency(w) == w.shares >= Burst /\ w.since >= 1

\* adjustVardiff: the worker after it, and whether the miner is told.
Adjusted(w, raw) ==
  LET counted == [w EXCEPT !.shares = Capped(@ + 1, Burst)]
      new == Within(raw)
  IN  IF pinned > 0
        THEN [w |-> IF w.diff = pinned THEN w
                    ELSE [w EXCEPT !.diff = pinned, !.fixed = pinned],
              tell |-> w.diff # pinned]
      ELSE IF w.fixed > 0
        THEN [w |-> [w EXCEPT !.diff = w.fixed], tell |-> w.diff # w.fixed]
      ELSE IF w.since < Window /\ ~Emergency(counted)
        THEN [w |-> counted, tell |-> FALSE]
      ELSE [w |-> [w EXCEPT !.diff = new, !.prev = IF new > w.diff THEN w.diff ELSE 0,
                            !.shares = 0, !.since = 0],
            tell |-> new # w.diff]

\* A slip: the decay is kept from the miner.
DecayedQuietly(w) ==
  [w |-> IF w.dry < 2 * Window \/ w.since < Window THEN w
         ELSE [w EXCEPT !.diff = Halved(@), !.prev = 0, !.shares = 0, !.since = 0],
   tell |-> FALSE]

\* decayVardiff
Decayed(w) ==
  LET new == Halved(w.diff)
  IN  IF w.dry < 2 * Window \/ w.since < Window \/ new = w.diff
        THEN [w |-> w, tell |-> FALSE]
        ELSE [w |-> [w EXCEPT !.diff = new, !.prev = 0, !.shares = 0, !.since = 0],
              tell |-> TRUE]

Retargets(done) ==
  /\ worker' = done.w
  /\ toSend' = IF done.tell THEN done.w.diff ELSE 0
  /\ overtaken' = (overtaken \/ (done.tell /\ idleSend > 0))

\* The miner has no more than one share under way.
MinerSubmits ==
  /\ share = 0 /\ share' = miner
  /\ UNCHANGED <<worker, pinned, toSend, idleSend, wire, miner, overtaken, changes>>

\* A share of handleSubmit that is good for what it was worked at.
ShareAccepted(raw) ==
  /\ toSend = 0 /\ share > 0 /\ share >= Required(worker)
  /\ share' = 0
  /\ Retargets(Adjusted([worker EXCEPT !.dry = 0], raw))
  /\ UNCHANGED <<pinned, idleSend, wire, miner, changes>>

ShareRejected ==
  /\ toSend = 0 /\ share > 0 /\ share < Required(worker)
  /\ share' = 0
  /\ Retargets(Decayed(worker))
  /\ UNCHANGED <<pinned, idleSend, wire, miner, changes>>

\* mining.suggest_difficulty
Suggested(d) ==
  /\ toSend = 0 /\ changes < MaxChanges /\ changes' = changes + 1
  /\ LET floor == IF d < MinDiff THEN MinDiff ELSE IF d > MaxDiff THEN MaxDiff ELSE d
     IN  Retargets([w |-> [worker EXCEPT !.floor = floor,
                                       !.diff = IF @ < floor THEN floor ELSE @],
                  tell |-> worker.diff < floor])
  /\ UNCHANGED <<pinned, idleSend, wire, miner, share>>

\* sendDifficulty of the connection's goroutine
Told ==
  /\ toSend > 0 /\ Len(wire) < MaxWire
  /\ wire' = Append(wire, toSend) /\ toSend' = 0
  /\ UNCHANGED <<worker, pinned, idleSend, miner, share, overtaken, changes>>

\* idleVardiffDecay: under the lock ...
IdleDecays ==
  /\ idleSend = 0 /\ worker.fixed = 0 /\ worker.shares = 0 /\ worker.since >= Window
  /\ LET new == Halved(worker.diff)
     IN  /\ worker' = IF new = worker.diff THEN [worker EXCEPT !.since = 0]
                      ELSE [worker EXCEPT !.diff = new, !.prev = 0, !.since = 0]
         /\ idleSend' = IF new = worker.diff THEN 0 ELSE new
         /\ overtaken' = (overtaken \/ (new # worker.diff /\ toSend > 0))
  /\ UNCHANGED <<pinned, toSend, wire, miner, share, changes>>

\* ... and after it.
IdleTold ==
  /\ idleSend > 0 /\ Len(wire) < MaxWire
  /\ wire' = Append(wire, idleSend) /\ idleSend' = 0
  /\ UNCHANGED <<worker, pinned, toSend, miner, share, overtaken, changes>>

Received ==
  /\ wire # <<>> /\ miner' = Head(wire) /\ wire' = Tail(wire)
  /\ UNCHANGED <<worker, pinned, toSend, idleSend, share, overtaken, changes>>

\* The dashboard or the configuration pins a difficulty, or no longer does.
Pinned(d) ==
  /\ changes < MaxChanges /\ changes' = changes + 1 /\ pinned' = d
  /\ UNCHANGED <<worker, toSend, idleSend, wire, miner, share, overtaken>>

DiffTime ==
  /\ worker.since < Window \/ worker.dry < 2 * Window
  /\ worker' = [worker EXCEPT !.since = Capped(@ + 1, Window),
                              !.dry = Capped(@ + 1, 2 * Window)]
  /\ UNCHANGED <<pinned, toSend, idleSend, wire, miner, share, overtaken, changes>>

DiffNext ==
  \/ MinerSubmits \/ ShareRejected \/ Told \/ IdleDecays \/ IdleTold \/ Received \/ DiffTime
  \/ \E raw \in MinDiff..MaxDiff : ShareAccepted(raw)
  \/ \E d \in MinDiff..MaxDiff : Suggested(d)
  \/ \E d \in Fixes \union {0} : Pinned(d)

DiffSpec == DiffInit /\ [][DiffNext]_diffVars
-----------------------------------------------------------------------------
\* Within the limits, or pinned once and halved since: what was pinned may be above them.
Difficulties == {d \in Nat \ {0} : d <= MaxDiff \/ \E f \in Fixes : d <= f}

DiffTypeOK ==
  /\ {worker.diff, miner} \subseteq Difficulties
  /\ worker.prev \in Difficulties \union {0} /\ worker.fixed \in Fixes \union {0}
  /\ worker.floor \in {0} \union (MinDiff..MaxDiff)
  /\ worker.shares \in 0..Burst /\ worker.since \in 0..Window /\ worker.dry \in 0..(2 * Window)
  /\ pinned \in Fixes \union {0} /\ overtaken \in BOOLEAN

\* The miner is told of every change, in order: when nothing is about to be
\* written or under way it works at the difficulty its shares are held to;
\* unless an idle decay may have been written after a younger change, which then
\* holds for the server only, until the next one.
MinerIsTold ==
  ~overtaken /\ toSend = 0 /\ idleSend = 0 /\ wire = <<>> => miner = worker.diff
=============================================================================
