------------------------------- MODULE Guardian -------------------------------
(***************************************************************************)
(* The guardian (guardian/guardian.go) and the limit of the notifier       *)
(* through which it alerts (GuardianAlert of discord/notifier.go).  Each   *)
(* tick looks at the machine, at the chains and at the workers; every rule *)
(* records an event, most of them no sooner than some minutes after its    *)
(* last one; the events are kept in a ring that the dashboard reads.  Some *)
(* rules alert, some kick a worker.  While alerts are switched on, one of a *)
(* title goes out no sooner than 5 minutes after the last one of that      *)
(* title went out or failed to.                                            *)
(*                                                                         *)
(* An observation tells of each figure the class that the rules give it;   *)
(* every chain has the one worker, of the same name.                       *)
(* Time is counted in ticks; a tick that comes early by less than a tick   *)
(* measures a time that is just over as not yet over.  What is older than  *)
(* Horizon is as good as never, so that the pruning of old cooldowns is    *)
(* not seen; it is left out, and so is a panic in a rule.  The switch for  *)
(* the alerts, the webhook and the "block found" alerts of the settings,   *)
(* changes between two ticks.                                              *)
(***************************************************************************)
EXTENDS Integers, Sequences, FiniteSets

CONSTANTS
  Chains,        \* the chains, in their order
  Observations,  \* what a tick may find
  Ticks,         \* ticks in 2, 5, 10, 15 and 30 minutes
  Horizon,       \* more ticks than any of them
  RingCap,       \* the ring of 200 events
  TrendOver,     \* readings of the trend (5) and the rise that is too fast
  TrendRise, WarnC, CritC,
  MaxTicks       \* bound: ticks

ChainSet == {Chains[i] : i \in DOMAIN Chains}

ASSUME GuardianAssumption ==
  /\ Chains \in Seq(ChainSet)
  /\ DOMAIN Ticks = {2, 5, 10, 15, 30}
  /\ \A m \in DOMAIN Ticks : Ticks[m] \in 1..(Horizon - 2)
  /\ {RingCap, TrendOver} \subseteq Nat \ {0}
  /\ {Horizon, MaxTicks} \subseteq Nat

VARIABLES
  guard,      \* the guardian, a record
  lastSent,   \* of each title, the ticks since the notifier let it through
  toldAgo,    \* for the properties: the ticks since it was posted,
  failedAgo,  \* the ticks since it was to be posted and the webhook failed,
  latest,     \* the events, newest first,
  ticked      \* and the ticks

guardianVars == <<guard, lastSent, toldAgo, failedAgo, latest, ticked>>

Rules == {<<"temp_trend">>, <<"temp_critical">>, <<"sys_ram_critical">>,
          <<"sys_ram_warn">>, <<"sys_cpu_critical">>}
         \union ({"no_job", "job_stale", "chain_stale", "chain_reject", "hr_drop",
                  "no_miners", "kick_stale", "kick_reject", "worker_health",
                  "silent", "zero_hr"} \X ChainSet)
Titles == {<<"Temperature Rising Fast">>, <<"Guardian Kicked">>}
          \union ({"Hashrate Drop"} \X ChainSet)
NoEvent == <<>>

GuardianInit ==
  /\ guard = [cooldown |-> [r \in Rules |-> Horizon],
              eventLog |-> [i \in 0..(RingCap - 1) |-> NoEvent], eventIdx |-> 0,
              tempHistory |-> <<>>, hrHistory |-> [c \in ChainSet |-> 0],
              early |-> FALSE, wanted |-> {}, alerts |-> <<>>, emitted |-> <<>>]
  /\ lastSent = [t \in Titles |-> Horizon]
  /\ toldAgo = [t \in Titles |-> Horizon] /\ failedAgo = [t \in Titles |-> Horizon]
  /\ latest = <<>> /\ ticked = 0
-----------------------------------------------------------------------------
\* The rules take the guardian to the guardian.  A tick that finds a time just
\* over may have come a little early.
Over(age, minutes, early) ==
  IF early THEN age > Ticks[minutes] ELSE age >= Ticks[minutes]

Emit(g, rule) ==
  [g EXCEPT !.eventLog[g.eventIdx % RingCap] = rule,
            !.eventIdx = @ + 1, !.emitted = <<rule>> \o @]

\* A slip: the cooldown begins anew whenever the rule fires.
EmitThrottledAnew(g, rule, minutes) ==
  LET h == [g EXCEPT !.wanted = @ \union {<<rule, minutes>>}, !.cooldown[rule] = 0]
  IN  IF ~Over(g.cooldown[rule], minutes, g.early) THEN h ELSE Emit(h, rule)

EmitThrottled(g, rule, minutes) ==
  LET h == [g EXCEPT !.wanted = @ \union {<<rule, minutes>>}]
  IN  IF ~Over(g.cooldown[rule], minutes, g.early) THEN h
      ELSE Emit([h EXCEPT !.cooldown[rule] = 0], rule)

When(cond, g, h) == IF cond THEN h ELSE g
Alert(g, title) == [g EXCEPT !.alerts = Append(@, title)]

EvalTemperature(g, temp) ==
  LET hist == Append(g.tempHistory, temp)
      kept == IF Len(hist) > TrendOver THEN Tail(hist) ELSE hist
      rising == Len(kept) = TrendOver /\ temp - kept[1] >= TrendRise /\ temp >= WarnC
      h == [g EXCEPT !.tempHistory = kept]
      i == When(rising, h, Alert(Emit(h, <<"temp_trend">>), <<"Temperature Rising Fast">>))
  IN  IF temp <= 0 THEN g
      ELSE When(temp >= CritC, i, Emit(i, <<"temp_critical">>))

EvalSystem(g, o) ==
  LET h == CASE o.ram = "critical" -> EmitThrottled(g, <<"sys_ram_critical">>, 5)
             [] o.ram = "high" -> EmitThrottled(g, <<"sys_ram_warn">>, 10)
             [] OTHER -> g
  IN  When(o.cpu, h, EmitThrottled(h, <<"sys_cpu_critical">>, 5))

EvalJobFreshness(g, c, o) ==
  CASE o.job = "none" -> EmitThrottled(g, <<"no_job", c>>, 2)
    [] o.job = "old" -> EmitThrottled(g, <<"job_stale", c>>, 5)
    [] OTHER -> g

\* The rates of a chain with less than 100 shares are none.
EvalChainHealth(g, c, o) ==
  LET h == When("stale" \in o.rates, g, EmitThrottled(g, <<"chain_stale", c>>, 10))
  IN  When("rejected" \in o.rates, h, EmitThrottled(h, <<"chain_reject", c>>, 10))

\* A drop by the half, 50 % being the default; the alert is not throttled here.
EvalHashrate(g, c, o) ==
  LET khs == IF o.worker.online THEN o.worker.khs ELSE 0
      prev == g.hrHistory[c]
      h == [g EXCEPT !.hrHistory[c] = khs]
      i == When(2 * khs <= prev, h,
                Alert(EmitThrottled(h, <<"hr_drop", c>>, 5), <<"Hashrate Drop", c>>))
  IN  IF prev = 0 \/ khs = 0 THEN h
      ELSE When(o.connected > 0 /\ ~o.worker.online, i,
                EmitThrottled(i, <<"no_miners", c>>, 5))

\* tryAction, and what it guards: whether or not the worker is still there.
Kick(g, rule) ==
  IF ~Over(g.cooldown[rule], 5, g.early) THEN g
  ELSE LET h == Emit([g EXCEPT !.cooldown[rule] = 0], rule)
       IN  Alert(h, <<"Guardian Kicked">>)

\* A worker of few shares is not judged; the first rate over its limit is acted
\* upon, and nothing else of it looked at.
EvalWorker(g, c, w) ==
  LET h == When(w.rates = "elevated", g, EmitThrottled(g, <<"worker_health", c>>, 15))
      i == When(w.silent, h, EmitThrottled(h, <<"silent", c>>, 30))
  IN  CASE ~w.online \/ w.rates = "few" -> g
        [] w.rates = "stale" -> Kick(g, <<"kick_stale", c>>)
        [] w.rates = "rejected" -> Kick(g, <<"kick_reject", c>>)
        [] OTHER -> When(w.khs = 0, i, EmitThrottled(i, <<"zero_hr", c>>, 10))

EvalChain(g, c, o) ==
  EvalWorker(EvalHashrate(EvalChainHealth(EvalJobFreshness(g, c, o), c, o), c, o),
             c, o.worker)

\* The guardian after none of the chains, one, two and so on.
EvalChains(g, o) ==
  LET eval[i \in 0..Len(Chains)] ==
        IF i = 0 THEN g ELSE EvalChain(eval[i - 1], Chains[i], o.chain[Chains[i]])
  IN  eval

Evaluate(g, o) ==
  EvalChains(EvalSystem(EvalTemperature(g, o.temp), o), o)[Len(Chains)]

\* rateLimitOK: the first alert of a title that comes after the limit goes out, and
\* the next 5 minutes are counted from it whatever becomes of it.
RateLimited(ages, alerts, early) ==
  [t \in Titles |->
     LET goes == (\E i \in DOMAIN alerts : alerts[i] = t) /\ Over(ages[t], 5, early)
     IN  [sent |-> IF goes THEN 0 ELSE ages[t], goes |-> goes]]

Older(age) == IF age >= Horizon THEN Horizon ELSE age + 1

\* GuardianAlert for each alert of a tick; a post that fails is only logged.
GuardianAlert(alerts, early) ==
  LET limit == RateLimited([t \in Titles |-> Older(lastSent[t])], alerts, early)
  IN  /\ lastSent' = [t \in Titles |-> limit[t].sent]
      /\ \E posted \in SUBSET {t \in Titles : limit[t].goes} :
           /\ toldAgo' = [t \in Titles |-> IF t \in posted THEN 0 ELSE Older(toldAgo[t])]
           /\ failedAgo' = [t \in Titles |-> IF limit[t].goes /\ t \notin posted THEN 0
                                             ELSE Older(failedAgo[t])]

\* evaluate, with the alerts that it waits for; they end at once while they are off.
Tick(o, early) ==
  LET old == [guard EXCEPT !.cooldown = [r \in Rules |-> Older(@[r])],
                           !.early = early, !.wanted = {}, !.alerts = <<>>,
                           !.emitted = <<>>]
      now == Evaluate(old, o)
      all == now.emitted \o latest
  IN  /\ ticked < MaxTicks /\ ticked' = ticked + 1
      /\ latest' = SubSeq(all, 1, IF Len(all) < RingCap THEN Len(all) ELSE RingCap)
      /\ \E on, slow \in BOOLEAN :
           /\ guard' = [now EXCEPT !.alerts = IF on THEN @ ELSE <<>>]
           /\ GuardianAlert(guard'.alerts, slow)

GuardianNext ==
  \E o \in Observations, early \in BOOLEAN : Tick(o, early)

GuardianSpec == GuardianInit /\ [][GuardianNext]_guardianVars
-----------------------------------------------------------------------------
\* Events(n), up to the first slot that is empty.
Events(n) ==
  LET at(i) == guard.eventLog[(guard.eventIdx - i + RingCap) % RingCap]
      size == IF n > RingCap THEN RingCap ELSE n
      full == {k \in 0..size : \A i \in 1..k : at(i) # NoEvent}
      len == CHOOSE k \in full : \A j \in full : j <= k
  IN  [i \in 1..len |-> at(i)]

GuardianTypeOK ==
  /\ ticked \in 0..MaxTicks
  /\ guard.cooldown \in [Rules -> 0..Horizon]
  /\ \A i \in DOMAIN guard.eventLog : guard.eventLog[i] \in Rules \union {NoEvent}
  /\ Len(guard.tempHistory) <= TrendOver
  /\ lastSent \in [Titles -> 0..Horizon]

\* No alarm is held back for good: what a tick finds wrong it records, or has
\* recorded within the rule's time; what it alerts of while alerts are on, a kick
\* included, has been posted within 5 minutes, or the webhook has failed within them:
\* neither a post that fails nor a time with the alerts off silences a title for
\* longer.  And the dashboard's Events(n) shows the last n events, newest first, also
\* after the ring has wrapped.
AlarmsAreRaised ==
  /\ \A want \in guard.wanted :
       guard.cooldown[want[1]] <= Ticks[want[2]]
       /\ (guard.cooldown[want[1]] = 0 =>
             \E i \in DOMAIN guard.emitted : guard.emitted[i] = want[1])
  /\ \A i \in DOMAIN guard.alerts : \/ toldAgo[guard.alerts[i]] <= Ticks[5]
                                    \/ failedAgo[guard.alerts[i]] <= Ticks[5]
  /\ \A n \in 0..RingCap :
       Events(n) = SubSeq(latest, 1, IF n < Len(latest) THEN n ELSE Len(latest))
=============================================================================
