-------------------------------- MODULE Uptime --------------------------------
(***************************************************************************)
(* The uptime of one worker (uptime/tracker.go), as it learns of it from   *)
(* the stratum server (stratum/server.go, main.go).  The server tells it   *)
(* at once that the worker has come, and 3 minutes late that it has gone,  *)
(* unless it is back by then.  The tracker keeps the transitions, cuts the *)
(* old ones at each, saves itself at each, and derives the share of a day, *)
(* a week and a month that the worker was online.                          *)
(*                                                                         *)
(* The worker has one connection at a time: two of one name are the matter *)
(* of Sessions.  A moment is a unit of time: the worker is online in the   *)
(* moment t if it is connected from t to t + 1.  What can run runs before  *)
(* time goes on.  A save that fails is left out.                           *)
(***************************************************************************)
EXTENDS Integers, Sequences, FiniteSets, Tally

CONSTANTS
  Grace,         \* the 3 minutes of handleWorker
  Windows,       \* a day, a week and a month
  KeepFor,       \* the 31 days of trimEvents
  MaxEvents,     \* and its 2000 events
  UpEnd,         \* bound: time
  MaxVisits,     \* bound: connections of the worker
  UpRestarts     \* bound: restarts

ASSUME UptimeAssumption ==
  /\ Windows \subseteq Nat \ {0}
  /\ \A w \in Windows : w <= KeepFor
  /\ MaxEvents \in Nat \ {0}
  /\ {Grace, KeepFor, UpEnd, MaxVisits, UpRestarts} \subseteq Nat

VARIABLES
  upNow,
  connected,     \* the worker has authorized and its connection is open
  greeting,      \* handleAuthorize has not yet called OnMinerConnect
  pending,       \* when the goroutines that wait to report it offline wake
  toReport,     \* goroutines that have found it offline, before they say so
  ws,            \* its state in the tracker
  upFile,        \* what was saved last
  onlineIn,      \* for the properties: the moments of the largest window in
                 \* which it was connected
  leftAt,        \* the times it left, and the server was stopped
  crossed,       \* a report has crossed with its return
  visits, upStarts

tracker == <<ws, upFile>>
server == <<connected, greeting, pending, toReport>>
upGhost == <<onlineIn, leftAt, crossed, visits, upStarts>>
upVars == <<upNow, tracker, server, upGhost>>

\* A worker the tracker does not know is like one offline without events.
Unknown == [online |-> FALSE, since |-> 0, sessions |-> 0, events |-> <<>>]

UpInit ==
  /\ upNow = 0
  /\ connected = FALSE /\ greeting = FALSE /\ pending = {} /\ toReport = 0
  /\ ws = Unknown /\ upFile = Unknown
  /\ onlineIn = {} /\ leftAt = {} /\ crossed = FALSE /\ visits = 0 /\ upStarts = 0
-----------------------------------------------------------------------------
\* What is old is cut up to the first event that is not, and the rest to its last.
Trimmed(events) ==
  LET n == Len(events)
      stops == {k \in 0..n : k < n => events[k + 1].at >= upNow - KeepFor}
      start == CHOOSE k \in stops : \A j \in stops : k <= j
  IN  SubSeq(events, (IF n - start > MaxEvents THEN n - MaxEvents ELSE start) + 1, n)

\* The two transitions, which do nothing if the worker is already there.
WorkerOnline(w) ==
  IF w.online THEN w
  ELSE [online |-> TRUE, since |-> upNow, sessions |-> w.sessions + 1,
        events |-> Trimmed(Append(w.events,
                             [online |-> TRUE, at |-> upNow, dur |-> 0]))]

WorkerOffline(w) ==
  IF ~w.online THEN w
  ELSE [w EXCEPT
          !.online = FALSE, !.since = upNow,
          !.events = Trimmed(Append(@, [online |-> FALSE, at |-> upNow,
                                        dur |-> upNow - w.since]))]

\* What the tracker has changed it saves.
Saves(w) == ws' = w /\ upFile' = IF w = ws THEN upFile ELSE w

\* handleAuthorize: the server knows the worker online ...
Connects ==
  /\ ~connected /\ visits < MaxVisits
  /\ connected' = TRUE /\ greeting' = TRUE /\ visits' = visits + 1
  /\ crossed' = (crossed \/ toReport > 0)
  /\ UNCHANGED <<upNow, tracker, pending, toReport, onlineIn, leftAt, upStarts>>

\* ... and tells the tracker, whether it is still connected or not.
Greets ==
  /\ greeting /\ greeting' = FALSE
  /\ Saves(WorkerOnline(ws))
  /\ UNCHANGED <<upNow, connected, pending, toReport, upGhost>>

\* The cleanup of handleWorker, which the same goroutine reaches later.
Disconnects ==
  /\ connected /\ ~greeting /\ connected' = FALSE
  /\ pending' = pending \union {upNow + Grace}
  /\ leftAt' = leftAt \union {upNow}
  /\ UNCHANGED <<upNow, tracker, greeting, toReport, onlineIn, crossed, visits, upStarts>>

\* A slip: the goroutine that wakes does not look whether the worker is back.
WakesBlindly ==
  /\ upNow \in pending /\ pending' = pending \ {upNow}
  /\ toReport' = toReport + 1
  /\ UNCHANGED <<upNow, tracker, connected, greeting, upGhost>>

\* After the 3 minutes a goroutine looks whether the worker is back ...
Wakes ==
  /\ upNow \in pending /\ pending' = pending \ {upNow}
  /\ toReport' = IF connected THEN toReport ELSE toReport + 1
  /\ UNCHANGED <<upNow, tracker, connected, greeting, upGhost>>

\* ... and reports it.
Reports ==
  /\ toReport > 0 /\ toReport' = toReport - 1
  /\ Saves(WorkerOffline(ws))
  /\ UNCHANGED <<upNow, connected, greeting, pending, upGhost>>

\* The process ends: the connections close, the goroutines that wait give up
\* (or are gone), and New loads what was saved.
StopsAndStarts ==
  /\ upStarts < UpRestarts /\ upStarts' = upStarts + 1
  /\ connected' = FALSE /\ greeting' = FALSE /\ pending' = {} /\ toReport' = 0
  /\ ws' = upFile
  /\ leftAt' = leftAt \union {upNow}
  /\ UNCHANGED <<upNow, upFile, onlineIn, crossed, visits>>

TimeGoesOn ==
  /\ upNow < UpEnd /\ upNow' = upNow + 1
  /\ ~greeting /\ toReport = 0 /\ upNow \notin pending
  /\ onlineIn' = {t \in IF connected THEN onlineIn \union {upNow} ELSE onlineIn :
                    \E w \in Windows : t > upNow - w}
  /\ UNCHANGED <<tracker, server, leftAt, crossed, visits, upStarts>>

UpNext ==
  \/ Connects \/ Greets \/ Disconnects \/ Wakes \/ Reports
  \/ StopsAndStarts \/ TimeGoesOn

UpSpec == UpInit /\ [][UpNext]_upVars
-----------------------------------------------------------------------------
\* The state that calcUptimePct gives the worker in the moment t: that of the
\* last event until then, offline before the first.
CountedOnline(t) ==
  LET before == {i \in DOMAIN ws.events : ws.events[i].at <= t}
  IN  \E i \in before : ws.events[i].online /\ \A j \in before : j <= i

\* The moments of a window that calcUptimePct counts as online; without events
\* all or nothing.
Uptime(w) ==
  {t \in (upNow - w)..(upNow - 1) :
     IF ws.events = <<>> THEN ws.online /\ ws.since < upNow ELSE CountedOnline(t)}

\* The durations of computeUptime, and calcTotalDowntime.
Durations(ev) == [i \in DOMAIN ev |-> ev[i].dur]
SessionTime ==
  Total(Durations(ws.events)) + (IF ws.online THEN upNow - ws.since ELSE 0)

Gaps(ev) ==
  [i \in DOMAIN ev |-> IF i > 1 /\ ev[i].online /\ ~ev[i - 1].online
                         THEN ev[i].at - ev[i - 1].at ELSE 0]
TotalDowntime ==
  LET ev == ws.events
  IN  Total(Gaps(ev)) + (IF ev # <<>> /\ ~ws.online /\ ~ev[Len(ev)].online
                           THEN upNow - ev[Len(ev)].at ELSE 0)

UpTypeOK ==
  /\ upNow \in 0..UpEnd /\ {connected, greeting, crossed} \subseteq BOOLEAN
  /\ pending \subseteq upNow..(upNow + Grace) /\ toReport \in 0..MaxVisits
  /\ \A w \in {ws, upFile} :
       /\ w.online \in BOOLEAN /\ w.since \in 0..upNow /\ w.sessions \in 0..MaxVisits
       /\ Len(w.events) <= MaxEvents

\* Part of the next: through losses, cuts and restarts the tracker's log stays a
\* history: its events alternate, the last one is its status, and sessions and downtime
\* together fill the time since the first event, but for the session the cut
\* of the log may have beheaded.
LogIsAHistory ==
  LET ev == ws.events IN
  ev # <<>> =>
    /\ \A i \in 1..(Len(ev) - 1) :
         ev[i].at <= ev[i + 1].at /\ ev[i].online # ev[i + 1].online
    /\ ws.online = ev[Len(ev)].online /\ ws.since = ev[Len(ev)].at
    /\ SessionTime + TotalDowntime
         = upNow - ev[1].at + (IF ev[1].online THEN 0 ELSE ev[1].dur)

\* The log is a history, and from the first event on it holds, no moment online is missing from any
\* window (unless a report has crossed with the worker's return), and
\* every moment too many lies within the 3 minutes after the worker has left or
\* the server was stopped, or follows the stop of the server.
UptimeIsEarned ==
  /\ LogIsAHistory
  /\ ws.events # <<>> /\ ~crossed /\ ~greeting /\ toReport = 0 =>
       \A w \in Windows :
         /\ \A t \in onlineIn :
              t >= upNow - w /\ t >= ws.events[1].at => t \in Uptime(w)
         /\ upStarts = 0 =>
              \A t \in Uptime(w) \ onlineIn : \E l \in leftAt : l <= t /\ t < l + Grace

\* "The state just before the first event in the window is the opposite of that
\* event's Online field" (tracker.go:257): refuted for the first event that is
\* kept, before which the worker always counts as offline.  One that was
\* connected for the whole month and drops has 0 %.
UptimeIsTrue ==
  ws.events # <<>> /\ ~crossed /\ ~greeting /\ toReport = 0 =>
    \A w \in Windows : \A t \in onlineIn : t >= upNow - w => t \in Uptime(w)

\* "CurrentStatus bool // true = online" (tracker.go:42): refuted when the goroutine
\* that reports the worker offline has looked before it came back and reports
\* after it was greeted; the tracker keeps it offline until it reconnects.
StatusIsTrue ==
  connected /\ ~greeting /\ toReport = 0 => ws.online
=============================================================================
