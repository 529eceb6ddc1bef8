------------------------------- MODULE Sessions -------------------------------
(***************************************************************************)
(* The connections of one coin's stratum server and what it knows of its   *)
(* workers (stratum/server.go).  Two listeners accept, one goroutine per   *)
(* connection serves it, another one waits 3 minutes after a worker has    *)
(* left before it reports it offline.  They share, under s.mu, the map of  *)
(* connections, the count per address and seenWorkers, which outlives the  *)
(* connections; the count of miners is an atomic apart.  A miner whose     *)
(* connection has died comes back before the server notices, so that two   *)
(* connections may have one name.                                          *)
(*                                                                         *)
(* A share is one that is accepted; rejected and stale ones are kept the   *)
(* same way.  Difficulties are left out, and so is what a connection       *)
(* submits before it has authorized.                                       *)
(***************************************************************************)
EXTENDS Integers, FiniteSets

CONSTANTS
  Conns,           \* connections
  Names, NoName,   \* worker names
  Ips, IpOf,       \* addresses, and the one each connection comes from
  MaxConnections, MaxConnsPerIP,
  SeenCap,         \* names remembered (500 in handleAuthorize)
  Again,           \* whether a miner authorizes twice on one connection
  MaxShares,       \* bound: shares accepted per name
  MaxSessions      \* bound: calls of handleAuthorize

ASSUME SessionsAssumption ==
  /\ IsFiniteSet(Conns) /\ NoName \notin Names
  /\ IpOf \in [Conns -> Ips]
  /\ {MaxConnections, MaxConnsPerIP, SeenCap} \subseteq Nat \ {0}
  /\ Again \in BOOLEAN
  /\ {MaxShares, MaxSessions} \subseteq Nat

VARIABLES
  stopped,   \* stopCh is closed
  at,        \* of each connection: gone, accepted, serving, named, shared, left
  open,      \* the connections not closed
  asks,      \* the name handleAuthorize is called with
  name,      \* w.workerName, once w.authorized
  shares,    \* w.sharesAccepted
  count,     \* connectedMiners
  ipConns,   \* connections per address
  known,     \* the names in seenWorkers
  online,    \* those whose Online is set
  base,      \* SharesAcceptedBase
  total,     \* SharesAccepted
  timers,    \* goroutines waiting to report a name offline
  owed,      \* for the properties: names that left and were not reported
  accepted,  \* shares accepted since the name became known
  mixed,     \* names that had two connections at once
  sessions   \* calls of handleAuthorize so far

conn == <<at, open, asks, name, shares>>
limits == <<count, ipConns>>
seen == <<known, online, base, total>>
ghost == <<owed, accepted, mixed, sessions>>
vars == <<stopped, conn, limits, seen, timers, ghost>>
-----------------------------------------------------------------------------
\* The connections that are n's, from handleAuthorize to the cleanup.
SessionsOf(n) == {c \in Conns : \/ at[c] = "named" /\ asks[c] = n
                                \/ at[c] \in {"serving", "shared"} /\ name[c] = n}

Moves(c, s) == at' = [at EXCEPT ![c] = s]

Init ==
  /\ stopped = FALSE
  /\ at = [c \in Conns |-> "gone"] /\ open = {}
  /\ asks = [c \in Conns |-> NoName] /\ name = [c \in Conns |-> NoName]
  /\ shares = [c \in Conns |-> 0]
  /\ count = 0 /\ ipConns = [i \in Ips |-> 0]
  /\ known = {} /\ online = {}
  /\ base = [n \in Names |-> 0] /\ total = [n \in Names |-> 0]
  /\ timers = [n \in Names |-> 0]
  /\ owed = {} /\ accepted = [n \in Names |-> 0] /\ mixed = {}
  /\ sessions = 0

\* acceptLoop.  Stop closes the plain listener only.
Accept(c, tls) ==
  /\ at[c] = "gone"
  /\ ~tls => ~stopped
  /\ count < MaxConnections
  /\ ipConns[IpOf[c]] < MaxConnsPerIP
  /\ ipConns' = [ipConns EXCEPT ![IpOf[c]] = @ + 1]
  /\ Moves(c, "accepted") /\ open' = open \cup {c}
  /\ UNCHANGED <<stopped, asks, name, shares, count, seen, timers, ghost>>

\* handleWorker enters the connection in s.workers.
Register(c) ==
  /\ at[c] = "accepted"
  /\ Moves(c, "serving")
  /\ UNCHANGED <<stopped, open, asks, name, shares, limits, seen, timers, ghost>>

\* Connection c calls handleAuthorize.
Asks(c) ==
  /\ at[c] = "serving" /\ c \in open
  /\ name[c] = NoName \/ Again
  /\ sessions < MaxSessions

\* The rest of its part under s.mu, whatever it does with seenWorkers.
Named(c, n) ==
  /\ accepted' = [accepted EXCEPT ![n] = IF n \in known THEN @ ELSE 0]
  /\ mixed' = IF SessionsOf(n) \ {c} # {} THEN mixed \cup {n}
              ELSE IF n \in known THEN mixed ELSE mixed \ {n}
  /\ owed' = owed \ {n} /\ sessions' = sessions + 1
  /\ asks' = [asks EXCEPT ![c] = n] /\ Moves(c, "named")
  /\ UNCHANGED <<stopped, open, name, shares, limits, timers>>

\* n enters seenWorkers, at the expense of one of these when the map is full.
Remembers(n, candidates) ==
  LET full == n \notin known /\ Cardinality(known) >= SeenCap
  IN  \E out \in SUBSET candidates :
        /\ Cardinality(out) = IF full /\ candidates # {} THEN 1 ELSE 0
        /\ known' = (known \ out) \cup {n}
        /\ online' = (online \ out) \cup {n}

\* n goes on from its shares so far; a new name begins at nothing.
Rebases(n) ==
  /\ base' = [base EXCEPT ![n] = IF n \in known THEN total[n] ELSE 0]
  /\ total' = [total EXCEPT ![n] = base'[n]]

\* Two slips: an online name may be evicted, the shares so far are not kept.
AuthorizeEvictsAny(c, n) ==
  Asks(c) /\ Remembers(n, known) /\ Rebases(n) /\ Named(c, n)

AuthorizeKeepsBase(c, n) ==
  /\ Asks(c) /\ Remembers(n, known \ online) /\ Named(c, n)
  /\ base' = [base EXCEPT ![n] = IF n \in known THEN @ ELSE 0]
  /\ total' = [total EXCEPT ![n] = IF n \in known THEN @ ELSE 0]

\* handleAuthorize, the part under s.mu.  A full map evicts the offline name
\* not seen for longest, if there is one (which, is left open here).
Authorize(c, n) ==
  Asks(c) /\ Remembers(n, known \ online) /\ Rebases(n) /\ Named(c, n)

\* The part under w.mu, and the count.
Authorized(c) ==
  /\ at[c] = "named"
  /\ name' = [name EXCEPT ![c] = asks[c]]
  /\ count' = count + 1
  /\ asks' = [asks EXCEPT ![c] = NoName] /\ Moves(c, "serving")
  /\ UNCHANGED <<stopped, open, shares, ipConns, seen, timers, ghost>>

\* handleSubmit accepts a share ...
Submit(c) ==
  /\ at[c] = "serving" /\ c \in open /\ name[c] # NoName
  /\ accepted[name[c]] < MaxShares
  /\ shares' = [shares EXCEPT ![c] = @ + 1]
  /\ accepted' = [accepted EXCEPT ![name[c]] = @ + 1]
  /\ Moves(c, "shared")
  /\ UNCHANGED <<stopped, open, asks, name, limits, seen, timers, owed, mixed,
                 sessions>>

\* What a name's total becomes when its connection c reports its shares.
Synced(c) == IF name[c] \in known
             THEN [total EXCEPT ![name[c]] = base[name[c]] + shares[c]] ELSE total

\* ... and updateSeenWorkerShares adds the session's to the base.
Share(c) ==
  /\ at[c] = "shared"
  /\ total' = Synced(c)
  /\ Moves(c, "serving")
  /\ UNCHANGED <<stopped, open, asks, name, shares, limits, known, online, base,
                 timers, ghost>>

\* The miner hangs up, is kicked, or its read deadline passes.
HangUp(c) ==
  /\ c \in open
  /\ open' = open \ {c}
  /\ UNCHANGED <<stopped, at, asks, name, shares, limits, seen, timers, ghost>>

\* A slip: only an authorized connection gives its place back.
UnregisterAuthorized(c) ==
  /\ at[c] = "serving" /\ c \notin open
  /\ ipConns' = [ipConns EXCEPT ![IpOf[c]] = IF name[c] # NoName THEN @ - 1 ELSE @]
  /\ online' = online \ {name[c]} /\ total' = Synced(c)
  /\ owed' = IF name[c] # NoName THEN owed \cup {name[c]} ELSE owed
  /\ Moves(c, "left")
  /\ UNCHANGED <<stopped, open, asks, name, shares, count, known, base, timers,
                 accepted, mixed, sessions>>

\* The read fails: the part of the cleanup under s.mu ...
Unregister(c) ==
  /\ at[c] = "serving" /\ c \notin open
  /\ ipConns' = [ipConns EXCEPT ![IpOf[c]] = @ - 1]
  /\ online' = online \ {name[c]} /\ total' = Synced(c)
  /\ owed' = IF name[c] # NoName THEN owed \cup {name[c]} ELSE owed
  /\ Moves(c, "left")
  /\ UNCHANGED <<stopped, open, asks, name, shares, count, known, base, timers,
                 accepted, mixed, sessions>>

\* A slip: every connection was counted.
LeaveUncounted(c) ==
  /\ at[c] = "left"
  /\ count' = count - 1
  /\ timers' = IF name[c] = NoName \/ stopped THEN timers
               ELSE [timers EXCEPT ![name[c]] = @ + 1]
  /\ name' = [name EXCEPT ![c] = NoName] /\ shares' = [shares EXCEPT ![c] = 0]
  /\ Moves(c, "gone")
  /\ UNCHANGED <<stopped, open, asks, ipConns, seen, ghost>>

\* ... and the rest: the count, and a timer for the name.
Leave(c) ==
  /\ at[c] = "left"
  /\ IF name[c] = NoName THEN UNCHANGED <<count, timers>>
     ELSE /\ count' = count - 1
          /\ timers' = IF stopped THEN timers
                       ELSE [timers EXCEPT ![name[c]] = @ + 1]
  /\ name' = [name EXCEPT ![c] = NoName] /\ shares' = [shares EXCEPT ![c] = 0]
  /\ Moves(c, "gone")
  /\ UNCHANGED <<stopped, open, asks, ipConns, seen, ghost>>

\* A slip: a name that has been evicted is not reported.
TimerKnown(n) ==
  /\ timers[n] > 0 /\ ~stopped
  /\ timers' = [timers EXCEPT ![n] = @ - 1]
  /\ owed' = IF n \in known \ online THEN owed \ {n} ELSE owed
  /\ UNCHANGED <<stopped, conn, limits, seen, accepted, mixed, sessions>>

\* Three minutes are over: the name is reported (OnMinerDisconnect) unless it
\* is online.  When the server stops first, nothing is reported.
Timer(n) ==
  /\ timers[n] > 0 /\ ~stopped
  /\ timers' = [timers EXCEPT ![n] = @ - 1]
  /\ owed' = IF n \notin online THEN owed \ {n} ELSE owed
  /\ UNCHANGED <<stopped, conn, limits, seen, accepted, mixed, sessions>>

\* Stop: signals everyone and closes the connections it finds in s.workers.
Stop ==
  /\ ~stopped /\ stopped' = TRUE
  /\ open' = {c \in open : at[c] \in {"accepted"}}
  /\ timers' = [n \in Names |-> 0]
  /\ UNCHANGED <<at, asks, name, shares, limits, seen, ghost>>

Next ==
  \/ \E c \in Conns :
       \/ \E tls \in BOOLEAN : Accept(c, tls)
       \/ Register(c)
       \/ \E n \in Names : Authorize(c, n)
       \/ Authorized(c) \/ Submit(c) \/ Share(c)
       \/ HangUp(c) \/ Unregister(c) \/ Leave(c)
  \/ \E n \in Names : Timer(n)
  \/ Stop

Spec == Init /\ [][Next]_vars

\* Goroutines run and timers fire; nothing is assumed of miners.
Fairness ==
  /\ \A c \in Conns :
       /\ WF_vars(Register(c)) /\ WF_vars(Authorized(c)) /\ WF_vars(Share(c))
       /\ WF_vars(Unregister(c)) /\ WF_vars(Leave(c))
  /\ \A n \in Names : WF_vars(Timer(n))

FairSpec == Spec /\ Fairness
-----------------------------------------------------------------------------
\* The fields of the server; no address has more connections than it may,
\* however the two listeners and the cleanups interleave.
TypeOK ==
  /\ stopped \in BOOLEAN
  /\ at \in [Conns -> {"gone", "accepted", "serving", "named", "shared", "left"}]
  /\ \A c \in open : at[c] # "gone"
  /\ asks \in [Conns -> Names \cup {NoName}]
  /\ name \in [Conns -> Names \cup {NoName}]
  /\ shares \in [Conns -> Nat] /\ count \in Nat
  /\ ipConns \in [Ips -> 0..MaxConnsPerIP]
  /\ online \subseteq known /\ known \subseteq Names
  /\ base \in [Names -> Nat] /\ total \in [Names -> Nat]
  /\ timers \in [Names -> Nat]
  /\ owed \subseteq Names /\ mixed \subseteq Names
  /\ accepted \in [Names -> 0..MaxShares] /\ sessions \in 0..MaxSessions

\* The count of an address is the number of its connections that have not
\* been cleaned up: a slot is never lost, whoever leaves when, and a limit
\* reached is a limit that can be left again.
SlotsAreReturned ==
  \A i \in Ips :
    ipConns[i] = Cardinality({c \in Conns : /\ IpOf[c] = i
                                            /\ at[c] \notin {"gone", "left"}})

\* The number of miners "stays in sync with the workers table (which only
\* shows authorized workers)": it counts the authorized connections.
CountsAuthorized == count = Cardinality({c \in Conns : name[c] # NoName})

\* A name shown online has a connection.  While a name has one connection at
\* a time it is also shown online as long as it has it, so that nobody is
\* reported offline who is not; eviction from a full map never takes it.
OnlineIsConnected ==
  \A n \in Names :
    /\ n \in online => SessionsOf(n) # {}
    /\ n \notin mixed /\ SessionsOf(n) # {} => n \in online

\* "Total counts accumulate across reconnects by adding the current session
\* onto the base": while a name has one connection at a time its total is the
\* shares it was told were accepted, without the one in between.
TotalsAddUp ==
  \A n \in known \ mixed :
    total[n] + Cardinality({c \in SessionsOf(n) : at[c] = "shared"})
      = accepted[n]

\* A worker that has left is reported offline, or comes back, or the server
\* stops; also when its entry has been evicted in between.
OfflineIsReported == \A n \in Names : n \in owed ~> (n \notin owed \/ stopped)
=============================================================================
