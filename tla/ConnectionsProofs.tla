------------------------- MODULE ConnectionsProofs --------------------------
(***************************************************************************)
(* Proofs about the two ends of the stratum server's connections: those of *)
(* the miners (Sessions) and those to the nodes and the proxied pool, with *)
(* the watchdog (Failover).  The two share no variable, and each has an    *)
(* inductive invariant of its own.                                         *)
(***************************************************************************)
EXTENDS Sessions, Failover, FiniteSetTheorems, TLAPS

-----------------------------------------------------------------------------
(***************************************************************************)
(* Sessions, for any number of connections, addresses, names and shares.   *)
(* The places of an address and the types need no more than where a        *)
(* connection stands.  What is said of names holds as long as a miner      *)
(* authorizes once per connection: a name then has one connection or is    *)
(* mixed, and the base and the session's shares are what it was told, which*)
(* makes its total survive a reconnect.                                    *)
(***************************************************************************)

\* The connections of an address that hold a place, and the miners.
Places(i) == {c \in Conns : IpOf[c] = i /\ at[c] \notin {"gone", "left"}}
WithName == {c \in Conns : name[c] # NoName}

\* Where a connection stands decides what is known of it.
Lifecycle ==
  /\ open \subseteq Conns
  /\ \A c \in Conns :
       /\ at[c] \in {"gone", "accepted"} => name[c] = NoName
       /\ at[c] = "shared" => name[c] # NoName
       /\ at[c] = "named" <=> asks[c] # NoName
       /\ at[c] \in {"gone", "left"} => c \notin open
       /\ name[c] = NoName => shares[c] = 0

\* No miner is left out of the count.
CountsAll == count >= Cardinality(WithName)

States == {"gone", "accepted", "serving", "named", "shared", "left"}

PlacesInv == TypeOK /\ Lifecycle /\ SlotsAreReturned /\ CountsAll

\* A connection that is being authorized has no name yet.
Once == \A c \in Conns : at[c] = "named" => name[c] = NoName

\* A name has one connection at most, unless it is mixed.
OneEach == \A n \in Names \ mixed : \A c, d \in SessionsOf(n) : c = d

\* The base and the session's shares are what the name was told.
BaseAddsUp ==
  \A n \in known \ mixed : \A c \in SessionsOf(n) : base[n] + shares[c] = accepted[n]

NamesInv ==
  Once /\ CountsAuthorized /\ OneEach /\ OnlineIsConnected /\ BaseAddsUp /\ TotalsAddUp
-----------------------------------------------------------------------------
(* Facts about sets of connections.                                        *)

\* A set of connections is finite; it grows and shrinks by one.
LEMMA CountOf ==
  ASSUME NEW S \in SUBSET Conns
  PROVE  IsFiniteSet(S) /\ Cardinality(S) \in Nat
BY SessionsAssumption, FS_Subset, FS_CardinalityType

LEMMA CountWith ==
  ASSUME NEW S \in SUBSET Conns, NEW c \in Conns \ S
  PROVE  Cardinality(S \cup {c}) = Cardinality(S) + 1
BY CountOf, FS_AddElement

LEMMA CountWithout ==
  ASSUME NEW S \in SUBSET Conns, NEW c \in S
  PROVE  Cardinality(S \ {c}) = Cardinality(S) - 1 /\ Cardinality(S) \in Nat \ {0}
<1>1. Cardinality(S \ {c}) = Cardinality(S) - 1
  BY CountOf, FS_RemoveElement
<1>2. Cardinality(S) \in Nat /\ Cardinality(S \ {c}) \in Nat
  BY CountOf
<1> QED BY <1>1, <1>2

\* A name with one connection has one that is being told of a share, or none.
LEMMA CountOfOne ==
  ASSUME NEW S, \A c, d \in S : c = d
  PROVE  Cardinality(S) = IF S = {} THEN 0 ELSE 1
<1>1. CASE S = {}
  BY <1>1, FS_EmptySet
<1>2. CASE S # {}
  <2>1. PICK c \in S : S = {c}
    BY <1>2
  <2> QED BY <1>2, <2>1, FS_Singleton
<1> QED BY <1>1, <1>2
-----------------------------------------------------------------------------
(* Types, places and the count, however often a miner authorizes.           *)

\* What SlotsAreReturned says of one address.
LEMMA SlotsArePlaces == SlotsAreReturned <=> \A i \in Ips : ipConns[i] = Cardinality(Places(i))
BY DEF SlotsAreReturned, Places

\* A connection that stays on the same side of the listener keeps its place.
LEMMA SamePlaces ==
  ASSUME at \in [Conns -> States], NEW c \in Conns, NEW s \in States, Moves(c, s),
         at[c] \in {"gone", "left"} <=> s \in {"gone", "left"}
  PROVE  \A i : Places(i)' = Places(i)
BY DEF Moves, Places, States

\* One that is accepted takes a place, and gives it back when it is removed.
LEMMA PlaceTaken ==
  ASSUME at \in [Conns -> States], NEW c \in Conns, at[c] = "gone", Moves(c, "accepted")
  PROVE  \A i : Places(i)' = IF i = IpOf[c] THEN Places(i) \cup {c} ELSE Places(i)
BY DEF Moves, Places, States

LEMMA PlaceGivenBack ==
  ASSUME at \in [Conns -> States], NEW c \in Conns, at[c] = "serving", Moves(c, "left")
  PROVE  \A i : Places(i)' = IF i = IpOf[c] THEN Places(i) \ {c} ELSE Places(i)
BY DEF Moves, Places, States

\* Accepting takes the next place of the address, cleaning up gives one back.
LEMMA SlotsStep ==
  ASSUME PlacesInv, [Next]_vars
  PROVE  SlotsAreReturned' /\ ipConns' \in [Ips -> 0..MaxConnsPerIP]
<1> USE SessionsAssumption DEF PlacesInv
<1>0. /\ at \in [Conns -> States] /\ ipConns \in [Ips -> 0..MaxConnsPerIP]
      /\ \A i \in Ips : ipConns[i] = Cardinality(Places(i))
      /\ \A i : Places(i) \in SUBSET Conns
  BY SlotsArePlaces DEF TypeOK, States, Places
<1>same. ASSUME ipConns' = ipConns, \A i \in Ips : Places(i)' = Places(i)
         PROVE  SlotsAreReturned' /\ ipConns' \in [Ips -> 0..MaxConnsPerIP]
  BY <1>0, <1>same DEF SlotsAreReturned, Places
<1>1. ASSUME NEW c \in Conns, NEW tls \in BOOLEAN, Accept(c, tls)
      PROVE  SlotsAreReturned' /\ ipConns' \in [Ips -> 0..MaxConnsPerIP]
  <2>1. /\ IpOf[c] \in Ips /\ ipConns[IpOf[c]] < MaxConnsPerIP
        /\ ipConns' = [ipConns EXCEPT ![IpOf[c]] = @ + 1] /\ c \notin Places(IpOf[c])
    BY <1>1 DEF Accept, Places
  <2>2. \A i : Places(i)' = IF i = IpOf[c] THEN Places(i) \cup {c} ELSE Places(i)
    BY <1>0, <1>1, PlaceTaken DEF Accept
  <2>3. \A i \in Ips : ipConns'[i] = Cardinality(Places(i)')
    BY <1>0, <2>1, <2>2, CountWith
  <2>4. ipConns' \in [Ips -> 0..MaxConnsPerIP]
    BY <1>0, <2>1
  <2> QED BY <2>3, <2>4 DEF SlotsAreReturned, Places
<1>2. ASSUME NEW c \in Conns, Unregister(c)
      PROVE  SlotsAreReturned' /\ ipConns' \in [Ips -> 0..MaxConnsPerIP]
  <2>1. /\ IpOf[c] \in Ips /\ c \in Places(IpOf[c])
        /\ ipConns' = [ipConns EXCEPT ![IpOf[c]] = @ - 1]
    BY <1>2 DEF Unregister, Places
  <2>2. \A i : Places(i)' = IF i = IpOf[c] THEN Places(i) \ {c} ELSE Places(i)
    BY <1>0, <1>2, PlaceGivenBack DEF Unregister
  <2>3. \A i \in Ips : ipConns'[i] = Cardinality(Places(i)')
    BY <1>0, <2>1, <2>2, CountWithout
  <2>4. ipConns[IpOf[c]] \in Nat \ {0}
    BY <1>0, <2>1, CountWithout
  <2>5. ipConns' \in [Ips -> 0..MaxConnsPerIP]
    BY <1>0, <2>1, <2>4
  <2> QED BY <2>3, <2>5 DEF SlotsAreReturned, Places
<1>3. ASSUME NEW c \in Conns,
             \/ Register(c) \/ \E n \in Names : Authorize(c, n)
             \/ Authorized(c) \/ Submit(c) \/ Share(c) \/ Leave(c)
      PROVE  SlotsAreReturned' /\ ipConns' \in [Ips -> 0..MaxConnsPerIP]
  <2>1. ipConns' = ipConns
    BY <1>3 DEF Register, Authorize, Named, Authorized, Submit, Share, Leave, limits
  <2>2. \E s \in States : Moves(c, s) /\ (at[c] \in {"gone", "left"} <=> s \in {"gone", "left"})
    BY <1>3 DEF Register, Authorize, Asks, Named, Authorized, Submit, Share, Leave, States
  <2> QED BY <1>0, <1>same, <2>1, <2>2, SamePlaces
<1>4. CASE (\E c \in Conns : HangUp(c)) \/ (\E n \in Names : Timer(n)) \/ Stop \/ UNCHANGED vars
  <2>1. ipConns' = ipConns /\ at' = at
    BY <1>4 DEF HangUp, Timer, Stop, vars, limits, conn
  <2> QED BY <2>1, <1>same DEF Places
<1> QED
  BY <1>1, <1>2, <1>3, <1>4 DEF Next

\* The miners change when one is authorized and when one leaves; the count with
\* them, but for a miner that is authorized once more.
LEMMA MinersStep ==
  ASSUME PlacesInv, [Next]_vars
  PROVE  \/ /\ WithName' = WithName /\ count' = count
         \/ \E c \in Conns : /\ Authorized(c) /\ WithName' = WithName \cup {c}
                             /\ count' = count + 1
         \/ \E c \in WithName : Leave(c) /\ WithName' = WithName \ {c} /\ count' = count - 1
<1> USE SessionsAssumption DEF PlacesInv, TypeOK, WithName
<1>1. ASSUME NEW c \in Conns, Authorized(c)
      PROVE  WithName' = WithName \cup {c} /\ count' = count + 1
  <2>1. asks[c] # NoName /\ name' = [name EXCEPT ![c] = asks[c]]
    BY <1>1 DEF Authorized, Lifecycle
  <2> QED BY <1>1, <2>1 DEF Authorized
<1>2. ASSUME NEW c \in Conns, Leave(c)
      PROVE  IF c \in WithName THEN WithName' = WithName \ {c} /\ count' = count - 1
                             ELSE WithName' = WithName /\ count' = count
  BY <1>2 DEF Leave
<1>3. ASSUME NEW c \in Conns,
             \/ \E tls \in BOOLEAN : Accept(c, tls)
             \/ Register(c) \/ \E n \in Names : Authorize(c, n)
             \/ Submit(c) \/ Share(c) \/ HangUp(c) \/ Unregister(c)
      PROVE  WithName' = WithName /\ count' = count
  BY <1>3 DEF Accept, Register, Authorize, Named, Submit, Share, HangUp, Unregister, limits
<1>4. CASE (\E n \in Names : Timer(n)) \/ Stop \/ UNCHANGED vars
  BY <1>4 DEF Timer, Stop, vars, limits, conn
<1> QED
  BY <1>1, <1>2, <1>3, <1>4 DEF Next

LEMMA CountsAllStep ==
  ASSUME PlacesInv, [Next]_vars
  PROVE  CountsAll' /\ count' \in Nat
<1>1. /\ WithName \in SUBSET Conns /\ Cardinality(WithName) \in Nat
      /\ count \in Nat /\ count >= Cardinality(WithName)
  BY CountOf DEF WithName, PlacesInv, CountsAll, TypeOK
<1>2. CASE WithName' = WithName /\ count' = count
  BY <1>1, <1>2 DEF CountsAll
<1>3. ASSUME NEW c \in Conns, WithName' = WithName \cup {c}, count' = count + 1
      PROVE  CountsAll' /\ count' \in Nat
  <2>1. CASE c \in WithName
    <3>1. Cardinality(WithName') = Cardinality(WithName)
      <4>1. WithName' = WithName
        BY <1>3, <2>1
      <4> QED BY <4>1
    <3>2. count' = count + 1
      BY <1>3
    <3> QED BY <1>1, <3>1, <3>2 DEF CountsAll
  <2>2. CASE c \notin WithName
    <3>1. Cardinality(WithName \cup {c}) = Cardinality(WithName) + 1
      BY <1>1, <2>2, CountWith
    <3>2. Cardinality(WithName') = Cardinality(WithName) + 1
      BY <1>3, <3>1
    <3> QED BY <1>1, <1>3, <3>2 DEF CountsAll
  <2> QED BY <2>1, <2>2
<1>4. ASSUME NEW c \in WithName, WithName' = WithName \ {c}, count' = count - 1
      PROVE  CountsAll' /\ count' \in Nat
  <2>1. Cardinality(WithName') = Cardinality(WithName) - 1 /\ Cardinality(WithName) \in Nat \ {0}
    BY <1>1, <1>4, CountWithout
  <2> QED BY <1>1, <1>4, <2>1 DEF CountsAll
<1> QED
  BY <1>2, <1>3, <1>4, MinersStep

\* Where the connections stand.
LEMMA LifecycleStep ==
  ASSUME PlacesInv, [Next]_vars
  PROVE  Lifecycle'
<1> USE SessionsAssumption DEF PlacesInv, TypeOK, Lifecycle, Moves
<1>1. ASSUME NEW c \in Conns, NEW tls \in BOOLEAN, Accept(c, tls) PROVE Lifecycle'
  BY <1>1 DEF Accept
<1>2. ASSUME NEW c \in Conns, Register(c) PROVE Lifecycle'
  BY <1>2 DEF Register
<1>3. ASSUME NEW c \in Conns, NEW n \in Names, Authorize(c, n) PROVE Lifecycle'
  BY <1>3 DEF Authorize, Asks, Named
<1>4. ASSUME NEW c \in Conns, Authorized(c) PROVE Lifecycle'
  BY <1>4 DEF Authorized
<1>5. ASSUME NEW c \in Conns, Submit(c) \/ Share(c) PROVE Lifecycle'
  BY <1>5 DEF Submit, Share
<1>6. ASSUME NEW c \in Conns, HangUp(c) PROVE Lifecycle'
  BY <1>6 DEF HangUp
<1>7. ASSUME NEW c \in Conns, Unregister(c) PROVE Lifecycle'
  BY <1>7 DEF Unregister
<1>8. ASSUME NEW c \in Conns, Leave(c) PROVE Lifecycle'
  BY <1>8 DEF Leave
<1>9. CASE (\E n \in Names : Timer(n)) \/ Stop \/ UNCHANGED vars
  BY <1>9 DEF Timer, Stop, vars, conn
<1> QED
  BY <1>1, <1>2, <1>3, <1>4, <1>5, <1>6, <1>7, <1>8, <1>9 DEF Next

\* What seenWorkers holds for a name that authorizes.
LEMMA NamedTypes ==
  ASSUME TypeOK, NEW n \in Names, Remembers(n, known \ online), Rebases(n)
  PROVE  /\ online' \subseteq known' /\ known' \subseteq Names
         /\ base' \in [Names -> Nat] /\ total' \in [Names -> Nat]
<1>1. online' \subseteq known' /\ known' \subseteq Names
  BY DEF Remembers, TypeOK
<1>2. base' \in [Names -> Nat] /\ total' \in [Names -> Nat]
  BY DEF Rebases, TypeOK
<1> QED BY <1>1, <1>2

LEMMA SyncedTypes ==
  ASSUME TypeOK, NEW c \in Conns
  PROVE  Synced(c) \in [Names -> Nat]
BY DEF Synced, TypeOK

\* The types, without the two that the counts take care of.
LEMMA TypesStep ==
  ASSUME PlacesInv, [Next]_vars
  PROVE  TypeOK'
<1> USE SessionsAssumption DEF PlacesInv, TypeOK, Moves
<1>slots. ipConns' \in [Ips -> 0..MaxConnsPerIP]
  BY SlotsStep
<1>count. count' \in Nat
  BY CountsAllStep
<1>open. \A c \in open' : at'[c] # "gone"
  BY LifecycleStep DEF Lifecycle
<1> USE <1>slots, <1>count, <1>open
<1>1. ASSUME NEW c \in Conns,
             (\E tls \in BOOLEAN : Accept(c, tls)) \/ Register(c) \/ HangUp(c)
      PROVE  TypeOK'
  BY <1>1 DEF Accept, Register, HangUp, limits, seen, ghost
<1>2. ASSUME NEW c \in Conns, NEW n \in Names, Authorize(c, n)
      PROVE  TypeOK'
  <2>1. /\ online' \subseteq known' /\ known' \subseteq Names
        /\ base' \in [Names -> Nat] /\ total' \in [Names -> Nat]
    BY <1>2, NamedTypes DEF Authorize
  <2>2. accepted' \in [Names -> 0..MaxShares] /\ sessions' \in 0..MaxSessions
    BY <1>2 DEF Authorize, Asks, Named
  <2>3. owed' \subseteq Names /\ mixed' \subseteq Names
    BY <1>2 DEF Authorize, Named
  <2> QED BY <1>2, <2>1, <2>2, <2>3 DEF Authorize, Named
<1>3. ASSUME NEW c \in Conns, Authorized(c)
      PROVE  TypeOK'
  BY <1>3 DEF Authorized, seen, ghost
<1>4. ASSUME NEW c \in Conns, Submit(c)
      PROVE  TypeOK'
  BY <1>4 DEF Submit, limits, seen
<1>5. ASSUME NEW c \in Conns, Share(c)
      PROVE  TypeOK'
  BY <1>5, SyncedTypes DEF Share, limits, ghost
<1>6. ASSUME NEW c \in Conns, Unregister(c)
      PROVE  TypeOK'
  BY <1>6, SyncedTypes DEF Unregister
<1>7. ASSUME NEW c \in Conns, Leave(c)
      PROVE  TypeOK'
  <2>1. timers' \in [Names -> Nat]
    BY <1>7 DEF Leave
  <2> QED BY <1>7, <2>1 DEF Leave, seen, ghost
<1>8. ASSUME NEW n \in Names, Timer(n)
      PROVE  TypeOK'
  BY <1>8 DEF Timer, conn, limits, seen
<1>9. CASE Stop
  BY <1>9 DEF Stop, limits, seen, ghost
<1>10. CASE UNCHANGED vars
  BY <1>10 DEF vars, conn, limits, seen, ghost
<1> QED
  BY <1>1, <1>2, <1>3, <1>4, <1>5, <1>6, <1>7, <1>8, <1>9, <1>10 DEF Next

LEMMA PlacesInvInit == Init => PlacesInv
<1> SUFFICES ASSUME Init PROVE PlacesInv
  OBVIOUS
<1>0. MaxConnsPerIP \in Nat /\ MaxShares \in Nat /\ MaxSessions \in Nat
  BY SessionsAssumption
<1>1. TypeOK
  <2>1. /\ ipConns \in [Ips -> 0..MaxConnsPerIP] /\ accepted \in [Names -> 0..MaxShares]
        /\ sessions \in 0..MaxSessions
    BY <1>0 DEF Init
  <2> QED BY <2>1 DEF Init, TypeOK
<1>2. Lifecycle
  BY DEF Init, Lifecycle
<1>3. WithName = {} /\ \A i \in Ips : Places(i) = {}
  BY DEF Init, WithName, Places
<1>4. SlotsAreReturned
  BY <1>3, FS_EmptySet, SlotsArePlaces DEF Init
<1>5. CountsAll
  BY <1>3, FS_EmptySet DEF Init, CountsAll
<1> QED BY <1>1, <1>2, <1>4, <1>5 DEF PlacesInv

LEMMA PlacesInvStep == PlacesInv /\ [Next]_vars => PlacesInv'
BY TypesStep, LifecycleStep, SlotsStep, CountsAllStep DEF PlacesInv

\* For any number of connections, addresses and names: no address has more
\* connections than it may, and a name that is online is one that is known.
THEOREM SessionTypes == Spec => []TypeOK
<1>1. PlacesInv => TypeOK
  BY DEF PlacesInv
<1> QED BY <1>1, PlacesInvInit, PlacesInvStep, PTL DEF Spec

\* A place is given back whoever leaves when, authorized or not: a limit that is
\* reached can be left again (acceptLoop and the cleanup of handleWorker).
THEOREM PlacesAreReturned == Spec => []SlotsAreReturned
<1>1. PlacesInv => SlotsAreReturned
  BY DEF PlacesInv
<1> QED BY <1>1, PlacesInvInit, PlacesInvStep, PTL DEF Spec
-----------------------------------------------------------------------------
(* What is said of names, when a miner authorizes once.                    *)

\* A connection that is authorized had no name and belonged to none.
LEMMA AuthorizeIsNew ==
  ASSUME ~Again, PlacesInv, NEW c \in Conns, NEW n \in Names, Authorize(c, n)
  PROVE  /\ \A m \in Names : c \notin SessionsOf(m)
         /\ SessionsOf(n)' = SessionsOf(n) \cup {c}
         /\ \A m \in Names \ {n} : SessionsOf(m)' = SessionsOf(m)
         /\ shares[c] = 0
<1> USE DEF PlacesInv, TypeOK, Lifecycle
<1>1. /\ at[c] = "serving" /\ name[c] = NoName /\ asks' = [asks EXCEPT ![c] = n]
      /\ at' = [at EXCEPT ![c] = "named"] /\ name' = name
  BY DEF Authorize, Asks, Named, Moves
<1>2. \A m \in Names : c \notin SessionsOf(m)
  BY <1>1, SessionsAssumption DEF SessionsOf
<1>3. SessionsOf(n)' = SessionsOf(n) \cup {c}
  BY <1>1 DEF SessionsOf
<1>4. \A m \in Names \ {n} : SessionsOf(m)' = SessionsOf(m)
  BY <1>1, SessionsAssumption DEF SessionsOf
<1> QED BY <1>1, <1>2, <1>3, <1>4

\* A connection that is cleaned up was its name's, and no other name's.
LEMMA UnregisterLeaves ==
  ASSUME PlacesInv, NEW c \in Conns, Unregister(c)
  PROVE  /\ \A m \in Names : c \in SessionsOf(m) <=> m = name[c]
         /\ \A m \in Names : SessionsOf(m)' = SessionsOf(m) \ {c}
BY SessionsAssumption
   DEF PlacesInv, TypeOK, Lifecycle, Unregister, Moves, SessionsOf

\* Nothing else changes whose connection is whose.
LEMMA SessionsStay ==
  ASSUME PlacesInv, Once, NEW c \in Conns,
         \/ \E tls \in BOOLEAN : Accept(c, tls)
         \/ Register(c) \/ Authorized(c) \/ Submit(c) \/ Share(c) \/ HangUp(c) \/ Leave(c)
  PROVE  \A m \in Names : SessionsOf(m)' = SessionsOf(m)
<1> USE SessionsAssumption DEF PlacesInv, TypeOK, Lifecycle, Once, Moves, SessionsOf
<1>1. CASE \E tls \in BOOLEAN : Accept(c, tls)
  BY <1>1 DEF Accept
<1>2. CASE Register(c)
  BY <1>2 DEF Register
<1>3. CASE Authorized(c)
  BY <1>3 DEF Authorized
<1>4. CASE Submit(c) \/ Share(c)
  BY <1>4 DEF Submit, Share
<1>5. CASE HangUp(c) \/ Leave(c)
  BY <1>5 DEF HangUp, Leave
<1> QED BY <1>1, <1>2, <1>3, <1>4, <1>5

LEMMA OnceStep ==
  ASSUME ~Again, PlacesInv, Once, [Next]_vars
  PROVE  Once'
<1> USE DEF PlacesInv, TypeOK, Once, Moves
<1>1. ASSUME NEW c \in Conns,
             \/ \E tls \in BOOLEAN : Accept(c, tls)
             \/ Register(c) \/ HangUp(c) \/ Unregister(c) \/ Submit(c) \/ Share(c)
      PROVE  Once'
  BY <1>1 DEF Accept, Register, HangUp, Unregister, Submit, Share
<1>2. ASSUME NEW c \in Conns, NEW n \in Names, Authorize(c, n)
      PROVE  Once'
  BY <1>2 DEF Authorize, Asks, Named
<1>3. ASSUME NEW c \in Conns, Authorized(c) \/ Leave(c)
      PROVE  Once'
  BY <1>3 DEF Authorized, Leave
<1>4. CASE (\E n \in Names : Timer(n)) \/ Stop \/ UNCHANGED vars
  BY <1>4 DEF Timer, Stop, vars, conn
<1> QED BY <1>1, <1>2, <1>3, <1>4 DEF Next

\* The count is the number of miners: nobody is counted twice.
LEMMA CountsAuthorizedStep ==
  ASSUME PlacesInv, Once, CountsAuthorized, [Next]_vars
  PROVE  CountsAuthorized'
<1>0. /\ WithName \in SUBSET Conns /\ count = Cardinality(WithName)
      /\ CountsAuthorized' <=> count' = Cardinality(WithName')
  BY DEF WithName, CountsAuthorized
<1>1. CASE WithName' = WithName /\ count' = count
  BY <1>0, <1>1
<1>2. ASSUME NEW c \in Conns, Authorized(c), WithName' = WithName \cup {c}, count' = count + 1
      PROVE  CountsAuthorized'
  <2>1. c \notin WithName
    BY <1>2 DEF Authorized, Once, WithName
  <2> QED BY <1>0, <1>2, <2>1, CountWith
<1>3. ASSUME NEW c \in WithName, WithName' = WithName \ {c}, count' = count - 1
      PROVE  CountsAuthorized'
  BY <1>0, <1>3, CountWithout
<1> QED
  BY <1>1, <1>2, <1>3, MinersStep

\* The part of the invariant that is about names and their totals.
NamesAddUp == OneEach /\ OnlineIsConnected /\ BaseAddsUp /\ TotalsAddUp

\* It reads the connections of a name, their shares and which of them are between
\* handleSubmit and updateSeenWorkerShares.
LEMMA NamesAddUpSame ==
  ASSUME NamesAddUp,
         \A m \in Names : SessionsOf(m)' = SessionsOf(m),
         UNCHANGED <<online, known, mixed, base, total, accepted, shares>>,
         \A m \in Names : \A c \in SessionsOf(m) : at'[c] = "shared" <=> at[c] = "shared",
         known \subseteq Names
  PROVE  NamesAddUp'
<1>1. OneEach' /\ OnlineIsConnected' /\ BaseAddsUp'
  BY DEF NamesAddUp, OneEach, OnlineIsConnected, BaseAddsUp
<1>2. TotalsAddUp'
  <2> SUFFICES ASSUME NEW n \in known \ mixed
               PROVE  total[n] + Cardinality({c \in SessionsOf(n)' : at'[c] = "shared"})
                        = accepted[n]
    BY DEF TotalsAddUp
  <2>1. {c \in SessionsOf(n)' : at'[c] = "shared"} = {c \in SessionsOf(n) : at[c] = "shared"}
    OBVIOUS
  <2> QED BY <2>1 DEF NamesAddUp, TotalsAddUp
<1> QED BY <1>1, <1>2 DEF NamesAddUp

\* What TotalsAddUp says of a name with one connection.
LEMMA TotalOfOne ==
  ASSUME NEW n, \A c, d \in SessionsOf(n) : c = d
  PROVE  Cardinality({c \in SessionsOf(n) : at[c] = "shared"})
           = IF \E c \in SessionsOf(n) : at[c] = "shared" THEN 1 ELSE 0
<1>1. \A c, d \in {c \in SessionsOf(n) : at[c] = "shared"} : c = d
  OBVIOUS
<1> QED BY <1>1, CountOfOne

\* Authorizing: what the name was told so far becomes its base.
LEMMA AuthorizeAddsUp ==
  ASSUME ~Again, PlacesInv, NamesAddUp, NEW c \in Conns, NEW n \in Names, Authorize(c, n)
  PROVE  NamesAddUp'
<1> USE DEF NamesAddUp
<1>types. /\ known \subseteq Names /\ online \subseteq known
          /\ mixed \subseteq Names
          /\ base \in [Names -> Nat] /\ total \in [Names -> Nat] /\ shares \in [Conns -> Nat]
          /\ accepted \in [Names -> 0..MaxShares]
  BY DEF PlacesInv, TypeOK
<1>1. /\ \A m \in Names : c \notin SessionsOf(m)
      /\ SessionsOf(n)' = SessionsOf(n) \cup {c}
      /\ \A m \in Names \ {n} : SessionsOf(m)' = SessionsOf(m)
      /\ shares[c] = 0
  BY AuthorizeIsNew
<1>2. /\ accepted' = [accepted EXCEPT ![n] = IF n \in known THEN @ ELSE 0]
      /\ mixed' = IF SessionsOf(n) \ {c} # {} THEN mixed \cup {n}
                  ELSE IF n \in known THEN mixed ELSE mixed \ {n}
      /\ shares' = shares /\ at' = [at EXCEPT ![c] = "named"]
  BY DEF Authorize, Named, Moves
<1>3. /\ known' \subseteq known \cup {n} /\ online' = online \cup {n} /\ online' \subseteq known'
  <2>1. PICK out \in SUBSET (known \ online) :
          known' = (known \ out) \cup {n} /\ online' = (online \ out) \cup {n}
    BY DEF Authorize, Remembers
  <2> QED BY <2>1, <1>types
<1>4. /\ base' = [base EXCEPT ![n] = IF n \in known THEN total[n] ELSE 0]
      /\ total' = [total EXCEPT ![n] = base'[n]]
  BY DEF Authorize, Rebases
<1>5. n \notin mixed' => SessionsOf(n) = {} /\ (n \in known => n \notin mixed)
  BY <1>1, <1>2
<1>6. OneEach'
  BY <1>1, <1>2, <1>5 DEF OneEach
<1>7. OnlineIsConnected'
  BY <1>1, <1>2, <1>3, <1>5 DEF OnlineIsConnected
<1>8. n \in known \ mixed /\ SessionsOf(n) = {} => total[n] = accepted[n]
  <2> SUFFICES ASSUME n \in known \ mixed, SessionsOf(n) = {}
               PROVE  total[n] = accepted[n]
    OBVIOUS
  <2>1. Cardinality({d \in SessionsOf(n) : at[d] = "shared"}) = 0
    BY FS_EmptySet
  <2>2. total[n] + Cardinality({d \in SessionsOf(n) : at[d] = "shared"}) = accepted[n]
    BY DEF TotalsAddUp
  <2> QED BY <1>types, <2>1, <2>2
<1>9. n \notin mixed' => base'[n] = accepted'[n] /\ total'[n] = accepted'[n]
  BY <1>types, <1>2, <1>4, <1>5, <1>8
<1>10. BaseAddsUp'
  BY <1>types, <1>1, <1>2, <1>3, <1>4, <1>5, <1>9 DEF BaseAddsUp
<1>11. TotalsAddUp'
  <2> SUFFICES ASSUME NEW m \in known', m \notin mixed'
               PROVE  total'[m] + Cardinality({d \in SessionsOf(m)' : at'[d] = "shared"})
                        = accepted'[m]
    BY DEF TotalsAddUp
  <2>1. CASE m = n
    <3>1. {d \in SessionsOf(m)' : at'[d] = "shared"} = {}
      <4>1. SessionsOf(m)' = {c} /\ at'[c] = "named"
        BY <2>1, <1>1, <1>2, <1>5 DEF PlacesInv, TypeOK
      <4> QED BY <4>1
    <3>2. accepted'[n] \in Int
      <4>1. accepted[n] \in Int /\ accepted'[n] \in {accepted[n], 0}
        BY <1>types, <1>2
      <4> QED BY <4>1
    <3>3. total'[n] = accepted'[n]
      BY <1>9, <2>1
    <3>4. Cardinality({d \in SessionsOf(m)' : at'[d] = "shared"}) = 0
      BY <3>1, FS_EmptySet
    <3> QED BY <3>2, <3>3, <3>4, <2>1
  <2>2. CASE m # n
    <3>1. m \in known \ mixed
      BY <2>2, <1>2, <1>3
    <3>2. {d \in SessionsOf(m)' : at'[d] = "shared"} = {d \in SessionsOf(m) : at[d] = "shared"}
      BY <1>1, <1>2, <2>2, <3>1, <1>types DEF SessionsOf, PlacesInv, TypeOK
    <3>3. total'[m] = total[m] /\ accepted'[m] = accepted[m]
      BY <1>types, <1>2, <1>4, <2>2
    <3> QED BY <3>1, <3>2, <3>3 DEF TotalsAddUp
  <2> QED BY <2>1, <2>2
<1> QED BY <1>6, <1>7, <1>10, <1>11

\* A share is accepted, then added: base and session agree with what was told.
LEMMA ShareAddsUp ==
  ASSUME PlacesInv, Once, NamesAddUp, NEW c \in Conns, Submit(c) \/ Share(c)
  PROVE  NamesAddUp'
<1> USE DEF NamesAddUp
<1> DEFINE n == name[c]
<1>types. /\ known \subseteq Names /\ online \subseteq known /\ n \in Names
          /\ base \in [Names -> Nat] /\ total \in [Names -> Nat] /\ shares \in [Conns -> Nat]
          /\ accepted \in [Names -> 0..MaxShares] /\ \A m \in Names : accepted[m] \in Int
          /\ at \in [Conns -> States]
  BY DEF PlacesInv, TypeOK, Lifecycle, Submit, Share, States
<1>1. /\ \A m \in Names : SessionsOf(m)' = SessionsOf(m)
      /\ \A m \in Names : c \in SessionsOf(m) <=> m = n
      /\ UNCHANGED <<known, online, mixed, base, name>>
  BY SessionsStay, <1>types DEF SessionsOf, Submit, Share, seen, ghost
<1>2. OneEach' /\ OnlineIsConnected'
  BY <1>1 DEF OneEach, OnlineIsConnected
<1>3. ASSUME NEW m \in (known \ mixed) \ {n}
      PROVE  {d \in SessionsOf(m)' : at'[d] = "shared"} = {d \in SessionsOf(m) : at[d] = "shared"}
  BY <1>1, <1>3, <1>types DEF Submit, Share, Moves, SessionsOf
<1>4. n \in known \ mixed
      => /\ SessionsOf(n) = {c} /\ base[n] + shares[c] = accepted[n]
         /\ total[n] + (IF at[c] = "shared" THEN 1 ELSE 0) = accepted[n]
  <2> SUFFICES ASSUME n \in known \ mixed
               PROVE  /\ SessionsOf(n) = {c} /\ base[n] + shares[c] = accepted[n]
                      /\ total[n] + (IF at[c] = "shared" THEN 1 ELSE 0) = accepted[n]
    OBVIOUS
  <2>1. SessionsOf(n) = {c} /\ base[n] + shares[c] = accepted[n]
    BY <1>1, <1>types DEF OneEach, BaseAddsUp
  <2>2. total[n] + Cardinality({d \in SessionsOf(n) : at[d] = "shared"}) = accepted[n]
    BY DEF TotalsAddUp
  <2>3. {d \in SessionsOf(n) : at[d] = "shared"} = IF at[c] = "shared" THEN {c} ELSE {}
    BY <2>1
  <2> QED BY <2>1, <2>2, <2>3, FS_EmptySet, FS_Singleton
<1>5. ASSUME NEW m \in Names, m # n
      PROVE  accepted'[m] = accepted[m] /\ total'[m] = total[m]
  BY <1>5, <1>types DEF Submit, Share, Synced, seen, ghost
<1>6. \A d \in Conns : d # c => shares'[d] = shares[d]
  BY <1>types DEF Submit, Share
<1>7. n \in known \ mixed
      => /\ base[n] + shares'[c] = accepted'[n]
         /\ total'[n] + (IF at'[c] = "shared" THEN 1 ELSE 0) = accepted'[n]
  <2> SUFFICES ASSUME n \in known \ mixed
               PROVE  /\ base[n] + shares'[c] = accepted'[n]
                      /\ total'[n] + (IF at'[c] = "shared" THEN 1 ELSE 0) = accepted'[n]
    OBVIOUS
  <2>1. CASE Submit(c)
    <3>1. /\ at[c] = "serving" /\ at'[c] = "shared" /\ total' = total
          /\ shares'[c] = shares[c] + 1 /\ accepted'[n] = accepted[n] + 1
      BY <2>1, <1>types DEF Submit, Moves, seen
    <3> QED BY <3>1, <1>4, <1>types
  <2>2. CASE Share(c)
    <3>1. /\ at'[c] = "serving" /\ total'[n] = base[n] + shares[c]
          /\ shares' = shares /\ accepted' = accepted
      BY <2>2, <1>types DEF Share, Moves, Synced, ghost
    <3> QED BY <3>1, <1>4, <1>types
  <2> QED BY <2>1, <2>2
<1>8. BaseAddsUp'
  <2> SUFFICES ASSUME NEW m \in known \ mixed, NEW d \in SessionsOf(m)
               PROVE  base[m] + shares'[d] = accepted'[m]
    BY <1>1, <1>types DEF BaseAddsUp
  <2>1. CASE m = n
    BY <2>1, <1>4, <1>7
  <2>2. CASE m # n
    BY <2>2, <1>1, <1>5, <1>6, <1>types DEF BaseAddsUp, SessionsOf
  <2> QED BY <2>1, <2>2
<1>9. TotalsAddUp'
  <2> SUFFICES ASSUME NEW m \in known \ mixed
               PROVE  total'[m] + Cardinality({d \in SessionsOf(m)' : at'[d] = "shared"})
                        = accepted'[m]
    BY <1>1 DEF TotalsAddUp
  <2>1. CASE m = n
    <3>1. {d \in SessionsOf(m)' : at'[d] = "shared"} = IF at'[c] = "shared" THEN {c} ELSE {}
      BY <2>1, <1>1, <1>4, <1>types
    <3> QED BY <2>1, <3>1, <1>7, FS_EmptySet, FS_Singleton
  <2>2. CASE m # n
    BY <2>2, <1>3, <1>5, <1>types DEF TotalsAddUp
  <2> QED BY <2>1, <2>2
<1> QED BY <1>2, <1>8, <1>9

\* Cleaning up: the last shares of the session are in the total.
LEMMA UnregisterAddsUp ==
  ASSUME PlacesInv, NamesAddUp, NEW c \in Conns, Unregister(c)
  PROVE  NamesAddUp'
<1> USE DEF NamesAddUp
<1> DEFINE n == name[c]
<1>types. /\ known \subseteq Names /\ online \subseteq known
          /\ base \in [Names -> Nat] /\ total \in [Names -> Nat] /\ shares \in [Conns -> Nat]
          /\ \A m \in Names : accepted[m] \in Int /\ at \in [Conns -> States]
  BY DEF PlacesInv, TypeOK, States
<1>1. /\ \A m \in Names : c \in SessionsOf(m) <=> m = n
      /\ \A m \in Names : SessionsOf(m)' = SessionsOf(m) \ {c}
      /\ UNCHANGED <<known, mixed, base, name, shares, accepted>>
      /\ online' = online \ {n} /\ total' = Synced(c)
      /\ at' = [at EXCEPT ![c] = "left"]
  BY UnregisterLeaves DEF Unregister, Moves
<1>2. OneEach'
  BY <1>1 DEF OneEach
<1>3. OnlineIsConnected'
  BY <1>1 DEF OnlineIsConnected, OneEach
<1>4. BaseAddsUp'
  BY <1>1, <1>types DEF BaseAddsUp
<1>5. TotalsAddUp'
  <2> SUFFICES ASSUME NEW m \in known \ mixed
               PROVE  total'[m] + Cardinality({d \in SessionsOf(m)' : at'[d] = "shared"})
                        = accepted[m]
    BY <1>1 DEF TotalsAddUp
  <2>1. CASE m = n
    <3>1. SessionsOf(m)' = {}
      BY <2>1, <1>1, <1>types DEF OneEach
    <3>2. total'[m] = accepted[m]
      BY <2>1, <1>1, <1>types DEF Synced, BaseAddsUp
    <3> QED BY <3>1, <3>2, <1>types, FS_EmptySet
  <2>2. CASE m # n
    <3>1. {d \in SessionsOf(m)' : at'[d] = "shared"} = {d \in SessionsOf(m) : at[d] = "shared"}
      BY <2>2, <1>1, <1>types DEF SessionsOf
    <3>2. total'[m] = total[m]
      BY <2>2, <1>1, <1>types DEF Synced
    <3> QED BY <3>1, <3>2 DEF TotalsAddUp
  <2> QED BY <2>1, <2>2
<1> QED BY <1>2, <1>3, <1>4, <1>5

LEMMA NamesAddUpStep ==
  ASSUME ~Again, PlacesInv, Once, NamesAddUp, [Next]_vars
  PROVE  NamesAddUp'
<1>types. known \subseteq Names /\ at \in [Conns -> States]
  BY DEF PlacesInv, TypeOK, States
<1>1. ASSUME NEW c \in Conns, NEW n \in Names, Authorize(c, n)
      PROVE  NamesAddUp'
  BY <1>1, AuthorizeAddsUp
<1>2. ASSUME NEW c \in Conns, Submit(c) \/ Share(c)
      PROVE  NamesAddUp'
  BY <1>2, ShareAddsUp
<1>3. ASSUME NEW c \in Conns, Unregister(c)
      PROVE  NamesAddUp'
  BY <1>3, UnregisterAddsUp
<1>4. ASSUME NEW c \in Conns, (\E tls \in BOOLEAN : Accept(c, tls)) \/ Register(c) \/ HangUp(c)
      PROVE  NamesAddUp'
  <2>1. \A m \in Names : SessionsOf(m)' = SessionsOf(m)
    BY <1>4, SessionsStay
  <2>2. /\ UNCHANGED <<online, known, mixed, base, total, accepted, shares>>
        /\ \A d \in Conns : at'[d] = "shared" <=> at[d] = "shared"
    BY <1>4, <1>types DEF Accept, Register, HangUp, Moves, seen, ghost
  <2> QED BY <1>types, <2>1, <2>2, NamesAddUpSame DEF SessionsOf
<1>5. ASSUME NEW c \in Conns, Authorized(c)
      PROVE  NamesAddUp'
  <2>1. \A m \in Names : SessionsOf(m)' = SessionsOf(m)
    BY <1>5, SessionsStay
  <2>2. /\ UNCHANGED <<online, known, mixed, base, total, accepted, shares>>
        /\ \A d \in Conns : at'[d] = "shared" <=> at[d] = "shared"
    BY <1>5, <1>types DEF Authorized, Moves, seen, ghost
  <2> QED BY <1>types, <2>1, <2>2, NamesAddUpSame DEF SessionsOf
<1>6. ASSUME NEW c \in Conns, Leave(c)
      PROVE  NamesAddUp'
  <2>1. \A m \in Names : SessionsOf(m)' = SessionsOf(m) /\ c \notin SessionsOf(m)
    BY <1>6, SessionsStay DEF Leave, SessionsOf
  <2>2. /\ UNCHANGED <<online, known, mixed, base, total, accepted>>
        /\ \A d \in Conns \ {c} : at'[d] = at[d] /\ shares'[d] = shares[d]
    BY <1>6, <1>types DEF Leave, Moves, seen, ghost, PlacesInv, TypeOK
  <2>3. \A m \in Names : SessionsOf(m) \subseteq Conns \ {c}
    BY <2>1 DEF SessionsOf
  <2>4. OneEach' /\ OnlineIsConnected' /\ BaseAddsUp'
    BY <1>types, <2>1, <2>2, <2>3 DEF NamesAddUp, OneEach, OnlineIsConnected, BaseAddsUp
  <2>5. TotalsAddUp'
    <3> SUFFICES ASSUME NEW n \in known \ mixed
                 PROVE  total[n] + Cardinality({d \in SessionsOf(n)' : at'[d] = "shared"})
                          = accepted[n]
      BY <2>2 DEF TotalsAddUp
    <3>1. {d \in SessionsOf(n)' : at'[d] = "shared"} = {d \in SessionsOf(n) : at[d] = "shared"}
      BY <1>types, <2>1, <2>2, <2>3
    <3> QED BY <3>1 DEF NamesAddUp, TotalsAddUp
  <2> QED BY <2>4, <2>5 DEF NamesAddUp
<1>7. CASE (\E n \in Names : Timer(n)) \/ Stop \/ UNCHANGED vars
  <2>1. UNCHANGED <<at, asks, name, online, known, mixed, base, total, accepted, shares>>
    BY <1>7 DEF Timer, Stop, vars, conn, seen, ghost
  <2>2. \A m \in Names : SessionsOf(m)' = SessionsOf(m)
    BY <2>1 DEF SessionsOf
  <2> QED BY <1>types, <2>1, <2>2, NamesAddUpSame
<1> QED
  BY <1>1, <1>2, <1>3, <1>4, <1>5, <1>6, <1>7 DEF Next

LEMMA NamesInvInit == Init => NamesInv
<1> SUFFICES ASSUME Init PROVE NamesInv
  OBVIOUS
<1>1. WithName = {} /\ \A n \in Names : SessionsOf(n) = {}
  BY SessionsAssumption DEF Init, WithName, SessionsOf
<1>2. CountsAuthorized
  BY <1>1, FS_EmptySet DEF Init, CountsAuthorized, WithName
<1>3. Once /\ OneEach /\ OnlineIsConnected /\ BaseAddsUp /\ TotalsAddUp
  BY <1>1 DEF Init, Once, OneEach, OnlineIsConnected, BaseAddsUp, TotalsAddUp
<1> QED BY <1>2, <1>3 DEF NamesInv

LEMMA NamesInvStep ==
  ASSUME ~Again
  PROVE  PlacesInv /\ NamesInv /\ [Next]_vars => NamesInv'
BY OnceStep, CountsAuthorizedStep, NamesAddUpStep DEF NamesInv, NamesAddUp

\* As long as no miner authorizes twice on a connection: the number of miners is
\* that of the authorized connections, whoever is being served, removed or added
\* (the count is an atomic apart from the table).
THEOREM MinersAreCounted ==
  ASSUME ~Again
  PROVE  Spec => []CountsAuthorized
<1>1. NamesInv => CountsAuthorized
  BY DEF NamesInv
<1> QED BY <1>1, PlacesInvInit, PlacesInvStep, NamesInvInit, NamesInvStep, PTL DEF Spec

\* Under the same condition a name that is shown online has a connection, and one
\* that has only ever one at a time is shown online as long as it has it.
THEOREM OnlineHasConnection ==
  ASSUME ~Again
  PROVE  Spec => []OnlineIsConnected
<1>1. NamesInv => OnlineIsConnected
  BY DEF NamesInv
<1> QED BY <1>1, PlacesInvInit, PlacesInvStep, NamesInvInit, NamesInvStep, PTL DEF Spec

\* And its total is what it was told was accepted, across any number of reconnects.
THEOREM TotalsSurviveReconnects ==
  ASSUME ~Again
  PROVE  Spec => []TotalsAddUp
<1>1. NamesInv => TotalsAddUp
  BY DEF NamesInv
<1> QED BY <1>1, PlacesInvInit, PlacesInvStep, NamesInvInit, NamesInvStep, PTL DEF Spec

-----------------------------------------------------------------------------
(***************************************************************************)
(* Failover, for any miners, delays, blocks and outages.  The watchdog     *)
(* compares the age of an outage with its delay, the property speaks of the*)
(* time since a node last answered.  What relates the two is that an outage,*)
(* while there is one, is no older than that silence.                      *)
(***************************************************************************)

OutageIsSilence == wasDown => downFor <= quiet

FailoverInv == FailoverTypeOK /\ OutageIsSilence

LEMMA Bounds ==
  /\ RestartAfter \in Nat /\ Cooldown \in Nat /\ MaxOutages \in Nat
  /\ MaxTip \in Nat /\ 1 <= MaxTip
BY FailoverAssumption

\* NoJob and PoolJob build on no block of the chain.
LEMMA PoolJobs ==
  /\ NoJob \in [from : {"none", "node", "pool"}, block : Nat] /\ NoJob.block = 0
  /\ PoolJob \in [from : {"none", "node", "pool"}, block : Nat] /\ PoolJob.block = 0
BY DEF NoJob, PoolJob

LEMMA FailoverInitInv == FailoverInit => FailoverInv
<1> SUFFICES ASSUME FailoverInit PROVE FailoverInv
    OBVIOUS
<1>1. WorldOK
  <2>1. up \subseteq Nodes /\ poolUp \in BOOLEAN
      BY Zenon DEF FailoverInit
  <2>2. tip \in 1..MaxTip /\ outages \in 0..MaxOutages
      BY Bounds DEF FailoverInit
  <2> QED BY <2>1, <2>2 DEF WorldOK
<1>2. PollerOK
  <2>1. /\ usingBackup \in BOOLEAN /\ (usingBackup => HasBackup)
        /\ wasDown \in BOOLEAN
      BY Zenon DEF FailoverInit
  <2>2. /\ lastHash \in 0..tip
        /\ polling \in {"idle", "activating", "kicking", "kickingFirst", "building"}
      BY DEF FailoverInit
  <2> QED BY <2>1, <2>2 DEF PollerOK
<1>3. ClocksOK
    BY Bounds DEF FailoverInit, ClocksOK
<1>4. ProxyOK
    BY DEF FailoverInit, ProxyOK
<1>5. WorkOK
    BY PoolJobs DEF FailoverInit, WorkOK
<1>6. OutageIsSilence
    BY DEF FailoverInit, OutageIsSilence
<1> QED BY <1>1, <1>2, <1>3, <1>4, <1>5, <1>6 DEF FailoverInv, FailoverTypeOK

\* Ages grow by one up to where they are no longer told apart.
LEMMA OlderTypes ==
  ASSUME NEW cap \in Nat, NEW age \in 0..cap
  PROVE  Older(age, cap) \in 0..cap
BY DEF Older

-----------------------------------------------------------------------------
\* Each part of the type invariant in turn.
LEMMA FailoverStepWorld ==
  ASSUME WorldOK, [FailoverNext]_failoverVars
  PROVE  WorldOK'
<1> USE Bounds DEF WorldOK, world, poller, clocks, proxy
<1>1. CASE PollAnswered
    BY <1>1 DEF PollAnswered
<1>2. CASE PollFails
    BY <1>2 DEF PollFails
<1>3. CASE Poller
    BY <1>3 DEF Poller, KickAll, ProxyStarted, Build
<1>4. CASE Reader
    BY <1>4 DEF Reader, InstallPoolJob, UpdateExtraNonce, PoolHangsUp, Reconnect
<1>5. CASE Refresh \/ Notified \/ PoolNotifies
    BY <1>5 DEF Refresh, Notified, PoolNotifies
<1>6. CASE \E m \in Miners : Subscribe(m)
    BY <1>6 DEF Subscribe
<1>7. CASE \E n \in Nodes : NodeFails(n) \/ NodeReturns(n)
    BY <1>7 DEF NodeFails, NodeReturns
<1>8. CASE PoolFails \/ PoolReturns \/ NewBlock
  <2>1. up' \subseteq Nodes /\ poolUp' \in BOOLEAN
      BY <1>8, Zenon DEF PoolFails, PoolReturns, NewBlock
  <2>2. tip' \in 1..MaxTip /\ outages' \in 0..MaxOutages
      BY <1>8 DEF PoolFails, PoolReturns, NewBlock
  <2> QED BY <2>1, <2>2
<1>9. CASE TimePasses
    BY <1>9 DEF TimePasses
<1>10. CASE UNCHANGED failoverVars
    BY <1>10 DEF failoverVars
<1> QED BY <1>1, <1>2, <1>3, <1>4, <1>5, <1>6, <1>7, <1>8, <1>9, <1>10
        DEF FailoverNext, Polling

LEMMA FailoverStepPoller ==
  ASSUME WorldOK, PollerOK, [FailoverNext]_failoverVars
  PROVE  PollerOK'
<1> USE Bounds DEF WorldOK, PollerOK, world, poller, clocks, proxy
<1>1. CASE PollAnswered
  <2>1. usingBackup' \in BOOLEAN /\ wasDown' \in BOOLEAN
      BY <1>1, Zenon DEF PollAnswered
  <2>2. usingBackup' => HasBackup
      BY <1>1 DEF PollAnswered, Answers, Active, Other
  <2>3. lastHash' \in 0..tip'
      BY <1>1 DEF PollAnswered
  <2>4. polling' \in {"idle", "activating", "kicking", "kickingFirst", "building"}
      BY <1>1 DEF PollAnswered
  <2> QED BY <2>1, <2>2, <2>3, <2>4
<1>2. CASE PollFails
    BY <1>2 DEF PollFails, MaybeActivate
<1>3. CASE Poller
    BY <1>3 DEF Poller, KickAll, ProxyStarted, Build
<1>4. CASE Reader
    BY <1>4 DEF Reader, InstallPoolJob, UpdateExtraNonce, PoolHangsUp, Reconnect
<1>5. CASE Refresh \/ Notified \/ PoolNotifies
    BY <1>5 DEF Refresh, Notified, PoolNotifies
<1>6. CASE \E m \in Miners : Subscribe(m)
    BY <1>6 DEF Subscribe
<1>7. CASE \E n \in Nodes : NodeFails(n) \/ NodeReturns(n)
    BY <1>7 DEF NodeFails, NodeReturns
<1>8. CASE PoolFails \/ PoolReturns \/ NewBlock
    BY <1>8 DEF PoolFails, PoolReturns, NewBlock
<1>9. CASE TimePasses
    BY <1>9 DEF TimePasses
<1>10. CASE UNCHANGED failoverVars
    BY <1>10 DEF failoverVars
<1> QED BY <1>1, <1>2, <1>3, <1>4, <1>5, <1>6, <1>7, <1>8, <1>9, <1>10
        DEF FailoverNext, Polling

LEMMA FailoverStepClocks ==
  ASSUME ClocksOK, [FailoverNext]_failoverVars
  PROVE  ClocksOK'
<1> USE Bounds DEF ClocksOK, world, poller, clocks, proxy
<1>1. CASE PollAnswered
    BY <1>1 DEF PollAnswered
<1>2. CASE PollFails
    BY <1>2 DEF PollFails, Watchdog
<1>3. CASE Poller
    BY <1>3 DEF Poller, KickAll, ProxyStarted, Build
<1>4. CASE Reader
    BY <1>4 DEF Reader, InstallPoolJob, UpdateExtraNonce, PoolHangsUp, Reconnect
<1>5. CASE Refresh \/ Notified \/ PoolNotifies
    BY <1>5 DEF Refresh, Notified, PoolNotifies
<1>6. CASE \E m \in Miners : Subscribe(m)
    BY <1>6 DEF Subscribe
<1>7. CASE \E n \in Nodes : NodeFails(n) \/ NodeReturns(n)
    BY <1>7 DEF NodeFails, NodeReturns
<1>8. CASE PoolFails \/ PoolReturns \/ NewBlock
    BY <1>8 DEF PoolFails, PoolReturns, NewBlock
<1>9. CASE TimePasses
    BY <1>9, OlderTypes DEF TimePasses
<1>10. CASE UNCHANGED failoverVars
    BY <1>10 DEF failoverVars
<1> QED BY <1>1, <1>2, <1>3, <1>4, <1>5, <1>6, <1>7, <1>8, <1>9, <1>10
        DEF FailoverNext, Polling

LEMMA FailoverStepProxy ==
  ASSUME PollerOK, ProxyOK, [FailoverNext]_failoverVars
  PROVE  ProxyOK'
<1> USE Bounds DEF PollerOK, ProxyOK, world, poller, clocks, proxy
<1>1. CASE PollAnswered
    BY <1>1 DEF PollAnswered
<1>2. CASE PollFails
    BY <1>2 DEF PollFails, MaybeActivate
<1>3. CASE Poller
    BY <1>3 DEF Poller, KickAll, ProxyStarted, Build
<1>4. CASE Reader
  <2>1. /\ upstream' \in {"none", "live", "broken", "dead"}
        /\ relaying' \in {"none", "read", "installed"}
      BY <1>4 DEF Reader, InstallPoolJob, UpdateExtraNonce, PoolHangsUp, Reconnect
  <2>2. poolNonce' \in BOOLEAN /\ polling' = polling /\ proxyActive' = proxyActive
      BY <1>4 DEF Reader, InstallPoolJob, UpdateExtraNonce, PoolHangsUp, Reconnect
  <2> QED BY <2>1, <2>2
<1>5. CASE Refresh \/ Notified \/ PoolNotifies
    BY <1>5 DEF Refresh, Notified, PoolNotifies
<1>6. CASE \E m \in Miners : Subscribe(m)
    BY <1>6 DEF Subscribe
<1>7. CASE \E n \in Nodes : NodeFails(n) \/ NodeReturns(n)
    BY <1>7 DEF NodeFails, NodeReturns
<1>8. CASE PoolFails \/ PoolReturns \/ NewBlock
    BY <1>8 DEF PoolFails, PoolReturns, NewBlock
<1>9. CASE TimePasses
    BY <1>9 DEF TimePasses
<1>10. CASE UNCHANGED failoverVars
    BY <1>10 DEF failoverVars
<1> QED BY <1>1, <1>2, <1>3, <1>4, <1>5, <1>6, <1>7, <1>8, <1>9, <1>10
        DEF FailoverNext, Polling

LEMMA FailoverStepWork ==
  ASSUME WorldOK, WorkOK, [FailoverNext]_failoverVars
  PROVE  WorkOK'
<1> USE Bounds DEF WorldOK, WorkOK, world, poller, clocks, proxy
<1>1. CASE PollAnswered
    BY <1>1 DEF PollAnswered
<1>2. CASE PollFails
    BY <1>2 DEF PollFails
<1>3. CASE Poller
    BY <1>3 DEF Poller, KickAll, ProxyStarted, Build
<1>4. CASE Reader
    BY <1>4, PoolJobs DEF Reader, InstallPoolJob, UpdateExtraNonce, PoolHangsUp, Reconnect
<1>5. CASE Refresh \/ Notified \/ PoolNotifies
    BY <1>5 DEF Refresh, Notified, PoolNotifies
<1>6. CASE \E m \in Miners : Subscribe(m)
    BY <1>6 DEF Subscribe
<1>7. CASE \E n \in Nodes : NodeFails(n) \/ NodeReturns(n)
    BY <1>7 DEF NodeFails, NodeReturns
<1>8. CASE PoolFails \/ PoolReturns \/ NewBlock
    BY <1>8 DEF PoolFails, PoolReturns, NewBlock
<1>9. CASE TimePasses
    BY <1>9 DEF TimePasses
<1>10. CASE UNCHANGED failoverVars
    BY <1>10 DEF failoverVars
<1> QED BY <1>1, <1>2, <1>3, <1>4, <1>5, <1>6, <1>7, <1>8, <1>9, <1>10
        DEF FailoverNext, Polling

LEMMA FailoverStepTypes ==
  ASSUME FailoverTypeOK, [FailoverNext]_failoverVars
  PROVE  FailoverTypeOK'
BY FailoverStepWorld, FailoverStepPoller, FailoverStepClocks, FailoverStepProxy,
   FailoverStepWork DEF FailoverTypeOK

\* Whatever ends the silence ends the outage: an answer to a poll does both, and
\* a notification is polled for only outside an outage.
LEMMA FailoverStepSilence ==
  ASSUME FailoverInv, [FailoverNext]_failoverVars
  PROVE  OutageIsSilence'
<1> USE Bounds
    DEF FailoverInv, FailoverTypeOK, ClocksOK, OutageIsSilence, world, poller, clocks, proxy
<1>1. CASE PollAnswered
    BY <1>1 DEF PollAnswered
<1>2. CASE PollFails
    BY <1>2 DEF PollFails
<1>3. CASE Poller
    BY <1>3 DEF Poller, KickAll, ProxyStarted, Build
<1>4. CASE Reader
    BY <1>4 DEF Reader, InstallPoolJob, UpdateExtraNonce, PoolHangsUp, Reconnect
<1>5. CASE Refresh \/ Notified \/ PoolNotifies
    BY <1>5 DEF Refresh, Notified, PoolNotifies
<1>6. CASE \E m \in Miners : Subscribe(m)
    BY <1>6 DEF Subscribe
<1>7. CASE \E n \in Nodes : NodeFails(n) \/ NodeReturns(n)
    BY <1>7 DEF NodeFails, NodeReturns
<1>8. CASE PoolFails \/ PoolReturns \/ NewBlock
    BY <1>8 DEF PoolFails, PoolReturns, NewBlock
<1>9. CASE TimePasses
    BY <1>9 DEF TimePasses, Older
<1>10. CASE UNCHANGED failoverVars
    BY <1>10 DEF failoverVars
<1> QED BY <1>1, <1>2, <1>3, <1>4, <1>5, <1>6, <1>7, <1>8, <1>9, <1>10
        DEF FailoverNext, Polling

LEMMA FailoverInvariance == FailoverSpec => []FailoverInv
<1>1. FailoverInv /\ [FailoverNext]_failoverVars => FailoverInv'
    BY FailoverStepTypes, FailoverStepSilence DEF FailoverInv
<1> QED BY <1>1, FailoverInitInv, PTL DEF FailoverSpec

-----------------------------------------------------------------------------
\* A service is restarted by the poll that fails, and only in an outage that has
\* begun before it.
LEMMA FailoverStepDue ==
  ASSUME FailoverInv, [FailoverNext]_failoverVars
  PROVE  [restarts' # restarts => quiet > RestartAfter]_failoverVars
<1> SUFFICES ASSUME restarts' # restarts PROVE quiet > RestartAfter
    OBVIOUS
<1>1. PollFails
    BY DEF FailoverNext, Polling, PollAnswered, Poller, KickAll, ProxyStarted, Build,
           Reader, InstallPoolJob, UpdateExtraNonce, PoolHangsUp, Reconnect,
           Refresh, Notified, PoolNotifies, Subscribe, NodeFails, NodeReturns,
           PoolFails, PoolReturns, NewBlock, TimePasses, failoverVars
<1>2. downFor' > RestartAfter
    BY <1>1 DEF PollFails, Watchdog
<1>3. wasDown /\ downFor' = downFor
    BY <1>1, <1>2, Bounds DEF PollFails
<1> QED BY <1>2, <1>3, Bounds
        DEF FailoverInv, FailoverTypeOK, ClocksOK, OutageIsSilence

\* Every state of the poller, the proxy and the miners is well typed; the backup
\* is in use only where there is one, and the proxy is not started over a session.
THEOREM FailoverTypes == FailoverSpec => []FailoverTypeOK
BY FailoverInvariance, PTL DEF FailoverInv

\* The watchdog (pollBlockTemplate) restarts a service only after longer than
\* watchdogDelay without an answer of any node, whatever the clocks, the outages
\* and the failovers before.
THEOREM RestartsNeedSilence == FailoverFairSpec => RestartsAreDue
<1>1. FailoverInv /\ [FailoverNext]_failoverVars
        => [restarts' # restarts => quiet > RestartAfter]_failoverVars
    BY FailoverStepDue
<1> QED BY <1>1, FailoverInvariance, PTL
        DEF FailoverFairSpec, FailoverSpec, RestartsAreDue
=============================================================================
