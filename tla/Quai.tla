--------------------------------- MODULE Quai ---------------------------------
(***************************************************************************)
(* The Quai stratum server (quai/server.go).  The poll loop asks the node  *)
(* for a template every second; a new one is sent to the authorized miners *)
(* one after the other, by the poll loop itself.  Every connection has a   *)
(* handler that answers its lines, and a lock that is held while a message *)
(* is written; nothing bounds a write.  The handler's read deadline (5     *)
(* minutes) ends a connection that is silent, and with it a write that     *)
(* blocks; TCP gives up on a peer that is dead.  A job is stored before it *)
(* is sent; a third loop drops the jobs that are 10 minutes old, at any    *)
(* moment of the other two.                                                *)
(*                                                                         *)
(* Templates are numbered; a poll that fails, or finds the same template,  *)
(* changes nothing here.  A miner that stalls neither reads nor sends, and *)
(* a write to it blocks at once (the buffers of the socket are full).  A   *)
(* miner authorizes once.  The difficulty of a job and the limit of 64     *)
(* connections are left out; the ids of jobs (4 random bytes) are taken to *)
(* be different.                                                           *)
(***************************************************************************)
EXTENDS Integers, FiniteSets

CONSTANTS
  QuaiConns,        \* connections
  MaxTemplates,     \* bound: templates of the node
  MaxAged           \* bound: jobs that grow old

ASSUME QuaiAssumption == {MaxTemplates, MaxAged} \subseteq Nat

VARIABLES
  offered,      \* the node's template
  template,     \* currentTemplate; 0: nil
  toServe,      \* connections of the broadcast under way
  serving,      \* the job the poll loop has made for one of them, if any,
  stage,        \* and what it does next: picks (a worker), stores, locks, writes
  quaiLine,     \* of each connection: new, open, gone
  stalled,      \* miners that neither read nor send
  quaiAuth,     \* authorized
  handler,      \* of each connection: reads, authorizes, locks, answers
  answer,       \* the job the handler is to write, if any
  history,      \* jobHistory
  aged,         \* the jobs that are 10 minutes old
  quaiSent      \* the jobs each miner has had

pollVars == <<offered, template, toServe, serving, stage>>
connVars == <<quaiLine, stalled, quaiAuth, handler, answer>>
jobVars == <<history, aged, quaiSent>>
quaiVars == <<pollVars, connVars, jobVars>>

Template == 1..MaxTemplates
Jobs == [t : Template, c : QuaiConns, by : {"poll", "handler"}]
NoQuaiJob == <<>>

\* The write lock of c is held, by the poll loop or the handler.
Writing(c) == (stage = "writes" /\ serving.c = c) \/ handler[c] = "answers"

Opened == {c \in QuaiConns : quaiLine[c] = "open"}

QuaiInit ==
  /\ offered = 0 /\ template = 0 /\ toServe = {}
  /\ serving = NoQuaiJob /\ stage = "picks"
  /\ quaiLine = [c \in QuaiConns |-> "new"] /\ stalled = {} /\ quaiAuth = {}
  /\ handler = [c \in QuaiConns |-> "reads"]
  /\ answer = [c \in QuaiConns |-> NoQuaiJob]
  /\ history = {} /\ aged = {}
  /\ quaiSent = [c \in QuaiConns |-> {}]
-----------------------------------------------------------------------------
(* The poll loop. *)

NodeWorks ==
  /\ offered < MaxTemplates /\ offered' = offered + 1
  /\ UNCHANGED <<template, toServe, serving, stage, connVars, jobVars>>

\* A slip: a connection whose lock is taken is left out.
PollSkipsBusy ==
  /\ toServe = {} /\ stage = "picks" /\ offered # template
  /\ template' = offered
  /\ toServe' = {c \in Opened : ~Writing(c)}
  /\ UNCHANGED <<offered, serving, stage, connVars, jobVars>>

\* GetBlockTemplate answers with a new root; onNewTemplate up to its loop.
PollAnswers ==
  /\ toServe = {} /\ stage = "picks" /\ offered # template
  /\ template' = offered
  /\ toServe' = Opened
  /\ UNCHANGED <<offered, serving, stage, connVars, jobVars>>

\* One worker of the loop, looked at with its lock held: left alone, or a job made for it.
ServeSkips(c) ==
  /\ stage = "picks" /\ c \in toServe \ quaiAuth /\ ~Writing(c)
  /\ toServe' = toServe \ {c}
  /\ UNCHANGED <<offered, template, serving, stage, connVars, jobVars>>

ServePicks(c) ==
  /\ stage = "picks" /\ c \in toServe \cap quaiAuth /\ ~Writing(c)
  /\ toServe' = toServe \ {c}
  /\ serving' = [t |-> template, c |-> c, by |-> "poll"] /\ stage' = "stores"
  /\ UNCHANGED <<offered, template, connVars, jobVars>>

\* The job is stored, with the lock of the server only, ...
ServeStores ==
  /\ stage = "stores" /\ stage' = "locks"
  /\ history' = history \cup {serving}
  /\ UNCHANGED <<offered, template, toServe, serving, connVars, aged, quaiSent>>

\* ... and written when the lock of the connection is free.
ServeLocks ==
  /\ stage = "locks" /\ ~Writing(serving.c) /\ stage' = "writes"
  /\ UNCHANGED <<offered, template, toServe, serving, connVars, jobVars>>

\* The miner has the job; an error of the connection is dropped.
Delivered(job) ==
  quaiSent' = IF job.c \in Opened \ stalled
                THEN [quaiSent EXCEPT ![job.c] = @ \cup {job}] ELSE quaiSent

ServeWritten ==
  /\ stage = "writes" /\ (serving.c \in Opened => serving.c \notin stalled)
  /\ Delivered(serving) /\ serving' = NoQuaiJob /\ stage' = "picks"
  /\ UNCHANGED <<offered, template, toServe, connVars, history, aged>>
-----------------------------------------------------------------------------
(* The connections. *)

\* acceptLoop and the beginning of handleConn.
QuaiAccept(c) ==
  /\ quaiLine[c] = "new"
  /\ quaiLine' = [quaiLine EXCEPT ![c] = "open"]
  /\ UNCHANGED <<pollVars, stalled, quaiAuth, handler, answer, jobVars>>

\* The handler of c takes the next line.
Takes(c) == c \in Opened \ stalled /\ handler[c] = "reads" /\ ~Writing(c)

\* handleAuthorize: authorized and answered, then a job of the template.  The
\* first answers fit in the buffers of the socket.
QuaiAuthorize(c) ==
  /\ Takes(c) /\ c \notin quaiAuth
  /\ quaiAuth' = quaiAuth \cup {c}
  /\ handler' = [handler EXCEPT ![c] = "authorizes"]
  /\ UNCHANGED <<pollVars, quaiLine, stalled, answer, jobVars>>

\* The template is read and the job stored without the lock of the connection:
\* the poll loop may write a younger one first.
AuthorizeFetch(c) ==
  /\ handler[c] = "authorizes"
  /\ IF template = 0
       THEN /\ handler' = [handler EXCEPT ![c] = "reads"]
            /\ UNCHANGED <<answer, history>>
       ELSE LET job == [t |-> template, c |-> c, by |-> "handler"]
            IN  /\ handler' = [handler EXCEPT ![c] = "locks"]
                /\ answer' = [answer EXCEPT ![c] = job]
                /\ history' = history \cup {job}
  /\ UNCHANGED <<pollVars, quaiLine, stalled, quaiAuth, aged, quaiSent>>

AuthorizeLocks(c) ==
  /\ handler[c] = "locks" /\ ~Writing(c)
  /\ handler' = [handler EXCEPT ![c] = "answers"]
  /\ UNCHANGED <<pollVars, quaiLine, stalled, quaiAuth, answer, jobVars>>

AuthorizeWritten(c) ==
  /\ handler[c] = "answers" /\ (c \in Opened => c \notin stalled)
  /\ Delivered(answer[c])
  /\ answer' = [answer EXCEPT ![c] = NoQuaiJob]
  /\ handler' = [handler EXCEPT ![c] = "reads"]
  /\ UNCHANGED <<pollVars, quaiLine, stalled, quaiAuth, history, aged>>

\* The power of the miner is cut, say.
QuaiStall(c) ==
  /\ c \in Opened \ stalled /\ stalled' = stalled \cup {c}
  /\ UNCHANGED <<pollVars, quaiLine, quaiAuth, handler, answer, jobVars>>

\* The miner hangs up; or the read deadline of a silent one passes, or TCP gives
\* up on what is being written to it.
QuaiHangUp(c) ==
  /\ c \in Opened \ stalled
  /\ quaiLine' = [quaiLine EXCEPT ![c] = "gone"]
  /\ UNCHANGED <<pollVars, stalled, quaiAuth, handler, answer, jobVars>>

QuaiDeadline(c) ==
  /\ c \in Opened \cap stalled /\ (handler[c] = "reads" \/ Writing(c))
  /\ quaiLine' = [quaiLine EXCEPT ![c] = "gone"]
  /\ UNCHANGED <<pollVars, stalled, quaiAuth, handler, answer, jobVars>>
-----------------------------------------------------------------------------
(* Time, and jobCleanupLoop.  *)

\* Ten minutes after it was made.
JobAges(job) ==
  /\ job \notin aged /\ Cardinality(aged) < MaxAged /\ aged' = aged \cup {job}
  /\ UNCHANGED <<pollVars, connVars, history, quaiSent>>

\* A slip: the jobs of older templates go.
CleanupSuperseded ==
  /\ history' = {j \in history : j.t = template}
  /\ history' # history
  /\ UNCHANGED <<pollVars, connVars, aged, quaiSent>>

QuaiCleanup ==
  /\ history \cap aged # {} /\ history' = history \ aged
  /\ UNCHANGED <<pollVars, connVars, aged, quaiSent>>

QuaiNext ==
  \/ NodeWorks \/ PollAnswers \/ ServeStores \/ ServeLocks \/ ServeWritten
  \/ \E job \in history : JobAges(job)
  \/ QuaiCleanup
  \/ \E c \in QuaiConns :
       \/ ServeSkips(c) \/ ServePicks(c) \/ QuaiAccept(c) \/ QuaiAuthorize(c)
       \/ AuthorizeFetch(c) \/ AuthorizeLocks(c) \/ AuthorizeWritten(c)
       \/ QuaiStall(c) \/ QuaiHangUp(c) \/ QuaiDeadline(c)

\* handleSubmit, whose lookup of the job fails for these of the jobs the miner has had.
CalledStale(c) == quaiSent[c] \ history

QuaiSpec == QuaiInit /\ [][QuaiNext]_quaiVars

\* The ticker of the poll loop, the goroutines and the deadlines run; the node,
\* the miners and the clock of the jobs need not do anything.
QuaiFairness ==
  /\ WF_quaiVars(PollAnswers) /\ WF_quaiVars(ServeStores)
  /\ WF_quaiVars(ServeLocks) /\ WF_quaiVars(ServeWritten)
  /\ \A c \in QuaiConns :
       /\ WF_quaiVars(ServeSkips(c)) /\ WF_quaiVars(ServePicks(c))
       /\ WF_quaiVars(AuthorizeFetch(c)) /\ WF_quaiVars(AuthorizeLocks(c))
       /\ WF_quaiVars(AuthorizeWritten(c))
       /\ WF_quaiVars(QuaiDeadline(c))

QuaiFairSpec == QuaiSpec /\ QuaiFairness
-----------------------------------------------------------------------------
\* The variables have their types; a job is made when one is to be served, and was stored
\* before it is written, which it may outlive.
QuaiTypeOK ==
  /\ offered \in 0..MaxTemplates /\ template \in 0..offered
  /\ toServe \subseteq QuaiConns
  /\ stage \in {"picks", "stores", "locks", "writes"}
  /\ IF stage = "picks" THEN serving = NoQuaiJob ELSE serving \in Jobs
  /\ quaiLine \in [QuaiConns -> {"new", "open", "gone"}]
  /\ handler \in [QuaiConns -> {"reads", "authorizes", "locks", "answers"}]
  /\ answer \in [QuaiConns -> Jobs \cup {NoQuaiJob}]
  /\ history \subseteq Jobs /\ aged \subseteq Jobs
  /\ quaiSent \in [QuaiConns -> SUBSET Jobs]

\* A share is called stale only when its job is ten minutes old: however the poll loop,
\* the handlers and the cleanup overlap, and whatever a write waits for, a job that a
\* miner has had is known until then.  (Not: until there is another one.)
StaleIsOld == \A c \in QuaiConns : CalledStale(c) \subseteq aged

\* Nobody is left out: once a template has been sent round, every authorized miner that
\* listens, and whose handler is done with its authorization, was sent a job of it, by
\* the poll loop or by the handler, whichever order their steps came in.  (Not: works on
\* it.  What the handler read before the template came may be written after it.)
NobodyIsSkipped ==
  toServe = {} /\ stage = "picks" /\ template # 0 =>
    \A c \in (Opened \cap quaiAuth) \ stalled :
      handler[c] = "reads" => \E job \in quaiSent[c] : job.t = template
=============================================================================
