----------------------------- MODULE MiningProofs -----------------------------
(***************************************************************************)
(* Proofs about the parts of the pool that deal with miners and blocks     *)
(* beside the job feed and the sessions, for any number of miners, jobs,   *)
(* templates, works, difficulties, chains and observations: StaleKick,     *)
(* Vardiff, Merge, Quai and Guardian.  Each has an inductive invariant of  *)
(* its own.                                                                *)
(***************************************************************************)
EXTENDS StaleKick, Vardiff, Merge, Quai, Guardian, Lemmas

(* Quai.                                                                   *)

\* Where the jobs of a connection are: what is being written, and what a miner has had,
\* was stored, and is known still, or is ten minutes old.
KnownInv ==
  /\ QuaiTypeOK
  /\ toServe # {} => template # 0
  /\ stage \in {"locks", "writes"} => serving \in history \cup aged
  /\ \A c \in QuaiConns : handler[c] \in {"locks", "answers"} => answer[c] \in history \cup aged
  /\ \A c \in QuaiConns : quaiSent[c] \subseteq history \cup aged

\* What is written to a miner was stored before.
LEMMA DeliveredIsKnown ==
  ASSUME KnownInv, NEW job \in Jobs, Delivered(job)
  PROVE  /\ quaiSent' \in [QuaiConns -> SUBSET Jobs]
         /\ \A c \in QuaiConns : quaiSent'[c] = quaiSent[c] \/ quaiSent'[c] = quaiSent[c] \cup {job}
         /\ \A c \in QuaiConns : quaiSent[c] \subseteq quaiSent'[c]
         /\ job.c \in Opened \ stalled => job \in quaiSent'[job.c]
<1>1. job.c \in QuaiConns
  BY DEF Jobs
<1>2. quaiSent \in [QuaiConns -> SUBSET Jobs]
  BY DEF KnownInv, QuaiTypeOK
<1> QED BY <1>1, <1>2 DEF Delivered

LEMMA KnownStep ==
  ASSUME KnownInv, [QuaiNext]_quaiVars
  PROVE  KnownInv'
<1>0. /\ template \in Nat /\ offered \in Nat /\ MaxTemplates \in Nat
      /\ template <= offered /\ offered <= MaxTemplates
      /\ history \subseteq Jobs /\ aged \subseteq Jobs
      /\ answer \in [QuaiConns -> Jobs \cup {NoQuaiJob}]
      /\ handler \in [QuaiConns -> {"reads", "authorizes", "locks", "answers"}]
  BY QuaiAssumption DEF KnownInv, QuaiTypeOK
<1>1. CASE NodeWorks
  BY <1>0, <1>1 DEF NodeWorks, KnownInv, QuaiTypeOK, connVars, jobVars
<1>2. CASE PollAnswers
  <2>1. offered # 0
    BY <1>0, <1>2 DEF PollAnswers, KnownInv, QuaiTypeOK
  <2> QED BY <1>0, <1>2, <2>1 DEF PollAnswers, KnownInv, QuaiTypeOK, connVars, jobVars, Opened
<1>3. CASE ServeStores \/ ServeLocks
  <2>1. serving \in Jobs
    BY <1>3 DEF ServeStores, ServeLocks, KnownInv, QuaiTypeOK
  <2>2. CASE ServeStores
    BY <2>1, <2>2 DEF ServeStores, KnownInv, QuaiTypeOK, connVars
  <2>3. CASE ServeLocks
    BY <2>1, <2>3 DEF ServeLocks, KnownInv, QuaiTypeOK, connVars, jobVars
  <2> QED BY <1>3, <2>2, <2>3
<1>4. CASE ServeWritten
  <2>1. serving \in Jobs /\ serving \in history \cup aged /\ Delivered(serving)
    BY <1>4 DEF ServeWritten, KnownInv, QuaiTypeOK
  <2>2. /\ quaiSent' \in [QuaiConns -> SUBSET Jobs]
        /\ \A c \in QuaiConns : quaiSent'[c] = quaiSent[c] \/ quaiSent'[c] = quaiSent[c] \cup {serving}
    BY <2>1, DeliveredIsKnown
  <2>3. \A c \in QuaiConns : quaiSent'[c] \subseteq history \cup aged
    BY <2>1, <2>2 DEF KnownInv
  <2> QED BY <1>4, <2>2, <2>3 DEF ServeWritten, KnownInv, QuaiTypeOK, connVars
<1>5. ASSUME NEW job \in history, JobAges(job) PROVE KnownInv'
  <2>1. /\ aged' = aged \cup {job} /\ job \in Jobs
        /\ UNCHANGED <<pollVars, connVars, history, quaiSent>>
    BY <1>0, <1>5 DEF JobAges
  <2> QED BY <2>1 DEF KnownInv, QuaiTypeOK, pollVars, connVars
<1>6. CASE QuaiCleanup
  <2>1. /\ history' \cup aged' = history \cup aged /\ history' \subseteq Jobs
        /\ UNCHANGED <<pollVars, connVars, aged, quaiSent>>
    BY <1>0, <1>6 DEF QuaiCleanup
  <2> QED BY <2>1 DEF KnownInv, QuaiTypeOK, pollVars, connVars
<1>7. ASSUME NEW c \in QuaiConns, ServeSkips(c) \/ QuaiAccept(c) \/ QuaiStall(c)
                                  \/ QuaiHangUp(c) \/ QuaiDeadline(c)
      PROVE  KnownInv'
  <2>1. /\ UNCHANGED <<offered, template, serving, stage, handler, answer, jobVars>>
        /\ toServe' \subseteq toServe /\ quaiLine' \in [QuaiConns -> {"new", "open", "gone"}]
    BY <1>7 DEF ServeSkips, QuaiAccept, QuaiStall, QuaiHangUp, QuaiDeadline, KnownInv,
                QuaiTypeOK, pollVars, connVars
  <2> QED BY <2>1 DEF KnownInv, QuaiTypeOK, jobVars
<1>8. ASSUME NEW c \in QuaiConns, ServePicks(c) PROVE KnownInv'
  <2>1. /\ toServe' = toServe \ {c} /\ serving' = [t |-> template, c |-> c, by |-> "poll"]
        /\ stage' = "stores" /\ UNCHANGED <<offered, template, connVars, jobVars>>
    BY <1>8 DEF ServePicks
  <2>2. serving' \in Jobs
    <3>1. template \in Template
      BY <1>0, <1>8 DEF Template, ServePicks, KnownInv
    <3> QED BY <2>1, <3>1 DEF Jobs
  <2> QED BY <1>0, <2>1, <2>2 DEF KnownInv, QuaiTypeOK, connVars, jobVars
<1>9. ASSUME NEW c \in QuaiConns, QuaiAuthorize(c) \/ AuthorizeLocks(c) PROVE KnownInv'
  <2>1. /\ UNCHANGED <<pollVars, quaiLine, answer, jobVars>>
        /\ handler' \in [QuaiConns -> {"reads", "authorizes", "locks", "answers"}]
        /\ \A d \in QuaiConns : handler'[d] \in {"locks", "answers"} =>
                                  handler[d] \in {"locks", "answers"}
    BY <1>9 DEF QuaiAuthorize, AuthorizeLocks, KnownInv, QuaiTypeOK
  <2> QED BY <2>1 DEF KnownInv, QuaiTypeOK, pollVars, jobVars
<1>10. ASSUME NEW c \in QuaiConns, AuthorizeFetch(c) PROVE KnownInv'
  <2>1. CASE template = 0
    BY <1>10, <2>1 DEF AuthorizeFetch, KnownInv, QuaiTypeOK, pollVars
  <2>2. CASE template # 0
    <3> DEFINE job == [t |-> template, c |-> c, by |-> "handler"]
    <3>1. job \in Jobs
      <4>1. template \in Template
        BY <1>0, <2>2 DEF Template
      <4> QED BY <4>1 DEF Jobs
    <3>2. /\ handler' = [handler EXCEPT ![c] = "locks"] /\ answer' = [answer EXCEPT ![c] = job]
          /\ history' = history \cup {job}
          /\ UNCHANGED <<pollVars, quaiLine, stalled, quaiAuth, aged, quaiSent>>
      BY <1>10, <2>2 DEF AuthorizeFetch
    <3> HIDE DEF job
    <3>3. QuaiTypeOK'
      BY <1>0, <3>1, <3>2 DEF KnownInv, QuaiTypeOK, pollVars
    <3>4. \A d \in QuaiConns : handler'[d] \in {"locks", "answers"} => answer'[d] \in history' \cup aged'
      BY <1>0, <3>1, <3>2 DEF KnownInv
    <3> QED BY <1>0, <3>1, <3>2, <3>3, <3>4 DEF KnownInv, pollVars
  <2> QED BY <2>1, <2>2
<1>11. ASSUME NEW c \in QuaiConns, AuthorizeWritten(c) PROVE KnownInv'
  <2>1. PICK job : job = answer[c]
    OBVIOUS
  <2>2. job \in Jobs /\ job \in history \cup aged /\ Delivered(job)
    BY <1>0, <1>11, <2>1 DEF AuthorizeWritten, KnownInv
  <2>3. /\ quaiSent' \in [QuaiConns -> SUBSET Jobs]
        /\ \A d \in QuaiConns : quaiSent'[d] = quaiSent[d] \/ quaiSent'[d] = quaiSent[d] \cup {job}
    BY <2>2, DeliveredIsKnown
  <2>4. \A d \in QuaiConns : quaiSent'[d] \subseteq history \cup aged
    BY <2>2, <2>3 DEF KnownInv
  <2>5. /\ handler' = [handler EXCEPT ![c] = "reads"]
        /\ answer' = [answer EXCEPT ![c] = NoQuaiJob]
        /\ UNCHANGED <<pollVars, quaiLine, stalled, quaiAuth, history, aged>>
    BY <1>11 DEF AuthorizeWritten
  <2> QED BY <1>0, <2>3, <2>4, <2>5 DEF KnownInv, QuaiTypeOK, pollVars
<1>12. CASE UNCHANGED quaiVars
  BY <1>12 DEF KnownInv, QuaiTypeOK, quaiVars, pollVars, connVars, jobVars
<1> QED BY <1>1, <1>2, <1>3, <1>4, <1>5, <1>6, <1>7, <1>8, <1>9, <1>10, <1>11, <1>12 DEF QuaiNext

LEMMA KnownInit == QuaiInit => KnownInv
BY QuaiAssumption DEF QuaiInit, KnownInv, QuaiTypeOK

\* A share is called stale only when its job is ten minutes old: a job that a miner has
\* had is known until then, however onNewTemplate, handleAuthorize and jobCleanupLoop
\* overlap.
THEOREM StaleSharesAreOld == QuaiSpec => []StaleIsOld
<1>1. KnownInv => StaleIsOld
  BY DEF KnownInv, StaleIsOld, CalledStale
<1> QED BY <1>1, KnownInit, KnownStep, PTL DEF QuaiSpec

\* Miner c has had a job of the template.
HasIt(c) == \E job \in quaiSent[c] : job.t = template

\* Whoever listens was sent a job of the template, or is about to be.
Served(c) ==
  \/ HasIt(c) \/ c \in toServe
  \/ stage # "picks" /\ serving.c = c
  \/ handler[c] = "authorizes"
  \/ handler[c] \in {"locks", "answers"} /\ answer[c].t = template

ServedInv ==
  /\ \A c \in QuaiConns : quaiLine[c] = "new" => c \notin quaiAuth
  /\ stage # "picks" => serving.t = template
  /\ \A c \in QuaiConns : handler[c] \in {"locks", "answers"} =>
                            answer[c] \in Jobs /\ answer[c].c = c
  /\ template # 0 => \A c \in (Opened \cap quaiAuth) \ stalled : Served(c)

LEMMA ServedStep ==
  ASSUME KnownInv, ServedInv, [QuaiNext]_quaiVars
  PROVE  ServedInv'
<1>0. /\ handler \in [QuaiConns -> {"reads", "authorizes", "locks", "answers"}]
      /\ quaiLine \in [QuaiConns -> {"new", "open", "gone"}]
      /\ answer \in [QuaiConns -> Jobs \cup {NoQuaiJob}] /\ toServe \subseteq QuaiConns
      /\ quaiSent \in [QuaiConns -> SUBSET Jobs]
      /\ stage # "picks" => serving \in Jobs
  BY DEF KnownInv, QuaiTypeOK
<1>1. CASE NodeWorks
  BY <1>1 DEF NodeWorks, ServedInv, Served, HasIt, connVars, jobVars, Opened
<1>2. CASE PollAnswers
  BY <1>2 DEF PollAnswers, ServedInv, Served, connVars, jobVars, Opened
<1>3. CASE ServeStores \/ ServeLocks
  <2>1. /\ stage # "picks" /\ stage' # "picks"
        /\ UNCHANGED <<offered, template, toServe, serving, connVars, quaiSent>>
    BY <1>3 DEF ServeStores, ServeLocks, jobVars
  <2> QED BY <2>1 DEF ServedInv, Served, HasIt, connVars, Opened
<1>4. CASE ServeWritten
  <2>1. /\ serving \in Jobs /\ serving.t = template /\ Delivered(serving) /\ stage' = "picks"
        /\ UNCHANGED <<offered, template, toServe, connVars, history, aged>>
    BY <1>0, <1>4 DEF ServeWritten, ServedInv
  <2>2. /\ \A c \in QuaiConns : quaiSent[c] \subseteq quaiSent'[c]
        /\ serving.c \in Opened \ stalled => serving \in quaiSent'[serving.c]
    BY <2>1, DeliveredIsKnown
  <2>3. \A c \in QuaiConns : HasIt(c) => (HasIt(c))'
    BY <2>1, <2>2 DEF HasIt
  <2>4. ASSUME NEW c \in (Opened \cap quaiAuth) \ stalled, Served(c) PROVE (Served(c))'
    <3>1. c \in QuaiConns
      BY DEF Opened
    <3>2. CASE HasIt(c)
      BY <2>3, <3>1, <3>2 DEF Served
    <3>3. CASE serving.c = c
      <4>1. (HasIt(c))'
        BY <2>1, <2>2, <3>3 DEF HasIt
      <4> QED BY <4>1 DEF Served
    <3>4. CASE ~HasIt(c) /\ serving.c # c
      BY <2>1, <2>4, <3>4 DEF Served, connVars
    <3> QED BY <3>2, <3>3, <3>4
  <2> QED BY <2>1, <2>4 DEF ServedInv, connVars, Opened
<1>5. ASSUME NEW c \in QuaiConns, ServeSkips(c) PROVE ServedInv'
  BY <1>5 DEF ServeSkips, ServedInv, Served, HasIt, connVars, jobVars, Opened
<1>6. ASSUME NEW c \in QuaiConns, ServePicks(c) PROVE ServedInv'
  <2>1. /\ toServe' = toServe \ {c} /\ serving' = [t |-> template, c |-> c, by |-> "poll"]
        /\ stage = "picks" /\ stage' = "stores"
        /\ UNCHANGED <<offered, template, connVars, jobVars>>
    BY <1>6 DEF ServePicks
  <2>2. serving'.t = template /\ serving'.c = c
    BY <2>1
  <2> QED BY <2>1, <2>2 DEF ServedInv, Served, HasIt, connVars, jobVars, Opened
<1>7. ASSUME NEW c \in QuaiConns, QuaiAccept(c) PROVE ServedInv'
  <2>1. c \notin quaiAuth
    BY <1>7 DEF QuaiAccept, ServedInv
  <2>2. \A d \in QuaiConns : d # c => quaiLine'[d] = quaiLine[d]
    BY <1>0, <1>7 DEF QuaiAccept
  <2> QED BY <1>7, <2>1, <2>2 DEF QuaiAccept, ServedInv, Served, HasIt, pollVars, jobVars, Opened
<1>8. ASSUME NEW c \in QuaiConns, QuaiAuthorize(c) PROVE ServedInv'
  <2>1. /\ quaiAuth' = quaiAuth \cup {c} /\ handler[c] = "reads" /\ quaiLine[c] = "open"
        /\ handler' = [handler EXCEPT ![c] = "authorizes"]
        /\ UNCHANGED <<pollVars, quaiLine, stalled, answer, jobVars>>
    BY <1>8 DEF QuaiAuthorize, Takes, Opened
  <2>2. handler'[c] = "authorizes" /\ \A d \in QuaiConns : d # c => handler'[d] = handler[d]
    BY <1>0, <2>1
  <2> QED BY <2>1, <2>2 DEF ServedInv, Served, HasIt, pollVars, jobVars, Opened
<1>9. ASSUME NEW c \in QuaiConns, AuthorizeFetch(c) PROVE ServedInv'
  <2>1. CASE template = 0
    <3>1. /\ handler' = [handler EXCEPT ![c] = "reads"]
          /\ UNCHANGED <<pollVars, quaiLine, stalled, quaiAuth, answer, history>>
      BY <1>9, <2>1 DEF AuthorizeFetch
    <3>2. \A d \in QuaiConns : handler'[d] = handler[d] \/ handler'[d] = "reads"
      BY <1>0, <3>1
    <3> QED BY <2>1, <3>1, <3>2 DEF ServedInv, pollVars
  <2>2. CASE template # 0
    <3> DEFINE job == [t |-> template, c |-> c, by |-> "handler"]
    <3>1. job.t = template /\ job.c = c /\ job \in Jobs
      <4>1. template \in Template
        BY <2>2, QuaiAssumption DEF KnownInv, QuaiTypeOK, Template
      <4> QED BY <4>1 DEF Jobs
    <3>2. /\ handler' = [handler EXCEPT ![c] = "locks"] /\ answer' = [answer EXCEPT ![c] = job]
          /\ UNCHANGED <<pollVars, quaiLine, stalled, quaiAuth, aged, quaiSent>>
      BY <1>9, <2>2 DEF AuthorizeFetch
    <3> HIDE DEF job
    <3>3. /\ handler'[c] = "locks" /\ answer'[c] = job
          /\ \A d \in QuaiConns : d # c => handler'[d] = handler[d] /\ answer'[d] = answer[d]
      BY <1>0, <3>2
    <3> QED BY <3>1, <3>2, <3>3 DEF ServedInv, Served, HasIt, pollVars, Opened
  <2> QED BY <2>1, <2>2
<1>10. ASSUME NEW c \in QuaiConns, AuthorizeLocks(c) PROVE ServedInv'
  <2>1. /\ handler[c] = "locks" /\ handler' = [handler EXCEPT ![c] = "answers"]
        /\ UNCHANGED <<pollVars, quaiLine, stalled, quaiAuth, answer, jobVars>>
    BY <1>10 DEF AuthorizeLocks
  <2>2. handler'[c] = "answers" /\ \A d \in QuaiConns : d # c => handler'[d] = handler[d]
    BY <1>0, <2>1
  <2> QED BY <2>1, <2>2 DEF ServedInv, Served, HasIt, pollVars, jobVars, Opened
<1>11. ASSUME NEW c \in QuaiConns, AuthorizeWritten(c) PROVE ServedInv'
  <2>1. /\ answer[c] \in Jobs /\ answer[c].c = c /\ Delivered(answer[c])
        /\ handler[c] = "answers" /\ handler' = [handler EXCEPT ![c] = "reads"]
        /\ answer' = [answer EXCEPT ![c] = NoQuaiJob]
        /\ UNCHANGED <<pollVars, quaiLine, stalled, quaiAuth, history, aged>>
    BY <1>11 DEF AuthorizeWritten, ServedInv
  <2>2. /\ \A d \in QuaiConns : quaiSent[d] \subseteq quaiSent'[d]
        /\ c \in Opened \ stalled => answer[c] \in quaiSent'[c]
    BY <2>1, DeliveredIsKnown
  <2>3. /\ handler'[c] = "reads"
        /\ \A d \in QuaiConns : d # c => handler'[d] = handler[d] /\ answer'[d] = answer[d]
    BY <1>0, <2>1
  <2>4. \A d \in QuaiConns : HasIt(d) => (HasIt(d))'
    BY <2>1, <2>2 DEF HasIt, pollVars
  <2>5. c \in Opened \ stalled /\ answer[c].t = template => (HasIt(c))'
    BY <2>1, <2>2 DEF HasIt, pollVars
  <2> QED BY <2>1, <2>3, <2>4, <2>5 DEF ServedInv, Served, pollVars, Opened
<1>12. CASE QuaiCleanup \/ \E job \in history : JobAges(job)
  <2>1. UNCHANGED <<pollVars, connVars, quaiSent>>
    BY <1>12 DEF QuaiCleanup, JobAges
  <2> QED BY <2>1 DEF ServedInv, Served, HasIt, pollVars, connVars, Opened
<1>13. ASSUME NEW c \in QuaiConns, QuaiStall(c) \/ QuaiHangUp(c) \/ QuaiDeadline(c)
       PROVE  ServedInv'
  <2>1. /\ UNCHANGED <<pollVars, quaiAuth, handler, answer, jobVars>>
        /\ stalled \subseteq stalled'
        /\ quaiLine' = quaiLine \/ quaiLine' = [quaiLine EXCEPT ![c] = "gone"]
    BY <1>13 DEF QuaiStall, QuaiHangUp, QuaiDeadline
  <2>2. \A d \in QuaiConns : quaiLine'[d] = quaiLine[d] \/ quaiLine'[d] = "gone"
    BY <1>0, <2>1
  <2> QED BY <2>1, <2>2 DEF ServedInv, Served, HasIt, pollVars, jobVars, Opened
<1>14. CASE UNCHANGED quaiVars
  BY <1>14 DEF ServedInv, Served, HasIt, quaiVars, pollVars, connVars, jobVars, Opened
<1> QED BY <1>1, <1>2, <1>3, <1>4, <1>5, <1>6, <1>7, <1>8, <1>9, <1>10, <1>11, <1>12, <1>13,
           <1>14 DEF QuaiNext

\* Nobody is left out: once a template has been sent round, every authorized miner that
\* listens was sent a job of it, by the poll loop or by the handler of its connection.
THEOREM EveryMinerIsServed == QuaiSpec => []NobodyIsSkipped
<1>1. QuaiInit => KnownInv /\ ServedInv
  BY KnownInit DEF QuaiInit, ServedInv
<1>2. KnownInv /\ ServedInv /\ [QuaiNext]_quaiVars => (KnownInv /\ ServedInv)'
  BY KnownStep, ServedStep
<1>3. KnownInv /\ ServedInv => NobodyIsSkipped
  BY DEF ServedInv, Served, HasIt, NobodyIsSkipped, Opened
<1> QED BY <1>1, <1>2, <1>3, PTL DEF QuaiSpec

\* What the Quai server keeps has its types: the poll loop has a job in hand between its
\* steps for a worker, and only then.
THEOREM QuaiTypes == QuaiSpec => []QuaiTypeOK
<1>1. KnownInv => QuaiTypeOK
  BY DEF KnownInv
<1> QED BY <1>1, KnownInit, KnownStep, PTL DEF QuaiSpec
-----------------------------------------------------------------------------
(* Vardiff.                                                                *)

DiffRecord == [diff : Difficulties, prev : Difficulties \cup {0}, fixed : Fixes \cup {0},
               floor : {0} \cup (MinDiff..MaxDiff), shares : 0..Burst,
               since : 0..Window, dry : 0..(2 * Window)]

\* The difficulty the miner will work at when everything is read that was written, and
\* what is about to be.
LastTold ==
  IF toSend > 0 THEN toSend
  ELSE IF idleSend > 0 THEN idleSend
  ELSE IF wire # << >> THEN wire[Len(wire)] ELSE miner

ToldInv ==
  /\ worker \in DiffRecord
  /\ pinned \in Fixes \cup {0} /\ overtaken \in BOOLEAN
  /\ miner \in Difficulties /\ wire \in Seq(Difficulties)
  /\ toSend \in Difficulties \cup {0} /\ idleSend \in Difficulties \cup {0}
  /\ ~overtaken => LastTold = worker.diff /\ (toSend = 0 \/ idleSend = 0)

LEMMA DiffBounds ==
  /\ MinDiff \in Nat \ {0} /\ MaxDiff \in Nat \ {0} /\ Start \in Nat \ {0}
  /\ MinDiff <= Start /\ Start <= MaxDiff /\ Burst \in Nat \ {0}
  /\ Fixes \subseteq Difficulties /\ Difficulties \subseteq Nat \ {0} /\ Window = 2
  /\ \A d \in MinDiff..MaxDiff : d \in Difficulties
BY VardiffAssumption DEF Difficulties, Window

LEMMA HalvedIsDifficulty ==
  ASSUME NEW d \in Difficulties
  PROVE  Halved(d) \in Difficulties
<1>1. d \in Nat /\ d \div 2 \in Nat /\ d \div 2 <= d
  BY DiffBounds
<1>2. CASE d \div 2 < MinDiff
  BY <1>2, DiffBounds DEF Halved, Difficulties
<1>3. CASE ~(d \div 2 < MinDiff)
  <2>1. d \div 2 \in Nat \ {0}
    BY <1>1, <1>3, DiffBounds
  <2>2. d <= MaxDiff => d \div 2 <= MaxDiff
    BY <1>1, DiffBounds
  <2>3. \A f \in Fixes : d <= f => d \div 2 <= f
    BY <1>1, DiffBounds
  <2> QED BY <1>3, <2>1, <2>2, <2>3 DEF Halved, Difficulties
<1> QED BY <1>2, <1>3

\* What a retarget makes of a worker: the miner is told unless nothing changed.
Retargeted(done, d) ==
  /\ done.w \in DiffRecord /\ done.tell \in BOOLEAN
  /\ ~done.tell => done.w.diff = d

LEMMA AdjustedIsTold ==
  ASSUME NEW w \in DiffRecord, NEW raw \in MinDiff..MaxDiff, pinned \in Fixes \cup {0},
         worker \in DiffRecord
  PROVE  Retargeted(Adjusted(w, raw), w.diff)
<1> DEFINE counted == [w EXCEPT !.shares = Capped(@ + 1, Burst)]
           new == Within(raw)
<1>1. /\ w.diff \in Difficulties /\ w.fixed \in Fixes \cup {0} /\ w.shares \in 0..Burst
      /\ worker.floor \in {0} \cup (MinDiff..MaxDiff)
  BY DEF DiffRecord
<1>2. new \in Difficulties
  BY <1>1, DiffBounds DEF Within
<1>3. Capped(w.shares + 1, Burst) \in 0..Burst /\ 0 \in 0..Burst /\ 0 \in 0..Window
  BY <1>1, DiffBounds DEF Capped
<1>4. counted \in DiffRecord /\ counted.diff = w.diff
  BY <1>3 DEF DiffRecord
<1>5. 0 \notin Fixes
  BY DiffBounds
<1> HIDE DEF counted, new
<1>6. CASE pinned > 0
  <2>1. pinned \in Difficulties /\ pinned \in Fixes
    BY <1>6, DiffBounds
  <2>2. [w EXCEPT !.diff = pinned, !.fixed = pinned] \in DiffRecord
    BY <2>1 DEF DiffRecord
  <2> QED BY <1>6, <2>2 DEF Adjusted, Retargeted
<1>7. CASE ~(pinned > 0) /\ w.fixed > 0
  <2>0. w.fixed \in Fixes
    BY <1>1, <1>7
  <2>1. w.fixed \in Difficulties
    BY <2>0, DiffBounds
  <2>2. [w EXCEPT !.diff = w.fixed] \in DiffRecord /\ [w EXCEPT !.diff = w.fixed].diff = w.fixed
    BY <2>1 DEF DiffRecord
  <2> QED BY <1>7, <2>2 DEF Adjusted, Retargeted
<1>8. CASE ~(pinned > 0) /\ ~(w.fixed > 0)
  <2> DEFINE next == [w EXCEPT !.diff = new, !.prev = IF new > w.diff THEN w.diff ELSE 0,
                               !.shares = 0, !.since = 0]
  <2>1. next \in DiffRecord /\ next.diff = new
    BY <1>1, <1>2, <1>3 DEF DiffRecord
  <2>2. Adjusted(w, raw) =
          IF w.since < Window /\ ~Emergency(counted) THEN [w |-> counted, tell |-> FALSE]
          ELSE [w |-> next, tell |-> new # w.diff]
    BY <1>8 DEF Adjusted, counted, new
  <2> HIDE DEF next
  <2>3. CASE Adjusted(w, raw) = [w |-> counted, tell |-> FALSE]
    BY <1>4, <2>3 DEF Retargeted
  <2>4. CASE Adjusted(w, raw) = [w |-> next, tell |-> new # w.diff]
    <3>1. PICK b \in BOOLEAN : b = (new # w.diff)
      OBVIOUS
    <3>2. Adjusted(w, raw) = [w |-> next, tell |-> b]
      BY <2>4, <3>1
    <3>3. Adjusted(w, raw).w = next /\ Adjusted(w, raw).tell = b
      BY <3>2
    <3>4. ~b => new = w.diff
      BY <3>1
    <3> QED BY <2>1, <3>1, <3>3, <3>4 DEF Retargeted
  <2> QED BY <2>2, <2>3, <2>4
<1> QED BY <1>6, <1>7, <1>8

LEMMA DecayedIsTold ==
  ASSUME NEW w \in DiffRecord
  PROVE  Retargeted(Decayed(w), w.diff)
<1>1. w.diff \in Difficulties /\ Halved(w.diff) \in Difficulties
  BY HalvedIsDifficulty DEF DiffRecord
<1>2. 0 \in 0..Burst /\ 0 \in 0..Window
  BY DiffBounds
<1>3. [w EXCEPT !.diff = Halved(w.diff), !.prev = 0, !.shares = 0, !.since = 0] \in DiffRecord
  BY <1>1, <1>2 DEF DiffRecord
<1> QED BY <1>3 DEF Decayed, Retargeted

\* The change of a connection's own goroutine.
LEMMA RetargetKeepsTold ==
  ASSUME ToldInv, toSend = 0, NEW done, Retargeted(done, worker.diff), Retargets(done),
         UNCHANGED <<idleSend, wire, miner>>, pinned' \in Fixes \cup {0}
  PROVE  ToldInv'
<1>1. /\ worker' \in DiffRecord /\ done.w = worker' /\ worker'.diff \in Difficulties
      /\ done.tell \in BOOLEAN /\ (~done.tell => worker'.diff = worker.diff)
  BY DEF Retargeted, Retargets, DiffRecord
<1>2. toSend' = (IF done.tell THEN worker'.diff ELSE 0) /\ worker'.diff \in Nat \ {0}
  BY <1>1, DiffBounds DEF Retargets
<1>3. overtaken' = (overtaken \/ (done.tell /\ idleSend > 0)) /\ overtaken' \in BOOLEAN
  BY DEF Retargets, ToldInv
<1>4. idleSend \in Nat
  BY DiffBounds DEF ToldInv
<1>5. CASE done.tell
  <2>1. toSend' = worker'.diff /\ toSend' > 0
    BY <1>2, <1>5
  <2>2. ~overtaken' => idleSend = 0
    <3>1. idleSend > 0 => overtaken'
      BY <1>3, <1>5
    <3> QED BY <1>4, <3>1
  <2> QED BY <1>1, <1>3, <2>1, <2>2 DEF ToldInv, LastTold
<1>6. CASE ~done.tell
  <2>1. toSend' = 0 /\ worker'.diff = worker.diff /\ overtaken' = overtaken
    BY <1>1, <1>2, <1>3, <1>6 DEF ToldInv
  <2> QED BY <1>1, <2>1 DEF ToldInv, LastTold
<1> QED BY <1>1, <1>5, <1>6

LEMMA ToldStep ==
  ASSUME ToldInv, [DiffNext]_diffVars
  PROVE  ToldInv'
<1>0. /\ worker \in DiffRecord /\ worker.diff \in Difficulties /\ wire \in Seq(Difficulties)
      /\ toSend \in Nat /\ idleSend \in Nat /\ Len(wire) \in Nat /\ 0 \notin Difficulties
  BY DiffBounds, LenProperties DEF ToldInv, DiffRecord
<1>1. CASE MinerSubmits \/ \E d \in Fixes \cup {0} : Pinned(d)
  BY <1>1 DEF MinerSubmits, Pinned, ToldInv, LastTold
<1>2. CASE ShareRejected
  <2>1. Retargeted(Decayed(worker), worker.diff)
    BY <1>0, DecayedIsTold
  <2> QED BY <1>2, <2>1, RetargetKeepsTold DEF ShareRejected, ToldInv
<1>3. ASSUME NEW raw \in MinDiff..MaxDiff, ShareAccepted(raw) PROVE ToldInv'
  <2> DEFINE w == [worker EXCEPT !.dry = 0]
  <2>1. w \in DiffRecord /\ w.diff = worker.diff
    BY <1>0 DEF DiffRecord, Window
  <2>2. Retargets(Adjusted(w, raw))
    BY <1>3 DEF ShareAccepted
  <2> HIDE DEF w
  <2>3. Retargeted(Adjusted(w, raw), worker.diff)
    BY <1>0, <2>1, AdjustedIsTold DEF ToldInv
  <2> QED BY <1>3, <2>2, <2>3, RetargetKeepsTold DEF ShareAccepted, ToldInv
<1>4. ASSUME NEW d \in MinDiff..MaxDiff, Suggested(d) PROVE ToldInv'
  <2> DEFINE floor == IF d < MinDiff THEN MinDiff ELSE IF d > MaxDiff THEN MaxDiff ELSE d
             done == [w |-> [worker EXCEPT !.floor = floor,
                                           !.diff = IF @ < floor THEN floor ELSE @],
                      tell |-> worker.diff < floor]
  <2>1. floor \in MinDiff..MaxDiff /\ floor \in Difficulties
    BY DiffBounds
  <2>2. Retargets(done)
    BY <1>4 DEF Suggested
  <2>3. Retargeted(done, worker.diff)
    <3> HIDE DEF floor
    <3>1. CASE worker.diff < floor
      <4>1. done.w = [worker EXCEPT !.floor = floor, !.diff = floor] /\ done.tell = TRUE
        BY <3>1
      <4>2. done.w \in DiffRecord
        BY <1>0, <2>1, <4>1 DEF DiffRecord
      <4> QED BY <4>1, <4>2 DEF Retargeted
    <3>2. CASE ~(worker.diff < floor)
      <4>0. (worker.diff < floor) = FALSE
        BY <3>2
      <4>1. done.w = [worker EXCEPT !.floor = floor, !.diff = worker.diff] /\ done.tell = FALSE
        BY <3>2, <4>0
      <4>2. done.w \in DiffRecord /\ done.w.diff = worker.diff
        BY <1>0, <2>1, <4>1 DEF DiffRecord
      <4> QED BY <4>1, <4>2 DEF Retargeted
    <3> QED BY <3>1, <3>2
  <2> HIDE DEF done
  <2> QED BY <1>4, <2>2, <2>3, RetargetKeepsTold DEF Suggested, ToldInv
<1>5. CASE Told \/ IdleTold
  <2>1. ASSUME NEW d \in Difficulties, wire' = Append(wire, d)
        PROVE  wire' \in Seq(Difficulties) /\ wire' # << >> /\ wire'[Len(wire')] = d
    <3>1. Len(wire') = Len(wire) + 1 /\ wire' \in Seq(Difficulties) /\ wire'[Len(wire) + 1] = d
      BY <1>0, <2>1, AppendProperties
    <3> QED BY <1>0, <3>1, EmptySeq
  <2>2. CASE Told
    <3>1. toSend \in Difficulties /\ toSend > 0 /\ wire' = Append(wire, toSend) /\ toSend' = 0
      BY <1>0, <2>2 DEF Told, ToldInv
    <3>2. wire' \in Seq(Difficulties) /\ wire' # << >> /\ wire'[Len(wire')] = toSend
      BY <2>1, <3>1
    <3> QED BY <1>0, <2>2, <3>1, <3>2 DEF Told, ToldInv, LastTold
  <2>3. CASE IdleTold
    <3>1. /\ idleSend \in Difficulties /\ idleSend > 0 /\ wire' = Append(wire, idleSend)
          /\ idleSend' = 0
      BY <1>0, <2>3 DEF IdleTold, ToldInv
    <3>2. wire' \in Seq(Difficulties) /\ wire' # << >> /\ wire'[Len(wire')] = idleSend
      BY <2>1, <3>1
    <3> QED BY <1>0, <2>3, <3>1, <3>2 DEF IdleTold, ToldInv, LastTold
  <2> QED BY <1>5, <2>2, <2>3
<1>6. CASE IdleDecays
  <2> DEFINE new == Halved(worker.diff)
  <2>0. new \in Difficulties
    BY <1>0, HalvedIsDifficulty
  <2>1. new \in Difficulties /\ new > 0
    BY <2>0 DEF Difficulties
  <2>2. /\ idleSend = 0
        /\ worker' = IF new = worker.diff THEN [worker EXCEPT !.since = 0]
                     ELSE [worker EXCEPT !.diff = new, !.prev = 0, !.since = 0]
        /\ idleSend' = IF new = worker.diff THEN 0 ELSE new
        /\ overtaken' = (overtaken \/ (new # worker.diff /\ toSend > 0))
        /\ UNCHANGED <<pinned, toSend, wire, miner>>
    BY <1>6 DEF IdleDecays
  <2> HIDE DEF new
  <2>3. worker' \in DiffRecord /\ worker'.diff = new
    <3>1. CASE new = worker.diff
      BY <1>0, <2>2, <3>1 DEF DiffRecord, Window
    <3>2. CASE new # worker.diff
      <4>1. worker' = [worker EXCEPT !.diff = new, !.prev = 0, !.since = 0]
        BY <2>2, <3>2
      <4>2. 0 \in 0..Window
        BY DiffBounds
      <4>3. worker' \in DiffRecord
        BY <1>0, <2>1, <4>1, <4>2 DEF DiffRecord
      <4>4. worker'.diff = new
        BY <1>0, <4>1 DEF DiffRecord
      <4> QED BY <4>3, <4>4
    <3> QED BY <3>1, <3>2
  <2>4. ~overtaken' => ~overtaken
    BY <2>2
  <2>5. ~overtaken' /\ new # worker.diff => ~(toSend > 0)
    BY <2>2
  <2>6. overtaken' \in BOOLEAN
    BY <2>2
  <2>7. CASE new = worker.diff
    <3>1. idleSend' = 0 /\ worker'.diff = worker.diff
      BY <2>2, <2>3, <2>7
    <3> QED BY <2>2, <2>3, <2>4, <2>6, <3>1 DEF ToldInv, LastTold
  <2>8. CASE new # worker.diff
    <3>1. idleSend' = new /\ (~overtaken' => toSend = 0)
      BY <1>0, <2>2, <2>5, <2>8
    <3> QED BY <2>1, <2>2, <2>3, <2>6, <3>1 DEF ToldInv, LastTold
  <2> QED BY <2>7, <2>8
<1>7. CASE Received
  <2>1. /\ wire # << >> /\ miner' = Head(wire) /\ wire' = Tail(wire)
        /\ UNCHANGED <<worker, pinned, toSend, idleSend, overtaken>>
    BY <1>7 DEF Received
  <2>2. /\ wire' \in Seq(Difficulties) /\ Len(wire') = Len(wire) - 1 /\ Len(wire) > 0
        /\ miner' = wire[1] /\ miner' \in Difficulties
        /\ \A i \in 1..Len(wire') : wire'[i] = wire[i + 1]
    BY <1>0, <2>1, HeadTailProperties, EmptySeq, ElementOfSeq
  <2>3. CASE Len(wire) = 1
    BY <1>0, <2>1, <2>2, <2>3, EmptySeq DEF ToldInv, LastTold
  <2>4. CASE Len(wire) # 1
    <3>1. Len(wire') > 0 /\ wire' # << >> /\ wire'[Len(wire')] = wire[Len(wire)]
      BY <1>0, <2>2, <2>4, EmptySeq
    <3> QED BY <1>0, <2>1, <2>2, <3>1 DEF ToldInv, LastTold
  <2> QED BY <2>3, <2>4
<1>8. CASE DiffTime
  <2>1. Capped(worker.since + 1, Window) \in 0..Window
        /\ Capped(worker.dry + 1, 2 * Window) \in 0..(2 * Window)
    BY <1>0 DEF Capped, Window, DiffRecord
  <2>2. worker' \in DiffRecord /\ worker'.diff = worker.diff
    BY <1>0, <1>8, <2>1 DEF DiffTime, DiffRecord
  <2> QED BY <1>8, <2>2 DEF DiffTime, ToldInv, LastTold
<1>9. CASE UNCHANGED diffVars
  BY <1>9 DEF diffVars, ToldInv, LastTold
<1> QED BY <1>1, <1>2, <1>3, <1>4, <1>5, <1>6, <1>7, <1>8, <1>9 DEF DiffNext

LEMMA ToldInit == DiffInit => ToldInv
<1>1. 0 \in 0..Burst /\ 0 \in 0..Window /\ 2 * Window \in 0..(2 * Window) /\ Start \in Difficulties
  BY DiffBounds DEF Difficulties
<1>2. << >> \in Seq(Difficulties)
  BY EmptySeq
<1> SUFFICES ASSUME DiffInit PROVE ToldInv
  OBVIOUS
<1>3. worker \in DiffRecord
  BY <1>1 DEF DiffInit, DiffRecord
<1>4. LastTold = worker.diff
  BY DEF DiffInit, LastTold
<1> QED BY <1>1, <1>2, <1>3, <1>4 DEF DiffInit, ToldInv

\* The miner is told of every change, in order: when nothing is about to be written or
\* under way it works at the difficulty its shares are held to, unless an idle decay may
\* have been written after a younger change.
THEOREM MinerWorksAtItsDifficulty == DiffSpec => []MinerIsTold
<1>1. ToldInv => MinerIsTold
  BY DiffBounds DEF ToldInv, MinerIsTold, LastTold
<1> QED BY <1>1, ToldInit, ToldStep, PTL DEF DiffSpec

\* Difficulties are within the limits or pinned, at the server and at the miner.
THEOREM DiffTypes == DiffSpec => []DiffTypeOK
<1>1. ToldInv => DiffTypeOK
  BY DEF ToldInv, DiffRecord, DiffTypeOK
<1> QED BY <1>1, ToldInit, ToldStep, PTL DEF DiffSpec
-----------------------------------------------------------------------------
(* StaleKick: the window of recent jobs.                                   *)

\* A job of the poller is younger than every other until it is installed: the upstream
\* pool's reader makes none meanwhile.  And as long as it never made one, jobs are
\* installed in the order they are made.
WindowInv ==
  /\ made \in 0..MaxJobs /\ building \in 0..made /\ relaying \in 0..made
  /\ currentJob \in 0..made /\ {clean, notice, proxying, relayed} \subseteq BOOLEAN
  /\ recentJobs \subseteq 1..made
  /\ Cardinality(recentJobs) <= RecentMax + (IF relayed THEN 1 ELSE 0)
  /\ building # 0 => /\ ~proxying /\ building = made
                     /\ relaying < building /\ currentJob < building
                     /\ \A j \in recentJobs : j < building
  /\ relaying # 0 => relayed
  /\ ~relayed => currentJob = IF building = 0 THEN made ELSE made - 1
  /\ NewestKept

\* What WithoutOldest drops is the least, and one job.
LEMMA OldestIsDropped ==
  ASSUME NEW w \in SUBSET Nat, IsFiniteSet(w), w # {}
  PROVE  /\ WithoutOldest(w) \subseteq w
         /\ Cardinality(WithoutOldest(w)) = Cardinality(w) - 1
         /\ \E o \in w : (\A k \in w : o <= k) /\ WithoutOldest(w) = w \ {o}
<1>1. \E o \in w : \A k \in w : o <= k
  BY LeastElement
<1> DEFINE o == CHOOSE j \in w : \A k \in w : j <= k
<1>2. o \in w /\ \A k \in w : o <= k
  BY <1>1
<1>3. WithoutOldest(w) = w \ {o}
  BY DEF WithoutOldest
<1> HIDE DEF o
<1>4. Cardinality(w \ {o}) = Cardinality(w) - 1
  BY <1>2, FS_RemoveElement
<1> QED BY <1>2, <1>3, <1>4

\* The installed job is in the window: it is the youngest of at least two when one is cut.
LEMMA InstallKeepsWindow ==
  ASSUME WindowInv, Install
  PROVE  WindowInv'
<1> DEFINE all == recentJobs \cup {building}
<1>0. /\ made \in Nat /\ building \in 1..made /\ building = made /\ ~proxying
      /\ recentJobs \subseteq 1..made /\ \A j \in recentJobs : j \in Nat /\ j < building
      /\ RecentMax \in Nat \ {0} /\ relaying \in 0..made /\ relayed \in BOOLEAN
  <2>1. building # 0
    BY DEF Install
  <2>2. made \in Nat /\ building \in 1..made /\ building = made
    BY <2>1, StaleKickAssumption DEF WindowInv
  <2>3. ~proxying /\ recentJobs \subseteq 1..made /\ \A j \in recentJobs : j < building
    BY <2>1 DEF WindowInv
  <2>4. RecentMax \in Nat \ {0} /\ relaying \in 0..made /\ relayed \in BOOLEAN
    BY StaleKickAssumption DEF WindowInv
  <2> QED BY <2>2, <2>3, <2>4
<1>1. /\ currentJob' = building /\ building' = 0 /\ notice' = clean
      /\ recentJobs' = IF Cardinality(all) > RecentMax THEN WithoutOldest(all) ELSE all
      /\ UNCHANGED <<made, clean, relaying, proxying, relayed>>
  BY DEF Install
<1>2. /\ IsFiniteSet(recentJobs) /\ Cardinality(recentJobs) \in Nat
      /\ building \notin recentJobs
  <2>1. IsFiniteSet(1..made)
    BY <1>0, FS_Interval
  <2>2. IsFiniteSet(recentJobs)
    BY <1>0, <2>1, FS_Subset
  <2>3. building \notin recentJobs
    BY <1>0
  <2> QED BY <2>2, <2>3, FS_CardinalityType
<1>3. IsFiniteSet(all) /\ Cardinality(all) = Cardinality(recentJobs) + 1
  BY <1>2, FS_AddElement
<1>4. all \in SUBSET Nat /\ all # {} /\ all \subseteq 1..made /\ building \in all
  BY <1>0
<1>5. PICK o \in all : (\A k \in all : o <= k) /\ WithoutOldest(all) = all \ {o}
  BY <1>3, <1>4, OldestIsDropped
<1>6. Cardinality(WithoutOldest(all)) = Cardinality(recentJobs)
  BY <1>2, <1>3, <1>4, OldestIsDropped
<1>7. Cardinality(all) > RecentMax => o # building
  <2> SUFFICES ASSUME Cardinality(all) > RecentMax, o = building PROVE FALSE
    OBVIOUS
  <2>1. recentJobs = {}
    BY <1>0, <1>5
  <2>2. Cardinality(recentJobs) = 0
    BY <2>1, FS_EmptySet
  <2> QED BY <1>0, <1>3, <2>2
<1>8. recentJobs' \subseteq 1..made /\ building \in recentJobs'
  BY <1>1, <1>4, <1>5, <1>7
<1>9. Cardinality(recentJobs') <= RecentMax + (IF relayed THEN 1 ELSE 0)
  BY <1>0, <1>1, <1>2, <1>3, <1>6 DEF WindowInv
<1>10. ASSUME ~relayed PROVE recentJobs' = {j \in 1..building : j > building - RecentMax}
  <2> DEFINE cur == building - 1
             lo == IF cur <= RecentMax THEN 1 ELSE cur - RecentMax + 1
  <2>1. currentJob = cur /\ cur \in Nat
    BY <1>0, <1>10 DEF WindowInv
  <2>2. recentJobs = {j \in 1..cur : j > cur - RecentMax}
    BY <1>10, <2>1 DEF WindowInv, NewestKept
  <2>3. recentJobs = lo..cur /\ lo \in Nat \ {0}
    BY <1>0, <2>1, <2>2
  <2>4. Cardinality(recentJobs) = IF lo <= cur THEN cur - lo + 1 ELSE 0
    <3> HIDE DEF lo, cur
    <3> QED BY <2>1, <2>3, FS_Interval
  <2>5. Cardinality(recentJobs) = IF cur <= RecentMax THEN cur ELSE RecentMax
    BY <1>0, <2>1, <2>4
  <2>6. all = lo..building
    <3>1. \A j \in all : j \in lo..building
      BY <1>0, <2>1, <2>3
    <3>2. \A j \in lo..building : j \in all
      BY <1>0, <2>1, <2>3
    <3> QED BY <3>1, <3>2
  <2>7. CASE cur < RecentMax
    <3>1. recentJobs' = all /\ lo = 1
      BY <1>0, <1>1, <1>3, <2>1, <2>5, <2>7
    <3> QED BY <1>0, <2>1, <2>6, <2>7, <3>1
  <2>8. CASE ~(cur < RecentMax)
    <3>1. recentJobs' = all \ {o}
      BY <1>0, <1>1, <1>3, <1>5, <2>1, <2>5, <2>8
    <3>2. o = lo
      <4>0. building \in Nat /\ lo \in Nat /\ lo <= building
        BY <1>0, <2>1, <2>3
      <4> HIDE DEF lo, cur, all
      <4>1. lo \in all
        BY <2>6, <4>0
      <4>2. o \in lo..building /\ o <= lo
        BY <1>5, <2>6, <4>1
      <4> QED BY <4>0, <4>2
    <3>3. lo = building - RecentMax
      BY <1>0, <2>1, <2>8
    <3> QED BY <1>0, <2>6, <3>1, <3>2, <3>3
  <2> QED BY <2>7, <2>8
<1>11. NewestKept'
  BY <1>1, <1>8, <1>10 DEF NewestKept
<1> HIDE DEF all
<1> QED BY <1>0, <1>1, <1>8, <1>9, <1>11 DEF WindowInv

LEMMA WindowStep ==
  ASSUME WindowInv, [KickNext]_kickVars
  PROVE  WindowInv'
<1>0. MaxJobs \in Nat /\ RecentMax \in Nat \ {0} /\ made \in Nat
  BY StaleKickAssumption DEF WindowInv
<1>1. ASSUME NEW isNew \in BOOLEAN, PolledJob(isNew) PROVE WindowInv'
  <2>1. /\ building = 0 /\ ~proxying /\ made < MaxJobs /\ made' = made + 1
        /\ building' = made + 1 /\ clean' = isNew
        /\ UNCHANGED <<notice, relaying, proxying, currentJob, recentJobs, relayed>>
    BY <1>1 DEF PolledJob, PollerFree
  <2>2. \A j \in recentJobs : j \in 1..made /\ j < made + 1 /\ j \in 1..(made + 1)
    BY <1>0 DEF WindowInv
  <2> QED BY <1>0, <2>1, <2>2 DEF WindowInv, NewestKept
<1>2. CASE Install
  BY <1>2, InstallKeepsWindow
<1>3. CASE PickVictims
  BY <1>3 DEF PickVictims, WindowInv, NewestKept
<1>4. CASE UpstreamNotify
  <2>1. /\ proxying /\ relaying = 0 /\ made < MaxJobs /\ made' = made + 1
        /\ relaying' = made + 1 /\ relayed' = TRUE /\ building = 0
        /\ UNCHANGED <<building, clean, notice, proxying, currentJob, recentJobs>>
    BY <1>4 DEF UpstreamNotify, WindowInv
  <2>2. Cardinality(recentJobs) <= RecentMax + 1
    <3>1. IsFiniteSet(1..made)
      BY <1>0, FS_Interval
    <3>2. Cardinality(recentJobs) \in Nat
      BY <3>1, FS_Subset, FS_CardinalityType DEF WindowInv
    <3> QED BY <1>0, <3>2 DEF WindowInv
  <2>3. \A j \in recentJobs : j \in 1..(made + 1)
    BY <1>0 DEF WindowInv
  <2> QED BY <1>0, <2>1, <2>2, <2>3 DEF WindowInv, NewestKept
<1>5. CASE InstallUpstream
  <2>1. /\ relaying # 0 /\ relayed /\ currentJob' = relaying /\ relaying' = 0
        /\ recentJobs' = IF Cardinality(recentJobs) > RecentMax THEN {relaying}
                         ELSE recentJobs \cup {relaying}
        /\ UNCHANGED <<made, building, clean, notice, proxying, relayed>>
    BY <1>5 DEF InstallUpstream, WindowInv
  <2>2. relaying \in 1..made /\ relaying \in recentJobs' /\ recentJobs' \subseteq 1..made
    <3>1. relaying \in 1..made /\ recentJobs \subseteq 1..made
      BY <1>0, <2>1 DEF WindowInv
    <3> QED BY <2>1, <3>1
  <2>3. Cardinality(recentJobs') <= RecentMax + 1
    <3>1. IsFiniteSet(1..made)
      BY <1>0, FS_Interval
    <3>2. IsFiniteSet(recentJobs) /\ Cardinality(recentJobs) \in Nat
      BY <3>1, FS_Subset, FS_CardinalityType DEF WindowInv
    <3>3. Cardinality({relaying}) = 1
      BY FS_Singleton
    <3>4. Cardinality(recentJobs \cup {relaying}) <= Cardinality(recentJobs) + 1
      BY <3>2, FS_AddElement
    <3>5. IsFiniteSet(recentJobs \cup {relaying}) /\ Cardinality(recentJobs \cup {relaying}) \in Nat
      BY <3>2, FS_AddElement, FS_CardinalityType
    <3> QED BY <1>0, <2>1, <3>2, <3>3, <3>4, <3>5
  <2>4. building # 0 => \A j \in recentJobs' : j < building
    BY <2>1 DEF WindowInv
  <2> QED BY <1>0, <2>1, <2>2, <2>3, <2>4 DEF WindowInv, NewestKept
<1>6. CASE SwitchProxy
  <2>1. /\ building = 0 /\ proxying' = ~proxying
        /\ UNCHANGED <<made, building, clean, notice, relaying, currentJob, recentJobs,
                       relayed>>
    BY <1>6 DEF SwitchProxy, PollerFree
  <2> QED BY <2>1 DEF WindowInv, NewestKept
<1>7. ASSUME UNCHANGED jobs PROVE WindowInv'
  BY <1>7 DEF jobs, WindowInv, NewestKept
<1>8. ASSUME NEW c \in Miners, NEW j \in 1..MaxJobs,
             StaleShare(c, j) \/ AcceptedShare(c, j) \/ RejectedShare(c, j)
      PROVE  UNCHANGED jobs
  BY <1>8 DEF StaleShare, AcceptedShare, RejectedShare, Submits
<1>9. ASSUME NEW c \in Miners,
             KickVictim(c) \/ Connect(c) \/ KickSelf(c) \/ HangUp(c) \/ Cleanup(c)
      PROVE  UNCHANGED jobs
  BY <1>9 DEF KickVictim, Connect, KickSelf, HangUp, Cleanup
<1>10. CASE UNCHANGED kickVars
  BY <1>7, <1>10 DEF kickVars
<1> QED BY <1>1, <1>2, <1>3, <1>4, <1>5, <1>6, <1>7, <1>8, <1>9, <1>10 DEF KickNext

LEMMA WindowInit == KickInit => WindowInv
<1> SUFFICES ASSUME KickInit PROVE WindowInv
  OBVIOUS
<1>1. recentJobs = {} /\ Cardinality(recentJobs) = 0
  BY FS_EmptySet DEF KickInit
<1>2. \A j \in 1..0 : FALSE
  OBVIOUS
<1>3. /\ made = 0 /\ building = 0 /\ relaying = 0 /\ currentJob = 0
      /\ clean = FALSE /\ notice = FALSE /\ proxying = FALSE /\ relayed = FALSE
  BY DEF KickInit
<1>4. MaxJobs \in Nat /\ RecentMax \in Nat
  BY StaleKickAssumption
<1>5. recentJobs = {j \in 1..currentJob : j > currentJob - RecentMax}
  BY <1>1, <1>2, <1>3
<1>6. NewestKept
  BY <1>3, <1>5 DEF NewestKept
<1>7. {clean, notice, proxying, relayed} \subseteq BOOLEAN
  BY <1>3
<1>8. made \in 0..MaxJobs /\ building \in 0..made /\ relaying \in 0..made /\ currentJob \in 0..made
  BY <1>3, <1>4
<1>9. Cardinality(recentJobs) <= RecentMax + (IF relayed THEN 1 ELSE 0)
  BY <1>1, <1>3, <1>4
<1> QED BY <1>1, <1>3, <1>6, <1>7, <1>8, <1>9 DEF WindowInv

\* A share for the job that miners were sent last is never stale, whichever of the two
\* goroutines installed it; without the upstream pool the window is the newest jobs.
THEOREM NewestJobIsKept == KickSpec => []NewestKept
<1>1. WindowInv => NewestKept
  BY DEF WindowInv
<1> QED BY <1>1, WindowInit, WindowStep, PTL DEF KickSpec
-----------------------------------------------------------------------------
(* StaleKick: the streaks.                                                 *)

StreakInv ==
  /\ line \in [Miners -> {"gone", "open", "closed"}] /\ leaving \subseteq Miners
  /\ streak \in [Miners -> Nat] /\ run \in [Miners -> Nat]
  /\ StreaksAreEarned

LEMMA StreakStep ==
  ASSUME StreakInv, [KickNext]_kickVars
  PROVE  StreakInv'
<1>0. KickAt \in Nat \ {0}
  BY StaleKickAssumption
<1> DEFINE Stays(d) == /\ leaving' = leaving /\ streak' = streak /\ run' = run
                       /\ line'[d] # "open" \/ line[d] = "open"
<1>1. ASSUME line' \in [Miners -> {"gone", "open", "closed"}], \A d \in Miners : Stays(d),
             leaving' = leaving /\ streak' = streak /\ run' = run
      PROVE  StreakInv'
  BY <1>1 DEF StreakInv, StreaksAreEarned
<1> HIDE DEF Stays
<1>2. \A cs \in SUBSET Miners :
         /\ Closed(cs) \in [Miners -> {"gone", "open", "closed"}]
         /\ \A d \in Miners : Closed(cs)[d] = "open" => line[d] = "open"
         /\ \A d \in cs : Closed(cs)[d] # "open"
  BY DEF Closed, StreakInv
<1>3. ASSUME UNCHANGED <<line, leaving, streak, run>> PROVE StreakInv'
  BY <1>1, <1>3 DEF Stays, StreakInv
<1>4. ASSUME NEW cs \in SUBSET Miners, line' = Closed(cs) \/ line' = line,
             leaving' = leaving, streak' = streak, run' = run
      PROVE  StreakInv'
  BY <1>1, <1>2, <1>4 DEF Stays, StreakInv
<1>5. ASSUME NEW isNew \in BOOLEAN, PolledJob(isNew) PROVE StreakInv'
  BY <1>3, <1>5 DEF PolledJob, conns
<1>6. CASE Install \/ PickVictims \/ UpstreamNotify
  BY <1>3, <1>6 DEF Install, PickVictims, UpstreamNotify, conns
<1>7. CASE InstallUpstream \/ SwitchProxy
  BY <1>4, <1>7 DEF InstallUpstream, SwitchProxy
<1>8. ASSUME NEW c \in Miners, KickVictim(c) \/ HangUp(c) PROVE StreakInv'
  BY <1>4, <1>8 DEF KickVictim, HangUp
<1>9. ASSUME NEW c \in Miners, Connect(c) PROVE StreakInv'
  <2>1. /\ line' = [line EXCEPT ![c] = "open"] /\ streak' = [streak EXCEPT ![c] = 0]
        /\ run' = [run EXCEPT ![c] = 0] /\ leaving' = leaving
    BY <1>9 DEF Connect
  <2> QED BY <1>0, <2>1 DEF StreakInv, StreaksAreEarned
<1>10. ASSUME NEW c \in Miners, KickSelf(c) PROVE StreakInv'
  <2>1. /\ line' = Closed({c}) /\ leaving' = leaving \ {c} /\ streak' = streak /\ run' = run
    BY <1>10 DEF KickSelf
  <2>2. /\ line' \in [Miners -> {"gone", "open", "closed"}] /\ line'[c] # "open"
        /\ \A d \in Miners : line'[d] = "open" => line[d] = "open"
    BY <1>2, <2>1
  <2> QED BY <2>1, <2>2 DEF StreakInv, StreaksAreEarned
<1>11. ASSUME NEW c \in Miners, Cleanup(c) PROVE StreakInv'
  <2>1. line' = [line EXCEPT ![c] = "gone"] /\ UNCHANGED <<leaving, streak, run>>
    BY <1>11 DEF Cleanup
  <2> QED BY <2>1 DEF StreakInv, StreaksAreEarned
<1>12. ASSUME NEW c \in Miners, NEW j \in 1..MaxJobs, StaleShare(c, j) PROVE StreakInv'
  <2> DEFINE next == IF lastStale[c] = j THEN streak[c] + 1 ELSE 1
  <2>1. /\ run' = [run EXCEPT ![c] = @ + 1] /\ streak' = [streak EXCEPT ![c] = next]
        /\ leaving' = (IF streak'[c] >= KickAt THEN leaving \cup {c} ELSE leaving)
        /\ line' = line
    BY <1>12 DEF StaleShare
  <2>2. next \in Nat /\ next <= run[c] + 1 /\ run[c] \in Nat
    BY DEF StreakInv, StreaksAreEarned
  <2> HIDE DEF next
  <2>3. /\ streak' \in [Miners -> Nat] /\ run' \in [Miners -> Nat]
        /\ streak'[c] = next /\ run'[c] = run[c] + 1
        /\ \A d \in Miners : d # c => streak'[d] = streak[d] /\ run'[d] = run[d]
    BY <2>1, <2>2 DEF StreakInv
  <2>4. leaving \subseteq leaving' /\ leaving' \subseteq Miners
        /\ (streak'[c] >= KickAt => c \in leaving')
    BY <2>1 DEF StreakInv
  <2> QED BY <2>1, <2>2, <2>3, <2>4 DEF StreakInv, StreaksAreEarned
<1>13. ASSUME NEW c \in Miners, NEW j \in 1..MaxJobs, AcceptedShare(c, j) PROVE StreakInv'
  <2>1. /\ streak' = [streak EXCEPT ![c] = 0] /\ run' = [run EXCEPT ![c] = 0]
        /\ UNCHANGED <<line, leaving>>
    BY <1>13 DEF AcceptedShare
  <2> QED BY <1>0, <2>1 DEF StreakInv, StreaksAreEarned
<1>14. ASSUME NEW c \in Miners, NEW j \in 1..MaxJobs, RejectedShare(c, j) PROVE StreakInv'
  <2>1. line' = Closed({c}) \/ line' = line
    BY <1>14 DEF RejectedShare
  <2>2. UNCHANGED <<leaving, streak, run>>
    BY <1>14 DEF RejectedShare
  <2> QED BY <1>4, <2>1, <2>2
<1>15. CASE UNCHANGED kickVars
  BY <1>3, <1>15 DEF kickVars, conns
<1> QED BY <1>5, <1>6, <1>7, <1>8, <1>9, <1>10, <1>11, <1>12, <1>13, <1>14, <1>15 DEF KickNext

\* A streak counts no share sent before the last accepted one, and none reaches
\* StaleKickCount on a connection that stays.
THEOREM StreaksAreJust == KickSpec => []StreaksAreEarned
<1>1. KickInit => StreakInv
  BY StaleKickAssumption DEF KickInit, StreakInv, StreaksAreEarned
<1>2. StreakInv => StreaksAreEarned
  BY DEF StreakInv
<1> QED BY <1>1, <1>2, StreakStep, PTL DEF KickSpec

\* What is counted of shares and kicks.
Shares == [accepted : 0..MaxSubmits, rejected : 0..MaxSubmits, stale : 0..MaxSubmits]
ShareCounts ==
  /\ counts \in [Miners -> Shares] /\ lastStale \in [Miners -> 0..made]
  /\ \A c \in Miners : Counted(c) <= MaxSubmits /\ run[c] <= counts[c].stale
KickCounts ==
  /\ victims \subseteq Miners /\ alerted \subseteq Names /\ sessions \in 0..MaxSessions
  /\ kickTimes \in [Names -> Nat] /\ kicked \in [Names -> Nat]

\* A share of c is counted as accepted, rejected or stale, after which its run is this.
CountsShare(c, how, length) ==
  /\ Counted(c) < MaxSubmits /\ how \in {"accepted", "rejected", "stale"}
  /\ length \in Nat /\ (length <= run[c] \/ (how = "stale" /\ length <= run[c] + 1))
  /\ counts' = [counts EXCEPT ![c][how] = @ + 1] /\ run' = [run EXCEPT ![c] = length]
  /\ made' = made
  /\ lastStale' = lastStale \/ \E j \in 0..made : lastStale' = [lastStale EXCEPT ![c] = j]

LEMMA ShareCounted ==
  ASSUME WindowInv, StreakInv, ShareCounts,
         NEW c \in Miners, NEW how, NEW more, CountsShare(c, how, more)
  PROVE  ShareCounts'
<1>0. /\ Counted(c) < MaxSubmits /\ how \in {"accepted", "rejected", "stale"}
      /\ more \in Nat /\ (more <= run[c] \/ (how = "stale" /\ more <= run[c] + 1))
      /\ counts' = [counts EXCEPT ![c][how] = @ + 1] /\ run' = [run EXCEPT ![c] = more]
      /\ made' = made
  BY DEF CountsShare
<1>1. /\ MaxSubmits \in Nat /\ made \in Nat /\ run \in [Miners -> Nat]
  BY StaleKickAssumption DEF WindowInv, StreakInv
<1>2. /\ counts[c] \in Shares
      /\ counts[c].accepted + counts[c].rejected + counts[c].stale < MaxSubmits
      /\ run[c] <= counts[c].stale /\ run[c] \in Nat
  BY <1>0, <1>1 DEF ShareCounts, Counted
<1>3. PICK new : new = [counts[c] EXCEPT ![how] = @ + 1]
  OBVIOUS
<1>4. counts' = [counts EXCEPT ![c] = new]
  BY <1>0, <1>3
<1>5. /\ new \in Shares /\ new.accepted + new.rejected + new.stale <= MaxSubmits
      /\ new.stale = IF how = "stale" THEN counts[c].stale + 1 ELSE counts[c].stale
  <2>1. /\ counts[c].accepted \in Nat /\ counts[c].rejected \in Nat /\ counts[c].stale \in Nat
    BY <1>1, <1>2 DEF Shares
  <2>2. CASE how = "accepted"
    BY <1>1, <1>2, <1>3, <2>1, <2>2 DEF Shares
  <2>3. CASE how = "rejected"
    BY <1>1, <1>2, <1>3, <2>1, <2>3 DEF Shares
  <2>4. CASE how = "stale"
    BY <1>1, <1>2, <1>3, <2>1, <2>4 DEF Shares
  <2> QED BY <1>0, <2>2, <2>3, <2>4
<1>6. counts' \in [Miners -> Shares]
  BY <1>4, <1>5 DEF ShareCounts
<1>7. \A d \in Miners : d # c => counts'[d] = counts[d] /\ run'[d] = run[d]
  BY <1>0, <1>1, <1>4 DEF ShareCounts
<1>8. counts'[c] = new /\ run'[c] = more
  BY <1>0, <1>1, <1>4 DEF ShareCounts
<1>9. more <= new.stale
  <2>1. counts[c].stale \in Nat
    BY <1>1, <1>2 DEF Shares
  <2>2. CASE how = "stale"
    BY <1>0, <1>2, <1>5, <2>1, <2>2
  <2>3. CASE how # "stale"
    BY <1>0, <1>2, <1>5, <2>1, <2>3
  <2> QED BY <2>2, <2>3
<1>10. \A d \in Miners : Counted(d)' <= MaxSubmits /\ run'[d] <= counts'[d].stale
  BY <1>5, <1>7, <1>8, <1>9 DEF ShareCounts, Counted
<1>11. lastStale' \in [Miners -> 0..made']
  BY <1>0 DEF CountsShare, ShareCounts
<1> QED BY <1>6, <1>10, <1>11 DEF ShareCounts

LEMMA ShareCountsStep ==
  ASSUME WindowInv, StreakInv, ShareCounts, [KickNext]_kickVars
  PROVE  ShareCounts'
<1>0. MaxSubmits \in Nat /\ made \in Nat /\ run \in [Miners -> Nat]
  BY StaleKickAssumption DEF WindowInv, StreakInv
<1>1. ASSUME UNCHANGED <<counts, run, lastStale>>, made' = made \/ made' = made + 1
      PROVE  ShareCounts'
  <2>1. lastStale' \in [Miners -> 0..made']
    BY <1>0, <1>1 DEF ShareCounts
  <2> QED BY <1>1, <2>1 DEF ShareCounts, Counted
<1>2. ASSUME NEW isNew \in BOOLEAN, PolledJob(isNew) PROVE ShareCounts'
  BY <1>1, <1>2 DEF PolledJob, conns
<1>3. CASE Install \/ PickVictims \/ UpstreamNotify
  BY <1>1, <1>3 DEF Install, PickVictims, UpstreamNotify, conns
<1>4. CASE InstallUpstream \/ SwitchProxy
  BY <1>1, <1>4 DEF InstallUpstream, SwitchProxy
<1>5. ASSUME NEW c \in Miners, KickVictim(c) \/ KickSelf(c) \/ HangUp(c) \/ Cleanup(c)
      PROVE  ShareCounts'
  BY <1>1, <1>5 DEF KickVictim, KickSelf, HangUp, Cleanup, jobs
<1>6. ASSUME NEW c \in Miners, Connect(c) PROVE ShareCounts'
  <2>1. PICK none : none = [accepted |-> 0, rejected |-> 0, stale |-> 0]
    OBVIOUS
  <2>2. /\ lastStale' = [lastStale EXCEPT ![c] = 0] /\ counts' = [counts EXCEPT ![c] = none]
        /\ run' = [run EXCEPT ![c] = 0] /\ made' = made
    BY <1>6, <2>1 DEF Connect, jobs
  <2>3. none \in Shares /\ none.accepted = 0 /\ none.rejected = 0 /\ none.stale = 0
    BY <1>0, <2>1 DEF Shares
  <2>4. counts' \in [Miners -> Shares] /\ lastStale' \in [Miners -> 0..made']
    BY <1>0, <2>2, <2>3 DEF ShareCounts
  <2>5. ASSUME NEW d \in Miners PROVE Counted(d)' <= MaxSubmits /\ run'[d] <= counts'[d].stale
    <3>1. CASE d = c
      <4>1. counts'[d] = none /\ run'[d] = 0
        BY <1>0, <2>2, <3>1 DEF ShareCounts
      <4> QED BY <1>0, <2>3, <4>1 DEF Counted
    <3>2. CASE d # c
      <4>1. counts'[d] = counts[d] /\ run'[d] = run[d]
        BY <1>0, <2>2, <3>2 DEF ShareCounts
      <4> QED BY <4>1 DEF ShareCounts, Counted
    <3> QED BY <3>1, <3>2
  <2> QED BY <2>4, <2>5 DEF ShareCounts
<1>7. ASSUME NEW c \in Miners, NEW j \in 1..MaxJobs,
             StaleShare(c, j) \/ AcceptedShare(c, j) \/ RejectedShare(c, j)
      PROVE  ShareCounts'
  <2>1. Counted(c) < MaxSubmits /\ j \in 0..made /\ made' = made
    <3>1. Counted(c) < MaxSubmits /\ j \in 1..made /\ UNCHANGED jobs
      BY <1>7 DEF StaleShare, AcceptedShare, RejectedShare, Submits
    <3> QED BY <1>0, <3>1 DEF jobs
  <2>2. run[c] \in Nat /\ 0 \in 0..made /\ run = [run EXCEPT ![c] = run[c]]
    BY <1>0
  <2>3. CASE StaleShare(c, j)
    <3>1. /\ counts' = [counts EXCEPT ![c]["stale"] = @ + 1]
          /\ run' = [run EXCEPT ![c] = run[c] + 1] /\ lastStale' = [lastStale EXCEPT ![c] = j]
      BY <2>3 DEF StaleShare
    <3>2. run[c] + 1 \in Nat /\ run[c] + 1 <= run[c] + 1
      BY <2>2
    <3>3. CountsShare(c, "stale", run[c] + 1)
      BY <2>1, <3>1, <3>2 DEF CountsShare
    <3> QED BY <3>3, ShareCounted
  <2>4. CASE AcceptedShare(c, j)
    <3>1. /\ counts' = [counts EXCEPT ![c]["accepted"] = @ + 1]
          /\ run' = [run EXCEPT ![c] = 0] /\ lastStale' = lastStale
      BY <2>4 DEF AcceptedShare
    <3>2. 0 \in Nat /\ 0 <= run[c]
      BY <1>0, <2>2
    <3>3. CountsShare(c, "accepted", 0)
      BY <2>1, <3>1, <3>2 DEF CountsShare
    <3> QED BY <3>3, ShareCounted
  <2>5. CASE RejectedShare(c, j)
    <3>1. counts' = [counts EXCEPT ![c]["rejected"] = @ + 1]
      BY <2>5 DEF RejectedShare
    <3>2. run' = run /\ lastStale' = lastStale
      BY <2>5 DEF RejectedShare
    <3>3. run' = [run EXCEPT ![c] = run[c]] /\ run[c] <= run[c]
      BY <2>2, <3>2
    <3>4. CountsShare(c, "rejected", run[c])
      BY <2>1, <2>2, <3>1, <3>2, <3>3 DEF CountsShare
    <3> QED BY <3>4, ShareCounted
  <2> QED BY <1>7, <2>3, <2>4, <2>5
<1>8. CASE UNCHANGED kickVars
  BY <1>1, <1>8 DEF kickVars, conns, jobs
<1> QED BY <1>2, <1>3, <1>4, <1>5, <1>6, <1>7, <1>8 DEF KickNext

LEMMA KickCountsStep ==
  ASSUME KickCounts, [KickNext]_kickVars
  PROVE  KickCounts'
<1>0. MaxSessions \in Nat /\ \A c \in Miners : Owner[c] \in Names
  BY StaleKickAssumption DEF Names
<1>1. ASSUME UNCHANGED <<victims, sessions, kicks>> PROVE KickCounts'
  BY <1>1 DEF KickCounts, kicks
<1>2. ASSUME NEW isNew \in BOOLEAN, PolledJob(isNew) PROVE KickCounts'
  BY <1>1, <1>2 DEF PolledJob, conns
<1>3. CASE Install \/ UpstreamNotify \/ InstallUpstream \/ SwitchProxy
  BY <1>1, <1>3 DEF Install, UpstreamNotify, InstallUpstream, SwitchProxy, conns
<1>4. CASE PickVictims
  BY <1>4 DEF PickVictims, KickCounts, kicks, conns
<1>5. ASSUME NEW c \in Miners, RecordKick(c), victims' \subseteq victims, sessions' = sessions
      PROVE  KickCounts'
  <2>1. PICK n \in Names : n = Owner[c]
    BY <1>0
  <2>2. PICK k : k = IF line[c] = "open" THEN kicked[n] + 1 ELSE kicked[n]
    OBVIOUS
  <2>3. /\ kickTimes' = [kickTimes EXCEPT ![n] = kickTimes[n] + 1]
        /\ alerted' = alerted \cup {n} \/ alerted' = alerted
    BY <1>5, <2>1 DEF RecordKick
  <2>4. kicked' = [kicked EXCEPT ![n] = k]
    BY <1>5, <2>1, <2>2 DEF RecordKick
  <2>5. kickTimes[n] + 1 \in Nat /\ k \in Nat
    <3>1. kickTimes[n] \in Nat /\ kicked[n] \in Nat
      BY DEF KickCounts
    <3> QED BY <2>2, <3>1
  <2> QED BY <1>5, <2>3, <2>4, <2>5 DEF KickCounts
<1>6. ASSUME NEW c \in Miners, KickVictim(c) \/ KickSelf(c) PROVE KickCounts'
  BY <1>5, <1>6 DEF KickVictim, KickSelf
<1>7. ASSUME NEW c \in Miners, Connect(c) PROVE KickCounts'
  BY <1>0, <1>7 DEF Connect, KickCounts, kicks
<1>8. ASSUME NEW c \in Miners, HangUp(c) PROVE KickCounts'
  BY <1>1, <1>8 DEF HangUp
<1>9. ASSUME NEW c \in Miners, Cleanup(c) PROVE KickCounts'
  BY <1>0, <1>9 DEF Cleanup, KickCounts
<1>10. ASSUME NEW c \in Miners, NEW j \in 1..MaxJobs,
              StaleShare(c, j) \/ AcceptedShare(c, j) \/ RejectedShare(c, j)
       PROVE  KickCounts'
  BY <1>1, <1>10 DEF StaleShare, AcceptedShare, RejectedShare, Submits
<1>11. CASE UNCHANGED kickVars
  BY <1>1, <1>11 DEF kickVars, conns
<1> QED BY <1>2, <1>3, <1>4, <1>6, <1>7, <1>8, <1>9, <1>10, <1>11 DEF KickNext

\* The figures of the window, the miners and the kicks have their types; the window has no
\* more than RecentMax jobs, or one more once the upstream pool has sent any.
THEOREM KickTypes == KickSpec => []StaleKickTypeOK
<1>1. KickInit => StreakInv
  BY StaleKickAssumption DEF KickInit, StreakInv, StreaksAreEarned
<1>2. KickInit => ShareCounts /\ KickCounts
  <2> SUFFICES ASSUME KickInit PROVE ShareCounts /\ KickCounts
    OBVIOUS
  <2>1. PICK none : none = [accepted |-> 0, rejected |-> 0, stale |-> 0]
    OBVIOUS
  <2>2. MaxSubmits \in Nat /\ MaxSessions \in Nat
    BY StaleKickAssumption
  <2>3. none \in Shares /\ none.accepted = 0 /\ none.rejected = 0 /\ none.stale = 0
    BY <2>1, <2>2 DEF Shares
  <2>4. /\ counts = [c \in Miners |-> none] /\ lastStale = [c \in Miners |-> 0] /\ made = 0
        /\ run = [c \in Miners |-> 0]
    BY <2>1 DEF KickInit
  <2>5. ShareCounts
    BY <2>2, <2>3, <2>4 DEF ShareCounts, Counted
  <2> QED BY <2>2, <2>5 DEF KickInit, KickCounts
<1>3. WindowInv /\ StreakInv /\ ShareCounts /\ KickCounts => StaleKickTypeOK
  <2> SUFFICES ASSUME WindowInv, StreakInv, ShareCounts, KickCounts PROVE StaleKickTypeOK
    OBVIOUS
  <2>1. \A c \in Miners : streak[c] \in 0..MaxSubmits /\ run[c] \in 0..MaxSubmits
    <3> TAKE c \in Miners
    <3>1. MaxSubmits \in Nat /\ streak[c] \in Nat /\ run[c] \in Nat /\ streak[c] <= run[c]
      BY StaleKickAssumption DEF StreakInv, StreaksAreEarned
    <3>2. run[c] <= counts[c].stale /\ counts[c] \in Shares
      BY DEF ShareCounts
    <3>3. counts[c].stale \in 0..MaxSubmits
      BY <3>2 DEF Shares
    <3> QED BY <3>1, <3>2, <3>3
  <2>2. streak \in [Miners -> 0..MaxSubmits] /\ run \in [Miners -> 0..MaxSubmits]
    BY <2>1 DEF StreakInv
  <2>3. line \in [Miners -> {"gone", "open", "closed"}] /\ leaving \subseteq Miners
    BY DEF StreakInv
  <2>4. /\ made \in 0..MaxJobs /\ {building, relaying, currentJob} \subseteq 0..made
        /\ {clean, notice, proxying, relayed} \subseteq BOOLEAN /\ recentJobs \subseteq 1..made
        /\ Cardinality(recentJobs) <= RecentMax + (IF relayed THEN 1 ELSE 0)
    BY DEF WindowInv
  <2> QED BY <2>2, <2>3, <2>4 DEF ShareCounts, Shares, KickCounts, StaleKickTypeOK
<1> QED BY <1>1, <1>2, <1>3, WindowInit, WindowStep, StreakStep, ShareCountsStep,
           KickCountsStep, PTL DEF KickSpec
-----------------------------------------------------------------------------
(* Merge.                                                                  *)

\* What goroutines hold: the works of a job, and proofs of what its block commits to.
Works == [Kids -> Nat]
Committed(p) == p.place \in DOMAIN p.commits /\ p.commits[p.place] = p.work

CommittedInv ==
  /\ auxTip \in Works /\ lastWork \in Works /\ mergeJob.works \in Works
  /\ \A s \in solves : s.job.works \in Works
  /\ \A p \in proofs : Committed(p)
  /\ "not committed" \notin refused

\* The place of a chain with a work is one of the commitment, and holds that work.
LEMMA PlaceIsCommitted ==
  ASSUME NEW works \in Works, NEW c \in Kids, works[c] > 0,
         NEW i, i = CHOOSE k \in DOMAIN Chosen(works) : Chosen(works)[k] = c
  PROVE  i \in DOMAIN Commitment(works) /\ Commitment(works)[i] = works[c]
<1> DEFINE P == {k \in DOMAIN Children : works[Children[k]] > 0}
<1>1. Children \in Seq(Kids) /\ P \in SUBSET DOMAIN Children
  BY MergeAssumption
<1>2. PICK e : e = ElementsAt(Children, P)
  OBVIOUS
<1>3. /\ e \in Seq(Kids) /\ Len(e) \in Nat
      /\ \E f : Picks(f, e, Children, P)
  BY <1>1, <1>2, ElementsAtPlaces
<1>4. Chosen(works) = e /\ DOMAIN e = 1..Len(e)
  BY <1>2, <1>3, LenProperties DEF Chosen
<1>5. PICK k \in DOMAIN Children : Children[k] = c
  BY DEF Kids
<1>6. k \in P
  BY <1>5
<1>7. \E l \in DOMAIN e : e[l] = c
  <2>1. PICK f : Picks(f, e, Children, P)
    BY <1>3
  <2>2. PICK l \in 1..Len(e) : f[l] = k
    BY <1>6, <2>1 DEF Picks
  <2>3. e[l] = Children[k]
    BY <2>1, <2>2 DEF Picks
  <2> QED BY <1>4, <1>5, <2>2, <2>3
<1>8. i \in DOMAIN e /\ e[i] = c
  BY <1>4, <1>7
<1> HIDE DEF P
<1> QED BY <1>4, <1>8 DEF Commitment

LEMMA ProvenIsCommitted ==
  ASSUME NEW s, s.job.works \in Works, NEW p \in Proven(s)
  PROVE  Committed(p)
<1>1. PICK c \in {d \in MergeChildren(CoinLoop[loopCoin]) : s.job.works[d] > 0} :
        p = [chain |-> c, work |-> s.job.works[c],
             place |-> CHOOSE i \in DOMAIN Chosen(s.job.works) : Chosen(s.job.works)[i] = c,
             commits |-> Commitment(s.job.works), meets |-> c \in s.meets, nr |-> s.nr]
  BY DEF Proven
<1>2. c \in Kids /\ s.job.works[c] > 0
  BY <1>1 DEF MergeChildren
<1>3. /\ p.work = s.job.works[c] /\ p.commits = Commitment(s.job.works)
      /\ p.place = CHOOSE i \in DOMAIN Chosen(s.job.works) : Chosen(s.job.works)[i] = c
  BY <1>1
<1>4. p.place \in DOMAIN Commitment(s.job.works)
      /\ Commitment(s.job.works)[p.place] = s.job.works[c]
  BY <1>2, <1>3, PlaceIsCommitted
<1> QED BY <1>3, <1>4 DEF Committed

LEMMA CommittedStep ==
  ASSUME CommittedInv, [MergeNext]_mergeVars
  PROVE  CommittedInv'
<1>1. ASSUME NEW c \in Kids, AuxBlock(c) PROVE CommittedInv'
  <2>1. /\ auxTip' = [auxTip EXCEPT ![c] = @ + 1]
        /\ UNCHANGED <<lastWork, mergeJob, solves, proofs, refused>>
    BY <1>1 DEF AuxBlock
  <2>2. auxTip' \in Works
    <3>1. auxTip \in [Kids -> Nat]
      BY DEF CommittedInv, Works
    <3>2. auxTip[c] + 1 \in Nat
      BY <3>1
    <3> QED BY <2>1, <3>1, <3>2 DEF Works
  <2> QED BY <2>1, <2>2 DEF CommittedInv
<1>2. ASSUME NEW c \in Kids, PollAux(c) PROVE CommittedInv'
  <2>1. auxTip[c] \in Nat
    BY DEF CommittedInv, Works
  <2> QED BY <1>2, <2>1 DEF PollAux, CommittedInv, Works
<1>3. CASE NewParentJob
  BY <1>3 DEF NewParentJob, CommittedInv
<1>4. CASE NextCoin
  BY <1>4 DEF NextCoin, CommittedInv
<1>5. ASSUME NEW meets \in SUBSET Kids, NEW isBlock \in BOOLEAN, Solves(meets, isBlock)
      PROVE  CommittedInv'
  <2>1. \A s \in solves' : s \in solves \/ s.job = mergeJob
    BY <1>5 DEF Solves
  <2> QED BY <1>5, <2>1 DEF Solves, CommittedInv
<1>6. ASSUME NEW s \in solves, NEW accepted \in BOOLEAN, SubmitParent(s, accepted)
      PROVE  CommittedInv'
  <2>1. s.job.works \in Works
    BY DEF CommittedInv
  <2>2. \A p \in Proven(s) : Committed(p)
    BY <2>1, ProvenIsCommitted
  <2>3. /\ solves' \subseteq solves /\ proofs' \subseteq proofs \cup Proven(s)
        /\ UNCHANGED <<auxTip, lastWork, mergeJob, refused>>
    BY <1>6 DEF SubmitParent
  <2> QED BY <2>2, <2>3 DEF CommittedInv
<1>7. ASSUME NEW p \in proofs, NEW answered \in BOOLEAN, SubmitAux(p, answered)
      PROVE  CommittedInv'
  <2>1. Reason(p) # "not committed"
    BY DEF Reason, CommittedInv, Committed
  <2>2. /\ proofs' \subseteq proofs /\ refused' \subseteq refused \cup {Reason(p)}
        /\ UNCHANGED <<auxTip, lastWork, mergeJob, solves>>
    BY <1>7 DEF SubmitAux
  <2> QED BY <2>1, <2>2 DEF CommittedInv
<1>8. CASE UNCHANGED mergeVars
  BY <1>8 DEF mergeVars, CommittedInv
<1> QED BY <1>1, <1>2, <1>3, <1>4, <1>5, <1>6, <1>7, <1>8 DEF MergeNext

\* Every proof is for what its block commits to, at the place it has there, however the
\* works have changed meanwhile: no daemon refuses one for that.
THEOREM ProofsMatchTheirBlock == MergeSpec => []ProofsAreCommitted
<1>1. MergeInit => CommittedInv
  BY DEF MergeInit, CommittedInv, Works
<1>2. CommittedInv => ProofsAreCommitted
  BY DEF CommittedInv, Committed, ProofsAreCommitted, Reason
<1> QED BY <1>1, <1>2, CommittedStep, PTL DEF MergeSpec

\* A goroutine for each share that solves the parent, at most.
MergeInv == MergeTypeOK /\ IsFiniteSet(solves) /\ Cardinality(solves) <= solved

LEMMA MergeStep ==
  ASSUME MergeInv, [MergeNext]_mergeVars
  PROVE  MergeInv'
<1>0. /\ MaxWorks \in Nat \ {0} /\ MaxParents \in Nat \ {0} /\ MaxSolves \in Nat \ {0}
      /\ Cardinality(solves) \in Nat /\ solved \in 0..MaxSolves
  BY MergeAssumption, FS_CardinalityType DEF MergeInv, MergeTypeOK
<1>1. ASSUME NEW c \in Kids, AuxBlock(c) PROVE MergeInv'
  <2>1. /\ auxTip[c] < MaxWorks /\ auxTip' = [auxTip EXCEPT ![c] = @ + 1]
        /\ UNCHANGED <<loopCoin, lastWork, mergeJob, solves, solved>>
    BY <1>1 DEF AuxBlock
  <2>2. auxTip' \in [Kids -> 1..MaxWorks]
    <3>1. auxTip \in [Kids -> 1..MaxWorks] /\ auxTip[c] + 1 \in 1..MaxWorks
      BY <1>0, <2>1 DEF MergeInv, MergeTypeOK
    <3> QED BY <2>1, <3>1
  <2> QED BY <2>1, <2>2 DEF MergeInv, MergeTypeOK
<1>2. ASSUME NEW c \in Kids, PollAux(c) PROVE MergeInv'
  <2>1. /\ lastWork' = [lastWork EXCEPT ![c] = auxTip[c]]
        /\ UNCHANGED <<loopCoin, auxTip, mergeJob, solves, solved>>
    BY <1>2 DEF PollAux
  <2>2. lastWork' \in [Kids -> 0..MaxWorks]
    <3>1. lastWork \in [Kids -> 0..MaxWorks] /\ auxTip[c] \in 0..MaxWorks
      BY <1>0 DEF MergeInv, MergeTypeOK
    <3> QED BY <2>1, <3>1
  <2> QED BY <2>1, <2>2 DEF MergeInv, MergeTypeOK
<1>3. CASE NewParentJob
  <2>1. /\ mergeJob.id < MaxParents
        /\ mergeJob' = [id |-> mergeJob.id + 1, works |-> lastWork]
        /\ UNCHANGED <<loopCoin, auxTip, lastWork, solves, solved>>
    BY <1>3 DEF NewParentJob
  <2>2. mergeJob'.id = mergeJob.id + 1 /\ mergeJob'.works = lastWork
    BY <2>1
  <2>3. mergeJob.id + 1 \in 0..MaxParents
    BY <1>0, <2>1 DEF MergeInv, MergeTypeOK
  <2> QED BY <2>1, <2>2, <2>3 DEF MergeInv, MergeTypeOK
<1>4. CASE NextCoin
  <2>1. /\ loopCoin < Len(CoinLoop) /\ loopCoin' = loopCoin + 1
        /\ UNCHANGED <<auxTip, lastWork, mergeJob, solves, solved>>
    BY <1>4 DEF NextCoin
  <2>2. loopCoin' \in DOMAIN CoinLoop
    BY <2>1, MergeAssumption, LenProperties DEF MergeInv, MergeTypeOK
  <2> QED BY <2>1, <2>2 DEF MergeInv, MergeTypeOK
<1>5. ASSUME NEW meets \in SUBSET Kids, NEW isBlock \in BOOLEAN, Solves(meets, isBlock)
      PROVE  MergeInv'
  <2>1. /\ solved < MaxSolves /\ solved' = solved + 1
        /\ UNCHANGED <<loopCoin, auxTip, lastWork, mergeJob>>
    BY <1>5 DEF Solves
  <2>2. PICK s : s = [job |-> mergeJob, meets |-> meets, nr |-> solved]
    OBVIOUS
  <2>3. solves' = solves \/ solves' = solves \cup {s}
    BY <1>5, <2>2 DEF Solves
  <2>4. IsFiniteSet(solves \cup {s}) /\ Cardinality(solves \cup {s}) <= Cardinality(solves) + 1
    <3>1. IsFiniteSet(solves)
      BY DEF MergeInv
    <3>2. /\ IsFiniteSet(solves \cup {s})
          /\ Cardinality(solves \cup {s}) = IF s \in solves THEN Cardinality(solves)
                                            ELSE Cardinality(solves) + 1
      BY <3>1, FS_AddElement
    <3> QED BY <1>0, <3>2
  <2>5. IsFiniteSet(solves') /\ Cardinality(solves') <= solved'
    <3>1. IsFiniteSet(solves) /\ Cardinality(solves) <= solved
      BY DEF MergeInv
    <3>2. Cardinality(solves \cup {s}) \in Nat
      BY <2>4, FS_CardinalityType
    <3>3. IsFiniteSet(solves')
      BY <2>3, <2>4, <3>1
    <3>4. CASE solves' = solves
      BY <1>0, <2>1, <3>1, <3>3, <3>4
    <3>5. CASE solves' = solves \cup {s}
      BY <1>0, <2>1, <2>4, <3>1, <3>2, <3>3, <3>5
    <3> QED BY <2>3, <3>4, <3>5
  <2>6. solved' \in 0..MaxSolves
    BY <1>0, <2>1
  <2>7. Cardinality(solves') \in Nat
    BY <2>5, FS_CardinalityType
  <2> QED BY <1>0, <2>1, <2>5, <2>6, <2>7 DEF MergeInv, MergeTypeOK
<1>6. ASSUME NEW s \in solves, NEW accepted \in BOOLEAN, SubmitParent(s, accepted)
      PROVE  MergeInv'
  <2>1. solves' = solves \ {s} /\ UNCHANGED <<loopCoin, auxTip, lastWork, mergeJob, solved>>
    BY <1>6 DEF SubmitParent
  <2>2. IsFiniteSet(solves \ {s}) /\ Cardinality(solves \ {s}) = Cardinality(solves) - 1
    BY FS_RemoveElement DEF MergeInv
  <2> QED BY <1>0, <2>1, <2>2 DEF MergeInv, MergeTypeOK
<1>7. ASSUME NEW p \in proofs, NEW answered \in BOOLEAN, SubmitAux(p, answered)
      PROVE  MergeInv'
  BY <1>7 DEF SubmitAux, MergeInv, MergeTypeOK
<1>8. CASE UNCHANGED mergeVars
  BY <1>8 DEF mergeVars, MergeInv, MergeTypeOK
<1> QED BY <1>1, <1>2, <1>3, <1>4, <1>5, <1>6, <1>7, <1>8 DEF MergeNext

\* Works, jobs and their numbers have their types, and there are no more goroutines with a
\* block than shares that solved one.
THEOREM MergeTypes == MergeSpec => []MergeTypeOK
<1>1. MergeInit => MergeInv
  <2> SUFFICES ASSUME MergeInit PROVE MergeInv
    OBVIOUS
  <2>1. /\ loopCoin = 1 /\ auxTip = [c \in Kids |-> 1] /\ lastWork = [c \in Kids |-> 0]
        /\ mergeJob.id = 0 /\ mergeJob.works = [c \in Kids |-> 0] /\ solves = {} /\ solved = 0
    BY DEF MergeInit
  <2>2. IsFiniteSet(solves) /\ Cardinality(solves) = 0
    BY <2>1, FS_EmptySet
  <2>3. MaxWorks \in Nat \ {0} /\ MaxParents \in Nat /\ MaxSolves \in Nat
    BY MergeAssumption
  <2>4. 1 \in DOMAIN CoinLoop
    BY MergeAssumption, LenProperties
  <2> QED BY <2>1, <2>2, <2>3, <2>4 DEF MergeInv, MergeTypeOK
<1>2. MergeInv => MergeTypeOK
  BY DEF MergeInv
<1> QED BY <1>1, <1>2, MergeStep, PTL DEF MergeSpec
-----------------------------------------------------------------------------
(* Guardian.                                                               *)

GuardFields == {"cooldown", "eventLog", "eventIdx", "tempHistory", "hrHistory", "early",
                "wanted", "alerts", "emitted"}

\* The slot that is i back from the one to be written next.
Back(g, i) == g.eventLog[(g.eventIdx - i + RingCap) % RingCap]

\* The ring holds the newest of these events, and nothing else.
Shows(g, all) ==
  \A i \in 1..RingCap : Back(g, i) = IF i <= Len(all) THEN all[i] ELSE NoEvent

\* A rule whose time has just begun has recorded, and what was found wrong is recorded in
\* time.
Recorded(g) ==
  \A r \in Rules : g.cooldown[r] = 0 => \E i \in DOMAIN g.emitted : g.emitted[i] = r
InTime(g) == \A want \in g.wanted : g.cooldown[want[1]] <= Ticks[want[2]]

\* The last temperatures that were read.
Readings(g) ==
  g.tempHistory \in Seq({o.temp : o \in Observations}) /\ Len(g.tempHistory) <= TrendOver

GuardOK(g) ==
  /\ DOMAIN g = GuardFields
  /\ g.cooldown \in [Rules -> 0..Horizon]
  /\ g.eventLog \in [0..(RingCap - 1) -> Rules \cup {NoEvent}] /\ g.eventIdx \in Nat
  /\ g.wanted \subseteq Rules \X DOMAIN Ticks
  /\ g.alerts \in Seq(Titles) /\ g.emitted \in Seq(Rules)
  /\ Readings(g)

\* The guardian within a tick, after the events l of the ticks before.
Watchful(g, l) == GuardOK(g) /\ Recorded(g) /\ InTime(g) /\ Shows(g, g.emitted \o l)

LEMMA GuardianBounds ==
  /\ RingCap \in Nat \ {0} /\ Horizon \in Nat /\ 3 <= Horizon /\ TrendOver \in Nat \ {0}
  /\ DOMAIN Ticks = {2, 5, 10, 15, 30}
  /\ \A m \in DOMAIN Ticks : Ticks[m] \in Nat /\ 0 < Ticks[m] /\ Ticks[m] < Horizon
  /\ MaxTicks \in Nat
<1>1. 2 \in DOMAIN Ticks
  BY GuardianAssumption
<1>2. Ticks[2] \in 1..(Horizon - 2) /\ Horizon \in Nat
  BY <1>1, GuardianAssumption
<1> QED BY <1>2, GuardianAssumption
-----------------------------------------------------------------------------
\* What the ring holds after one more event.
LEMMA ShowsOneMore ==
  ASSUME NEW g, NEW h, GuardOK(g), NEW rule \in Rules, NEW all \in Seq(Rules), Shows(g, all),
         NEW more \in Seq(Rules), more = <<rule>> \o all,
         h.eventLog = [g.eventLog EXCEPT ![g.eventIdx % RingCap] = rule],
         h.eventIdx = g.eventIdx + 1
  PROVE  Shows(h, more)
<1>1. PICK e \in Nat, n \in Nat \ {0} : e = g.eventIdx /\ n = RingCap
  BY GuardianBounds DEF GuardOK
<1>2. PICK ring, next : ring = g.eventLog /\ next = h.eventLog
  OBVIOUS
<1>3. /\ ring \in [0..(n - 1) -> Rules \cup {NoEvent}]
      /\ next = [ring EXCEPT ![e % n] = rule]
      /\ \A i \in 1..n : ring[(e - i + n) % n] = IF i <= Len(all) THEN all[i] ELSE NoEvent
  BY <1>1, <1>2 DEF GuardOK, Shows, Back
<1>4. /\ Len(all) \in Nat /\ Len(more) = Len(all) + 1 /\ more[1] = rule
      /\ \A i \in 1..Len(all) : more[i + 1] = all[i]
  <2>1. Len(all) \in Nat /\ Len(<<rule>>) = 1 /\ <<rule>>[1] = rule /\ <<rule>> \in Seq(Rules)
    BY LenProperties
  <2>2. Len(more) = 1 + Len(all)
    BY <2>1, ConcatProperties
  <2>3. \A i \in 1..Len(more) : more[i] = IF i <= 1 THEN <<rule>>[i] ELSE all[i - 1]
    BY <2>1, <2>2, ConcatProperties
  <2> QED BY <2>1, <2>2, <2>3
<1>5. e % n \in 0..(n - 1)
  BY Division
<1>6. ASSUME NEW i \in 1..n
      PROVE  next[(e + 1 - i + n) % n] = IF i <= Len(more) THEN more[i] ELSE NoEvent
  <2>1. CASE i = 1
    <3>0. e + 1 - i + n = e + n
      BY <2>1
    <3>1. (e + n) % n = e % n
      BY RemainderOfMore
    <3>2. next[e % n] = rule
      BY <1>3, <1>5
    <3> QED BY <1>4, <2>1, <3>0, <3>1, <3>2
  <2>2. CASE i # 1
    <3>1. PICK k \in 1..n : i = k + 1 /\ k < n
      BY <2>2
    <3>2. e + 1 - i + n = e - k + n /\ e - k + n \in Nat /\ e + n \in Nat
      BY <3>1
    <3>3. (e - k + n) % n # (e + n) % n
      <4>1. e - k + n < e + n /\ e + n < (e - k + n) + n
        BY <3>1
      <4> QED BY <3>2, <4>1, RemaindersApart
    <3>4. (e - k + n) % n \in 0..(n - 1) /\ (e - k + n) % n # e % n
      BY <3>2, <3>3, RemainderOfMore, Division
    <3>5. next[(e - k + n) % n] = ring[(e - k + n) % n]
      BY <1>3, <3>4
    <3>6. ring[(e - k + n) % n] = IF k <= Len(all) THEN all[k] ELSE NoEvent
      BY <1>3
    <3>7. i <= Len(more) <=> k <= Len(all)
      BY <1>4, <3>1
    <3>8. k <= Len(all) => more[i] = all[k]
      BY <1>4, <3>1
    <3> QED BY <3>2, <3>5, <3>6, <3>7, <3>8
  <2> QED BY <2>1, <2>2
<1>7. \A i \in 1..n : Back(h, i) = next[(e + 1 - i + n) % n]
  BY <1>1, <1>2 DEF Back
<1> QED BY <1>1, <1>6, <1>7 DEF Shows
-----------------------------------------------------------------------------
(* What each rule does to the guardian.                                    *)

\* An event is recorded, whether or not the rule's time begins with it.
Records(g, h, rule) ==
  /\ DOMAIN h = GuardFields /\ h.alerts = g.alerts /\ h.tempHistory = g.tempHistory
  /\ h.emitted = <<rule>> \o g.emitted /\ h.eventIdx = g.eventIdx + 1
  /\ h.eventLog = [g.eventLog EXCEPT ![g.eventIdx % RingCap] = rule]
  /\ h.cooldown \in {g.cooldown, [g.cooldown EXCEPT ![rule] = 0]}
  /\ \/ h.wanted = g.wanted
     \/ /\ \E m \in DOMAIN Ticks : h.wanted = g.wanted \cup {<<rule, m>>}
        /\ h.cooldown[rule] = 0

\* Nothing is recorded, and nothing new is found wrong whose time is over.
Passes(g, h) ==
  /\ DOMAIN h = GuardFields /\ h.alerts \in Seq(Titles) /\ Readings(h)
  /\ h.emitted = g.emitted /\ h.eventIdx = g.eventIdx /\ h.eventLog = g.eventLog
  /\ h.cooldown = g.cooldown
  /\ \A want \in h.wanted \ g.wanted :
       want \in Rules \X DOMAIN Ticks /\ g.cooldown[want[1]] <= Ticks[want[2]]

LEMMA RecordsKeeps ==
  ASSUME NEW g, NEW h, NEW l \in Seq(Rules), NEW rule \in Rules,
         Watchful(g, l), Records(g, h, rule)
  PROVE  Watchful(h, l)
<1>1. GuardOK(g) /\ Recorded(g) /\ InTime(g) /\ Shows(g, g.emitted \o l)
  BY DEF Watchful
<1>2. PICK old, new : old = g.emitted /\ new = h.emitted
  OBVIOUS
<1>3. /\ old \in Seq(Rules) /\ new = <<rule>> \o old /\ <<rule>> \in Seq(Rules)
      /\ Len(<<rule>>) = 1 /\ <<rule>>[1] = rule
  BY <1>1, <1>2 DEF GuardOK, Records
<1>4. /\ new \in Seq(Rules) /\ new \o l = <<rule>> \o (old \o l)
      /\ old \o l \in Seq(Rules) /\ new \o l \in Seq(Rules)
  <2>1. new \in Seq(Rules) /\ old \o l \in Seq(Rules)
    BY <1>3, ConcatProperties
  <2>2. new \o l \in Seq(Rules)
    BY <2>1, ConcatProperties
  <2>3. (<<rule>> \o old) \o l = <<rule>> \o (old \o l)
    BY <1>3, ConcatAssociative
  <2> QED BY <1>3, <2>1, <2>2, <2>3
<1>5. /\ Len(old) \in Nat /\ DOMAIN old = 1..Len(old) /\ DOMAIN new = 1..(Len(old) + 1)
      /\ new[1] = rule /\ \A i \in DOMAIN old : new[i + 1] = old[i]
  <2>1. Len(old) \in Nat /\ DOMAIN old = 1..Len(old)
    BY <1>3, LenProperties
  <2>2. Len(new) = 1 + Len(old)
    BY <1>3, ConcatProperties
  <2>3. \A i \in 1..Len(new) : new[i] = IF i <= 1 THEN <<rule>>[i] ELSE old[i - 1]
    BY <1>3, <2>1, <2>2, ConcatProperties
  <2>4. DOMAIN new = 1..Len(new)
    BY <1>4, LenProperties
  <2> QED BY <1>3, <2>1, <2>2, <2>3, <2>4
<1>6. Shows(h, new \o l)
  BY <1>1, <1>2, <1>4, ShowsOneMore DEF Records
<1>7. /\ h.cooldown \in [Rules -> 0..Horizon]
      /\ \A r \in Rules : h.cooldown[r] = 0 \/ h.cooldown[r] = g.cooldown[r]
      /\ \A r \in Rules \ {rule} : h.cooldown[r] = g.cooldown[r]
  <2>1. PICK c, d : c = g.cooldown /\ d = h.cooldown
    OBVIOUS
  <2>2. c \in [Rules -> 0..Horizon] /\ (d = c \/ d = [c EXCEPT ![rule] = 0])
    BY <1>1, <2>1 DEF GuardOK, Records
  <2>3. 0 \in 0..Horizon
    BY GuardianBounds
  <2>4. d \in [Rules -> 0..Horizon]
    BY <2>2, <2>3
  <2>5. \A r \in Rules : (d[r] = 0 \/ d[r] = c[r]) /\ (r # rule => d[r] = c[r])
    BY <2>2
  <2> QED BY <2>1, <2>4, <2>5
<1>8. GuardOK(h)
  <2>1. h.eventLog \in [0..(RingCap - 1) -> Rules \cup {NoEvent}]
    BY <1>1 DEF GuardOK, Records
  <2>2. h.eventIdx \in Nat
    BY <1>1 DEF GuardOK, Records
  <2>3. h.wanted \subseteq Rules \X DOMAIN Ticks
    BY <1>1 DEF GuardOK, Records
  <2>4. Readings(h)
    BY <1>1 DEF GuardOK, Readings, Records
  <2> QED BY <1>1, <1>2, <1>4, <1>7, <2>1, <2>2, <2>3, <2>4 DEF GuardOK, Records
<1>9. Recorded(h)
  <2> SUFFICES ASSUME NEW r \in Rules, h.cooldown[r] = 0
               PROVE  \E i \in DOMAIN new : new[i] = r
    BY <1>2 DEF Recorded
  <2>1. CASE r = rule
    <3>1. 1 \in DOMAIN new
      BY <1>5
    <3> QED BY <1>5, <2>1, <3>1
  <2>2. CASE r # rule
    <3>1. PICK i \in DOMAIN old : old[i] = r
      BY <1>1, <1>2, <1>7, <2>2 DEF Recorded
    <3>2. i + 1 \in DOMAIN new /\ new[i + 1] = r
      BY <1>5, <3>1
    <3> QED BY <3>2
  <2> QED BY <2>1, <2>2
<1>10. InTime(h)
  <2> SUFFICES ASSUME NEW want \in h.wanted PROVE h.cooldown[want[1]] <= Ticks[want[2]]
    BY DEF InTime
  <2>1. want[1] \in Rules /\ want[2] \in DOMAIN Ticks
    BY <1>8 DEF GuardOK
  <2>2. Ticks[want[2]] \in Nat
    BY <2>1, GuardianBounds
  <2>3. want \in g.wanted => g.cooldown[want[1]] <= Ticks[want[2]]
    BY <1>1 DEF InTime
  <2>4. want \in g.wanted \/ h.cooldown[want[1]] = 0
    BY DEF Records
  <2>5. h.cooldown[want[1]] = 0 \/ h.cooldown[want[1]] = g.cooldown[want[1]]
    BY <1>7, <2>1
  <2> QED BY <2>2, <2>3, <2>4, <2>5
<1> QED BY <1>2, <1>6, <1>8, <1>9, <1>10 DEF Watchful

LEMMA PassesKeeps ==
  ASSUME NEW g, NEW h, NEW l, Watchful(g, l), Passes(g, h)
  PROVE  Watchful(h, l)
<1>1. GuardOK(g) /\ Recorded(g) /\ InTime(g) /\ Shows(g, g.emitted \o l)
  BY DEF Watchful
<1>2. GuardOK(h)
  BY <1>1 DEF GuardOK, Passes
<1>3. Recorded(h)
  BY <1>1 DEF Recorded, Passes
<1>4. InTime(h)
  BY <1>1 DEF InTime, Passes
<1>5. Shows(h, h.emitted \o l)
  BY <1>1 DEF Shows, Back, Passes
<1> QED BY <1>2, <1>3, <1>4, <1>5 DEF Watchful

\* A time that is not over is no longer than the rule's.
LEMMA NotOver ==
  ASSUME NEW age \in Nat, NEW m \in DOMAIN Ticks, NEW early, ~Over(age, m, early)
  PROVE  age <= Ticks[m]
BY GuardianBounds DEF Over

LEMMA EmitRecords ==
  ASSUME NEW g, GuardOK(g), NEW rule \in Rules
  PROVE  Records(g, Emit(g, rule), rule)
BY DEF Emit, Records, GuardOK, GuardFields

LEMMA EmitKeeps ==
  ASSUME NEW g, NEW l \in Seq(Rules), Watchful(g, l), NEW rule \in Rules
  PROVE  Watchful(Emit(g, rule), l)
BY EmitRecords, RecordsKeeps DEF Watchful

LEMMA AlertKeeps ==
  ASSUME NEW g, NEW l \in Seq(Rules), Watchful(g, l), NEW title \in Titles
  PROVE  Watchful(Alert(g, title), l)
<1>1. g.alerts \in Seq(Titles) /\ DOMAIN g = GuardFields
  BY DEF Watchful, GuardOK
<1>2. Append(g.alerts, title) \in Seq(Titles)
  BY <1>1, AppendProperties
<1>3. Alert(g, title).tempHistory = g.tempHistory
  BY <1>1 DEF Alert, GuardFields
<1>4. Readings(Alert(g, title))
  BY <1>3 DEF Readings, Watchful, GuardOK
<1>5. Passes(g, Alert(g, title))
  BY <1>1, <1>2, <1>4 DEF Alert, Passes, GuardFields
<1> QED BY <1>5, PassesKeeps

LEMMA ThrottledKeeps ==
  ASSUME NEW g, NEW l \in Seq(Rules), Watchful(g, l), NEW rule \in Rules,
         NEW m \in DOMAIN Ticks
  PROVE  Watchful(EmitThrottled(g, rule, m), l)
<1>1. /\ DOMAIN g = GuardFields /\ g.cooldown \in [Rules -> 0..Horizon]
      /\ g.cooldown[rule] \in Nat /\ g.alerts \in Seq(Titles)
  BY GuardianBounds DEF Watchful, GuardOK
<1> DEFINE h == [g EXCEPT !.wanted = @ \union {<<rule, m>>}]
           k == [h EXCEPT !.cooldown[rule] = 0]
<1>2. CASE ~Over(g.cooldown[rule], m, g.early)
  <2>1. g.cooldown[rule] <= Ticks[m]
    BY <1>1, <1>2, NotOver
  <2>2. h.wanted = g.wanted \cup {<<rule, m>>}
    BY <1>1 DEF GuardFields
  <2>3. /\ DOMAIN h = GuardFields /\ h.alerts = g.alerts /\ h.emitted = g.emitted
        /\ h.eventIdx = g.eventIdx /\ h.eventLog = g.eventLog /\ h.cooldown = g.cooldown
        /\ h.tempHistory = g.tempHistory
    BY <1>1 DEF GuardFields
  <2> HIDE DEF h
  <2>4. Passes(g, h)
    <3>1. Readings(h)
      BY <2>3 DEF Readings, Watchful, GuardOK
    <3> QED BY <1>1, <2>1, <2>2, <2>3, <3>1 DEF Passes
  <2>5. EmitThrottled(g, rule, m) = h
    BY <1>2 DEF EmitThrottled, h
  <2> QED BY <2>4, <2>5, PassesKeeps
<1>3. CASE Over(g.cooldown[rule], m, g.early)
  <2>1. DOMAIN h = GuardFields /\ DOMAIN k = GuardFields
    BY <1>1 DEF GuardFields
  <2>2. /\ k.alerts = g.alerts /\ k.emitted = g.emitted /\ k.eventIdx = g.eventIdx
        /\ k.eventLog = g.eventLog /\ k.cooldown = [g.cooldown EXCEPT ![rule] = 0]
        /\ k.wanted = g.wanted \cup {<<rule, m>>} /\ k.tempHistory = g.tempHistory
    BY <1>1, <2>1 DEF GuardFields
  <2> HIDE DEF h, k
  <2>3. PICK e : e = Emit(k, rule)
    OBVIOUS
  <2>4. /\ DOMAIN e = GuardFields /\ e.alerts = k.alerts /\ e.tempHistory = k.tempHistory
        /\ e.emitted = <<rule>> \o k.emitted /\ e.eventIdx = k.eventIdx + 1
        /\ e.eventLog = [k.eventLog EXCEPT ![k.eventIdx % RingCap] = rule]
        /\ e.cooldown = k.cooldown /\ e.wanted = k.wanted
    BY <2>1, <2>3 DEF Emit, GuardFields
  <2>5. e.cooldown = [g.cooldown EXCEPT ![rule] = 0] /\ e.cooldown[rule] = 0
    BY <1>1, <2>2, <2>4
  <2>6. Records(g, e, rule)
    BY <2>2, <2>4, <2>5 DEF Records
  <2>7. EmitThrottled(g, rule, m) = e
    BY <1>3, <2>3 DEF EmitThrottled, h, k
  <2> QED BY <2>6, <2>7, RecordsKeeps
<1> QED BY <1>2, <1>3

LEMMA KickKeeps ==
  ASSUME NEW g, NEW l \in Seq(Rules), Watchful(g, l), NEW rule \in Rules
  PROVE  Watchful(Kick(g, rule), l)
<1>1. DOMAIN g = GuardFields /\ g.cooldown \in [Rules -> 0..Horizon]
  BY DEF Watchful, GuardOK
<1> DEFINE k == [g EXCEPT !.cooldown[rule] = 0]
<1>2. /\ DOMAIN k = GuardFields /\ k.alerts = g.alerts /\ k.emitted = g.emitted
      /\ k.tempHistory = g.tempHistory
      /\ k.eventIdx = g.eventIdx /\ k.eventLog = g.eventLog
      /\ k.cooldown = [g.cooldown EXCEPT ![rule] = 0] /\ k.wanted = g.wanted
  BY <1>1 DEF GuardFields
<1> HIDE DEF k
<1>3. PICK e : e = Emit(k, rule)
  OBVIOUS
<1>4. /\ DOMAIN e = GuardFields /\ e.alerts = k.alerts /\ e.tempHistory = k.tempHistory
      /\ e.emitted = <<rule>> \o k.emitted /\ e.eventIdx = k.eventIdx + 1
      /\ e.eventLog = [k.eventLog EXCEPT ![k.eventIdx % RingCap] = rule]
      /\ e.cooldown = k.cooldown /\ e.wanted = k.wanted
  BY <1>2, <1>3 DEF Emit, GuardFields
<1>5. Records(g, e, rule)
  BY <1>2, <1>4 DEF Records
<1>6. Watchful(e, l)
  BY <1>5, RecordsKeeps
<1>7. Watchful(Alert(e, <<"Guardian Kicked">>), l)
  BY <1>6, AlertKeeps DEF Titles
<1>8. Kick(g, rule) = g \/ Kick(g, rule) = Alert(e, <<"Guardian Kicked">>)
  BY <1>3 DEF Kick, k
<1> QED BY <1>7, <1>8
-----------------------------------------------------------------------------
(* The rules, one after the other.                                         *)

\* A change of what no event depends on.
LEMMA ReadingsKeep ==
  ASSUME NEW g, NEW h, NEW l, Watchful(g, l), DOMAIN h = GuardFields, Readings(h),
         h.alerts = g.alerts, h.emitted = g.emitted, h.eventIdx = g.eventIdx,
         h.eventLog = g.eventLog, h.cooldown = g.cooldown, h.wanted = g.wanted
  PROVE  Watchful(h, l)
<1>1. Passes(g, h)
  BY DEF Passes, Watchful, GuardOK
<1> QED BY <1>1, PassesKeeps

LEMMA TemperatureKeeps ==
  ASSUME NEW g, NEW l \in Seq(Rules), Watchful(g, l), NEW o \in Observations
  PROVE  Watchful(EvalTemperature(g, o.temp), l)
<1> DEFINE hist == Append(g.tempHistory, o.temp)
           kept == IF Len(hist) > TrendOver THEN Tail(hist) ELSE hist
           rising == Len(kept) = TrendOver /\ o.temp - kept[1] >= TrendRise /\ o.temp >= WarnC
           h == [g EXCEPT !.tempHistory = kept]
           i == When(rising, h, Alert(Emit(h, <<"temp_trend">>), <<"Temperature Rising Fast">>))
           T == {p.temp : p \in Observations}
<1>1. DOMAIN g = GuardFields /\ Readings(g)
  BY DEF Watchful, GuardOK
<1>2. kept \in Seq(T) /\ Len(kept) <= TrendOver
  <2>1. o.temp \in T /\ g.tempHistory \in Seq(T) /\ Len(g.tempHistory) <= TrendOver
    BY <1>1 DEF Readings
  <2> HIDE DEF T
  <2>2. Len(g.tempHistory) \in Nat /\ TrendOver \in Nat \ {0}
    BY <2>1, GuardianBounds, LenProperties
  <2>3. hist \in Seq(T) /\ Len(hist) = Len(g.tempHistory) + 1
    BY <2>1, AppendProperties
  <2>4. hist # <<>>
    <3>1. Len(hist) # 0
      BY <2>2, <2>3
    <3> QED BY <2>3, <3>1, EmptySeq
  <2> HIDE DEF hist
  <2>5. Tail(hist) \in Seq(T) /\ Len(Tail(hist)) = Len(hist) - 1
    BY <2>3, <2>4, HeadTailProperties
  <2> QED BY <2>1, <2>2, <2>3, <2>5
<1> HIDE DEF hist, kept, T
<1>3. Watchful(h, l)
  <2>1. /\ DOMAIN h = GuardFields /\ h.tempHistory = kept
        /\ h.alerts = g.alerts /\ h.emitted = g.emitted /\ h.eventIdx = g.eventIdx
        /\ h.eventLog = g.eventLog /\ h.cooldown = g.cooldown /\ h.wanted = g.wanted
    BY <1>1 DEF GuardFields
  <2>2. Readings(h)
    BY <1>2, <2>1 DEF Readings, T
  <2> HIDE DEF h
  <2> QED BY <2>1, <2>2, ReadingsKeep
<1> HIDE DEF h, rising
<1>4. Watchful(i, l)
  <2>1. <<"temp_trend">> \in Rules /\ <<"Temperature Rising Fast">> \in Titles
    BY DEF Rules, Titles
  <2>2. Watchful(Emit(h, <<"temp_trend">>), l)
    BY <1>3, <2>1, EmitKeeps
  <2>3. Watchful(Alert(Emit(h, <<"temp_trend">>), <<"Temperature Rising Fast">>), l)
    BY <2>1, <2>2, AlertKeeps
  <2> QED BY <1>3, <2>3 DEF When
<1>5. Watchful(Emit(i, <<"temp_critical">>), l)
  <2>1. <<"temp_critical">> \in Rules
    BY DEF Rules
  <2> HIDE DEF i
  <2> QED BY <1>4, <2>1, EmitKeeps
<1>6. \/ EvalTemperature(g, o.temp) = g
      \/ EvalTemperature(g, o.temp) = When(o.temp >= CritC, i, Emit(i, <<"temp_critical">>))
  BY DEF EvalTemperature, hist, kept, h, rising
<1> QED BY <1>4, <1>5, <1>6 DEF When

\* The rules of single events.
LEMMA RuleNames ==
  /\ {<<"sys_ram_critical">>, <<"sys_ram_warn">>, <<"sys_cpu_critical">>} \subseteq Rules
  /\ \A c \in ChainSet :
       {<<"no_job", c>>, <<"job_stale", c>>, <<"chain_stale", c>>, <<"chain_reject", c>>,
        <<"hr_drop", c>>, <<"no_miners", c>>, <<"kick_stale", c>>, <<"kick_reject", c>>,
        <<"worker_health", c>>, <<"silent", c>>, <<"zero_hr", c>>} \subseteq Rules
  /\ \A c \in ChainSet : <<"Hashrate Drop", c>> \in Titles
  /\ {2, 5, 10, 15, 30} \subseteq DOMAIN Ticks
<1>1. \A c \in ChainSet :
       {<<"no_job", c>>, <<"job_stale", c>>, <<"chain_stale", c>>, <<"chain_reject", c>>,
        <<"hr_drop", c>>, <<"no_miners", c>>, <<"kick_stale", c>>, <<"kick_reject", c>>,
        <<"worker_health", c>>, <<"silent", c>>, <<"zero_hr", c>>} \subseteq Rules
  BY DEF Rules
<1>2. {<<"sys_ram_critical">>, <<"sys_ram_warn">>, <<"sys_cpu_critical">>} \subseteq Rules
  BY DEF Rules
<1>3. \A c \in ChainSet : <<"Hashrate Drop", c>> \in Titles
  BY DEF Titles
<1> QED BY <1>1, <1>2, <1>3, GuardianBounds

LEMMA SystemKeeps ==
  ASSUME NEW g, NEW l \in Seq(Rules), Watchful(g, l), NEW o
  PROVE  Watchful(EvalSystem(g, o), l)
<1>1. PICK h : h = CASE o.ram = "critical" -> EmitThrottled(g, <<"sys_ram_critical">>, 5)
             [] o.ram = "high" -> EmitThrottled(g, <<"sys_ram_warn">>, 10)
             [] OTHER -> g
  OBVIOUS
<1>2. /\ Watchful(EmitThrottled(g, <<"sys_ram_critical">>, 5), l)
      /\ Watchful(EmitThrottled(g, <<"sys_ram_warn">>, 10), l)
  BY RuleNames, ThrottledKeeps
<1>3. Watchful(h, l)
  BY <1>1, <1>2
<1>4. Watchful(EmitThrottled(h, <<"sys_cpu_critical">>, 5), l)
  BY <1>3, RuleNames, ThrottledKeeps
<1>5. EvalSystem(g, o) = When(o.cpu, h, EmitThrottled(h, <<"sys_cpu_critical">>, 5))
  BY <1>1 DEF EvalSystem
<1> QED BY <1>3, <1>4, <1>5 DEF When

LEMMA JobFreshnessKeeps ==
  ASSUME NEW g, NEW l \in Seq(Rules), Watchful(g, l), NEW c \in ChainSet, NEW o
  PROVE  Watchful(EvalJobFreshness(g, c, o), l)
<1>1. /\ Watchful(EmitThrottled(g, <<"no_job", c>>, 2), l)
      /\ Watchful(EmitThrottled(g, <<"job_stale", c>>, 5), l)
  BY RuleNames, ThrottledKeeps
<1> QED BY <1>1 DEF EvalJobFreshness

LEMMA ChainHealthKeeps ==
  ASSUME NEW g, NEW l \in Seq(Rules), Watchful(g, l), NEW c \in ChainSet, NEW o
  PROVE  Watchful(EvalChainHealth(g, c, o), l)
<1>1. PICK h : h = When("stale" \in o.rates, g, EmitThrottled(g, <<"chain_stale", c>>, 10))
  OBVIOUS
<1>2. Watchful(EmitThrottled(g, <<"chain_stale", c>>, 10), l)
  BY RuleNames, ThrottledKeeps
<1>3. Watchful(h, l)
  BY <1>1, <1>2 DEF When
<1>4. Watchful(EmitThrottled(h, <<"chain_reject", c>>, 10), l)
  BY <1>3, RuleNames, ThrottledKeeps
<1>5. EvalChainHealth(g, c, o)
        = When("rejected" \in o.rates, h, EmitThrottled(h, <<"chain_reject", c>>, 10))
  BY <1>1 DEF EvalChainHealth
<1> QED BY <1>3, <1>4, <1>5 DEF When

LEMMA HashrateKeeps ==
  ASSUME NEW g, NEW l \in Seq(Rules), Watchful(g, l), NEW c \in ChainSet, NEW o
  PROVE  Watchful(EvalHashrate(g, c, o), l)
<1>1. PICK khs : khs = IF o.worker.online THEN o.worker.khs ELSE 0
  OBVIOUS
<1>2. PICK prev : prev = g.hrHistory[c]
  OBVIOUS
<1>3. PICK h : h = [g EXCEPT !.hrHistory[c] = khs]
  OBVIOUS
<1>4. Watchful(h, l)
  <2>1. DOMAIN g = GuardFields /\ Readings(g)
    BY DEF Watchful, GuardOK
  <2>2. /\ DOMAIN h = GuardFields /\ h.tempHistory = g.tempHistory
        /\ h.alerts = g.alerts /\ h.emitted = g.emitted /\ h.eventIdx = g.eventIdx
        /\ h.eventLog = g.eventLog /\ h.cooldown = g.cooldown /\ h.wanted = g.wanted
    BY <1>3, <2>1 DEF GuardFields
  <2>3. Readings(h)
    BY <2>1, <2>2 DEF Readings
  <2> QED BY <2>2, <2>3, ReadingsKeep
<1>5. PICK i : i = When(2 * khs <= prev, h,
                Alert(EmitThrottled(h, <<"hr_drop", c>>, 5), <<"Hashrate Drop", c>>))
  OBVIOUS
<1>6. Watchful(EmitThrottled(h, <<"hr_drop", c>>, 5), l)
  BY <1>4, RuleNames, ThrottledKeeps
<1>7. Watchful(i, l)
  <2>1. Watchful(Alert(EmitThrottled(h, <<"hr_drop", c>>, 5), <<"Hashrate Drop", c>>), l)
    BY <1>6, RuleNames, AlertKeeps
  <2> QED BY <1>4, <1>5, <2>1 DEF When
<1>8. Watchful(EmitThrottled(i, <<"no_miners", c>>, 5), l)
  BY <1>7, RuleNames, ThrottledKeeps
<1>9. EvalHashrate(g, c, o) =
        IF prev = 0 \/ khs = 0 THEN h
        ELSE When(o.connected > 0 /\ ~o.worker.online, i,
                  EmitThrottled(i, <<"no_miners", c>>, 5))
  BY <1>1, <1>2, <1>3, <1>5 DEF EvalHashrate
<1> QED BY <1>4, <1>7, <1>8, <1>9 DEF When

LEMMA WorkerKeeps ==
  ASSUME NEW g, NEW l \in Seq(Rules), Watchful(g, l), NEW c \in ChainSet, NEW w
  PROVE  Watchful(EvalWorker(g, c, w), l)
<1>1. PICK h : h = When(w.rates = "elevated", g, EmitThrottled(g, <<"worker_health", c>>, 15))
  OBVIOUS
<1>2. Watchful(EmitThrottled(g, <<"worker_health", c>>, 15), l)
  BY RuleNames, ThrottledKeeps
<1>3. Watchful(h, l)
  BY <1>1, <1>2 DEF When
<1>4. PICK i : i = When(w.silent, h, EmitThrottled(h, <<"silent", c>>, 30))
  OBVIOUS
<1>5. Watchful(EmitThrottled(h, <<"silent", c>>, 30), l)
  BY <1>3, RuleNames, ThrottledKeeps
<1>6. Watchful(i, l)
  BY <1>3, <1>4, <1>5 DEF When
<1>7. Watchful(EmitThrottled(i, <<"zero_hr", c>>, 10), l)
  BY <1>6, RuleNames, ThrottledKeeps
<1>8. Watchful(Kick(g, <<"kick_stale", c>>), l) /\ Watchful(Kick(g, <<"kick_reject", c>>), l)
  BY RuleNames, KickKeeps
<1>9. \/ EvalWorker(g, c, w) = g
      \/ EvalWorker(g, c, w) = Kick(g, <<"kick_stale", c>>)
      \/ EvalWorker(g, c, w) = Kick(g, <<"kick_reject", c>>)
      \/ EvalWorker(g, c, w) = i
      \/ EvalWorker(g, c, w) = EmitThrottled(i, <<"zero_hr", c>>, 10)
  BY <1>1, <1>4 DEF EvalWorker, When
<1> QED BY <1>6, <1>7, <1>8, <1>9

LEMMA ChainKeeps ==
  ASSUME NEW g, NEW l \in Seq(Rules), Watchful(g, l), NEW c \in ChainSet, NEW o
  PROVE  Watchful(EvalChain(g, c, o), l)
<1>1. Watchful(EvalJobFreshness(g, c, o), l)
  BY JobFreshnessKeeps
<1>2. Watchful(EvalChainHealth(EvalJobFreshness(g, c, o), c, o), l)
  BY <1>1, ChainHealthKeeps
<1>3. Watchful(EvalHashrate(EvalChainHealth(EvalJobFreshness(g, c, o), c, o), c, o), l)
  BY <1>2, HashrateKeeps
<1> QED BY <1>3, WorkerKeeps DEF EvalChain

\* The chains are evaluated one after the other, each with what the one before left.
LEMMA EvalChainsUnfold ==
  ASSUME NEW g, NEW o
  PROVE  /\ EvalChains(g, o)[0] = g
         /\ \A i \in 1..Len(Chains) :
              EvalChains(g, o)[i]
                = EvalChain(EvalChains(g, o)[i - 1], Chains[i], o.chain[Chains[i]])
<1>0. Len(Chains) \in Nat
  BY GuardianAssumption, LenProperties
<1> DEFINE Next1(x, i) == EvalChain(x, Chains[i], o.chain[Chains[i]])
           Turns(k, f) == f = [i \in 0..k |-> IF i = 0 THEN g ELSE Next1(f[i - 1], i)]
           T == {k \in 0..Len(Chains) : ~ \E f : Turns(k, f)}
<1>1. EvalChains(g, o) = CHOOSE f : Turns(Len(Chains), f)
  BY DEF EvalChains
<1> HIDE DEF Next1
<1>2. T = {}
  <2> SUFFICES ASSUME T # {} PROVE FALSE
    OBVIOUS
  <2>1. PICK k \in T : \A y \in T : k <= y
    <3>1. T \in SUBSET Nat
      BY <1>0
    <3> QED BY <3>1, LeastElement
  <2>2. k \in 0..Len(Chains) /\ ~ \E f : Turns(k, f)
    BY <2>1
  <2>3. CASE k = 0
    <3> DEFINE z == [i \in 0..0 |-> g]
    <3>1. Turns(0, z)
      OBVIOUS
    <3> QED BY <2>2, <2>3, <3>1
  <2>4. CASE k # 0
    <3>0. k - 1 \in 0..Len(Chains) /\ ~ (k <= k - 1)
      BY <1>0, <2>2, <2>4
    <3>1. k - 1 \in 0..Len(Chains) /\ k - 1 \notin T
      BY <2>1, <3>0
    <3>2. PICK f : Turns(k - 1, f)
      BY <3>1
    <3> DEFINE h == [i \in 0..k |-> IF i = k THEN Next1(f[k - 1], k) ELSE f[i]]
    <3>3. ASSUME NEW i \in 0..k
          PROVE  h[i] = IF i = 0 THEN g ELSE Next1(h[i - 1], i)
      <4>1. CASE i = 0
        <5>1. h[i] = f[0] /\ 0 \in 0..(k - 1)
          BY <1>0, <2>2, <2>4, <4>1
        <5> QED BY <3>2, <4>1, <5>1
      <4>2. CASE i # 0 /\ i # k
        <5>1. i \in 0..(k - 1) /\ i - 1 \in 0..k /\ i - 1 # k
          BY <1>0, <2>2, <4>2
        <5>2. h[i] = f[i] /\ h[i - 1] = f[i - 1]
          BY <4>2, <5>1
        <5>3. f[i] = Next1(f[i - 1], i)
          BY <3>2, <4>2, <5>1
        <5> QED BY <4>2, <5>2, <5>3
      <4>3. CASE i = k
        <5>1. k - 1 \in 0..k /\ k - 1 # k
          BY <1>0, <2>2, <2>4
        <5>2. h[k - 1] = f[k - 1] /\ h[i] = Next1(f[k - 1], k)
          BY <4>3, <5>1
        <5> QED BY <2>4, <4>3, <5>2
      <4> QED BY <4>1, <4>2, <4>3
    <3>4. h = [i \in 0..k |-> IF i = 0 THEN g ELSE Next1(h[i - 1], i)]
      <4> HIDE DEF h
      <4>1. h = [i \in 0..k |-> h[i]]
        BY DEF h
      <4> QED BY <3>3, <4>1
    <3> QED BY <2>2, <3>4
  <2> QED BY <2>3, <2>4
<1>3. \E f : Turns(Len(Chains), f)
  <2>1. Len(Chains) \in 0..Len(Chains)
    BY <1>0
  <2> QED BY <1>2, <2>1
<1>4. PICK e : e = EvalChains(g, o)
  OBVIOUS
<1> HIDE DEF T
<1>5. Turns(Len(Chains), e)
  BY <1>1, <1>3, <1>4
<1>6. e[0] = g
  BY <1>0, <1>5
<1>7. ASSUME NEW i \in 1..Len(Chains) PROVE e[i] = Next1(e[i - 1], i)
  <2>1. i \in 0..Len(Chains) /\ i # 0
    BY <1>0
  <2> QED BY <1>5, <2>1
<1> QED BY <1>4, <1>6, <1>7 DEF Next1

LEMMA EvaluateKeeps ==
  ASSUME NEW g, NEW l \in Seq(Rules), Watchful(g, l), NEW o \in Observations
  PROVE  Watchful(Evaluate(g, o), l)
<1>0. Len(Chains) \in Nat
  BY GuardianAssumption, LenProperties
<1>1. PICK h : h = EvalSystem(EvalTemperature(g, o.temp), o)
  OBVIOUS
<1>2. Watchful(h, l)
  BY <1>1, TemperatureKeeps, SystemKeeps
<1>3. PICK e : e = EvalChains(h, o)
  OBVIOUS
<1>4. e[0] = h /\ \A i \in 1..Len(Chains) :
                    e[i] = EvalChain(e[i - 1], Chains[i], o.chain[Chains[i]])
  BY <1>3, EvalChainsUnfold
<1> DEFINE T == {k \in 0..Len(Chains) : ~Watchful(e[k], l)}
<1>5. T = {}
  <2> SUFFICES ASSUME T # {} PROVE FALSE
    OBVIOUS
  <2>1. PICK k \in T : \A y \in T : k <= y
    <3>1. T \in SUBSET Nat
      BY <1>0
    <3> QED BY <3>1, LeastElement
  <2>2. k \in 0..Len(Chains) /\ ~Watchful(e[k], l)
    BY <2>1
  <2>3. k # 0
    BY <1>2, <1>4, <2>2
  <2>4. k - 1 \in 0..Len(Chains) /\ ~ (k <= k - 1) /\ k \in 1..Len(Chains)
    BY <1>0, <2>2, <2>3
  <2>5. k - 1 \notin T
    BY <2>1, <2>4
  <2>6. Watchful(e[k - 1], l)
    BY <2>4, <2>5
  <2>7. Chains[k] \in ChainSet
    BY <2>4, GuardianAssumption, LenProperties DEF ChainSet
  <2>8. e[k] = EvalChain(e[k - 1], Chains[k], o.chain[Chains[k]])
    BY <1>4, <2>4
  <2> QED BY <2>2, <2>6, <2>7, <2>8, ChainKeeps
<1>6. Watchful(e[Len(Chains)], l)
  BY <1>0, <1>5
<1> QED BY <1>1, <1>3, <1>6 DEF Evaluate
-----------------------------------------------------------------------------
(* The invariant.                                                          *)

\* Between two ticks; the limit of a title counts from the last of its alerts, which was
\* posted or failed.
GuardianInv ==
  /\ ticked \in 0..MaxTicks
  /\ latest \in Seq(Rules)
  /\ GuardOK(guard) /\ Recorded(guard) /\ InTime(guard) /\ Shows(guard, latest)
  /\ Len(latest) <= RingCap
  /\ lastSent \in [Titles -> 0..Horizon]
  /\ \A t \in Titles : lastSent[t] = toldAgo[t] \/ lastSent[t] = failedAgo[t]
  /\ \A i \in DOMAIN guard.alerts : lastSent[guard.alerts[i]] <= Ticks[5]

LEMMA OlderAge ==
  ASSUME NEW age \in 0..Horizon
  PROVE  Older(age) \in 1..Horizon
BY GuardianBounds DEF Older

LEMMA GuardianStart == GuardianInit => GuardianInv
<1> SUFFICES ASSUME GuardianInit PROVE GuardianInv
  OBVIOUS
<1> USE GuardianBounds
<1>1. /\ guard.cooldown = [r \in Rules |-> Horizon]
      /\ guard.eventLog = [i \in 0..(RingCap - 1) |-> NoEvent] /\ guard.eventIdx = 0
      /\ guard.tempHistory = <<>> /\ guard.wanted = {} /\ guard.alerts = <<>>
      /\ guard.emitted = <<>> /\ DOMAIN guard = GuardFields
  BY DEF GuardianInit, GuardFields
<1>2. latest = <<>> /\ ticked = 0 /\ lastSent = [t \in Titles |-> Horizon]
      /\ \A t \in Titles : lastSent[t] = toldAgo[t]
  BY DEF GuardianInit
<1>3. /\ \A S : <<>> \in Seq(S)
      /\ Len(<<>>) = 0 /\ DOMAIN <<>> = {}
  OBVIOUS
<1>4. GuardOK(guard)
  BY <1>1, <1>3 DEF GuardOK, Readings
<1>5. Recorded(guard) /\ InTime(guard)
  BY <1>1 DEF Recorded, InTime
<1>6. Shows(guard, latest)
  <2> SUFFICES ASSUME NEW i \in 1..RingCap PROVE Back(guard, i) = NoEvent
    BY <1>2, <1>3 DEF Shows
  <2>1. 0 - i + RingCap \in Nat
    OBVIOUS
  <2>2. (0 - i + RingCap) % RingCap \in 0..(RingCap - 1)
    BY <2>1, Division
  <2> QED BY <1>1, <2>2 DEF Back
<1> QED BY <1>1, <1>2, <1>3, <1>4, <1>5, <1>6 DEF GuardianInv

\* What the notifier makes of the alerts of a tick.
LEMMA AlertsAreCounted ==
  ASSUME GuardianInv, NEW alerts \in Seq(Titles), NEW slow \in BOOLEAN,
         GuardianAlert(alerts, slow)
  PROVE  /\ lastSent' \in [Titles -> 0..Horizon]
         /\ \A t \in Titles : lastSent'[t] = toldAgo'[t] \/ lastSent'[t] = failedAgo'[t]
         /\ \A i \in DOMAIN alerts : lastSent'[alerts[i]] <= Ticks[5]
<1> DEFINE goes(t) == (\E i \in DOMAIN alerts : alerts[i] = t) /\ Over(Older(lastSent[t]), 5, slow)
           limit == RateLimited([t \in Titles |-> Older(lastSent[t])], alerts, slow)
<1>2. \A t \in Titles : /\ limit[t].goes <=> goes(t)
                        /\ limit[t].sent = IF goes(t) THEN 0 ELSE Older(lastSent[t])
  BY DEF RateLimited
<1>3. /\ lastSent' = [t \in Titles |-> limit[t].sent]
      /\ \E posted \in SUBSET {t \in Titles : limit[t].goes} :
           /\ toldAgo' = [t \in Titles |-> IF t \in posted THEN 0 ELSE Older(toldAgo[t])]
           /\ failedAgo' = [t \in Titles |-> IF limit[t].goes /\ t \notin posted THEN 0
                                             ELSE Older(failedAgo[t])]
  BY DEF GuardianAlert
<1> HIDE DEF limit
<1>4. PICK posted \in SUBSET {t \in Titles : limit[t].goes} :
           /\ toldAgo' = [t \in Titles |-> IF t \in posted THEN 0 ELSE Older(toldAgo[t])]
           /\ failedAgo' = [t \in Titles |-> IF limit[t].goes /\ t \notin posted THEN 0
                                             ELSE Older(failedAgo[t])]
  BY <1>3
<1>5. \A t \in Titles :
        /\ lastSent'[t] = IF goes(t) THEN 0 ELSE Older(lastSent[t])
        /\ toldAgo'[t] = IF t \in posted THEN 0 ELSE Older(toldAgo[t])
        /\ failedAgo'[t] = IF goes(t) /\ t \notin posted THEN 0 ELSE Older(failedAgo[t])
        /\ t \in posted => goes(t)
  BY <1>2, <1>3, <1>4
<1>6. \A t \in Titles : /\ Older(lastSent[t]) \in 1..Horizon
                        /\ lastSent[t] = toldAgo[t] \/ lastSent[t] = failedAgo[t]
  BY OlderAge DEF GuardianInv
<1>7. \A i \in DOMAIN alerts : alerts[i] \in Titles
  BY LenProperties, ElementOfSeq
<1> HIDE DEF goes
<1>8. lastSent' \in [Titles -> 0..Horizon]
  <2>1. \A t \in Titles : limit[t].sent \in 0..Horizon
    BY <1>2, <1>6, GuardianBounds
  <2> QED BY <1>3, <2>1
<1>9. \A t \in Titles : lastSent'[t] = toldAgo'[t] \/ lastSent'[t] = failedAgo'[t]
  BY <1>5, <1>6
<1>10. ASSUME NEW i \in DOMAIN alerts PROVE lastSent'[alerts[i]] <= Ticks[5]
  <2>1. PICK t \in Titles : t = alerts[i]
    BY <1>7
  <2>2. Older(lastSent[t]) \in Nat /\ 5 \in DOMAIN Ticks /\ Ticks[5] \in Nat
    BY <1>6, GuardianBounds
  <2>3. CASE Over(Older(lastSent[t]), 5, slow)
    <3>1. goes(t)
      BY <2>1, <2>3 DEF goes
    <3> QED BY <1>5, <2>1, <2>2, <3>1
  <2>4. CASE ~Over(Older(lastSent[t]), 5, slow)
    <3>1. ~goes(t)
      BY <2>4 DEF goes
    <3> QED BY <1>5, <2>1, <2>2, <2>4, <3>1, NotOver
  <2> QED BY <2>3, <2>4
<1> QED BY <1>8, <1>9, <1>10

LEMMA TickKeepsInv ==
  ASSUME GuardianInv, NEW o \in Observations, NEW early \in BOOLEAN,
         Tick(o, early)
  PROVE  GuardianInv'
<1>1. PICK old : old = [guard EXCEPT !.cooldown = [r \in Rules |-> Older(@[r])],
                           !.early = early, !.wanted = {}, !.alerts = <<>>,
                           !.emitted = <<>>]
  OBVIOUS
<1>2. PICK now : now = Evaluate(old, o)
  OBVIOUS
<1>3. PICK all : all = now.emitted \o latest
  OBVIOUS
<1>4. /\ ticked < MaxTicks /\ ticked' = ticked + 1
      /\ latest' = SubSeq(all, 1, IF Len(all) < RingCap THEN Len(all) ELSE RingCap)
      /\ \E on, slow \in BOOLEAN :
           /\ guard' = [now EXCEPT !.alerts = IF on THEN now.alerts ELSE <<>>]
           /\ GuardianAlert(guard'.alerts, slow)
  BY <1>1, <1>2, <1>3 DEF Tick
<1>5a. PICK on \in BOOLEAN, slow \in BOOLEAN :
         /\ guard' = [now EXCEPT !.alerts = IF on THEN now.alerts ELSE <<>>]
         /\ GuardianAlert(guard'.alerts, slow)
  BY <1>4
<1>5b. PICK alerts : alerts = IF on THEN now.alerts ELSE <<>>
  OBVIOUS
<1>5. /\ alerts = now.alerts \/ alerts = <<>>
      /\ guard' = [now EXCEPT !.alerts = alerts]
      /\ GuardianAlert(guard'.alerts, slow)
  BY <1>5a, <1>5b
<1>6. PICK g : g = guard'
  OBVIOUS
<1>7. Watchful(old, latest)
  <2>1. DOMAIN guard = GuardFields /\ GuardOK(guard) /\ latest \in Seq(Rules)
    BY DEF GuardianInv, GuardOK
  <2>2. /\ DOMAIN old = GuardFields /\ old.cooldown = [r \in Rules |-> Older(guard.cooldown[r])]
        /\ old.wanted = {} /\ old.alerts = <<>> /\ old.emitted = <<>>
        /\ old.tempHistory = guard.tempHistory /\ old.eventLog = guard.eventLog
        /\ old.eventIdx = guard.eventIdx
    BY <1>1, <2>1 DEF GuardFields
  <2>3. old.cooldown \in [Rules -> 1..Horizon]
    BY <2>1, <2>2, OlderAge DEF GuardOK
  <2>4. GuardOK(old)
    <3>1. old.cooldown \in [Rules -> 0..Horizon]
      BY <2>3, GuardianBounds
    <3>2. Readings(old)
      BY <2>1, <2>2 DEF GuardOK, Readings
    <3>3. old.alerts \in Seq(Titles) /\ old.emitted \in Seq(Rules)
      BY <2>2
    <3> QED BY <2>1, <2>2, <3>1, <3>2, <3>3 DEF GuardOK
  <2>5. Recorded(old) /\ InTime(old)
    BY <2>2, <2>3, GuardianBounds DEF Recorded, InTime
  <2>6. old.emitted \o latest = latest
    BY <2>1, <2>2, ConcatEmptySeq
  <2>7. Shows(old, latest)
    BY <2>2 DEF GuardianInv, Shows, Back
  <2> QED BY <2>4, <2>5, <2>6, <2>7 DEF Watchful
<1>8. Watchful(now, latest)
  BY <1>2, <1>7, EvaluateKeeps DEF GuardianInv
<1>9. GuardOK(now) /\ Recorded(now) /\ InTime(now) /\ Shows(now, all)
  BY <1>3, <1>8 DEF Watchful
<1>9a. GuardOK(g) /\ Recorded(g) /\ InTime(g) /\ g.alerts = alerts
       /\ \A i : Back(g, i) = Back(now, i)
  <2>1. /\ DOMAIN g = GuardFields /\ g.alerts = alerts /\ g.cooldown = now.cooldown
        /\ g.wanted = now.wanted /\ g.emitted = now.emitted
        /\ g.tempHistory = now.tempHistory /\ g.eventLog = now.eventLog
        /\ g.eventIdx = now.eventIdx
    BY <1>5, <1>6, <1>9 DEF GuardOK, GuardFields
  <2>2. alerts \in Seq(Titles)
    <3>1. now.alerts \in Seq(Titles) /\ <<>> \in Seq(Titles)
      BY <1>9 DEF GuardOK
    <3> QED BY <1>5, <3>1
  <2> QED BY <1>9, <2>1, <2>2 DEF GuardOK, Readings, Recorded, InTime, Back
<1>10. /\ latest' \in Seq(Rules) /\ Len(latest') <= RingCap
       /\ Shows(g, latest')
  <2>1. now.emitted \in Seq(Rules) /\ latest \in Seq(Rules) /\ all \in Seq(Rules)
    BY <1>3, <1>9, ConcatProperties DEF GuardOK, GuardianInv
  <2>2. PICK m \in Nat : /\ m = IF Len(all) < RingCap THEN Len(all) ELSE RingCap
                         /\ m <= Len(all) /\ m <= RingCap
    <3>1. PICK l \in Nat : l = Len(all)
      BY <2>1, LenProperties
    <3>2. RingCap \in Nat
      BY GuardianBounds
    <3> QED BY <3>1, <3>2
  <2>3. PICK newer : newer = SubSeq(all, 1, m)
    OBVIOUS
  <2>4. \A i \in 1..m : all[i] \in Rules
    BY <2>1, <2>2, LenProperties, ElementOfSeq
  <2>5. /\ newer \in Seq(Rules) /\ Len(newer) = m /\ \A i \in 1..m : newer[i] = all[i]
    BY <2>1, <2>2, <2>3, LenProperties, SubSeqProperties
  <2>6. \A i \in 1..RingCap : i <= Len(newer) <=> i <= Len(all)
    BY <2>1, <2>2, <2>5, GuardianBounds, LenProperties
  <2>7. Shows(g, newer)
    <3> SUFFICES ASSUME NEW i \in 1..RingCap
                 PROVE  Back(g, i) = IF i <= Len(newer) THEN newer[i] ELSE NoEvent
      BY DEF Shows
    <3>1. Back(g, i) = IF i <= Len(all) THEN all[i] ELSE NoEvent
      BY <1>9, <1>9a DEF Shows
    <3>2. i <= Len(newer) => newer[i] = all[i]
      BY <2>2, <2>5, GuardianBounds
    <3> QED BY <2>6, <3>1, <3>2
  <2> QED BY <1>4, <2>2, <2>3, <2>5, <2>7
<1>11. /\ lastSent' \in [Titles -> 0..Horizon]
       /\ \A t \in Titles : lastSent'[t] = toldAgo'[t] \/ lastSent'[t] = failedAgo'[t]
       /\ \A i \in DOMAIN alerts : lastSent'[alerts[i]] <= Ticks[5]
  <2>1. GuardianAlert(alerts, slow) /\ alerts \in Seq(Titles)
    BY <1>5, <1>6, <1>9a DEF GuardOK
  <2> QED BY <2>1, AlertsAreCounted
<1>13. ticked' \in 0..MaxTicks
  <2>1. ticked < MaxTicks /\ ticked' = ticked + 1 /\ ticked \in 0..MaxTicks
    BY <1>4 DEF GuardianInv
  <2> QED BY <2>1, GuardianBounds
<1>14. /\ (GuardOK(guard))' /\ (Recorded(guard))' /\ (InTime(guard))' /\ (Shows(guard, latest))'
       /\ guard'.alerts = alerts
  BY <1>6, <1>9a, <1>10 DEF GuardOK, Recorded, InTime, Shows, Back, Readings
<1> QED BY <1>10, <1>11, <1>13, <1>14 DEF GuardianInv

\* A slot that was written is not an empty one.
LEMMA RulesAreEvents == \A r \in Rules : r # NoEvent
<1>1. ASSUME NEW x PROVE <<x>> # <<>>
  <2>1. Len(<<x>>) = 1 /\ Len(<<>>) = 0
    OBVIOUS
  <2> QED BY <2>1
<1>2. ASSUME NEW x, NEW y PROVE <<x, y>> # <<>>
  <2>1. Len(<<x, y>>) = 2 /\ Len(<<>>) = 0
    OBVIOUS
  <2> QED BY <2>1
<1>3. ASSUME NEW r \in Rules PROVE (\E x : r = <<x>>) \/ (\E x, y : r = <<x, y>>)
  BY DEF Rules
<1> QED BY <1>1, <1>2, <1>3 DEF NoEvent

\* The dashboard reads the ring from its newest slot to the first that is empty.
LEMMA EventsAreLatest ==
  ASSUME GuardianInv, NEW n \in 0..RingCap
  PROVE  Events(n) = SubSeq(latest, 1, IF n < Len(latest) THEN n ELSE Len(latest))
<1>1. /\ latest \in Seq(Rules) /\ Len(latest) \in Nat /\ DOMAIN latest = 1..Len(latest)
      /\ Len(latest) <= RingCap
  BY LenProperties DEF GuardianInv
<1>2. \A i \in 1..RingCap : Back(guard, i) = IF i <= Len(latest) THEN latest[i] ELSE NoEvent
  BY DEF GuardianInv, Shows
<1>3. \A i \in 1..Len(latest) : latest[i] \in Rules /\ latest[i] # NoEvent
  BY <1>1, ElementOfSeq, RulesAreEvents
<1>0. PICK k \in Nat, m \in Nat : k = Len(latest) /\ m = IF n < k THEN n ELSE k
  <2>1. PICK k \in Nat : k = Len(latest)
    BY <1>1
  <2>2. n \in Nat
    BY GuardianBounds
  <2>3. PICK m \in Nat : m = IF n < k THEN n ELSE k
    BY <2>2
  <2> QED BY <2>1, <2>3
<1>4. m <= n /\ m <= k /\ m <= RingCap /\ (m < n => m = k)
  BY <1>0, GuardianBounds
<1> DEFINE full == {c \in 0..n : \A i \in 1..c : Back(guard, i) # NoEvent}
           len == CHOOSE c \in full : \A j \in full : j <= c
<1>5. Events(n) = [i \in 1..len |-> Back(guard, i)]
  <2>1. (IF n > RingCap THEN RingCap ELSE n) = n
    BY GuardianBounds
  <2> QED BY <2>1 DEF Events, Back
<1>6. m \in full
  BY <1>0, <1>2, <1>3, <1>4, GuardianBounds
<1>7. \A j \in full : j <= m
  <2> SUFFICES ASSUME NEW j \in full, ~(j <= m) PROVE FALSE
    OBVIOUS
  <2>1. j \in 0..n /\ m < j /\ m = Len(latest) /\ m + 1 \in 1..j
    BY <1>0, <1>4
  <2>2. Back(guard, m + 1) # NoEvent
    BY <2>1
  <2>3. m + 1 \in 1..RingCap /\ ~(m + 1 <= Len(latest))
    BY <2>1, GuardianBounds
  <2> QED BY <1>2, <2>2, <2>3
<1>8. full \in SUBSET Nat
  OBVIOUS
<1> HIDE DEF full
<1>9. len = m
  <2>1. len \in full /\ \A j \in full : j <= len
    BY <1>6, <1>7
  <2>2. len \in Nat /\ m <= len /\ len <= m
    BY <1>6, <1>7, <1>8, <2>1
  <2> QED BY <1>4, <2>2
<1> HIDE DEF len
<1>10. [i \in 1..m |-> Back(guard, i)] = [i \in 1..m |-> latest[i]]
  <2>1. \A i \in 1..m : Back(guard, i) = latest[i]
    <3> SUFFICES ASSUME NEW i \in 1..m PROVE Back(guard, i) = latest[i]
      OBVIOUS
    <3>1. i \in 1..RingCap /\ i <= k
      BY <1>4, GuardianBounds
    <3> QED BY <1>0, <1>2, <3>1
  <2> QED BY <2>1
<1>11. SubSeq(latest, 1, m) = [i \in 1..m |-> latest[i]]
  <2>1. \A i \in 1..m : latest[i] \in Rules
    BY <1>0, <1>3, <1>4
  <2>2. PICK some : some = SubSeq(latest, 1, m)
    OBVIOUS
  <2>3. some \in Seq(Rules) /\ Len(some) = m /\ \A i \in 1..m : some[i] = latest[i]
    <3>1. latest \in Seq(Rules) /\ 1 \in 1..(Len(latest) + 1) /\ m \in 0..Len(latest)
      BY <1>0, <1>1, <1>4
    <3> QED BY <2>1, <2>2, <3>1, SubSeqProperties
  <2>4. some = [i \in 1..m |-> some[i]]
    BY <2>3
  <2> QED BY <2>2, <2>3, <2>4
<1> QED BY <1>0, <1>5, <1>9, <1>10, <1>11

LEMMA GuardianInvariance == GuardianSpec => []GuardianInv
<1>1. GuardianInv /\ [GuardianNext]_guardianVars => GuardianInv'
  <2> SUFFICES ASSUME GuardianInv, [GuardianNext]_guardianVars PROVE GuardianInv'
    OBVIOUS
  <2>1. CASE GuardianNext
    BY <2>1, TickKeepsInv DEF GuardianNext
  <2>2. CASE UNCHANGED guardianVars
    BY <2>2 DEF guardianVars, GuardianInv, GuardOK, Recorded, InTime, Shows, Back, Readings
  <2> QED BY <2>1, <2>2
<1> QED BY <1>1, GuardianStart, PTL DEF GuardianSpec

\* The guardian's figures have their types, its trend and its ring their lengths.
THEOREM GuardianTypes == GuardianSpec => []GuardianTypeOK
<1>1. GuardianInv => GuardianTypeOK
  BY DEF GuardianInv, GuardOK, Readings, GuardianTypeOK
<1> QED BY <1>1, GuardianInvariance, PTL

\* No alarm is held back for good: what a tick of evaluate() finds wrong it records, or
\* has recorded within the rule's time; what it alerts of while alerts are on has been
\* posted by the notifier within 5 minutes, or the post failed within them; and Events()
\* shows the newest events, however often the ring has wrapped.
THEOREM AlarmsReachTheOperator == GuardianSpec => []AlarmsAreRaised
<1>1. GuardianInv => AlarmsAreRaised
  <2> SUFFICES ASSUME GuardianInv PROVE AlarmsAreRaised
    OBVIOUS
  <2>1. ASSUME NEW want \in guard.wanted
        PROVE  /\ guard.cooldown[want[1]] <= Ticks[want[2]]
               /\ (guard.cooldown[want[1]] = 0 =>
                     \E i \in DOMAIN guard.emitted : guard.emitted[i] = want[1])
    <3>1. want[1] \in Rules
      BY DEF GuardianInv, GuardOK
    <3> QED BY <3>1 DEF GuardianInv, InTime, Recorded
  <2>2. \A i \in DOMAIN guard.alerts : \/ toldAgo[guard.alerts[i]] <= Ticks[5]
                                        \/ failedAgo[guard.alerts[i]] <= Ticks[5]
    <3> TAKE i \in DOMAIN guard.alerts
    <3>1. guard.alerts[i] \in Titles
      BY LenProperties, ElementOfSeq DEF GuardianInv, GuardOK
    <3> QED BY <3>1 DEF GuardianInv
  <2> QED BY <2>1, <2>2, EventsAreLatest DEF AlarmsAreRaised
<1> QED BY <1>1, GuardianInvariance, PTL
=============================================================================
