-------------------------------- MODULE Ledger --------------------------------
(***************************************************************************)
(* What becomes of a found block: the block log of the stratum server      *)
(* (stratum/server.go) and the lifetime earnings (earnings/tracker.go),    *)
(* wired together in main.go.  The goroutine of submitblock appends to the *)
(* log and then calls OnBlockFound, which enters the block in the books.   *)
(* Every 30 s the confirmation tracker asks the node about the blocks of   *)
(* the log, without the lock, and applies the answers by hash; a block     *)
(* that matures or is orphaned is reported once, in a goroutine that       *)
(* updates the books.  Both files are written by goroutines of their own:  *)
(* the log in place, the books through a temporary file.                   *)
(*                                                                         *)
(* One coin whose blocks have the reward 1; block b is the b-th accepted.  *)
(* Confirmations are told apart as none (0), some, MatureAt and TrackTo.   *)
(***************************************************************************)
EXTENDS Integers, Sequences, FiniteSets, Subsequences, Functions

CONSTANTS
  MaxBlocks,      \* bound: blocks found
  LogCap,         \* entries of the block log (50)
  BooksCap,       \* maxRecentBlocks (100)
  MatureAt,       \* CoinMaturityThreshold
  TrackTo,        \* confirmations after which a block is left alone (120)
  GlobMatches,    \* whether the tracker's glob finds the server's file: not by the
                  \* name it is given, but where the operator has linked it
  MaxSaves,       \* bound: saves of the log at a time
  MaxWrites,      \* bound: copies of the books at a time
  MaxReorgs,      \* bound: blocks that leave or rejoin the chain
  MaxRestarts     \* bound: crashes and stops

ASSUME LedgerAssumption ==
  /\ {MaxBlocks, MaxSaves, MaxWrites, MaxReorgs, MaxRestarts} \subseteq Nat
  /\ {LogCap, BooksCap, MatureAt} \subseteq Nat \ {0}
  /\ TrackTo \in Nat /\ MatureAt < TrackTo
  /\ GlobMatches \in BOOLEAN

VARIABLES
  chain,        \* what the node answers for each block; -1: not in the chain
  found,        \* blocks accepted so far
  blockLog,     \* the log: [hash, conf, orphan, told]
  logFile,      \* its file: [torn, data], torn while it is being written
  logSaves,     \* goroutines that save it: [by, open, data]
  reporting,    \* blocks in the log whose OnBlockFound has not run
  checking,     \* the confirmation tracker is between its two locks ...
  answers,      \* ... with these answers of the node
  verdicts,     \* callbacks on their way: <<"mature" or "orphan", block>>
  books,        \* [recent, found, confirmed, orphaned] and, for the
                \* properties, the totals of the blocks cut from recent
  booksFile,
  copies,       \* of the books, to be written by persist
  reorgs, restarts,
  outran,       \* for the properties: orphan verdicts that found no block
  told          \* for the properties: times OnBlockMature was called

logVars == <<blockLog, logFile, logSaves, reporting>>
trackVars == <<answers, checking, verdicts, told>>
bookVars == <<books, booksFile, copies, outran>>
ledgerVars == <<chain, found, logVars, trackVars, bookVars, reorgs, restarts>>

Block == 1..MaxBlocks
Conf == -1..TrackTo
NoFile == [torn |-> FALSE, data |-> <<>>]
Zero == [found |-> 0, confirmed |-> 0, orphaned |-> 0]
NoBooks == [recent |-> <<>>, total |-> Zero, cut |-> Zero]

\* A slip: the cap is forgotten.
Uncut(s, n) == s

Last(s, n) == SubSeq(s, IF Len(s) > n THEN Len(s) - n + 1 ELSE 1, Len(s))
First(s, n) == SubSeq(s, 1, IF Len(s) > n THEN n ELSE Len(s))
Rest(s, n) == SubSeq(s, n + 1, Len(s))
HashesIn(s) == {s[i].hash : i \in DOMAIN s}
Where(s, h) == CHOOSE i \in DOMAIN s : s[i].hash = h

\* What the entries of recent stand for in the totals.
PaidAt(s) == {i \in DOMAIN s : ~s[i].orphan /\ s[i].conf > 0}
OrphansAt(s) == {i \in DOMAIN s : s[i].orphan}
Totals(s) == [found |-> Len(s), confirmed |-> Cardinality(PaidAt(s)),
              orphaned |-> Cardinality(OrphansAt(s))]
Plus(t, u) == [found |-> t.found + u.found, confirmed |-> t.confirmed + u.confirmed,
               orphaned |-> t.orphaned + u.orphaned]

\* The newest of the blocks stay in the list.
Kept(all, total, cut) == [recent |-> First(all, BooksCap), total |-> total,
                          cut |-> Plus(cut, Totals(Rest(all, BooksCap)))]

LedgerInit ==
  /\ chain = [b \in Block |-> 0] /\ found = 0
  /\ blockLog = <<>> /\ logFile = NoFile /\ logSaves = {} /\ reporting = {}
  /\ answers = {} /\ checking = FALSE /\ verdicts = {}
  /\ books = NoBooks /\ booksFile = NoBooks
  /\ copies = {}
  /\ reorgs = 0 /\ restarts = 0
  /\ outran = {} /\ told = [b \in Block |-> 0]
-----------------------------------------------------------------------------
(* The chain. *)

Deepen(b) ==
  /\ b <= found /\ chain[b] >= 0 /\ chain[b] < TrackTo
  /\ chain' = [chain EXCEPT ![b] = @ + 1]
  /\ UNCHANGED <<found, logVars, trackVars, bookVars, reorgs, restarts>>

\* A block leaves the chain, or comes back into it.
Reorg(b) ==
  /\ b <= found /\ chain[b] # 0 /\ reorgs < MaxReorgs /\ reorgs' = reorgs + 1
  /\ chain' = [chain EXCEPT ![b] = IF @ < 0 THEN 1 ELSE -1]
  /\ UNCHANGED <<found, logVars, trackVars, bookVars, restarts>>
-----------------------------------------------------------------------------
(* The server. *)

\* submitblock was answered: recordBlock, whose save runs on its own.
BlockAccepted ==
  /\ found < MaxBlocks /\ found' = found + 1
  /\ Cardinality(logSaves) < MaxSaves
  /\ blockLog' = Last(Append(blockLog, [hash |-> found + 1, conf |-> 0,
                                        orphan |-> FALSE, told |-> FALSE]),
                      LogCap)
  /\ reporting' = reporting \cup {found + 1}
  /\ logSaves' = logSaves \cup {[by |-> found + 1, open |-> FALSE,
                                 data |-> <<>>]}
  /\ UNCHANGED <<chain, logFile, trackVars, bookVars, reorgs, restarts>>

\* saveBlockLog: a copy under the lock, then WriteFile truncates the file ...
CopyLog(s) ==
  /\ s \in logSaves /\ ~s.open
  /\ logSaves' = (logSaves \ {s}) \cup {[by |-> s.by, open |-> TRUE,
                                          data |-> blockLog]}
  /\ logFile' = [torn |-> TRUE, data |-> logFile.data]
  /\ UNCHANGED <<chain, found, blockLog, reporting, trackVars, bookVars,
                 reorgs, restarts>>

\* ... and writes it.
WriteLog(s) ==
  /\ s \in logSaves /\ s.open
  /\ logSaves' = logSaves \ {s}
  /\ logFile' = [torn |-> FALSE, data |-> s.data]
  /\ UNCHANGED <<chain, found, blockLog, reporting, trackVars, bookVars,
                 reorgs, restarts>>

\* trackConfirmations: the blocks to ask for, under the read lock, and one
\* call each without it.  A call that fails leaves its block out.
Check ==
  /\ ~checking /\ checking' = TRUE
  /\ \E asked \in SUBSET {blockLog[i].hash : i \in {k \in DOMAIN blockLog :
                 ~blockLog[k].orphan /\ blockLog[k].conf < TrackTo}} :
       answers' = {[hash |-> b, conf |-> chain[b]] : b \in asked}
  /\ answers' # {}
  /\ UNCHANGED <<chain, found, logVars, verdicts, told, bookVars, reorgs,
                 restarts>>

\* What one answer makes of an entry of the log.
Judged(e, a) ==
  IF a.conf < 0 THEN [e EXCEPT !.orphan = TRUE]
  ELSE [hash |-> e.hash, conf |-> a.conf, orphan |-> e.orphan,
        told |-> e.told \/ a.conf >= MatureAt]

Matures(e, a) == a.conf >= MatureAt /\ ~e.told
Orphans(e, a) == a.conf < 0 /\ ~e.orphan

\* ... and all of them applied under the lock, by hash.
ApplyAnswers ==
  /\ checking /\ checking' = FALSE /\ answers' = {}
  /\ blockLog' = [i \in DOMAIN blockLog |->
       LET about == {a \in answers : a.hash = blockLog[i].hash}
       IN  IF about = {} THEN blockLog[i]
           ELSE Judged(blockLog[i], CHOOSE a \in about : TRUE)]
  /\ LET due == {b \in Block : \E i \in DOMAIN blockLog : \E a \in answers :
                   blockLog[i].hash = b /\ a.hash = b /\ Matures(blockLog[i], a)}
         lost == {b \in Block : \E i \in DOMAIN blockLog : \E a \in answers :
                   blockLog[i].hash = b /\ a.hash = b /\ Orphans(blockLog[i], a)}
     IN  /\ verdicts' = verdicts \cup {<<"mature", b>> : b \in due}
                                 \cup {<<"orphan", b>> : b \in lost}
         /\ told' = [b \in Block |-> told[b] + (IF b \in due THEN 1 ELSE 0)]
  /\ UNCHANGED <<chain, found, logFile, logSaves, reporting, bookVars,
                 reorgs, restarts>>
-----------------------------------------------------------------------------
(* The earnings tracker. *)

\* RecordBlock, called by OnBlockFound: newest first, cut to the cap.
RecordBlock(b) ==
  /\ Cardinality(copies) < MaxWrites
  /\ b \in reporting /\ reporting' = reporting \ {b}
  /\ books' = Kept(<<[hash |-> b, conf |-> 0, orphan |-> FALSE]>> \o books.recent,
                   [books.total EXCEPT !.found = @ + 1], books.cut)
  /\ copies' = copies \cup {books'}
  /\ UNCHANGED <<chain, found, blockLog, logFile, logSaves, trackVars,
                 booksFile, outran, reorgs, restarts>>

\* The books with the entry i amended, and this much more in the totals.
Amended(i, conf, orphan, paid, lost) ==
  [recent |-> [books.recent EXCEPT ![i] =
                 [hash |-> @.hash, conf |-> conf, orphan |-> orphan]],
   total |-> Plus(books.total, [found |-> 0, confirmed |-> paid, orphaned |-> lost]),
   cut |-> books.cut]

\* A slip: the reward of an orphan is kept.
OrphanedKept(i) == Amended(i, -1, TRUE, 0, 1)

\* UpdateConfirmations for the entry i: it turns orphan, or it is confirmed.
Orphaned(i) ==
  Amended(i, -1, TRUE, IF books.recent[i].conf > 0 THEN -1 ELSE 0, 1)

Confirmed(i, conf) ==
  Amended(i, conf, books.recent[i].orphan,
          IF conf > 0 /\ books.recent[i].conf = 0 THEN 1 ELSE 0, 0)

\* A slip: an orphan that was confirmed before is not looked at.
VerdictOnFresh(v) ==
  /\ Cardinality(copies) < MaxWrites
  /\ v \in verdicts /\ verdicts' = verdicts \ {v}
  /\ LET known == /\ v[2] \in HashesIn(books.recent)
                  /\ books.recent[Where(books.recent, v[2])].conf = 0
         i == Where(books.recent, v[2])
     IN  /\ books' = IF ~known THEN books
                     ELSE IF v[1] = "mature" THEN Confirmed(i, MatureAt)
                     ELSE Orphaned(i)
         /\ copies' = IF known THEN copies \cup {books'} ELSE copies
  /\ UNCHANGED <<chain, found, logVars, answers, checking, told,
                 booksFile, outran, reorgs, restarts>>

\* A callback of the confirmation tracker.  A block that is not in recent is
\* left alone.  An orphan that is one already only gets its count again.
Verdict(v) ==
  /\ Cardinality(copies) < MaxWrites
  /\ v \in verdicts /\ verdicts' = verdicts \ {v}
  /\ LET kind == v[1]
         b == v[2]
         known == b \in HashesIn(books.recent)
         i == Where(books.recent, b)
     IN  /\ books' = IF ~known THEN books
                     ELSE IF kind = "mature" THEN Confirmed(i, MatureAt)
                     ELSE IF books.recent[i].orphan THEN Confirmed(i, -1)
                     ELSE Orphaned(i)
         /\ copies' = IF known THEN copies \cup {books'} ELSE copies
         /\ outran' = IF known \/ kind = "mature" THEN outran
                      ELSE outran \cup {b}
  /\ UNCHANGED <<chain, found, logVars, answers, checking, told,
                 booksFile, reorgs, restarts>>

\* persist, in a goroutine of its own: the temporary file is renamed.  Its copy
\* is of the books at the change that started it, or of later ones, which have
\* a goroutine too.
WriteBooks(c) ==
  /\ c \in copies /\ copies' = copies \ {c}
  /\ booksFile' = c
  /\ UNCHANGED <<chain, found, logVars, trackVars, books, outran,
                 reorgs, restarts>>
-----------------------------------------------------------------------------
(* The process ends, by a crash or by Stop, and starts again. *)

\* loadBlockLog: a torn file is not parsed, and the log starts empty.
LoadedLog(f) == IF f.torn THEN <<>> ELSE Last(f.data, LogCap)

\* loadBlocklogs: entries of the file that recent lacks are taken over.
Taken(f) == [i \in DOMAIN f |-> [hash |-> f[i].hash, orphan |-> f[i].orphan,
                                 conf |-> f[i].conf]]
Newest(s) ==
  LET p == CHOOSE p \in Bijection(DOMAIN s, DOMAIN s) :
             \A i, j \in DOMAIN s : i < j => s[p[i]].hash >= s[p[j]].hash
  IN  [i \in 1..Len(s) |-> s[p[i]]]

\* BookEntry join the books as loaded: newest first, cut to the cap.
Joined(bk, new) ==
  Kept(Newest(bk.recent \o new), Plus(bk.total, Totals(new)), bk.cut)

Imported(bk, f) ==
  LET data == Taken(LoadedLog(f))
  IN  IF ~GlobMatches THEN bk
      ELSE Joined(bk, ElementsAt(data,
                        {i \in DOMAIN data : data[i].hash \notin HashesIn(bk.recent)}))

\* What is left of the process's memory when it has started from file f.
StartFrom(f) ==
  /\ restarts < MaxRestarts /\ restarts' = restarts + 1
  /\ blockLog' = LoadedLog(f) /\ logFile' = f /\ logSaves' = {}
  /\ reporting' = {} /\ answers' = {} /\ checking' = FALSE
  /\ verdicts' = {}
  /\ books' = Imported(booksFile, f) /\ copies' = {}
  /\ UNCHANGED <<chain, found, told, booksFile, outran, reorgs>>

CrashAndStart == StartFrom(logFile)

\* Stop saves the log; nothing waits for the books.
StopAndStart == StartFrom([torn |-> FALSE, data |-> blockLog])

LedgerNext ==
  \/ \E b \in Block : Deepen(b) \/ Reorg(b) \/ RecordBlock(b)
  \/ BlockAccepted \/ Check \/ ApplyAnswers
  \/ \E s \in logSaves : CopyLog(s) \/ WriteLog(s)
  \/ \E v \in verdicts : Verdict(v)
  \/ \E c \in copies : WriteBooks(c)
  \/ CrashAndStart \/ StopAndStart

LedgerSpec == LedgerInit /\ [][LedgerNext]_ledgerVars
-----------------------------------------------------------------------------
\* The variables have their types, and neither list outgrows its cap.
LogEntry == [hash : Block, conf : 0..TrackTo, orphan : BOOLEAN, told : BOOLEAN]
BookEntry == [hash : Block, conf : Conf, orphan : BOOLEAN]
Sums == [found : Nat, confirmed : Nat, orphaned : Nat]

LedgerTypeOK ==
  /\ chain \in [Block -> Conf] /\ found \in 0..MaxBlocks
  /\ blockLog \in Seq(LogEntry) /\ Len(blockLog) <= LogCap
  /\ books.recent \in Seq(BookEntry) /\ Len(books.recent) <= BooksCap
  /\ books.total \in Sums /\ books.cut \in Sums
  /\ reporting \subseteq 1..found /\ HashesIn(blockLog) \subseteq 1..found
  /\ verdicts \subseteq {"mature", "orphan"} \X (1..found)

\* The lifetime totals are those of the blocks in the list and of those cut
\* from it, in memory and on disk: whatever the order in which the verdicts
\* arrive, again after a restart or not, a reward is in the total exactly when
\* its block is confirmed and no orphan; and no block is counted twice, whether
\* it was called for, loaded from the books or taken over from the file of the
\* block log.  (Blocks that were cut from the list are not known at a start:
\* tracker.go:281.)
BooksAddUp ==
  /\ \A bk \in {books, booksFile} \cup copies :
       bk.total = Plus(Totals(bk.recent), bk.cut)
  /\ books.cut.found = 0 => books.total.found <= found
  /\ Cardinality(HashesIn(books.recent)) = Len(books.recent)

\* A block the confirmation tracker holds for an orphan is one in the books as
\* soon as its callback has run, but for the callback that came before
\* RecordBlock; restarts lose verdicts too.  Maturity is reported at most once for
\* a block in the life of a process.
VerdictsReachTheBooks ==
  /\ \A b \in Block : told[b] <= 1 + restarts
  /\ restarts = 0 =>
    \A i \in DOMAIN blockLog :
      LET b == blockLog[i].hash
      IN  blockLog[i].orphan /\ <<"orphan", b>> \notin verdicts =>
            \/ b \in outran
            \/ \E k \in DOMAIN books.recent :
                 books.recent[k].hash = b /\ books.recent[k].orphan
            \/ b \notin HashesIn(books.recent) /\ b \notin reporting

\* tracker.go:267-269: "reads all blocklog JSON files and merges any blocks not
\* already tracked".  A block of the log whose report is not under way is in
\* the books.
HistoryIsPickedUp ==
  HashesIn(blockLog) \subseteq HashesIn(books.recent) \cup reporting
=============================================================================
