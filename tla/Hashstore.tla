------------------------------ MODULE Hashstore ------------------------------
(***************************************************************************)
(* The hashrate history of one coin (hashstore/store.go).  Samples are     *)
(* appended as they come.  A background loop compacts the history now and  *)
(* then, and saves it: what is older than a month is cut, and what is      *)
(* older than an hour, a day, a week is merged into ever wider buckets,    *)
(* each of which becomes one sample with the time of its middle.  A start  *)
(* loads the file and sorts it.                                            *)
(*                                                                         *)
(* The averages are left out; instead of its rate a sample has, for the    *)
(* properties, the moments of the measurements it stands for.  How the file*)
(* is replaced is the matter of SnapshotFile; here a save is one step.     *)
(***************************************************************************)
EXTENDS Integers, Sequences, FiniteSets, Subsequences

CONSTANTS
  Hour, Day, Week, Month,    \* ages at which samples change zone
  Minute, Five, Quarter,     \* widths of the buckets
  HashEnd,                   \* bound: time
  CompactEvery,              \* least time between two compactions
  MaxGaps,                   \* bound: moments without a measurement
  HashCrashes                \* bound: crashes

ASSUME HashstoreAssumption ==
  /\ {Minute, Five, Quarter} \subseteq Nat \ {0}
  /\ {Hour, Day, Week, Month, HashEnd, CompactEvery} \subseteq Nat
  /\ Hour <= Day /\ Day <= Week /\ Week <= Month
  /\ Minute <= Quarter /\ Five <= Quarter
  /\ {MaxGaps, HashCrashes} \subseteq Nat

VARIABLES
  hashClock,     \* now
  samples,       \* [t, stands], in the order of the slice
  lastComp,      \* time of the last compaction, or of the start
  unsaved,       \* the loop has compacted and not yet saved
  hashFile,      \* what was saved last
  standsFor,     \* for the properties: the measurements it answers for
  gaps, hashCrashed

hashVars == <<hashClock, samples, lastComp, unsaved, hashFile, standsFor, gaps,
              hashCrashed>>

\* The measurements that a history stands for, and that it has none of them twice.
Stands(s) == UNION {s[i].stands : i \in DOMAIN s}
Once(s) == \A i, j \in DOMAIN s : i # j => s[i].stands \intersect s[j].stands = {}

HashInit ==
  /\ hashClock = 0 /\ samples = <<>> /\ lastComp = 0 /\ unsaved = FALSE
  /\ hashFile = <<>> /\ standsFor = {} /\ gaps = 0 /\ hashCrashed = 0
-----------------------------------------------------------------------------
\* Time goes on; a measurement is taken at most moments.
Add ==
  /\ hashClock < HashEnd /\ hashClock' = hashClock + 1
  /\ samples' = Append(samples, [t |-> hashClock, stands |-> {hashClock}])
  /\ standsFor' = standsFor \union {hashClock}
  /\ UNCHANGED <<lastComp, unsaved, hashFile, gaps, hashCrashed>>

Gap ==
  /\ hashClock < HashEnd /\ hashClock' = hashClock + 1
  /\ gaps < MaxGaps /\ gaps' = gaps + 1
  /\ UNCHANGED <<samples, lastComp, unsaved, hashFile, standsFor, hashCrashed>>

\* What f leads to from x in n steps.
Iterate(f, x, n) ==
  LET after[k \in 0..n] == IF k = 0 THEN x ELSE f[after[k - 1]]
  IN  after[n]

\* sort.Search: the first index from which on samples are not before cutoff, found
\* as if they were in the order of their times: the range where it can be is halved
\* until it is empty.
Halved(s, cutoff) ==
  [r \in (0..Len(s)) \X (0..Len(s)) |->
     LET h == (r[1] + r[2]) \div 2
     IN  IF r[1] >= r[2] THEN r
         ELSE IF s[h + 1].t < cutoff THEN <<h + 1, r[2]>> ELSE <<r[1], h>>]

FirstFrom(s, cutoff) == Iterate(Halved(s, cutoff), <<0, Len(s)>>, Len(s))[1]

Bucket(t, width) == (t \div width) * width

\* The run of samples of one bucket that begins at i, and where runs begin.
Run(s, i, width) ==
  {j \in i..Len(s) : \A k \in i..j : Bucket(s[k].t, width) = Bucket(s[i].t, width)}

RunStarts(s, width) ==
  {i \in DOMAIN s : i > 1 => Bucket(s[i - 1].t, width) # Bucket(s[i].t, width)}

Merged(s, width) ==
  [i \in DOMAIN s |-> [t |-> Bucket(s[i].t, width) + width \div 2,
                       stands |-> UNION {s[j].stands : j \in Run(s, i, width)}]]

\* A slip: the last bucket is never flushed.
DownsampleUnflushed(s, width) ==
  ElementsAt(Merged(s, width), {i \in RunStarts(s, width) : Len(s) \notin Run(s, i, width)})

\* downsample: a run of samples of one bucket becomes its middle.
Downsample(s, width) == ElementsAt(Merged(s, width), RunStarts(s, width))

Before(s, cutoff) == {i \in DOMAIN s : s[i].t < cutoff}

\* The month is cut, and the rest split into zones.
Compacted(s, now) ==
  LET kept == SubSeq(s, FirstFrom(s, now - Month) + 1, Len(s))
      week == Before(kept, now - Week)
      day == Before(kept, now - Day)
      hour == Before(kept, now - Hour)
  IN  Downsample(ElementsAt(kept, week), Quarter)
      \o Downsample(ElementsAt(kept, day \ week), Five)
      \o Downsample(ElementsAt(kept, hour \ day), Minute)
      \o ElementsAt(kept, DOMAIN kept \ hour)

\* The tick of backgroundLoop: compact ...
Compact ==
  /\ ~unsaved /\ hashClock - lastComp >= CompactEvery
  /\ samples' = Compacted(samples, hashClock)
  /\ LET cut == SubSeq(samples, 1, FirstFrom(samples, hashClock - Month))
     IN  standsFor' = standsFor \ Stands(cut)
  /\ lastComp' = hashClock /\ unsaved' = TRUE
  /\ UNCHANGED <<hashClock, hashFile, gaps, hashCrashed>>

\* ... and Save.
Save ==
  /\ unsaved /\ unsaved' = FALSE
  /\ hashFile' = samples
  /\ UNCHANGED <<hashClock, samples, lastComp, standsFor, gaps, hashCrashed>>

\* sort.Slice (which may leave those of one time in another order).
SortedAt(s, i) ==
  Cardinality({j \in DOMAIN s : s[j].t < s[i].t \/ (s[j].t = s[i].t /\ j <= i)})
ByTime(s) == [k \in DOMAIN s |-> s[CHOOSE i \in DOMAIN s : SortedAt(s, i) = k]]

\* The process is gone; New loads what was saved.  Close saves before it ends.
HashRestart(closed) ==
  /\ hashCrashed < HashCrashes /\ hashCrashed' = hashCrashed + 1
  /\ hashFile' = IF closed THEN samples ELSE hashFile
  /\ samples' = ByTime(hashFile')
  /\ standsFor' = Stands(hashFile')
  /\ lastComp' = hashClock /\ unsaved' = FALSE
  /\ UNCHANGED <<hashClock, gaps>>

HashNext ==
  \/ Add \/ Gap \/ Compact \/ Save
  \/ \E closed \in BOOLEAN : HashRestart(closed)

HashSpec == HashInit /\ [][HashNext]_hashVars
-----------------------------------------------------------------------------
\* The variables have their types; no sample is from the future by more than
\* the middle of its bucket.
HashTypeOK ==
  /\ hashClock \in 0..HashEnd /\ lastComp \in 0..hashClock
  /\ unsaved \in BOOLEAN /\ standsFor \subseteq 0..(hashClock - 1)
  /\ \A s \in {samples, hashFile} : \A i \in DOMAIN s :
       /\ s[i].t \in 0..(hashClock + Quarter)
       /\ s[i].stands \in (SUBSET (0..(hashClock - 1))) \ {{}}

\* Part of the next: every measurement that was not cut with the month or lost
\* unsaved is in one sample, and in one only.
NothingForgotten == Stands(samples) = standsFor /\ Once(samples)

\* Compaction bounds the history and forgets nothing: what is older than an
\* hour takes no more room than its buckets (and one each for the two that are
\* cut by a change of zone), and the samples stand for exactly the measurements
\* that were not cut with the month or lost unsaved.
HistoryIsBounded ==
  /\ NothingForgotten
  /\ lastComp = hashClock /\ unsaved =>
       Len(samples) <= Hour + 1 + ((Day - Hour) \div Minute + 2)
                       + ((Week - Day) \div Five + 2) + ((Month - Week) \div Quarter + 2)

\* "Binary-search for the start index (samples are time-ordered)" (store.go:114,
\* also :33): refuted.  The middle of a bucket that a change of zone cuts in two
\* may be later than the samples on the newer side of the cut.
TimeOrdered ==
  \A i, j \in DOMAIN samples : i < j => samples[i].t <= samples[j].t
=============================================================================
