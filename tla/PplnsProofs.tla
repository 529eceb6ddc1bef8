---------------------------- MODULE PplnsProofs ----------------------------
(***************************************************************************)
(* Proofs about Pplns for every number of coins, workers, goroutines and   *)
(* faults.  The inductive invariant says of each state the engine may      *)
(* continue from (memory, copies in flight, file) that it is sound with    *)
(* respect to what was earned and what was sent, two quantities that never *)
(* shrink; so an image that was sound stays sound however late it is used. *)
(***************************************************************************)
EXTENDS Pplns, Lemmas

Amounts == [Accounts -> Nat]

\* An image that owes and claims no more than e was earned and s was sent.
Sound(img, e, s) ==
  /\ img \in Image
  /\ \A c \in Coins : Len(img.window[c]) <= WindowSize
  /\ Len(img.payouts) <= MaxPayoutLog
  /\ \A a \in Accounts : /\ img.balances[a] + img.paid[a] <= e[a]
                        /\ img.paid[a] <= s[a]

Scalars ==
  /\ payer \in {"none", "ticker", "main"} /\ todo \subseteq Accounts
  /\ stage \in [Persists -> {"idle", "wanted", "taken"}]
  /\ phase \in {"up", "draining", "closing", "closed", "down"}
  /\ sent \in Amounts /\ earned \in Amounts
  /\ faults \in 0..MaxFaults

AllSound ==
  /\ Sound(Current, earned, sent)
  /\ Sound(disk, earned, sent)
  /\ snap \in [Persists -> Image]
  /\ \A k \in Persists : Sound(snap[k], earned, sent)

\* Without a fault the engine runs with exact books, or was never started.
ExactSoFar ==
  faults = 0 =>
    \/ /\ phase = "up" /\ payer # "main" /\ stage["stop"] = "idle"
       /\ \A a \in Accounts : /\ sent[a] = paid[a]
                             /\ balances[a] + paid[a] = earned[a]
    \/ /\ phase = "down" /\ payer = "none" /\ todo = {}
       /\ \A k \in Persists : stage[k] = "idle"
       /\ disk = Blank
       /\ \A a \in Accounts : sent[a] = 0 /\ earned[a] = 0

IInv == Scalars /\ AllSound /\ ExactSoFar
-----------------------------------------------------------------------------
(* Facts about the operators of Pplns.                                     *)

\* The credit of a worker is a whole number of units.
LEMMA CreditNat ==
  ASSUME NEW win \in Seq(Share), win # << >>, NEW w \in Workers,
         NEW r \in Rewards
  PROVE  /\ TotalDiff(win) \in Nat \ {0}
         /\ WorkerDiff(win, w) \in Nat
         /\ Credit(win, w, r) \in Nat
<1> DEFINE all == [i \in 1..Len(win) |-> win[i].diff]
           own == [i \in 1..Len(win) |->
                     IF win[i].worker = w THEN win[i].diff ELSE 0]
<1>1. Len(win) \in Nat \ {0} /\ \A i \in 1..Len(win) : win[i] \in Share
  BY EmptySeq, ElementOfSeq
<1>2. \A i \in 1..Len(win) : win[i].diff \in Nat \ {0}
  BY <1>1, PplnsAssumption DEF Share
<1>3. all \in [1..Len(win) -> Nat \ {0}] /\ own \in [1..Len(win) -> Nat]
  BY <1>2
<1> HIDE DEF all, own
<1>4. /\ all \in Seq(Nat \ {0}) /\ Len(all) = Len(win)
      /\ own \in Seq(Nat)
  BY <1>1, <1>3, SeqOfFunction
<1>5. all # << >>
  BY <1>1, <1>4, EmptySeq
<1>6. TotalDiff(win) \in Nat \ {0}
  BY <1>4, <1>5, TotalPositive DEF TotalDiff, all
<1>7. WorkerDiff(win, w) \in Nat
  BY <1>4, TotalNat DEF WorkerDiff, own
<1>8. r * (100 - FeePct) * WorkerDiff(win, w) \in Nat
  <2>1. r \in Nat /\ 100 - FeePct \in Nat
    BY PplnsAssumption
  <2>2. r * (100 - FeePct) \in Nat
    BY <2>1
  <2> QED BY <1>7, <2>2
<1>9. 100 * TotalDiff(win) \in Nat \ {0}
  BY <1>6
<1>10. Credit(win, w, r) \in Nat
  BY <1>8, <1>9, RoundDivProperties DEF Credit
<1> QED BY <1>6, <1>7, <1>10

\* A window after a push holds shares, and no more than N.
LEMMA PushLastBounded ==
  ASSUME NEW win \in Seq(Share), NEW x \in Share
  PROVE  /\ PushLast(win, x, WindowSize) \in Seq(Share)
         /\ Len(PushLast(win, x, WindowSize)) <= WindowSize
<1> DEFINE s == Append(win, x)
<1>1. s \in Seq(Share) /\ WindowSize \in Nat
  BY AppendProperties, PplnsAssumption
<1> HIDE DEF s
<1>2. /\ LastN(s, WindowSize) \in Seq(Share)
      /\ Len(LastN(s, WindowSize)) = IF Len(s) <= WindowSize THEN Len(s)
                                                            ELSE WindowSize
  BY <1>1, LastNProperties
<1>3. Len(LastN(s, WindowSize)) <= WindowSize
  BY <1>1, <1>2, LenProperties
<1> QED BY <1>2, <1>3 DEF PushLast, s

\* The log after one more payment holds payments, and no more than its cap.
LEMMA LoggedBounded ==
  ASSUME payouts \in Seq(Payment), NEW p \in Payment
  PROVE  Logged(p) \in Seq(Payment) /\ Len(Logged(p)) <= MaxPayoutLog
<1> DEFINE all == << p >> \o payouts
<1>1. all \in Seq(Payment)
  <2>1. << p >> \in Seq(Payment)
    OBVIOUS
  <2> QED BY <2>1, ConcatProperties
<1>2. Len(all) \in Nat /\ MaxPayoutLog \in Nat
  BY <1>1, LenProperties, PplnsAssumption
<1> HIDE DEF all
<1>3. CASE Len(all) <= MaxPayoutLog
  BY <1>1, <1>2, <1>3 DEF Logged, all
<1>4. CASE ~(Len(all) <= MaxPayoutLog)
  <2>1. \A i \in 1..MaxPayoutLog : all[i] \in Payment
    BY <1>1, <1>2, <1>4, ElementOfSeq
  <2>2. /\ SubSeq(all, 1, MaxPayoutLog) \in Seq(Payment)
        /\ Len(SubSeq(all, 1, MaxPayoutLog)) =
             IF 1 <= MaxPayoutLog THEN MaxPayoutLog - 1 + 1 ELSE 0
    BY <1>2, <2>1, SubSeqProperties
  <2> QED BY <1>2, <1>4, <2>2 DEF Logged, all
<1> QED BY <1>3, <1>4

LEMMA BlankSound ==
  ASSUME NEW e \in Amounts, NEW s \in Amounts
  PROVE  Sound(Blank, e, s)
<1>1. Blank \in Image
  BY DEF Blank, Image
<1>2. /\ \A c \in Coins : Len(Blank.window[c]) <= WindowSize
      /\ Len(Blank.payouts) <= MaxPayoutLog
  BY PplnsAssumption DEF Blank
<1>3. \A a \in Accounts : e[a] \in Nat /\ s[a] \in Nat
  BY DEF Amounts
<1>4. \A a \in Accounts : /\ Blank.balances[a] + Blank.paid[a] <= e[a]
                         /\ Blank.paid[a] <= s[a]
  BY <1>3 DEF Blank
<1> QED BY <1>1, <1>2, <1>4 DEF Sound

\* What was earned and sent only grows, so a sound image stays sound.
LEMMA SoundLater ==
  ASSUME NEW img, NEW e \in Amounts, NEW s \in Amounts,
         NEW e2 \in Amounts, NEW s2 \in Amounts, Sound(img, e, s),
         \A a \in Accounts : e[a] <= e2[a] /\ s[a] <= s2[a]
  PROVE  Sound(img, e2, s2)
<1>1. ASSUME NEW a \in Accounts
      PROVE  /\ img.balances[a] + img.paid[a] <= e2[a]
             /\ img.paid[a] <= s2[a]
  <2>1. /\ img.balances[a] \in Nat /\ img.paid[a] \in Nat
        /\ e[a] \in Nat /\ s[a] \in Nat /\ e2[a] \in Nat /\ s2[a] \in Nat
    BY DEF Sound, Image, Amounts
  <2>2. img.balances[a] + img.paid[a] <= e[a] /\ img.paid[a] <= s[a]
    BY DEF Sound
  <2> QED BY <2>1, <2>2
<1> QED BY <1>1 DEF Sound

\* A step keeps every image sound if the memory it leaves is sound and each
\* copy and the file are taken from images that were there before.
LEMMA AllSoundStep ==
  ASSUME AllSound, Scalars, earned' \in Amounts, sent' \in Amounts,
         \A a \in Accounts : earned[a] <= earned'[a] /\ sent[a] <= sent'[a],
         Sound(Current', earned', sent'),
         disk' = disk \/ (\E k \in Persists : disk' = snap[k]),
         snap' \in [Persists -> Image],
         \A k \in Persists : snap'[k] \in {snap[k], Current, Blank}
  PROVE  AllSound'
<1>1. earned \in Amounts /\ sent \in Amounts
  BY DEF Scalars
<1>2. /\ Sound(Current, earned', sent') /\ Sound(disk, earned', sent')
      /\ \A k \in Persists : Sound(snap[k], earned', sent')
  BY <1>1, SoundLater DEF AllSound
<1>3. Sound(Blank, earned', sent')
  BY BlankSound
<1>4. Sound(disk', earned', sent')
  BY <1>2
<1>5. \A k \in Persists : Sound(snap'[k], earned', sent')
  BY <1>2, <1>3
<1> QED BY <1>4, <1>5 DEF AllSound
-----------------------------------------------------------------------------
(* The invariant is inductive: one lemma per action or group of actions.   *)

LEMMA InitIInv == Init => IInv
<1> SUFFICES ASSUME Init PROVE IInv
  OBVIOUS
<1>1. Scalars
  BY PplnsAssumption DEF Init, Scalars, Amounts
<1>2. Current = Blank /\ disk = Blank /\ snap = [k \in Persists |-> Blank]
  BY DEF Init, Current, Blank
<1>3. Sound(Blank, earned, sent)
  BY <1>1, BlankSound DEF Scalars
<1>4. Blank \in Image
  BY <1>3 DEF Sound
<1>5. AllSound
  BY <1>2, <1>3, <1>4 DEF AllSound
<1>6. ExactSoFar
  BY DEF Init, ExactSoFar
<1> QED BY <1>1, <1>5, <1>6 DEF IInv

\* The types of memory, as the actions need them.
LEMMA MemoryTypes ==
  ASSUME IInv
  PROVE  /\ window \in [Coins -> Seq(Share)]
         /\ \A c \in Coins : Len(window[c]) <= WindowSize
         /\ balances \in Amounts /\ paid \in Amounts
         /\ payouts \in Seq(Payment) /\ Len(payouts) <= MaxPayoutLog
         /\ \A a \in Accounts : /\ balances[a] + paid[a] <= earned[a]
                               /\ paid[a] <= sent[a]
BY DEF IInv, AllSound, Sound, Current, Image, Amounts

\* The steps that leave memory, the file and the money alone.
LEMMA QuietStep ==
  ASSUME IInv, UNCHANGED memory, UNCHANGED <<disk, snap, earned, sent>>,
         Scalars', faults' = 0 => /\ phase' = "up" /\ phase = "up"
                                  /\ faults = 0 /\ payer' # "main"
                                  /\ stage'["stop"] = "idle"
  PROVE  IInv'
<1>1. Current' = Current
  BY DEF Current, memory
<1>2. AllSound'
  BY <1>1 DEF AllSound, IInv
<1>3. ExactSoFar'
  BY DEF ExactSoFar, IInv, memory
<1> QED BY <1>2, <1>3 DEF IInv

LEMMA RecordShareIInv ==
  ASSUME IInv, NEW c \in Coins, NEW w \in Workers, NEW d \in Diffs,
         RecordShare(c, w, d)
  PROVE  IInv'
<1> DEFINE x == [worker |-> w, diff |-> d]
           win == PushLast(window[c], x, WindowSize)
<1>1. Scalars'
  BY DEF RecordShare, IInv, Scalars
<1>2. x \in Share
  BY DEF Share
<1>3. window[c] \in Seq(Share)
  BY MemoryTypes
<1>4. win \in Seq(Share) /\ Len(win) <= WindowSize
  BY <1>2, <1>3, PushLastBounded
<1>5. window' = [window EXCEPT ![c] = win]
  BY DEF RecordShare
<1> HIDE DEF win
<1>6. /\ window' \in [Coins -> Seq(Share)]
      /\ \A b \in Coins : Len(window'[b]) <= WindowSize
  BY <1>4, <1>5, MemoryTypes
<1>7. Sound(Current', earned', sent')
  BY <1>6, MemoryTypes DEF RecordShare, Sound, Current, Image, Amounts
<1>8. AllSound'
  BY <1>7 DEF RecordShare, AllSound, IInv
<1>9. ExactSoFar'
  BY DEF RecordShare, ExactSoFar, IInv
<1> QED BY <1>1, <1>8, <1>9 DEF IInv

LEMMA BlockFoundIInv ==
  ASSUME IInv, NEW c \in Coins, NEW r \in Rewards, BlockFound(c, r)
  PROVE  IInv'
<1>1. window[c] \in Seq(Share) /\ window[c] # << >>
  BY MemoryTypes DEF BlockFound
<1>2. ASSUME NEW a \in Accounts PROVE Gain(a, c, r) \in Nat
  <2>1. a[2] \in Workers
    BY DEF Accounts
  <2> QED BY <1>1, <2>1, CreditNat DEF Gain
<1>3. /\ balances \in Amounts /\ paid \in Amounts
      /\ earned \in Amounts /\ sent \in Amounts
  BY MemoryTypes DEF IInv, Scalars
<1>4. /\ balances' = [a \in Accounts |-> balances[a] + Gain(a, c, r)]
      /\ earned' = [a \in Accounts |-> earned[a] + Gain(a, c, r)]
      /\ UNCHANGED <<window, paid, payouts, payer, todo, snap, phase, disk,
                     sent, faults>>
  BY DEF BlockFound
<1>5. balances' \in Amounts /\ earned' \in Amounts
  BY <1>2, <1>3, <1>4 DEF Amounts
<1>6. Scalars'
  <2>1. stage' \in [Persists -> {"idle", "wanted", "taken"}]
    BY DEF BlockFound, Spawn, IInv, Scalars
  <2> QED BY <1>4, <1>5, <2>1 DEF IInv, Scalars
<1>7. ASSUME NEW a \in Accounts
      PROVE  /\ earned[a] <= earned'[a] /\ sent[a] <= sent'[a]
             /\ balances'[a] + paid'[a] <= earned'[a]
             /\ paid'[a] <= sent'[a]
             /\ balances[a] + paid[a] = earned[a] =>
                  balances'[a] + paid'[a] = earned'[a]
  <2>1. /\ balances[a] \in Nat /\ paid[a] \in Nat /\ earned[a] \in Nat
        /\ sent[a] \in Nat /\ Gain(a, c, r) \in Nat
    BY <1>2, <1>3 DEF Amounts
  <2>2. balances[a] + paid[a] <= earned[a] /\ paid[a] <= sent[a]
    BY MemoryTypes
  <2>3. /\ balances'[a] = balances[a] + Gain(a, c, r)
        /\ earned'[a] = earned[a] + Gain(a, c, r)
        /\ paid'[a] = paid[a] /\ sent'[a] = sent[a]
    BY <1>4
  <2> QED BY <2>1, <2>2, <2>3
<1>8. Sound(Current', earned', sent')
  BY <1>4, <1>5, <1>7, MemoryTypes DEF Sound, Current, Image, Amounts
<1>9. AllSound'
  <2>1. AllSound /\ Scalars
    BY DEF IInv
  <2>2. snap' \in [Persists -> Image] /\ disk' = disk /\ snap' = snap
    BY <1>4, <2>1 DEF AllSound
  <2> QED BY <1>3, <1>4, <1>5, <1>7, <1>8, <2>1, <2>2, AllSoundStep
<1>10. ExactSoFar'
  <2>1. phase # "down"
    BY DEF BlockFound, Alive
  <2>2. faults = 0 => stage'["stop"] = "idle"
    <3>1. PICK g \in Goroutines : stage' = [stage EXCEPT ![g] = "wanted"]
      BY DEF BlockFound, Spawn
    <3>2. g # "stop"
      BY PplnsAssumption
    <3> QED BY <2>1, <3>1, <3>2 DEF ExactSoFar, IInv, Scalars, Persists
  <2> QED BY <1>4, <1>7, <2>1, <2>2 DEF ExactSoFar, IInv
<1> QED BY <1>6, <1>9, <1>10 DEF IInv

LEMMA SendSucceedsIInv ==
  ASSUME IInv, NEW a \in Accounts, SendSucceeds(a)
  PROVE  IInv'
<1>1. /\ balances \in Amounts /\ paid \in Amounts
      /\ earned \in Amounts /\ sent \in Amounts
  BY MemoryTypes DEF IInv, Scalars
<1>2. /\ balances' = [balances EXCEPT ![a] = 0]
      /\ paid' = [paid EXCEPT ![a] = paid[a] + balances[a]]
      /\ sent' = [sent EXCEPT ![a] = sent[a] + balances[a]]
      /\ payouts' = Logged([account |-> a, amount |-> balances[a]])
      /\ UNCHANGED <<window, payer, stage, snap, phase, disk, earned, faults>>
      /\ todo' = todo \ {a} /\ a \in todo
  BY DEF SendSucceeds, Book
<1>3. /\ balances' \in Amounts /\ paid' \in Amounts /\ sent' \in Amounts
  BY <1>1, <1>2 DEF Amounts
<1>4. payouts' \in Seq(Payment) /\ Len(payouts') <= MaxPayoutLog
  <2>1. [account |-> a, amount |-> balances[a]] \in Payment
    BY <1>1 DEF Payment, Amounts
  <2> QED BY <1>2, <2>1, LoggedBounded, MemoryTypes
<1>5. Scalars'
  BY <1>2, <1>3 DEF IInv, Scalars
<1>6. ASSUME NEW b \in Accounts
      PROVE  /\ earned[b] <= earned'[b] /\ sent[b] <= sent'[b]
             /\ balances'[b] + paid'[b] <= earned'[b]
             /\ paid'[b] <= sent'[b]
             /\ sent[b] = paid[b] => sent'[b] = paid'[b]
             /\ balances[b] + paid[b] = earned[b] =>
                  balances'[b] + paid'[b] = earned'[b]
  <2>1. /\ balances[b] \in Nat /\ paid[b] \in Nat /\ earned[b] \in Nat
        /\ sent[b] \in Nat
    BY <1>1 DEF Amounts
  <2>2. balances[b] + paid[b] <= earned[b] /\ paid[b] <= sent[b]
    BY MemoryTypes
  <2>3. CASE b = a
    <3>1. /\ balances'[b] = 0 /\ paid'[b] = paid[b] + balances[b]
          /\ sent'[b] = sent[b] + balances[b] /\ earned'[b] = earned[b]
      BY <1>1, <1>2, <2>3 DEF Amounts
    <3> QED BY <2>1, <2>2, <3>1
  <2>4. CASE b # a
    <3>1. /\ balances'[b] = balances[b] /\ paid'[b] = paid[b]
          /\ sent'[b] = sent[b] /\ earned'[b] = earned[b]
      BY <1>1, <1>2, <2>4 DEF Amounts
    <3> QED BY <2>1, <2>2, <3>1
  <2> QED BY <2>3, <2>4
<1>7. Sound(Current', earned', sent')
  BY <1>2, <1>3, <1>4, <1>6, MemoryTypes DEF Sound, Current, Image, Amounts
<1>8. AllSound'
  <2>1. AllSound /\ Scalars
    BY DEF IInv
  <2>2. snap' \in [Persists -> Image] /\ disk' = disk /\ snap' = snap
    BY <1>2, <2>1 DEF AllSound
  <2> QED BY <1>1, <1>2, <1>3, <1>6, <1>7, <2>1, <2>2, AllSoundStep
<1>9. ExactSoFar'
  <2>1. faults = 0 => phase = "up" /\ payer # "main" /\ stage["stop"] = "idle"
    BY <1>2 DEF ExactSoFar, IInv
  <2> QED BY <1>2, <1>6, <2>1 DEF ExactSoFar, IInv
<1> QED BY <1>5, <1>8, <1>9 DEF IInv

LEMMA AnswerLostIInv ==
  ASSUME IInv, NEW a \in Accounts, AnswerLost(a)
  PROVE  IInv'
<1>1. /\ balances \in Amounts /\ earned \in Amounts /\ sent \in Amounts
      /\ faults \in Nat
  BY MemoryTypes, PplnsAssumption DEF IInv, Scalars
<1>2. /\ sent' = [sent EXCEPT ![a] = sent[a] + balances[a]]
      /\ faults' = faults + 1 /\ faults < MaxFaults
      /\ todo' = todo \ {a}
      /\ UNCHANGED <<window, balances, paid, payouts, payer, stage, snap, phase,
                     disk, earned>>
  BY DEF AnswerLost
<1>3. sent' \in Amounts
  BY <1>1, <1>2 DEF Amounts
<1>4. ASSUME NEW b \in Accounts
      PROVE  earned[b] <= earned'[b] /\ sent[b] <= sent'[b]
  BY <1>1, <1>2 DEF Amounts
<1>5. Scalars'
  BY <1>1, <1>2, <1>3, PplnsAssumption DEF IInv, Scalars
<1>6. AllSound'
  <2>1. AllSound /\ Scalars
    BY DEF IInv
  <2>2. snap' \in [Persists -> Image] /\ disk' = disk /\ snap' = snap
    BY <1>2, <2>1 DEF AllSound
  <2>3. Current' = Current
    BY <1>2 DEF Current
  <2>4. Sound(Current', earned', sent')
    BY <1>1, <1>2, <1>3, <1>4, <2>1, <2>3, SoundLater DEF AllSound
  <2> QED BY <1>1, <1>2, <1>3, <1>4, <2>1, <2>2, <2>4, AllSoundStep
<1>7. ExactSoFar'
  BY <1>1, <1>2 DEF ExactSoFar
<1> QED BY <1>5, <1>6, <1>7 DEF IInv

LEMMA TakeSnapshotIInv ==
  ASSUME IInv, NEW k \in Persists, TakeSnapshot(k)
  PROVE  IInv'
<1>1. Scalars'
  BY DEF TakeSnapshot, IInv, Scalars
<1>2. Current' = Current
  BY DEF TakeSnapshot, Current
<1>3. AllSound'
  <2>1. AllSound /\ Current \in Image
    BY DEF IInv, AllSound, Sound
  <2>2. snap' = [snap EXCEPT ![k] = Current]
    BY DEF TakeSnapshot
  <2>3. UNCHANGED <<disk, earned, sent>>
    BY DEF TakeSnapshot
  <2>4. snap' \in [Persists -> Image]
    BY <2>1, <2>2 DEF AllSound
  <2>5. \A j \in Persists : snap'[j] \in {snap[j], Current}
    BY <2>1, <2>2 DEF AllSound
  <2> QED BY <1>2, <2>1, <2>3, <2>4, <2>5 DEF AllSound
<1>4. ExactSoFar'
  <2>1. faults = 0 => phase = "up" /\ k # "stop"
    BY DEF TakeSnapshot, ExactSoFar, IInv
  <2>2. faults' = 0 => stage'["stop"] = "idle"
    BY <2>1 DEF TakeSnapshot, ExactSoFar, IInv, Scalars, Persists
  <2> QED BY <2>1, <2>2 DEF TakeSnapshot, ExactSoFar, IInv
<1> QED BY <1>1, <1>3, <1>4 DEF IInv

LEMMA WriteStateIInv ==
  ASSUME IInv, NEW k \in Persists, WriteState(k)
  PROVE  IInv'
<1>1. Scalars'
  BY DEF WriteState, IInv, Scalars
<1>2. Current' = Current
  BY DEF WriteState, Current
<1>3. AllSound'
  <2>1. AllSound /\ earned \in Amounts /\ sent \in Amounts
    BY DEF IInv, Scalars
  <2>2. /\ snap' = [snap EXCEPT ![k] = Blank] /\ disk' = snap[k]
        /\ UNCHANGED <<earned, sent>>
    BY DEF WriteState
  <2>3. Sound(Blank, earned, sent) /\ Blank \in Image
    BY <2>1, BlankSound DEF Sound
  <2>4. snap' \in [Persists -> Image]
    BY <2>1, <2>2, <2>3 DEF AllSound
  <2>5. \A j \in Persists : snap'[j] \in {snap[j], Blank}
    BY <2>1, <2>2 DEF AllSound
  <2> QED BY <1>2, <2>1, <2>2, <2>3, <2>4, <2>5 DEF AllSound
<1>4. ExactSoFar'
  <2>1. faults = 0 => phase = "up" /\ k # "stop"
    BY DEF WriteState, ExactSoFar, IInv
  <2>2. faults' = 0 => stage'["stop"] = "idle"
    BY <2>1 DEF WriteState, ExactSoFar, IInv, Scalars, Persists
  <2> QED BY <2>1, <2>2 DEF WriteState, ExactSoFar, IInv
<1> QED BY <1>1, <1>3, <1>4 DEF IInv

\* Begin and end of ProcessPayouts, a refused payment, the loop's tick, and
\* the first steps of a shutdown move neither money nor images.
LEMMA QuietIInv ==
  ASSUME IInv,
         \/ \E who \in {"ticker", "main"} : BeginPayouts(who)
         \/ \E a \in Accounts : SendFails(a)
         \/ EndPayouts \/ LoopTick \/ Shutdown \/ StopPersist
  PROVE  IInv'
<1>1. ASSUME NEW who \in {"ticker", "main"}, BeginPayouts(who) PROVE IInv'
  <2>1. Scalars'
    BY <1>1 DEF BeginPayouts, Due, IInv, Scalars
  <2>2. /\ UNCHANGED memory /\ UNCHANGED <<disk, snap, earned, sent>>
        /\ UNCHANGED <<faults, phase, stage>> /\ payer' = who
        /\ phase # "down" /\ (who = "main" => phase = "draining")
    BY <1>1 DEF BeginPayouts, memory, Alive
  <2>3. faults = 0 => phase = "up" /\ stage["stop"] = "idle"
    BY <2>2 DEF ExactSoFar, IInv
  <2> QED BY <2>1, <2>2, <2>3, QuietStep
<1>2. ASSUME NEW a \in Accounts, SendFails(a) PROVE IInv'
  <2>1. Scalars'
    BY <1>2 DEF SendFails, IInv, Scalars
  <2>2. /\ UNCHANGED memory /\ UNCHANGED <<disk, snap, earned, sent>>
        /\ UNCHANGED <<faults, phase, stage, payer>> /\ todo # {}
    BY <1>2 DEF SendFails, memory
  <2>3. faults = 0 => phase = "up" /\ stage["stop"] = "idle" /\ payer # "main"
    BY <2>2 DEF ExactSoFar, IInv
  <2> QED BY <2>1, <2>2, <2>3, QuietStep
<1>3. ASSUME EndPayouts PROVE IInv'
  <2>1. PICK g \in Goroutines : stage' = [stage EXCEPT ![g] = "wanted"]
    BY <1>3 DEF EndPayouts, Spawn
  <2>2. g \in Persists /\ g # "stop"
    BY PplnsAssumption DEF Persists
  <2>3. Scalars'
    BY <1>3, <2>1, <2>2 DEF EndPayouts, IInv, Scalars
  <2>4. /\ UNCHANGED memory /\ UNCHANGED <<disk, snap, earned, sent, faults>>
        /\ payer # "none" /\ payer' = "none"
        /\ phase' = IF payer = "main" THEN "closing" ELSE phase
    BY <1>3 DEF EndPayouts, memory
  <2>5. faults = 0 => phase = "up" /\ phase' = "up" /\ stage'["stop"] = "idle"
    BY <2>1, <2>2, <2>4 DEF ExactSoFar, IInv, Scalars
  <2> QED BY <2>3, <2>4, <2>5, QuietStep
<1>4. ASSUME LoopTick PROVE IInv'
  <2>1. Scalars'
    BY <1>4 DEF LoopTick, IInv, Scalars
  <2>2. /\ UNCHANGED memory /\ UNCHANGED <<disk, snap, earned, sent>>
        /\ UNCHANGED <<faults, phase, payer>> /\ phase # "down"
        /\ stage'["stop"] = stage["stop"]
    BY <1>4 DEF LoopTick, memory, IInv, Scalars, Persists
  <2>3. faults = 0 => phase = "up" /\ stage["stop"] = "idle" /\ payer # "main"
    BY <2>2 DEF ExactSoFar, IInv
  <2> QED BY <2>1, <2>2, <2>3, QuietStep
<1>5. ASSUME Shutdown PROVE IInv'
  <2>1. Scalars' /\ faults' # 0
    BY <1>5, PplnsAssumption DEF Shutdown, IInv, Scalars
  <2>2. UNCHANGED memory /\ UNCHANGED <<disk, snap, earned, sent>>
    BY <1>5 DEF Shutdown, memory
  <2> QED BY <2>1, <2>2, QuietStep
<1>6. ASSUME StopPersist PROVE IInv'
  <2>1. Scalars'
    BY <1>6 DEF StopPersist, IInv, Scalars
  <2>2. /\ UNCHANGED memory /\ UNCHANGED <<disk, snap, earned, sent, faults>>
        /\ phase = "closing"
    BY <1>6 DEF StopPersist, memory
  <2>3. faults # 0
    BY <2>2 DEF ExactSoFar, IInv
  <2> QED BY <2>1, <2>2, <2>3, QuietStep
<1> QED BY <1>1, <1>2, <1>3, <1>4, <1>5, <1>6

LEMMA GoneIInv ==
  ASSUME IInv, Exit \/ Crash
  PROVE  IInv'
<1>1. Gone /\ UNCHANGED <<disk, sent, earned>>
  BY DEF Exit, Crash
<1>2. faults' \in 0..MaxFaults /\ faults' # 0
  BY PplnsAssumption DEF Exit, Crash, ExactSoFar, IInv, Scalars
<1>3. Scalars'
  BY <1>1, <1>2 DEF Gone, IInv, Scalars
<1>4. earned \in Amounts /\ sent \in Amounts
  BY DEF IInv, Scalars
<1>5. Sound(Blank, earned, sent) /\ Blank \in Image
  BY <1>4, BlankSound DEF Sound
<1>6. Current' = Blank
  BY <1>1 DEF Gone, Current, Blank
<1>7. AllSound'
  BY <1>1, <1>5, <1>6 DEF Gone, AllSound, IInv
<1>8. ExactSoFar'
  BY <1>2 DEF ExactSoFar
<1> QED BY <1>3, <1>7, <1>8 DEF IInv

LEMMA StartIInv ==
  ASSUME IInv, Start
  PROVE  IInv'
<1>1. /\ disk \in Image /\ Sound(disk, earned, sent)
  BY DEF IInv, AllSound, Sound
<1>2. Scalars'
  BY DEF Start, IInv, Scalars
<1>3. ASSUME NEW c \in Coins
      PROVE  /\ LastN(disk.window[c], WindowSize) \in Seq(Share)
             /\ Len(LastN(disk.window[c], WindowSize)) <= WindowSize
  <2>1. disk.window[c] \in Seq(Share) /\ WindowSize \in Nat
    BY <1>1, PplnsAssumption DEF Image
  <2>2. Len(disk.window[c]) <= WindowSize
    BY <1>1 DEF Sound
  <2>3. LastN(disk.window[c], WindowSize) = disk.window[c]
    BY <2>1, <2>2, LastNAll
  <2> QED BY <2>1, <2>2, <2>3
<1>4. /\ window' = [c \in Coins |-> LastN(disk.window[c], WindowSize)]
      /\ balances' = disk.balances /\ paid' = disk.paid
      /\ payouts' = disk.payouts /\ phase' = "up" /\ phase = "down"
      /\ UNCHANGED <<payer, todo, stage, snap, disk, sent, earned, faults>>
  BY DEF Start
<1>5. /\ window' \in [Coins -> Seq(Share)]
      /\ \A c \in Coins : Len(window'[c]) <= WindowSize
  BY <1>3, <1>4
<1>6. Sound(Current', earned', sent')
  BY <1>1, <1>4, <1>5 DEF Sound, Current, Image
<1>7. AllSound'
  BY <1>4, <1>6 DEF AllSound, IInv
<1>8. ExactSoFar'
  <2> SUFFICES ASSUME faults = 0 PROVE ExactSoFar'
    BY <1>4 DEF ExactSoFar
  <2>1. /\ disk = Blank /\ payer = "none"
        /\ stage["stop"] = "idle"
        /\ \A a \in Accounts : sent[a] = 0 /\ earned[a] = 0
    BY <1>4 DEF ExactSoFar, IInv, Persists
  <2>2. \A a \in Accounts : balances'[a] = 0 /\ paid'[a] = 0
    BY <1>4, <2>1 DEF Blank
  <2> QED BY <1>4, <2>1, <2>2 DEF ExactSoFar
<1> QED BY <1>2, <1>7, <1>8 DEF IInv

LEMMA NextIInv == IInv /\ [Next]_vars => IInv'
<1> SUFFICES ASSUME IInv, [Next]_vars PROVE IInv'
  OBVIOUS
<1>1. CASE \E c \in Coins, w \in Workers, d \in Diffs : RecordShare(c, w, d)
  BY <1>1, RecordShareIInv
<1>2. CASE \E c \in Coins, r \in Rewards : BlockFound(c, r)
  BY <1>2, BlockFoundIInv
<1>3. CASE \/ \E who \in {"ticker", "main"} : BeginPayouts(who)
           \/ \E a \in Accounts : SendFails(a)
           \/ EndPayouts \/ LoopTick \/ Shutdown \/ StopPersist
  BY <1>3, QuietIInv
<1>4. CASE \E a \in Accounts : SendSucceeds(a) \/ AnswerLost(a)
  BY <1>4, SendSucceedsIInv, AnswerLostIInv
<1>5. CASE \E k \in Persists : TakeSnapshot(k) \/ WriteState(k)
  BY <1>5, TakeSnapshotIInv, WriteStateIInv
<1>6. CASE Exit \/ Crash
  BY <1>6, GoneIInv
<1>7. CASE Start
  BY <1>7, StartIInv
<1>8. CASE UNCHANGED vars
  BY <1>8 DEF vars, IInv, Scalars, AllSound, ExactSoFar, Current
<1> QED BY <1>1, <1>2, <1>3, <1>4, <1>5, <1>6, <1>7, <1>8 DEF Next

LEMMA AlwaysIInv == Spec => []IInv
BY InitIInv, NextIInv, PTL DEF Spec
-----------------------------------------------------------------------------
LEMMA ImagesSound ==
  ASSUME IInv, NEW img \in Images
  PROVE  Sound(img, earned, sent)
BY DEF IInv, AllSound, Images

\* Memory, every copy in flight and the file are well formed: no window
\* exceeds N and no payout log its cap, through restarts and crashes.
THEOREM PplnsTypes == Spec => []TypeOK
<1>1. IInv => TypeOK
  BY ImagesSound DEF TypeOK, Sound, IInv, Scalars, AllSound, Amounts
<1> QED BY <1>1, AlwaysIInv, PTL

\* No restart, crash, late write or lost answer ever makes the engine owe a
\* worker more than it earned, counting what it was paid.
THEOREM PplnsNothingInvented == Spec => []NothingInvented
<1>1. IInv => NothingInvented
  BY ImagesSound DEF NothingInvented, Sound
<1> QED BY <1>1, AlwaysIInv, PTL

\* Whatever happens, a payment in the books was made by the daemon.
THEOREM PplnsClaimsAreReal == Spec => []ClaimsAreReal
<1>1. IInv => ClaimsAreReal
  BY ImagesSound DEF ClaimsAreReal, Sound
<1> QED BY <1>1, AlwaysIInv, PTL

\* Until the first shutdown, crash or lost answer the books are exact: what
\* was sent is what is booked, and credit is either pending or paid.
THEOREM PplnsExact == Spec => []ExactWhileFaultless
<1>1. IInv => ExactWhileFaultless
  BY DEF ExactWhileFaultless, IInv, ExactSoFar, Alive
<1> QED BY <1>1, AlwaysIInv, PTL

\* Every credit is the worker's part of the reward after the fee, to within
\* half a unit, for every window, reward and fee.
THEOREM PplnsCreditsFit == Spec => []CreditsFitReward
<1>1. IInv => CreditsFitReward
  <2> SUFFICES ASSUME IInv, NEW c \in Coins, NEW r \in Rewards,
                      window[c] # << >>, NEW w \in Workers
               PROVE  LET net == r * (100 - FeePct)
                          all == TotalDiff(window[c])
                          off == 100 * all * Credit(window[c], w, r)
                                   - net * WorkerDiff(window[c], w)
                      IN  -50 * all <= off /\ off <= 50 * all
    BY DEF CreditsFitReward
  <2> DEFINE all == TotalDiff(window[c])
             b == 100 * all
             a == r * (100 - FeePct) * WorkerDiff(window[c], w)
             q == Credit(window[c], w, r)
  <2>1. window[c] \in Seq(Share)
    BY MemoryTypes
  <2>2. all \in Nat \ {0} /\ WorkerDiff(window[c], w) \in Nat /\ q \in Nat
    BY <2>1, CreditNat
  <2>3. b \in Nat \ {0} /\ a \in Nat
    <3>1. r \in Nat /\ 100 - FeePct \in Nat
      BY PplnsAssumption
    <3>2. r * (100 - FeePct) \in Nat
      BY <3>1
    <3> QED BY <2>2, <3>2
  <2>4. q = RoundDiv(a, b)
    BY DEF Credit
  <2> HIDE DEF a, b, q, all
  <2>5. 2 * (b * q) <= 2 * a + b /\ 2 * a - b <= 2 * (b * q)
    BY <2>3, <2>4, RoundDivProperties
  <2>6. b * q \in Nat
    BY <2>2, <2>3
  <2>7. b = 100 * all
    BY DEF b
  <2>8. -50 * all <= b * q - a /\ b * q - a <= 50 * all
    <3> DEFINE x == b * q
    <3>1. x \in Nat /\ 2 * x <= 2 * a + b /\ 2 * a - b <= 2 * x
      BY <2>5, <2>6
    <3> HIDE DEF x
    <3>2. -50 * all <= x - a /\ x - a <= 50 * all
      BY <2>2, <2>3, <2>7, <3>1
    <3> QED BY <3>2 DEF x
  <2> QED BY <2>8 DEF a, b, q, all
<1> QED BY <1>1, AlwaysIInv, PTL
=============================================================================
