-------------------------------- MODULE Merge ---------------------------------
(***************************************************************************)
(* Merge mining: the coordinator keeps the current work of the aux chains  *)
(* (merge/auxpow.go), the stratum server of the parent commits to it in    *)
(* the coinbase of each job (buildJob of stratum/server.go), and a block   *)
(* that the parent's node accepts is proved to the aux daemons (the        *)
(* callback OnAuxBlockFound of main.go).  A goroutine polls each daemon,   *)
(* one submits each block, and one each proof.  The callback belongs to    *)
(* the loop of main.go that starts the servers, and reads the variable of  *)
(* that loop: with the language version of go.mod (1.21) there is one for  *)
(* all turns, so that it holds the last coin once the loop has ended.      *)
(*                                                                         *)
(* A work is the n-th of its chain.  Of a share it matters which of the    *)
(* targets its hash meets.  What a proof is made of is the matter of       *)
(* Block; here it is the place it claims and the works that the coinbase   *)
(* of its block commits to, in the order of their symbols.                 *)
(***************************************************************************)
EXTENDS Subsequences

CONSTANTS
  Children,     \* the aux chains, sorted by their symbols
  MaxWorks,     \* bound: works of a chain
  MaxParents,   \* bound: jobs
  MaxSolves,    \* bound: shares that solve something
  Parent,       \* the coin of the server
  CoinLoop      \* EnabledCoins from the parent on, aux chains at the end

Kids == {Children[i] : i \in DOMAIN Children}

ASSUME MergeAssumption ==
  /\ Children \in Seq(Kids)
  /\ CoinLoop \in Seq({CoinLoop[i] : i \in DOMAIN CoinLoop}) /\ CoinLoop # << >>
  /\ {MaxWorks, MaxParents, MaxSolves} \subseteq Nat \ {0}

VARIABLES
  loopCoin,   \* coin of the loop in main.go, as a place in CoinLoop
  auxTip,     \* the work each daemon gives out
  lastWork,   \* auxWork: what the coordinator knows; 0 for nothing yet
  mergeJob,   \* the current job: its number and the snapshot AuxWorks
  solves,     \* goroutines with a block for the parent: job, and the chains
              \* whose targets it meets
  proofs,     \* goroutines with a proof: chain, work, place, the commitment
              \* of its block, and whether it meets the target
  taken,      \* proofs the daemons have accepted
  refused,    \* and rejected, with the reason
  alone,      \* for the properties: works solved by shares that are no block
              \* of the parent,
  lost,       \* by blocks that the parent's node does not take,
  forgone,    \* and by blocks it takes, without a proof
  solved      \* shares so far

mergeVars == <<loopCoin, auxTip, lastWork, mergeJob, solves, proofs, taken, refused, alone,
               lost, forgone, solved>>
fates == <<alone, lost, forgone>>

\* MergeChildren of a coin: here only the parent has some.
MergeChildren(coin) == IF coin = Parent THEN Kids ELSE {}

\* The chains with a work in the snapshot, and the works that a coinbase commits to.
Chosen(snap) == ElementsAt(Children, {i \in DOMAIN Children : snap[Children[i]] > 0})
Commitment(snap) == [i \in DOMAIN Chosen(snap) |-> snap[Chosen(snap)[i]]]

MergeInit ==
  /\ loopCoin = 1
  /\ auxTip = [c \in Kids |-> 1] /\ lastWork = [c \in Kids |-> 0]
  /\ mergeJob = [id |-> 0, works |-> [c \in Kids |-> 0]]
  /\ solves = {} /\ proofs = {} /\ taken = {} /\ refused = {}
  /\ alone = {} /\ lost = {} /\ forgone = {} /\ solved = 0
-----------------------------------------------------------------------------
\* The next turn of the loop, while the server of the parent runs already.
NextCoin ==
  /\ loopCoin < Len(CoinLoop) /\ loopCoin' = loopCoin + 1
  /\ UNCHANGED <<auxTip, lastWork, mergeJob, solves, proofs, taken, refused, fates, solved>>

\* The aux chain has found another block.
AuxBlock(c) ==
  /\ auxTip[c] < MaxWorks /\ auxTip' = [auxTip EXCEPT ![c] = @ + 1]
  /\ UNCHANGED <<loopCoin, lastWork, mergeJob, solves, proofs, taken, refused, fates, solved>>

\* pollAuxChain, every half second or after a failure 5 seconds later.
PollAux(c) ==
  /\ lastWork[c] # auxTip[c] /\ lastWork' = [lastWork EXCEPT ![c] = auxTip[c]]
  /\ UNCHANGED <<loopCoin, auxTip, mergeJob, solves, proofs, taken, refused, fates, solved>>

\* buildJob, for a new block of the parent or the periodic refresh.
NewParentJob ==
  /\ mergeJob.id < MaxParents
  /\ mergeJob' = [id |-> mergeJob.id + 1, works |-> lastWork]
  /\ UNCHANGED <<loopCoin, auxTip, lastWork, solves, proofs, taken, refused, fates, solved>>

\* The works of a job that a hash meets are lost with it, but for those that a
\* daemon takes nevertheless.
Met(j, meets) == {[chain |-> c, work |-> j.works[c]] : c \in {d \in meets : j.works[d] > 0}}

\* A share whose hash meets the targets of the chains in meets, and the
\* parent's or not: only in the latter case anything happens (isBlock of
\* handleSubmit).
Solves(meets, isBlock) ==
  /\ mergeJob.id > 0 /\ solved < MaxSolves /\ solved' = solved + 1
  /\ solves' = IF isBlock THEN solves \union {[job |-> mergeJob, meets |-> meets, nr |-> solved]}
               ELSE solves
  /\ alone' = IF isBlock THEN alone ELSE alone \union Met(mergeJob, meets)
  /\ UNCHANGED <<loopCoin, auxTip, lastWork, mergeJob, proofs, taken, refused, lost, forgone>>

\* A slip: the proof is for the work the coordinator knows by now.
ProvenLatest(s) ==
  {[chain |-> c, work |-> lastWork[c],
    place |-> CHOOSE i \in DOMAIN Chosen(s.job.works) : Chosen(s.job.works)[i] = c,
    commits |-> Commitment(s.job.works), meets |-> c \in s.meets, nr |-> s.nr]
   : c \in {d \in MergeChildren(CoinLoop[loopCoin]) : s.job.works[d] > 0}}

\* OnAuxBlockFound: one proof for each child of the loop's coin that the job commits
\* to, with the place of its symbol.
Proven(s) ==
  {[chain |-> c, work |-> s.job.works[c],
    place |-> CHOOSE i \in DOMAIN Chosen(s.job.works) : Chosen(s.job.works)[i] = c,
    commits |-> Commitment(s.job.works), meets |-> c \in s.meets, nr |-> s.nr]
   : c \in {d \in MergeChildren(CoinLoop[loopCoin]) : s.job.works[d] > 0}}

\* The goroutine of handleSubmit: what the parent's node does not accept is
\* proved to nobody.
SubmitParent(s, accepted) ==
  /\ s \in solves /\ solves' = solves \ {s}
  /\ proofs' = IF accepted THEN proofs \union Proven(s) ELSE proofs
  /\ lost' = IF accepted THEN lost ELSE lost \union Met(s.job, s.meets)
  /\ forgone' = IF accepted
                  THEN forgone \union {w \in Met(s.job, s.meets) :
                                         w.chain \notin {p.chain : p \in Proven(s)}}
                  ELSE forgone
  /\ UNCHANGED <<loopCoin, auxTip, lastWork, mergeJob, taken, refused, alone, solved>>

\* What a daemon makes of a proof: it looks up the work in the commitment at
\* the place claimed, then at the target, and whether it is still wanted.
Reason(p) ==
  CASE p.place \notin DOMAIN p.commits \/ p.commits[p.place] # p.work -> "not committed"
    [] ~p.meets -> "above the target"
    [] p.work # auxTip[p.chain] -> "too old"
    [] OTHER -> "accepted"

\* SubmitAuxBlock, in a goroutine of each proof; an answer that is lost ends it.
SubmitAux(p, answered) ==
  /\ p \in proofs /\ proofs' = proofs \ {p}
  /\ taken' = IF answered /\ Reason(p) = "accepted" THEN taken \union {p} ELSE taken
  /\ refused' = IF answered /\ Reason(p) # "accepted"
                  THEN refused \union {Reason(p)} ELSE refused
  /\ UNCHANGED <<loopCoin, auxTip, lastWork, mergeJob, solves, fates, solved>>

MergeNext ==
  \/ \E c \in Kids : AuxBlock(c) \/ PollAux(c)
  \/ NewParentJob \/ NextCoin
  \/ \E meets \in SUBSET Kids, isBlock \in BOOLEAN : Solves(meets, isBlock)
  \/ \E s \in solves, accepted \in BOOLEAN : SubmitParent(s, accepted)
  \/ \E p \in proofs, answered \in BOOLEAN : SubmitAux(p, answered)

MergeSpec == MergeInit /\ [][MergeNext]_mergeVars
-----------------------------------------------------------------------------
MergeTypeOK ==
  /\ loopCoin \in DOMAIN CoinLoop
  /\ auxTip \in [Kids -> 1..MaxWorks] /\ lastWork \in [Kids -> 0..MaxWorks]
  /\ mergeJob.id \in 0..MaxParents /\ mergeJob.works \in [Kids -> 0..MaxWorks]
  /\ solved \in 0..MaxSolves /\ Cardinality(solves) <= MaxSolves

\* However the works change between the building of a job, its solution and the
\* answer of the parent's node: every proof is for what its block commits to, at
\* the place it has there, so that no daemon refuses one for that.
ProofsAreCommitted ==
  /\ "not committed" \notin refused
  /\ \A p \in proofs : Reason(p) # "not committed"

\* "AuxPoW for LTC+DOGE and BTC+BCH — one sync, two rewards" (README.md:34): refuted,
\* a block that the parent's node accepts is not proved to the aux chain whose target
\* it meets as well, once the loop of main.go has gone on from the parent.
AcceptedBlocksAreProved == forgone = {}

\* "DOGE and BCH are earned for free via merge mining" (README.md:84): refuted,
\* a share that meets the target of an aux chain is proved to it only if it is
\* also a block of the parent; the target of the work is not looked at.
AuxSolutionsAreProved == alone = {}
=============================================================================
