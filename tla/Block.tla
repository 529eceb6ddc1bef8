-------------------------------- MODULE Block ---------------------------------
(***************************************************************************)
(* A block from the node's template to the node: the job made of it        *)
(* (buildJob and CreateCoinbaseTx), the header a miner makes of the job,   *)
(* the header its share is checked by (validateShare), the block assembled *)
(* of it (assembleBlockHex) and the proofs for the aux chains              *)
(* (merge/auxpow.go); and the header the Quai server checks (quai/         *)
(* server.go).  What is modelled is the conversions, in which order of     *)
(* bytes, hashes and fields; when they happen is the matter of the other   *)
(* modules.                                                                *)
(*                                                                         *)
(* A hash is a term: that of two hashes is <<"H", a, b>>.  Bytes that no   *)
(* conversion looks into are strings.  Of the header a hash is a number,   *)
(* the smaller the better, that depends on every field of it.              *)
(***************************************************************************)
EXTENDS Integers, Sequences, Tally

CONSTANTS
  Templates,     \* what a node may answer, with what a share is held to
  RollMask,      \* bits of the version that miners may set
  RollSets,      \* those they do set
  HashesMined    \* the hashes they find

Weight == <<1, 256, 65536, 16777216>>

\* A node writes a height below 17 in another way, and counts its blocks in 32 bits
\* with a sign.
LastHeight == 2147483647
IsTemplate(t) ==
  /\ t.server \in {"stratum", "quai"} /\ t.witness \in {"none", "bare", "full"}
  /\ t.wallet \in {"valid", "not decoded"}
  /\ t.prev \in Seq(Nat) /\ Len(t.prev) % 4 = 0
  /\ t.height \in Nat /\ 17 <= t.height /\ t.height <= LastHeight
  /\ t.txs \in Nat /\ 1 + t.txs < Weight[4]
  /\ t.aux \in Nat /\ t.aux < Weight[4] /\ t.tag \in Nat

ASSUME BlockAssumption == (\A t \in Templates : IsTemplate(t)) /\ HashesMined \subseteq Nat

VARIABLES
  tmpl,       \* the template
  sent,       \* the job: mining.notify and the rest of Job
  mined,      \* the header that the miner has hashed, the hash, its submission
  checked,    \* the header that the server has found good, and what for
  block       \* what is submitted to the node, and the proofs

blockVars == <<tmpl, sent, mined, checked, block>>

None == [of |-> "none"]
BlockInit ==
  tmpl \in Templates /\ sent = None /\ mined = None /\ checked = None /\ block = None
-----------------------------------------------------------------------------
\* reverseByteOrder, reverseChunks32Bytes: the bytes of each word of four.
ReverseWords(b) == [i \in DOMAIN b |-> b[4 * ((i - 1) \div 4) + 4 - ((i - 1) % 4)]]

\* hexReverseBytes, reverseBytes
ReverseBytes(b) == [i \in 1..Len(b) |-> b[Len(b) + 1 - i]]

\* dsha256 of two hashes
Combine(a, b) == <<"H", a, b>>

\* The level above n hashes of a merkle tree, where the last one counts twice if alone.
Paired(s, n) ==
  [i \in 1..((n + 1) \div 2) |-> Combine(s[2 * i - 1], s[IF 2 * i <= n THEN 2 * i ELSE n])]

\* The levels above n hashes, their widths, and a place (from 0) in each on the way up.
Raised(below) ==
  [level |-> Paired(below.level, below.width),
   width |-> (below.width + 1) \div 2, at |-> below.at \div 2]
Tree(s, n, place) ==
  LET tree[k \in 0..n] ==
        IF k = 0 THEN [level |-> s, width |-> n, at |-> place] ELSE Raised(tree[k - 1])
  IN  tree
Height(tree, n) ==
  CHOOSE k \in 0..n : tree[k].width <= 1 /\ \A j \in 0..(k - 1) : tree[j].width > 1

\* computeAuxMerkleRoot; also what a node makes of the transactions of a block.
MerkleRoot(s, n) == LET tree == Tree(s, n, 0) IN tree[Height(tree, n)].level[1]

\* buildMerkleBranch: of the n hashes beside the coinbase the first is its sibling, the
\* others are paired, until there are none.
Beyond(rest) == Paired(Tail(rest), Len(rest) - 1)
Beside(s, n) ==
  LET rest[k \in 0..n] == IF k = 0 THEN s ELSE Beyond(rest[k - 1])
  IN  rest
Depth(rest, n) ==
  CHOOSE k \in 0..n : rest[k] = <<>> /\ \A j \in 0..(k - 1) : rest[j] # <<>>
MerkleBranch(s, n) ==
  LET rest == Beside(s, n) IN [k \in 1..Depth(rest, n) |-> rest[k - 1][1]]

\* The hash beside a place, which may be its own double.
Sibling(node) ==
  LET j == IF node.at % 2 = 0 THEN node.at + 1 ELSE node.at - 1
  IN  node.level[IF j < node.width THEN j + 1 ELSE node.width]

\* A slip: the place is not halved from one level to the next.
AuxBranchUnhalved(s, n, place) ==
  LET tree == Tree(s, n, place)
  IN  [k \in 1..Height(tree, n) |-> Sibling([tree[k - 1] EXCEPT !.at = place])]

\* computeAuxMerkleBranch: the siblings on the way up from a place.
AuxBranch(s, n, place) ==
  LET tree == Tree(s, n, place) IN [k \in 1..Height(tree, n) |-> Sibling(tree[k - 1])]

\* From a hash along a branch, each time on the side that the place says; the coinbase
\* is at place 0.
Above(node, sibling) ==
  [hash |-> IF node.at % 2 = 1 THEN Combine(sibling, node.hash) ELSE Combine(node.hash, sibling),
   at |-> node.at \div 2]
Climbed(hash, place, branch) ==
  LET node[k \in 0..Len(branch)] ==
        IF k = 0 THEN [hash |-> hash, at |-> place] ELSE Above(node[k - 1], branch[k])
  IN  node
Climb(hash, place, branch) == Climbed(hash, place, branch)[Len(branch)].hash

\* The bytes of n, the lowest first.
Bytes(n, size) == [i \in 1..size |-> (n \div Weight[i]) % 256]
PushSize(n) == CHOOSE k \in 1..4 : (k > 1 => n >= Weight[k]) /\ (k < 4 => n < Weight[k + 1])

\* encodeHeight: a number of the script, of which the highest bit is the sign.
EncodeHeight(h) ==
  LET b == Bytes(h, PushSize(h))
      signed == IF b[Len(b)] >= 128 THEN Append(b, 0) ELSE b
  IN  <<Len(signed)>> \o signed

VarInt(n) == IF n < 253 THEN <<n>>
             ELSE IF n <= 65535 THEN <<253>> \o Bytes(n, 2) ELSE <<254>> \o Bytes(n, 3) \o <<0>>

\* The tag has 20 bytes at most, and leaves 100 to the script if that helps.
TagLength(length, others) ==
  LET cut == IF length > 20 THEN 20 ELSE length
      over == others + cut - 100
  IN  IF over > 0 /\ over < cut THEN cut - over ELSE cut

Run(x, n) == [i \in 1..n |-> x]
AuxHash(i) == <<"aux", i>>
AuxHashes(n) == [i \in 1..n |-> AuxHash(i)]

\* BuildCoinbaseCommitment, without the chains none.
AuxCommitment(n) ==
  IF n = 0 THEN <<>>
  ELSE Run("magic", 4) \o <<MerkleRoot(AuxHashes(n), n)>> \o Run("of the root", 31)
       \o Bytes(n, 3) \o <<0>> \o Run(0, 4)

ExtranonceLength == 12

\* CreateCoinbaseTx: the script up to the extranonce and from there on, its
\* length as it is written, the outputs and their number.  A wallet that gives no
\* script is replaced by OP_RETURN; a bare commitment to the witnesses is wrapped.
CoinbaseParts(t) ==
  LET height == EncodeHeight(t.height)
      aux == AuxCommitment(t.aux)
      tag == TagLength(t.tag, Len(height) + ExtranonceLength + Len(aux))
      pays == IF t.wallet = "valid" THEN <<"script of the wallet">> ELSE <<"OP_RETURN">>
      witness == IF t.witness = "none" THEN <<>> ELSE << <<"header", "commitment">> >>
  IN  [part1 |-> height \o Run("tag", tag), part2 |-> aux,
       declared |-> Len(height) + tag + ExtranonceLength + Len(aux),
       outputs |-> 1 + Len(witness), scripts |-> <<pays>> \o witness]

\* part1, extranonce1, extranonce2, part2.
Coinbase(job, extranonce) ==
  [declared |-> job.parts.declared, script |-> job.parts.part1 \o extranonce \o job.parts.part2,
   outputs |-> job.parts.outputs, scripts |-> job.parts.scripts]

\* The id of a transaction as the node shows it, the other way round of what is
\* hashed.
ShownId(i) == <<"b", i, "a">>
Nonce == <<1, 2, 3, 4>>
Time == <<5, 6, 7, 8>>
NBits == <<9, 10, 11, 12>>
-----------------------------------------------------------------------------
\* buildJob; the Quai server's miningNotify sends the hash of the parent with the
\* bytes of each word reversed, and what else the node gives as it is.
Hashed(n) == [i \in 1..n |-> ReverseBytes(ShownId(i))]
Job(t) ==
  [of |-> t.server, parts |-> CoinbaseParts(t),
   prev |-> IF t.server = "quai" THEN ReverseWords(t.prev) ELSE ReverseWords(ReverseBytes(t.prev)),
   branches |-> MerkleBranch(Hashed(t.txs), t.txs), version |-> t.version]

BuildJob ==
  /\ sent = None /\ sent' = Job(tmpl)
  /\ UNCHANGED <<tmpl, mined, checked, block>>

\* The firmware, as the comment of buildJob describes it: it reverses the bytes of
\* each word of the parent's hash and hashes numbers with the lowest byte first.
\* It sets bits of the version within the mask, and submits the nonce as a number
\* or (ESP-Miner) as it stands in the header.
Extranonce == Run("extranonce", ExtranonceLength)
Solution(job, roll, hash, reversed) ==
  [of |-> job.of, hash |-> hash, extranonce |-> Extranonce,
   roll |-> roll, nonce |-> IF reversed THEN Nonce ELSE ReverseBytes(Nonce),
   header |-> [version |-> (job.version \ RollMask) \union roll, prev |-> ReverseWords(job.prev),
               root |-> Climb(Coinbase(job, Extranonce), 0, job.branches),
               time |-> ReverseBytes(Time), bits |-> ReverseBytes(NBits), nonce |-> Nonce]]

Mines(roll, hash, reversed) ==
  /\ sent # None /\ mined = None
  /\ mined' = Solution(sent, roll, hash, reversed)
  /\ UNCHANGED <<tmpl, sent, checked, block>>

\* The header of validateShare and assembleBlockHex for a nonce.
Header(job, found, nonce) ==
  [version |-> job.version \union found.roll, prev |-> ReverseWords(job.prev),
   root |-> Climb(Coinbase(job, found.extranonce), 0, job.branches),
   time |-> ReverseBytes(Time), bits |-> ReverseBytes(NBits), nonce |-> nonce]

\* buildHeader80
QuaiHeader(t, job, found) ==
  [version |-> t.version, prev |-> ReverseWords(t.prev),
   root |-> Climb(Coinbase(job, found.extranonce), 0, job.branches),
   time |-> ReverseBytes(Time), bits |-> ReverseBytes(NBits), nonce |-> ReverseBytes(found.nonce)]

\* No other header has a hash that meets anything.
Meets(found, header, target) == header = found.header /\ found.hash <= target

\* A slip: only the nonce as it was submitted is tried.
CandidatesAsSent(t, job, found) ==
  IF t.server = "quai" THEN <<QuaiHeader(t, job, found)>> ELSE <<Header(job, found, found.nonce)>>

\* Both orientations of the nonce, but by the Quai server.
Candidates(t, job, found) ==
  IF t.server = "quai" THEN <<QuaiHeader(t, job, found)>>
  ELSE <<Header(job, found, found.nonce), Header(job, found, ReverseBytes(found.nonce))>>

\* validateShare: the share's target first; what meets it may be a block.
Judged(t, job, found) ==
  LET headers == Candidates(t, job, found)
      good == {i \in DOMAIN headers : Meets(found, headers[i], t.shareTarget)}
      first == headers[CHOOSE i \in good : \A j \in good : i <= j]
  IN  IF good = {} THEN [of |-> "low difficulty", block |-> FALSE]
      ELSE [of |-> "share", header |-> first, block |-> Meets(found, first, t.blockTarget)]

ValidateShare ==
  /\ mined # None /\ checked = None
  /\ checked' = Judged(tmpl, sent, mined)
  /\ UNCHANGED <<tmpl, sent, mined, block>>

\* BuildAuxPoWHex for each chain, at its place in the order of the symbols.
AuxProofs(n) ==
  [i \in 1..n |->
     [hash |-> AuxHash(i), place |-> i - 1, branch |-> AuxBranch(AuxHashes(n), n, i - 1)]]

\* assembleBlockHex; the block of the Quai server has the coinbase only.
Assembled(t, job, found, header) ==
  LET quai == t.server = "quai"
      txs == IF quai THEN 0 ELSE t.txs
  IN  [of |-> t.server, header |-> header, count |-> VarInt(1 + txs),
       coinbase |-> Coinbase(job, found.extranonce), others |-> [i \in 1..txs |-> ShownId(i)],
       proofs |-> IF quai THEN <<>> ELSE AuxProofs(t.aux)]

AssembleBlock ==
  /\ checked # None /\ checked.block /\ block = None
  /\ block' = Assembled(tmpl, sent, mined, checked.header)
  /\ UNCHANGED <<tmpl, sent, mined, checked>>

BlockNext ==
  \/ BuildJob \/ ValidateShare \/ AssembleBlock
  \/ \E roll \in RollSets, hash \in HashesMined, reversed \in BOOLEAN : Mines(roll, hash, reversed)

BlockSpec == BlockInit /\ [][BlockNext]_blockVars
-----------------------------------------------------------------------------
BlockTypeOK ==
  /\ tmpl \in Templates /\ sent.of \in {"none", "stratum", "quai"}
  /\ mined.of \in {"none", sent.of} /\ checked.of \in {"none", "share", "low difficulty"}
  /\ block.of \in {"none", sent.of}

\* What a node reads.
ReadVarInt(b) == IF b[1] < 253 THEN b[1] ELSE b[2] + 256 * b[3] + (IF b[1] = 254 THEN 65536 * b[4] ELSE 0)
ReadHeight(script) ==
  LET n == script[1]
  IN  IF script[n + 1] >= 128 THEN -1 ELSE Total([i \in 1..n |-> script[i + 1] * Weight[i]])

\* A share that is good for what it is held to passes for it, and for a block if it
\* meets that target too, in whichever order the firmware sends its nonce; unless
\* the template sets a bit of the version that is the miner's to clear.  What then
\* goes to the node is a block to it: on the parent of the template, with the
\* transactions of the template below its merkle root, as many as it says, and a
\* coinbase of the length and with the outputs it says, for the height of the
\* template and to the wallet, with the commitment to the witnesses if there is one.
GoodSharesPass ==
  checked # None /\ mined.hash <= tmpl.shareTarget /\ tmpl.version \intersect RollMask = {} =>
    checked = [of |-> "share", header |-> mined.header, block |-> mined.hash <= tmpl.blockTarget]

FitsItsParent ==
  /\ block.header.prev = ReverseBytes(tmpl.prev)
  /\ block.header.root =
       MerkleRoot(<<block.coinbase>> \o Hashed(tmpl.txs), 1 + tmpl.txs)
  /\ ReadVarInt(block.count) = 1 + Len(block.others)

CoinbaseIsRead ==
  /\ block.coinbase.declared = Len(block.coinbase.script)
  /\ block.coinbase.declared \in 2..100
  /\ ReadHeight(block.coinbase.script) = tmpl.height
  /\ block.coinbase.outputs = Len(block.coinbase.scripts)
  /\ tmpl.wallet = "valid" => block.coinbase.scripts[1] = <<"script of the wallet">>
  /\ (tmpl.witness # "none") = (block.coinbase.outputs = 2)

BlocksArriveWhole ==
  tmpl.server = "stratum" =>
    GoodSharesPass /\ (block # None => FitsItsParent /\ CoinbaseIsRead)

\* Each aux chain finds its work where the proof says: from the hash of the work
\* along the branch, on the side that the place says, to the root that the
\* coinbase of the block commits to, whatever the number of chains.  What a daemon
\* asks of the size of the tree beside the root, and of the place that a chain has
\* in it, is not looked at.
ProofsVerify ==
  \A i \in DOMAIN (IF block = None THEN <<>> ELSE block.proofs) :
    LET proof == block.proofs[i]
        script == block.coinbase.script
        at == Len(script) - 43
    IN  /\ script[at] = "magic"
        /\ script[at + 4] = Climb(proof.hash, proof.place, proof.branch)

\* "Build the 80-byte header the miner hashed" (quai/server.go:569): refuted, both
\* the miner and the server reverse the words of the parent's hash, each of a hash
\* that the other does not start from.
QuaiChecksTheMinersHeader ==
  mined # None /\ mined.of = "quai" => mined.header.prev = QuaiHeader(tmpl, sent, mined).prev
=============================================================================
