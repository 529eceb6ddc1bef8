------------------------------- MODULE Address --------------------------------
(***************************************************************************)
(* What a block reward is paid to: the output script that CreateCoinbaseTx *)
(* gets for the wallet of the configuration (rpc/bech32.go, cashaddr.go,   *)
(* base58.go).  Nothing checks the wallet before; what gives no script is  *)
(* paid to OP_RETURN, that is to nobody.                                   *)
(*                                                                         *)
(* A text is [prefix, data, case, blanks]: what stands before the          *)
(* separator as ASCII codes, the symbols after it as their places in the   *)
(* charset (of base58 all of them), the case of the letters and whether    *)
(* blanks surround it; "starts" is how the text begins in lower case.  A   *)
(* checksum of 30 or 40 bits is the sequence of its groups of five.  The   *)
(* double SHA-256 of base58 is some function of the bytes.                 *)
(***************************************************************************)
EXTENDS Tally
Sequence == INSTANCE SequencesExt

CONSTANTS Hashes20, Hashes32    \* hashes of keys and scripts, as bytes

ASSUME AddressAssumption == Hashes20 \subseteq [1..20 -> 0..255] /\ Hashes32 \subseteq [1..32 -> 0..255]

VARIABLES
  wallet,     \* the text, and for the properties what it names
  script      \* the output script: the payee, "OP_RETURN", or nothing yet

addressVars == <<wallet, script>>
-----------------------------------------------------------------------------
\* The bits of a number, the lowest first.
Power2 == <<1, 2, 4, 8, 16, 32, 64, 128>>
Bit(n, i) == (n \div Power2[i]) % 2

\* Exclusive or of five bits, and of sequences of them.
Xor5 == [a \in 0..31 |-> [b \in 0..31 |->
           Total([i \in 1..5 |-> Power2[i] * ((Bit(a, i) + Bit(b, i)) % 2)])]]
Xor(a, b) == Xor5[a][b]
XorAll(a, b) == [i \in DOMAIN a |-> Xor(a[i], b[i])]

\* bech32Gen and cashAddrGen, and the sums of them that a group selects.
Bech32Gen == << <<29, 22, 20, 21, 29, 18>>, <<19, 5, 1, 3, 19, 13>>, <<15, 10, 2, 6, 15, 26>>,
                <<30, 20, 4, 12, 30, 29>>, <<21, 1, 8, 24, 21, 19>> >>
CashGen == << <<19, 3, 25, 11, 25, 3, 19, 1>>, <<15, 6, 27, 22, 27, 6, 15, 2>>,
              <<30, 12, 31, 5, 31, 12, 30, 4>>, <<21, 24, 23, 10, 23, 24, 21, 8>>,
              <<3, 25, 7, 20, 7, 25, 3, 16>> >>
Selects(gen, group, i) == [j \in DOMAIN gen[i] |-> Bit(group, i) * gen[i][j]]
Selected(gen) ==
  [group \in 0..31 |->
     XorAll(XorAll(XorAll(XorAll(Selects(gen, group, 1), Selects(gen, group, 2)), Selects(gen, group, 3)),
                   Selects(gen, group, 4)), Selects(gen, group, 5))]
Bech32Table == Selected(Bech32Gen)
CashTable == Selected(CashGen)

\* A value more: the first group is shifted out and selects what is added; a slip: nothing is.
Shifted(sum, v) == [i \in DOMAIN sum |-> IF i < Len(sum) THEN sum[i + 1] ELSE v]
AbsorbedAlone(table, sum, v) == Shifted(sum, v)
Absorbed(table, sum, v) == XorAll(Shifted(sum, v), table[sum[1]])

\* bech32Polymod, cashAddrPolymod (before its last bit is inverted).
Unit(n) == [i \in 1..n |-> IF i = n THEN 1 ELSE 0]
PolymodSums(table, values) ==
  LET sum[i \in 0..Len(values)] ==
        IF i = 0 THEN Unit(Len(table[0])) ELSE Absorbed(table, sum[i - 1], values[i])
  IN  sum
Polymod(table, values) == PolymodSums(table, values)[Len(values)]

\* bech32HRPExpand; CashAddr takes the lower five bits only.
Bech32Prefix(hrp) == [i \in DOMAIN hrp |-> hrp[i] \div 32] \o <<0>> \o [i \in DOMAIN hrp |-> hrp[i] % 32]
CashPrefix(hrp) == [i \in DOMAIN hrp |-> hrp[i] % 32] \o <<0>>

\* The bits of groups of w, the highest first, and the k-th group of w bits.
Bits(data, w) == [i \in 1..(w * Len(data)) |-> Bit(data[((i - 1) \div w) + 1], w - ((i - 1) % w))]
Group(bits, w, k) ==
  Total([j \in 1..w |-> Power2[w + 1 - j] *
                        (IF w * (k - 1) + j <= Len(bits) THEN bits[w * (k - 1) + j] ELSE 0)])

\* bech32ConvertBits without padding: fewer bits than a group are left over, all 0.
ConvertBits(data, from, to) ==
  LET bits == Bits(data, from)
      whole == Len(bits) \div to
  IN  [ok |-> Len(bits) - to * whole < from /\ \A i \in (to * whole + 1)..Len(bits) : bits[i] = 0,
       out |-> [k \in 1..whole |-> Group(bits, to, k)]]

\* A number in base "to", the lowest digit first, times "from" and d more.
Carries(n, d, from, to) ==
  LET carry[i \in 0..Len(n)] == IF i = 0 THEN d ELSE (n[i] * from + carry[i - 1]) \div to
  IN  carry
Times(n, d, from, to) ==
  LET carry == Carries(n, d, from, to)
      last == carry[Len(n)]
  IN  [i \in 1..Len(n) |-> (n[i] * from + carry[i - 1]) % to]
      \o (IF last = 0 THEN <<>> ELSE IF last < to THEN <<last>> ELSE <<last % to, last \div to>>)

\* The number with these digits in another base, without leading zeros.
BaseNumbers(digits, from, to) ==
  LET number[i \in 0..Len(digits)] ==
        IF i = 0 THEN <<>> ELSE Times(number[i - 1], digits[i], from, to)
  IN  number
ConvertBase(digits, from, to) == Sequence!Reverse(BaseNumbers(digits, from, to)[Len(digits)])
Zeros(s) == IF \A i \in DOMAIN s : s[i] = 0 THEN Len(s)
            ELSE (CHOOSE i \in DOMAIN s : s[i] # 0 /\ \A j \in 1..(i - 1) : s[j] = 0) - 1

\* b58Decode: a zero byte for each leading "1".
Base58Decode(digits) == [i \in 1..Zeros(digits) |-> 0] \o ConvertBase(digits, 58, 256)

\* Some function of the bytes in place of the double SHA-256.
Digest(bytes) == [k \in 1..4 |-> Total([i \in DOMAIN bytes |-> (i + k) * bytes[i]]) % 251]
-----------------------------------------------------------------------------
NoScript == [kind |-> "none"]
Nothing == [ok |-> FALSE]
Pays(kind, hash) == [ok |-> TRUE, kind |-> kind, hash |-> hash]

\* decodeBech32 and BuildSegwitScript
BuildSegwitScript(t) ==
  LET data == SubSeq(t.data, 1, Len(t.data) - 6)
      program == ConvertBits(Tail(data), 5, 8)
  IN  IF t.case = "mixed" \/ t.blanks \/ Len(t.data) < 6
         \/ Polymod(Bech32Table, Bech32Prefix(t.prefix) \o t.data) # Unit(6)
         \/ data = <<>> \/ data[1] > 16
        THEN Nothing
      ELSE IF ~program.ok \/ Len(program.out) \notin {20, 32} THEN Nothing
      ELSE Pays(IF data[1] > 0 THEN "later version"
                ELSE IF Len(program.out) = 20 THEN "P2WPKH" ELSE "P2WSH", program.out)

\* decodeCashAddr and BuildCashAddrScript
BuildCashAddrScript(t) ==
  LET data == SubSeq(t.data, 1, Len(t.data) - 8)
      kind == data[1] \div 8
      hash == ConvertBits(Tail(data), 5, 8)
  IN  IF Polymod(CashTable, CashPrefix(t.prefix) \o t.data) # Unit(8) \/ data = <<>> THEN Nothing
      ELSE IF kind > 1 \/ ~hash.ok \/ Len(hash.out) # 20 THEN Nothing
      ELSE Pays(IF kind = 1 THEN "P2SH" ELSE "P2PKH", hash.out)

\* B58CheckDecode and BuildP2PKHScript, which does not look at the version.
BuildP2PKHScript(t) ==
  LET decoded == Base58Decode(t.data)
      data == SubSeq(decoded, 1, Len(decoded) - 4)
  IN  IF t.blanks \/ Len(decoded) < 25 THEN Nothing
      ELSE IF SubSeq(decoded, Len(data) + 1, Len(decoded)) # Digest(data) THEN Nothing
      ELSE Pays("P2PKH", SubSeq(data, 2, 21))

\* BuildOutputScript: by how the trimmed text begins in lower case.
BuildOutputScript(t) ==
  IF t.starts = "with a colon" THEN BuildCashAddrScript(t)
  ELSE IF t.starts = "like bech32" THEN BuildSegwitScript(t)
  ELSE BuildP2PKHScript(t)
-----------------------------------------------------------------------------
\* How wallets make addresses, which is not in the code.
Text(prefix, data, starts, names) ==
  [prefix |-> prefix, data |-> data, case |-> "lower", blanks |-> FALSE, starts |-> starts,
   names |-> names]
Padded(hash) == LET bits == Bits(hash, 8)
                IN  [k \in 1..((Len(bits) + 4) \div 5) |-> Group(bits, 5, k)]
Bech32Address(hrp, version, hash) ==
  LET data == <<version>> \o Padded(hash)
      sum == Polymod(Bech32Table, Bech32Prefix(hrp) \o data \o [i \in 1..6 |-> 0])
  IN  Text(hrp, data \o XorAll(sum, Unit(6)), "like bech32",
           Pays(IF Len(hash) = 20 THEN "P2WPKH" ELSE "P2WSH", hash))
CashAddress(hrp, kind, hash) ==
  LET data == Padded(<<8 * kind>> \o hash)
      sum == Polymod(CashTable, CashPrefix(hrp) \o data \o [i \in 1..8 |-> 0])
  IN  Text(hrp, data \o XorAll(sum, Unit(8)), "with a colon",
           Pays(IF kind = 1 THEN "P2SH" ELSE "P2PKH", hash))
Base58Address(version, kind, hash, starts) ==
  LET bytes == <<version>> \o hash \o Digest(<<version>> \o hash)
  IN  Text(<<>>, [i \in 1..Zeros(bytes) |-> 0] \o ConvertBase(bytes, 256, 58), starts,
           Pays(kind, hash))

bc == <<98, 99>>
ltc == <<108, 116, 99>>
bitcoincash == <<98, 105, 116, 99, 111, 105, 110, 99, 97, 115, 104>>

Segwit == {Bech32Address(hrp, 0, hash) : hrp \in {bc, ltc}, hash \in Hashes20 \union Hashes32}
Cash == {CashAddress(bitcoincash, kind, hash) : kind \in {0, 1}, hash \in Hashes20}
Legacy == {Base58Address(version, "P2PKH", hash, "otherwise") : version \in {0, 48}, hash \in Hashes20}
LegacyScript == {Base58Address(5, "P2SH", hash, "otherwise") : hash \in Hashes20}

\* A Litecoin address of base58 may begin with "LTC1", "Ltc1" and so on.
Lookalikes == {[Base58Address(48, "P2PKH", hash, "like bech32") EXCEPT !.case = "mixed"]
               : hash \in Hashes20}

\* Texts with one symbol changed, two neighbours swapped, a symbol too few, the wrong
\* prefix, or mixed cases: they name nothing.
Rewritten(t, data) == [t EXCEPT !.data = data, !.names = Nothing]
Altered(data, i, k) == [data EXCEPT ![i] = (@ + k) % 32]
OneChanged(t) == {Rewritten(t, Altered(t.data, i, k)) : i \in DOMAIN t.data, k \in 1..31}
TwoSwapped(t) ==
  {Rewritten(t, [t.data EXCEPT ![i] = t.data[i + 1], ![i + 1] = t.data[i]])
   : i \in {j \in 1..(Len(t.data) - 1) : t.data[j] # t.data[j + 1]}}
Shortened(t) == Rewritten(t, SubSeq(t.data, 1, Len(t.data) - 1))
OtherPrefix(t) == [t EXCEPT !.prefix = IF @ = bc THEN ltc ELSE bc, !.names = Nothing]
MixedCase(t) == [t EXCEPT !.case = "mixed", !.names = Nothing]
WithBlanks(t) == [t EXCEPT !.blanks = TRUE]
Spoilt(t) == OneChanged(t) \union TwoSwapped(t) \union {Shortened(t), OtherPrefix(t), MixedCase(t)}
Wallets == Segwit \union Cash \union Legacy \union LegacyScript \union Lookalikes
           \union (UNION {Spoilt(t) : t \in Segwit})
           \union {WithBlanks(t) : t \in Segwit \union Cash \union Legacy}

AddressInit == wallet \in Wallets /\ script = NoScript
-----------------------------------------------------------------------------
\* The output script of CreateCoinbaseTx.
PayReward ==
  /\ script = NoScript
  /\ LET built == BuildOutputScript(wallet)
     IN  script' = IF built.ok THEN built ELSE Pays("OP_RETURN", <<>>)
  /\ UNCHANGED wallet

AddressNext == PayReward
AddressSpec == AddressInit /\ [][AddressNext]_addressVars
-----------------------------------------------------------------------------
\* An address that is well written, of segwit or of base58 for a key, is paid what
\* it names, whatever the bytes of the hash; one of segwit that is not is never
\* paid anything else: not with a symbol changed, two of them swapped, one missing
\* or the prefix of another chain.
RewardIsPaidToTheWallet ==
  script # NoScript =>
    /\ wallet \in Segwit \union Legacy => script = wallet.names
    /\ ~wallet.names.ok => script.kind = "OP_RETURN"

\* "Bitcoin Cash CashAddr: bitcoincash:q... (P2PKH) or bitcoincash:p... (P2SH)"
\* (rpc/bech32.go:146): refuted, the version is read from the first group of five
\* bits although it has eight, so that the rest is a group too long, is refused for
\* its padding, and every reward goes to OP_RETURN.
CashAddressesArePaid == script # NoScript /\ wallet \in Cash => script = wallet.names

\* "Legacy P2PKH / P2SH (Base58Check): 1... 3... L... M... D... ..."
\* (rpc/bech32.go:144): refuted, the version byte is not looked at, and the hash of
\* a script is paid as that of a key, which nobody has.
LegacyScriptsArePaid == script # NoScript /\ wallet \in LegacyScript => script = wallet.names
=============================================================================
