-------------------------- MODULE Transactions_proofs --------------------------
(***************************************************************************)
(* Proofs for Transactions: what is signed is decoded, who is reported as  *)
(* the sender signed, one signature gives one encoding, and a transaction  *)
(* stays on the chain it was signed for.                                   *)
(***************************************************************************)
EXTENDS TxEncoding_proofs

------------------------------------------------------------------------------
(* The inductive invariant.                                                *)

\* The record a signed transaction leaves behind.
TxSig(k, tx, g) == [key |-> k, digest |-> SigningPreimage(tx, TRUE), r |-> g.r, s |-> g.s,
                    recID |-> g.recID, of |-> [kind |-> "tx", tx |-> tx]]

OriginOk == origin.kind = "signed" =>
    \E k \in Keys, tx \in Txs, g \in Signatures :
        /\ origin = [kind |-> "signed", key |-> k, tx |-> tx, sig |-> g]
        /\ raw = SignedRaw(tx, g) /\ TxSig(k, tx, g) \in sigs

\* The last result is about the bytes and the signatures of now.
ResultOk ==
    /\ result.kind = "decode" => result.d = DecodeTransaction(sigs, raw)
    /\ result.kind = "validate" => /\ result.err = ValidateTransaction(sigs, raw, result.chain)
                                   /\ result.d = DecodeTransaction(sigs, raw)
    /\ result.kind = "typed" =>
         /\ result.domain \in Domains /\ result.struct \in Structs /\ DomainValid(result.domain)
         /\ \E g \in sigs, v \in {0, 27, 28} : \E s \in {g.s, N - g.s} :
              result.who = RecoverTyped(sigs, g.r, s, v, result.domain, result.struct)

TxInv == raw \in Seq(Byte) /\ SigsOk(sigs) /\ OriginOk /\ ResultOk

------------------------------------------------------------------------------
(* Who is reported as the sender.                                          *)

\* Recovery gives the key of a signature that was made with these scalars for
\* this digest.
LEMMA RecoverIs ==
    ASSUME NEW made, NEW r, NEW s, NEW recID, NEW digest, Recover(made, r, s, recID, digest) \in Keys
    PROVE  \E g \in made : /\ Recovers(g, r, s, recID, digest)
                           /\ Recover(made, r, s, recID, digest) = g.key
  <1> DEFINE who == Recover(made, r, s, recID, digest)
             P(g) == Recovers(g, r, s, recID, digest)
             c == CHOOSE g \in made : P(g)
  <1>1. CASE \E g \in made : P(g)
    <2>1. c \in made /\ P(c) /\ who = c.key
      BY <1>1, Zenon DEF Recover
    <2> QED BY <2>1, Zenon
  <1>2. CASE ~\E g \in made : P(g)
    <2>1. who = Stranger \/ who = "ErrRecoverFailed"
      BY <1>2, Zenon DEF Recover
    <2> QED BY <2>1, CurveAssumption, Zenon
  <1> QED BY <1>1, <1>2, Zenon

\* There is but one.
LEMMA RecoverOf ==
    ASSUME NEW made, SigsOk(made), NEW r, NEW s, NEW recID, NEW digest,
           NEW g \in made, Recovers(g, r, s, recID, digest)
    PROVE  Recover(made, r, s, recID, digest) = g.key
  <1> DEFINE P(h) == Recovers(h, r, s, recID, digest)
             c == CHOOSE h \in made : P(h)
  <1>1. c \in made /\ P(c) /\ Recover(made, r, s, recID, digest) = c.key
    BY Zenon DEF Recover
  <1> HIDE DEF c
  <1>2. g = c
    BY <1>1, Zenon DEF SigsOk, Recovers
  <1> QED BY <1>1, <1>2, Zenon

\* A transaction that was read, and the signature it is attributed to.
Attributed(made, b, d, t, items, chainId, recID, chained, g, tx) ==
    /\ TxRead(made, b, d, t, items, chainId, recID, chained)
    /\ g \in made /\ g.key = d.sender /\ MadeForTx(g, tx)
    /\ Recovers(g, Number(d.tx.r), Number(d.tx.s), recID, SigningPreimage(d.tx, chained))
    /\ SameTx(tx, d.tx) /\ tx.type = d.tx.type /\ (d.tx.type = 0 => chained)

\* A wallet is the sender only of what it signed.
LEMMA SenderIs ==
    ASSUME NEW made, SigsOk(made), NEW b \in Seq(Byte), NEW d, d = DecodeTransaction(made, b),
           d.err = "ok", d.sender \in Keys
    PROVE  \E t, items, chainId, recID, chained, g, tx :
               Attributed(made, b, d, t, items, chainId, recID, chained, g, tx)
  <1>1. PICK t, items, chainId, recID, chained :
               TxRead(made, b, d, t, items, chainId, recID, chained)
    BY TxDecoded, Zenon
  <1> DEFINE r == Number(d.tx.r)
             s == Number(d.tx.s)
             digest == SigningPreimage(d.tx, chained)
  <1>2. d.sender = Recover(made, r, s, recID, digest)
    BY <1>1, Zenon DEF TxRead
  <1>3. chained \in BOOLEAN /\ TxFits(d.tx, chained)
    BY <1>1, ReadIs, Zenon
  <1>4. PICK g \in made : Recovers(g, r, s, recID, digest) /\ d.sender = g.key
    <2> HIDE DEF r, s, digest
    <2>1. Recover(made, r, s, recID, digest) \in Keys
      BY <1>2, Zenon
    <2>2. \E g \in made : /\ Recovers(g, r, s, recID, digest)
                          /\ Recover(made, r, s, recID, digest) = g.key
      BY <2>1, RecoverIs, Zenon
    <2> QED BY <1>2, <2>2, Zenon
  <1>5. g.digest = SigningPreimage(d.tx, chained) /\ MadeFor(g)
    BY <1>4, Zenon DEF Recovers, SigsOk
  <1>6. PICK tx \in Txs : /\ MadeForTx(g, tx) /\ SameTx(tx, d.tx) /\ tx.type = d.tx.type
                          /\ d.tx.type = 0 => chained
    BY <1>3, <1>5, SignedForTx, Zenon
  <1>7. Attributed(made, b, d, t, items, chainId, recID, chained, g, tx)
    BY <1>1, <1>4, <1>6, Zenon DEF Attributed
  <1> QED BY <1>7, Zenon

\* What it was made for.
LEMMA MadeForIs ==
    ASSUME NEW g, NEW tx, MadeForTx(g, tx)
    PROVE  g.of.kind = "tx" /\ g.of.tx = tx
  BY DEF MadeForTx

\* The first conjunct of SenderSigned, and the second.
LEMMA InvSenderSigned == TxInv => SenderSigned
  <1> SUFFICES ASSUME TxInv PROVE SenderSigned
    OBVIOUS
  <1>0. SigsOk(sigs) /\ raw \in Seq(Byte) /\ ResultOk
    BY Zenon DEF TxInv
  <1>1. ASSUME result.kind = "decode", result.d.err = "ok", result.d.sender \in Keys
        PROVE  \E g \in sigs : /\ g.key = result.d.sender /\ g.of.kind = "tx"
                               /\ SameTx(g.of.tx, result.d.tx)
    <2>1. result.d = DecodeTransaction(sigs, raw)
      BY <1>0, <1>1, Zenon DEF ResultOk
    <2>2. PICK t, items, chainId, recID, chained, g, tx :
                 Attributed(sigs, raw, result.d, t, items, chainId, recID, chained, g, tx)
      <3> DEFINE d == result.d
      <3>1. d = DecodeTransaction(sigs, raw) /\ d.err = "ok" /\ d.sender \in Keys
        BY <1>1, <2>1, Zenon
      <3> HIDE DEF d
      <3>2. \E t, items, chainId, recID, chained, g, tx :
                 Attributed(sigs, raw, d, t, items, chainId, recID, chained, g, tx)
        BY <1>0, <3>1, SenderIs, Zenon
      <3> QED BY <3>2, Zenon DEF d
    <2>3. g \in sigs /\ g.key = result.d.sender /\ MadeForTx(g, tx) /\ SameTx(tx, result.d.tx)
      BY <2>2, Zenon DEF Attributed
    <2>4. g.of.kind = "tx" /\ g.of.tx = tx
      BY <2>3, MadeForIs, Zenon
    <2> QED BY <2>3, <2>4, Zenon
  <1>2. ASSUME result.kind = "typed", result.who \in Keys
        PROVE  \E g \in sigs : /\ g.key = result.who
                               /\ g.of = [kind |-> "typed", domain |-> result.domain,
                                          struct |-> result.struct]
    <2> DEFINE who == result.who
               d == result.domain
               h == result.struct
    <2>1. /\ d \in Domains /\ h \in Structs /\ DomainValid(d)
          /\ \E g \in sigs, v \in {0, 27, 28} : \E s \in {g.s, N - g.s} :
               who = RecoverTyped(sigs, g.r, s, v, d, h)
      BY <1>0, <1>2, Zenon DEF ResultOk
    <2>2. PICK r, s, v : who = RecoverTyped(sigs, r, s, v, d, h)
      BY <2>1, Zenon
    <2>3. who \in Keys /\ "ErrInvalid" \notin Keys
      BY <1>2, CurveAssumption, Zenon
    <2>4. who = Recover(sigs, r, s, v - 27, typedDigest(d, h))
      BY <2>2, <2>3, Zenon DEF RecoverTyped
    <2> HIDE DEF who, d, h
    <2> DEFINE k == v - 27
               digest == typedDigest(d, h)
    <2>5. PICK g \in sigs : Recovers(g, r, s, k, digest) /\ who = g.key
      <3>0. who = Recover(sigs, r, s, k, digest)
        BY <2>4, Zenon
      <3> HIDE DEF k, digest
      <3>1. Recover(sigs, r, s, k, digest) \in Keys
        BY <2>3, <3>0, Zenon
      <3>2. \E g \in sigs : /\ Recovers(g, r, s, k, digest)
                            /\ Recover(sigs, r, s, k, digest) = g.key
        BY <1>0, <3>1, RecoverIs, Zenon
      <3> QED BY <3>0, <3>2, Zenon
    <2>6. g.digest = typedDigest(d, h) /\ MadeFor(g)
      BY <1>0, <2>5, Zenon DEF Recovers, SigsOk
    <2>7. g.of = [kind |-> "typed", domain |-> d, struct |-> h]
      BY <2>1, <2>6, SignedForData, Zenon
    <2> QED BY <2>5, <2>7, Zenon DEF who, d, h
  <1> QED BY <1>1, <1>2, Zenon DEF SenderSigned

\* What ValidateTransaction has checked.
LEMMA Validated ==
    ASSUME NEW made, NEW b, NEW expected, ValidateTransaction(made, b, expected) = "ok"
    PROVE  LET d == DecodeTransaction(made, b)
           IN  d.err = "ok" /\ checkChainID(d.tx, expected) /\ LowS(d.tx)
  <1> DEFINE d == DecodeTransaction(made, b)
  <1>1. ValidateTransaction(made, b, expected)
          = IF d.err \in {"panic", "ErrInvalidType"} THEN d.err
            ELSE IF d.err # "ok" THEN "ErrInvalidRLP" ELSE Checks(d.tx, expected)
    BY Zenon DEF ValidateTransaction
  <1> HIDE DEF d
  <1>2. /\ "panic" # "ok" /\ "ErrInvalidType" # "ok" /\ "ErrInvalidRLP" # "ok"
        /\ "ErrFieldSanity" # "ok" /\ "ErrChainIDMismatch" # "ok" /\ "ErrInvalidV" # "ok"
        /\ "ErrHighS" # "ok"
    OBVIOUS
  <1>3. d.err = "ok" /\ Checks(d.tx, expected) = "ok"
    BY <1>1, <1>2
  <1>4. checkChainID(d.tx, expected) /\ LowS(d.tx)
    BY <1>2, <1>3, Zenon DEF Checks
  <1> QED BY <1>3, <1>4, Zenon DEF d

\* An accepted transaction of a wallet, and the signature it is attributed to.
LEMMA AcceptedIs ==
    ASSUME TxInv, Accepted
    PROVE  /\ result.d = DecodeTransaction(sigs, raw) /\ result.d.err = "ok"
           /\ checkChainID(result.d.tx, result.chain) /\ LowS(result.d.tx)
           /\ \E t, items, chainId, recID, chained, g, tx :
                 Attributed(sigs, raw, result.d, t, items, chainId, recID, chained, g, tx)
  <1> DEFINE d == result.d
             c == result.chain
  <1>1. /\ d = DecodeTransaction(sigs, raw) /\ ValidateTransaction(sigs, raw, c) = "ok"
        /\ d.sender \in Keys /\ raw \in Seq(Byte) /\ SigsOk(sigs)
    BY Zenon DEF TxInv, ResultOk, Accepted
  <1> HIDE DEF d, c
  <1>2. d.err = "ok" /\ checkChainID(d.tx, c) /\ LowS(d.tx)
    BY <1>1, Validated, Zenon
  <1>3. \E t, items, chainId, recID, chained, g, tx :
                 Attributed(sigs, raw, d, t, items, chainId, recID, chained, g, tx)
    BY <1>1, <1>2, SenderIs, Zenon
  <1> QED BY <1>1, <1>2, <1>3, Zenon DEF d, c

\* The invariant implies ChainBound.
LEMMA InvChainBound == TxInv => ChainBound
  <1> SUFFICES ASSUME TxInv, Accepted, result.chain # NilChain
               PROVE  \E g \in sigs : /\ g.of.kind = "tx" /\ g.key = result.d.sender
                                      /\ g.of.tx.chainId = result.chain
                                      /\ g.r = Number(result.d.tx.r)
    BY Zenon DEF ChainBound
  <1> DEFINE d == result.d
             c == result.chain
  <1>1. checkChainID(d.tx, c) /\ c # NilChain
    BY AcceptedIs, Zenon
  <1>2. PICK t, items, chainId, recID, chained, g, tx :
                 Attributed(sigs, raw, d, t, items, chainId, recID, chained, g, tx)
    BY AcceptedIs, Zenon
  <1> HIDE DEF d, c
  <1>3. /\ TxRead(sigs, raw, d, t, items, chainId, recID, chained)
        /\ g \in sigs /\ g.key = d.sender /\ MadeForTx(g, tx) /\ SameTx(tx, d.tx)
        /\ g.r = Number(d.tx.r) /\ (d.tx.type = 0 => chained)
    BY <1>2, Zenon DEF Attributed, Recovers
  <1>4. d.tx.type = t /\ HowRead(t, d.tx, chainId, recID, chained)
    BY <1>3, ReadIs, ZenonT(40)
  <1>5. ~(d.tx.type = 0 /\ Number(d.tx.v) \in {27, 28})
    BY <1>3, <1>4, Zenon DEF HowRead
  <1>6. d.tx.chainId = c
    BY <1>1, <1>5, Zenon DEF checkChainID
  <1>7. tx.chainId = d.tx.chainId
    BY <1>3, Zenon DEF SameTx
  <1>8. g.of.kind = "tx" /\ g.of.tx = tx
    BY <1>3, MadeForIs, Zenon
  <1> QED BY <1>3, <1>6, <1>7, <1>8, Zenon DEF d, c

\* Decode leaves its input only where a length in it is so near the end of the
\* uint64 range that the bound wraps.
PanicWraps == Decode(raw).err = "panic" => Wraps(raw)

\* The invariant implies RlpCanonical and PanicWraps.
LEMMA InvRlp == TxInv => RlpCanonical /\ PanicWraps
  <1> SUFFICES ASSUME raw \in Seq(Byte) PROVE RlpCanonical /\ PanicWraps
    BY Zenon DEF TxInv
  <1>1. RlpCanonical
    BY Decoded, Zenon DEF RlpCanonical
  <1>2. PanicWraps
    BY Decoded, Zenon DEF PanicWraps
  <1> QED BY <1>1, <1>2, Zenon

------------------------------------------------------------------------------
(* What SignTx produces.                                                   *)

\* The number v stands for.
VOf(tx, recID) == IF tx.type = 0 THEN recID + 35 + 2 * tx.chainId ELSE recID

SignedItems(tx, recID, r, s) ==
    FieldItems(Body(tx.type), tx) \o <<Bytes(uintToBytes(VOf(tx, recID))), Bytes(r), Bytes(s)>>

\* A recovery id as a byte.
LEMMA OneByte ==
    ASSUME NEW k \in {0, 1}
    PROVE  k \in Byte /\ <<k>> \in Seq(Byte) /\ Number(<<k>>) = k
  <1>1. k \in Byte /\ <<>> \in Seq(Byte)
    BY Layouts DEF Byte
  <1>2. Append(<<>>, k) = <<k>> /\ <<k>> \in Seq(Byte)
    <2> HIDE DEF Byte
    <2> QED BY <1>1
  <1>3. Number(Append(<<>>, k)) = Number(<<>>) * Base + k
    BY <1>1, NumberAppend, Zenon
  <1>4. 0 * Base + k = k
    BY Layouts
  <1> QED BY <1>1, <1>2, <1>3, <1>4, NumberEmpty, Zenon

\* A signed transaction is an envelope: its fields, v, r and s.
LEMMA SignedIs ==
    ASSUME NEW tx, TxTyped(tx), NEW k \in {0, 1}, NEW r \in Seq(Byte), NEW s \in Seq(Byte)
    PROVE  LET items == SignedItems(tx, k, r, s)
           IN  /\ VOf(tx, k) \in Nat
               /\ items \in Seq(Values(Inside)) /\ Len(items) = Len(Body(tx.type)) + 3
               /\ EncodeSigned(tx, r, s, assembleV(tx, k)) = Envelope(tx.type, items)
  <1> DEFINE t == tx.type
             v == VOf(tx, k)
             x == Bytes(uintToBytes(v))
             y == Bytes(r)
             z == Bytes(s)
             layout == Body(t)
             items == FieldItems(layout, tx) \o <<x, y, z>>
  <1>1. t \in {0, 1, 2} /\ tx.chainId \in Nat /\ Fits(layout, tx)
    BY TypedFits, Zenon DEF TxFits, TxTyped
  <1>2. v \in Nat
    <2>1. k + 35 + 2 * tx.chainId \in Nat /\ k \in Nat
      BY <1>1
    <2> QED BY <2>1, Zenon DEF VOf
  <1>3. uintToBytes(v) \in Seq(Byte) /\ Inside \in Nat /\ layout \in Seq(Names)
    BY <1>1, <1>2, UintIs, InsideIs, Bodies, Zenon
  <1> HIDE DEF v, layout
  <1>4. /\ x \in Values(Inside) /\ Encode(Inside, x) = encodeBig(v)
        /\ y \in Values(Inside) /\ Encode(Inside, y) = EncodeBytes(r)
        /\ z \in Values(Inside) /\ Encode(Inside, z) = EncodeBytes(s)
    BY <1>3, EncodeIs, Zenon DEF encodeBig
  <1> HIDE DEF x, y, z
  <1>5. /\ <<x, y, z>> \in Seq(Values(Inside)) /\ Len(<<x, y, z>>) = 3
        /\ Encoded(Inside, <<x, y, z>>) = <<encodeBig(v), EncodeBytes(r), EncodeBytes(s)>>
    BY <1>4, Triple, ZenonT(40)
  <1>6. /\ items \in Seq(Values(Inside)) /\ Len(items) = Len(layout) + 3
        /\ Encode(MaxNestingDepth, List(items))
             = EncodeList(encodeFields(layout, tx) \o <<encodeBig(v), EncodeBytes(r), EncodeBytes(s)>>)
    <2> DEFINE more == <<x, y, z>>
    <2>1. more \in Seq(Values(Inside)) /\ Len(more) = 3
      BY <1>5, Zenon
    <2> HIDE DEF more
    <2>2. /\ FieldItems(layout, tx) \o more \in Seq(Values(Inside))
          /\ Len(FieldItems(layout, tx) \o more) = Len(layout) + Len(more)
          /\ Encode(MaxNestingDepth, List(FieldItems(layout, tx) \o more))
               = EncodeList(encodeFields(layout, tx) \o Encoded(Inside, more))
      BY <1>1, <1>3, <2>1, ListEncoded, Zenon
    <2> QED BY <1>5, <2>1, <2>2, Zenon DEF more
  <1>7. Encode(MaxNestingDepth, List(items)) = SignedList(tx, encodeBig(v), r, s)
    BY <1>6, Zenon DEF SignedList, layout
  <1>8. EncodeSigned(tx, r, s, assembleV(tx, k)) = Envelope(t, items)
    <2> HIDE DEF items
    <2>1. CASE t = 0
      <3>1. assembleV(tx, k) = uintToBytes(v)
        BY <2>1, Zenon DEF assembleV, v, VOf
      <3>2. EncodeSigned(tx, r, s, assembleV(tx, k)) = SignedList(tx, encodeBig(v), r, s)
        BY <2>1, <3>1, Zenon DEF EncodeSigned, encodeBig
      <3>3. EnvelopeIs(t, items, Envelope(t, items))
        BY <1>1, <1>6, EnvelopeHead, Zenon
      <3> QED BY <1>7, <2>1, <3>2, <3>3, Zenon DEF EnvelopeIs
    <2>2. CASE t # 0
      <3>1. assembleV(tx, k) = <<k>> /\ v = k
        BY <2>2, Zenon DEF assembleV, v, VOf
      <3>2. Number(<<k>>) = v
        BY <3>1, OneByte, Zenon
      <3>3. EncodeSigned(tx, r, s, assembleV(tx, k)) = EncodeTyped(tx, r, s, <<k>>)
        BY <2>2, <3>1, Zenon DEF EncodeSigned
      <3>4. EncodeTyped(tx, r, s, <<k>>) = TypePrefix(t) \o SignedList(tx, encodeBig(v), r, s)
        BY <3>2, Zenon DEF EncodeTyped
      <3> QED BY <1>7, <3>3, <3>4, Zenon DEF Envelope
    <2> QED BY <2>1, <2>2, Zenon
  <1> QED BY <1>2, <1>6, <1>8, Zenon DEF SignedItems, x, y, z, v, layout

\* An envelope that fits a slice consists of bytes.
LEMMA EnvelopeBytes ==
    ASSUME NEW t \in {0, 1, 2}, NEW l \in Seq(Values(Inside)), IsSlice(Envelope(t, l))
    PROVE  /\ Envelope(t, l) \in Seq(Byte) /\ Envelope(t, l) # <<>>
           /\ Encode(MaxNestingDepth, List(l)) \in Seq(Byte)
           /\ Len(Envelope(t, l)) = Len(TypePrefix(t)) + Len(Encode(MaxNestingDepth, List(l)))
  <1> DEFINE b == Envelope(t, l)
             e == Encode(MaxNestingDepth, List(l))
  <1>1. EnvelopeIs(t, l, b) /\ 2 * Len(b) < Word
    BY EnvelopeHead, Zenon DEF IsSlice
  <1>2. List(l) \in Values(MaxNestingDepth) /\ e \in Seq(Nat)
    BY ListHead, Zenon
  <1>3. 2 * Len(e) < Word => e \in Seq(Byte)
    BY <1>2, RoundTrip, Zenon
  <1>4. /\ b # <<>> /\ (t = 0 => b = e) /\ (t # 0 => Len(b) = 1 + Len(e))
    BY <1>1, Zenon DEF EnvelopeIs
  <1>5. b = TypePrefix(t) \o e
    BY Zenon DEF Envelope
  <1> HIDE DEF b, e
  <1>6. CASE t = 0
    <2>1. TypePrefix(t) = <<>> /\ Len(<<>>) = 0 /\ Len(e) \in Nat /\ 0 + Len(e) = Len(e)
      <3>1. Len(e) \in Nat
        BY <1>2, SeqIs, Zenon
      <3>2. Len(<<>>) = 0 /\ 0 + Len(e) = Len(e)
        BY <3>1
      <3> QED BY <1>6, <3>1, <3>2, Zenon DEF TypePrefix
    <2> QED BY <1>1, <1>3, <1>4, <1>6, <2>1, Zenon DEF b, e
  <1>7. CASE t # 0
    <2>0. TypePrefix(t) = <<t>> /\ Len(<<t>>) = 1
      BY <1>7 DEF TypePrefix
    <2>1. 2 * Len(e) < Word
      <3>1. Len(e) \in Nat
        BY <1>2, SeqIs, Zenon
      <3>2. Word \in Nat
        BY PowerIs, Layouts, Zenon DEF Word
      <3> QED BY <1>1, <1>4, <1>7, <3>1, <3>2, SMTT(30)
    <2>2. e \in Seq(Byte)
      BY <1>3, <2>1, Zenon
    <2>3. <<t>> \in Seq(Byte)
      <3>1. t \in Byte
        BY Layouts DEF Byte
      <3> HIDE DEF Byte
      <3> QED BY <3>1
    <2>4. <<t>> \o e \in Seq(Byte)
      BY <2>2, <2>3, ConcatIs, Zenon
    <2> QED BY <1>4, <1>5, <1>7, <2>0, <2>2, <2>4, Zenon DEF b, e
  <1> QED BY <1>6, <1>7, Zenon

\* The scalars of a signature.
LEMMA Scalars ==
    ASSUME NEW x \in 1..(N - 1)
    PROVE  /\ x \in Nat /\ x < N /\ x # 0 /\ x < Power(WordLen)
           /\ Padded(x) \in Seq(Byte) /\ Len(Padded(x)) = WordLen
           /\ uintToBytes(x) \in Seq(Byte) /\ Len(uintToBytes(x)) \in Nat
           /\ Len(uintToBytes(x)) <= WordLen
  <1>1. N \in Nat /\ N < Power(WordLen) /\ WordLen \in Nat /\ Power(WordLen) \in Nat
    BY CurveAssumption, PowerIs, Zenon
  <1>2. x \in Nat /\ x < N /\ x # 0 /\ x < Power(WordLen)
    BY <1>1
  <1>3. Padded(x) \in Seq(Byte) /\ Len(Padded(x)) = WordLen /\ uintToBytes(x) \in Seq(Byte)
        /\ Len(uintToBytes(x)) \in Nat
    BY <1>2, PaddedIs, Zenon
  <1>4. Len(uintToBytes(x)) <= WordLen
    BY <1>1, <1>2, UintLen, Zenon
  <1> QED BY <1>2, <1>3, <1>4, Zenon

\* Half of the order is below it.
LEMMA HalfIs == HalfN \in Nat /\ 2 * HalfN + 1 = N /\ \A s \in 1..HalfN : s \in 1..(N - 1)
  <1>1. N \in Nat /\ N % 2 = 1
    BY CurveAssumption
  <1>2. HalfN \in Nat /\ 2 * HalfN + 1 = N
    BY <1>1 DEF HalfN
  <1> QED BY <1>2

\* What SignTx returns is a slice of bytes.
LEMMA SignedBytes ==
    ASSUME NEW tx \in Txs, NEW g \in Signatures
    PROVE  SignedRaw(tx, g) \in Seq(Byte)
  <1> DEFINE items == SignedItems(tx, g.recID, Padded(g.r), Padded(g.s))
  <1>1. TxTyped(tx) /\ IsSlice(SignedRaw(tx, g)) /\ tx.type \in {0, 1, 2}
    BY TxsAssumption, Zenon DEF TxTyped
  <1>2. g.r \in 1..(N - 1) /\ g.s \in 1..(N - 1) /\ g.recID \in {0, 1}
    BY SignaturesAssumption, HalfIs, Zenon
  <1>3. Padded(g.r) \in Seq(Byte) /\ Padded(g.s) \in Seq(Byte)
    BY <1>2, Scalars, Zenon
  <1>4. items \in Seq(Values(Inside)) /\ SignedRaw(tx, g) = Envelope(tx.type, items)
    BY <1>1, <1>2, <1>3, SignedIs, Zenon DEF SignedRaw
  <1> HIDE DEF items
  <1> QED BY <1>1, <1>4, EnvelopeBytes, Zenon

------------------------------------------------------------------------------
(* The invariant is inductive.                                             *)

\* The kinds of results, which no record of another kind is.
LEMMA Kinds ==
    /\ Absent.kind = "none"
    /\ "none" # "signed" /\ "none" # "decode" /\ "none" # "validate" /\ "none" # "typed"
    /\ "sign" # "decode" /\ "sign" # "validate" /\ "sign" # "typed"
    /\ "decode" # "validate" /\ "decode" # "typed" /\ "validate" # "typed"
    /\ "rewritten" # "signed"
  BY DEF Absent

\* In the initial states.
LEMMA InitTxInv == TxInit => TxInv
  <1> SUFFICES ASSUME TxInit PROVE TxInv
    OBVIOUS
  <1>1. raw \in Seq(Byte)
    BY DEF TxInit
  <1>2. SigsOk(sigs)
    BY Zenon DEF TxInit, SigsOk
  <1>3. OriginOk
    BY Kinds, Zenon DEF TxInit, OriginOk
  <1>4. ResultOk
    BY Kinds, Zenon DEF TxInit, ResultOk
  <1> QED BY <1>1, <1>2, <1>3, <1>4, Zenon DEF TxInv

\* A fresh signature for something is fine beside the others.
LEMMA SigAdded ==
    ASSUME NEW made, SigsOk(made), NEW h, SigTyped(h), MadeFor(h), \A g \in made : g.r # h.r
    PROVE  SigsOk(made \cup {h})
  <1>1. \A g \in made : SigTyped(g) /\ MadeFor(g)
    BY Zenon DEF SigsOk
  <1>2. \A g, x \in made : g.r = x.r => g = x
    BY Zenon DEF SigsOk
  <1>3. \A g \in made \cup {h} : SigTyped(g) /\ MadeFor(g)
    BY <1>1, Zenon
  <1>4. \A g, x \in made \cup {h} : g.r = x.r => g = x
    BY <1>2, Zenon
  <1> QED BY <1>3, <1>4, Zenon DEF SigsOk

\* What Sign adds.
LEMMA SignedFor ==
    ASSUME SigsOk(sigs), NEW k \in Keys, NEW g \in Signatures, Unused(g), NEW digest, NEW what,
           Sign(k, digest, g, what),
           \A h : h.digest = digest /\ h.of = what => MadeFor(h)
    PROVE  SigsOk(sigs') /\ [key |-> k, digest |-> digest, r |-> g.r, s |-> g.s,
                             recID |-> g.recID, of |-> what] \in sigs'
  <1> DEFINE h == [key |-> k, digest |-> digest, r |-> g.r, s |-> g.s,
                   recID |-> g.recID, of |-> what]
  <1>1. sigs' = sigs \cup {h}
    BY Zenon DEF Sign
  <1>2. /\ h.key = k /\ h.digest = digest /\ h.r = g.r /\ h.s = g.s /\ h.recID = g.recID
        /\ h.of = what
    OBVIOUS
  <1> HIDE DEF h
  <1>3. SigTyped(h)
    BY <1>2, SignaturesAssumption, Zenon DEF SigTyped
  <1>4. MadeFor(h)
    BY <1>2, Zenon
  <1>5. \A x \in sigs : x.r # h.r
    BY <1>2, Zenon DEF Unused
  <1>6. SigsOk(sigs \cup {h})
    BY <1>3, <1>4, <1>5, SigAdded, Zenon
  <1> QED BY <1>1, <1>6, Zenon DEF h

\* Where nothing is under way and nothing was checked, only the signatures count.
LEMMA IdleKept ==
    ASSUME TxIdle, SigsOk(sigs'), raw' = raw, origin' = origin,
           result'.kind = "none" \/ result'.kind = "sign"
    PROVE  TxInv'
  <1>1. raw' \in Seq(Byte)
    BY DEF TxIdle
  <1>2. OriginOk'
    BY Kinds, Zenon DEF TxIdle, OriginOk
  <1>3. ResultOk'
    BY Kinds, Zenon DEF ResultOk
  <1> QED BY <1>1, <1>2, <1>3, Zenon DEF TxInv

\* SignTx keeps the invariant.
LEMMA SignTxKeeps ==
    ASSUME TxInv, NEW k \in Keys, NEW tx \in Txs, NEW g \in Signatures, SignTx(k, tx, g)
    PROVE  TxInv'
  <1>0. SigsOk(sigs) /\ TxIdle /\ Unused(g)
    BY Zenon DEF TxInv, SignTx
  <1>1. CASE tx.chainId = 0
    <2>1. /\ result' = [kind |-> "sign", err |-> "zero chain ID"]
          /\ UNCHANGED <<sigs, raw, origin>>
      BY <1>1, Zenon DEF SignTx
    <2>2. result'.kind = "sign"
      BY <2>1
    <2>3. SigsOk(sigs') /\ raw' = raw /\ origin' = origin
      BY <1>0, <2>1, Zenon
    <2> QED BY <1>0, <2>2, <2>3, IdleKept, Zenon
  <1>2. CASE tx.chainId # 0
    <2> DEFINE what == [kind |-> "tx", tx |-> tx]
               digest == SigningPreimage(tx, TRUE)
    <2>1. /\ Sign(k, digest, g, what) /\ raw' = SignedRaw(tx, g)
          /\ origin' = [kind |-> "signed", key |-> k, tx |-> tx, sig |-> g]
          /\ result' = result
      BY <1>2, Zenon DEF SignTx
    <2>2. \A h : h.digest = digest /\ h.of = what => MadeFor(h)
      BY <1>2, Zenon DEF MadeFor, MadeForTx
    <2> HIDE DEF what, digest
    <2>3. /\ SigsOk(sigs')
          /\ [key |-> k, digest |-> digest, r |-> g.r, s |-> g.s,
              recID |-> g.recID, of |-> what] \in sigs'
      BY <1>0, <2>1, <2>2, SignedFor, Zenon
    <2>4. TxSig(k, tx, g) \in sigs'
      BY <2>3, Zenon DEF TxSig, what, digest
    <2>5. OriginOk'
      BY <2>1, <2>4, Zenon DEF OriginOk
    <2>6. ResultOk'
      BY <1>0, <2>1, Kinds, Zenon DEF ResultOk, TxIdle
    <2>7. SignedRaw(tx, g) \in Seq(Byte)
      BY SignedBytes, Zenon
    <2> QED BY <2>1, <2>3, <2>5, <2>6, <2>7, Zenon DEF TxInv
  <1> QED BY <1>1, <1>2, Zenon

\* SignPersonalMessage keeps the invariant.
LEMMA SignPersonalMessageKeeps ==
    ASSUME TxInv, NEW k \in Keys, NEW m \in Messages, NEW g \in Signatures,
           SignPersonalMessage(k, m, g)
    PROVE  TxInv'
  <1> DEFINE what == [kind |-> "personal", msg |-> m]
             digest == personalDigest(m)
  <1>1. /\ SigsOk(sigs) /\ TxIdle /\ Unused(g) /\ Sign(k, digest, g, what)
        /\ raw' = raw /\ origin' = origin /\ result' = result
    BY Zenon DEF TxInv, SignPersonalMessage
  <1>2. \A h : h.digest = digest /\ h.of = what => MadeFor(h)
    BY Zenon DEF MadeFor, MadeForMessage
  <1> HIDE DEF what, digest
  <1>3. SigsOk(sigs')
    BY <1>1, <1>2, SignedFor, Zenon
  <1>4. result'.kind = "none"
    BY <1>1, Kinds, Zenon DEF TxIdle
  <1> QED BY <1>1, <1>3, <1>4, IdleKept, Zenon

\* SignTypedData keeps the invariant.
LEMMA SignTypedDataKeeps ==
    ASSUME TxInv, NEW k \in Keys, NEW d \in Domains, NEW h \in Structs, NEW g \in Signatures,
           SignTypedData(k, d, h, g)
    PROVE  TxInv'
  <1>0. /\ SigsOk(sigs) /\ TxIdle /\ Unused(g) /\ raw' = raw /\ origin' = origin
    BY Zenon DEF TxInv, SignTypedData
  <1>1. CASE DomainValid(d)
    <2> DEFINE what == [kind |-> "typed", domain |-> d, struct |-> h]
               digest == typedDigest(d, h)
    <2>1. Sign(k, digest, g, what) /\ result' = result
      BY <1>1, Zenon DEF SignTypedData
    <2>2. \A x : x.digest = digest /\ x.of = what => MadeFor(x)
      BY <1>1, Zenon DEF MadeFor, MadeForData
    <2> HIDE DEF what, digest
    <2>3. SigsOk(sigs')
      BY <1>0, <2>1, <2>2, SignedFor, Zenon
    <2>4. result'.kind = "none"
      BY <1>0, <2>1, Kinds, Zenon DEF TxIdle
    <2> QED BY <1>0, <2>3, <2>4, IdleKept, Zenon
  <1>2. CASE ~DomainValid(d)
    <2>1. result' = [kind |-> "sign", err |-> "ErrInvalidDomain"] /\ sigs' = sigs
      BY <1>2, Zenon DEF SignTypedData
    <2>2. result'.kind = "sign"
      BY <2>1
    <2>3. SigsOk(sigs')
      BY <1>0, <2>1, Zenon
    <2> QED BY <1>0, <2>2, <2>3, IdleKept, Zenon
  <1> QED BY <1>1, <1>2, Zenon

\* Feed keeps the invariant.
LEMMA FeedKeeps ==
    ASSUME TxInv, NEW c \in Byte, Feed(c)
    PROVE  TxInv'
  <1>1. /\ raw \in Seq(Byte) /\ SigsOk(sigs) /\ result = Absent /\ origin = Absent
        /\ raw' = Append(raw, c) /\ sigs' = sigs /\ origin' = origin /\ result' = result
    BY Zenon DEF TxInv, Feed
  <1>2. raw' \in Seq(Byte)
    <2> HIDE DEF Byte
    <2> QED BY <1>1
  <1>3. SigsOk(sigs')
    BY <1>1, Zenon
  <1>4. OriginOk' /\ ResultOk'
    BY <1>1, Kinds, Zenon DEF OriginOk, ResultOk
  <1> QED BY <1>2, <1>3, <1>4, Zenon DEF TxInv

\* Rewrite keeps the invariant.
LEMMA RewriteKeeps ==
    ASSUME TxInv, origin.kind = "signed", NEW b, Rewrite(b)
    PROVE  TxInv'
  <1>1. /\ SigsOk(sigs) /\ result = Absent /\ b \in Seq(Byte) /\ raw' = b
        /\ origin' = [origin EXCEPT !.kind = "rewritten"] /\ sigs' = sigs /\ result' = result
    BY Zenon DEF TxInv, Rewrite
  <1>2. PICK k, tx, g : origin = [kind |-> "signed", key |-> k, tx |-> tx, sig |-> g]
    BY Zenon DEF TxInv, OriginOk
  <1>3. origin'.kind = "rewritten"
    BY <1>1, <1>2
  <1>4. SigsOk(sigs')
    BY <1>1, Zenon
  <1>5. OriginOk'
    BY <1>3, Kinds, Zenon DEF OriginOk
  <1>6. ResultOk'
    BY <1>1, Kinds, Zenon DEF ResultOk
  <1>7. raw' \in Seq(Byte)
    BY <1>1, Zenon
  <1> QED BY <1>4, <1>5, <1>6, <1>7, Zenon DEF TxInv

\* A check changes the result only.
LEMMA Checked ==
    ASSUME TxInv, UNCHANGED <<sigs, raw, origin>>, ResultOk'
    PROVE  TxInv'
  <1>1. sigs' = sigs /\ raw' = raw /\ origin' = origin
    BY Zenon
  <1>2. OriginOk'
    BY <1>1, Zenon DEF TxInv, OriginOk
  <1> QED BY <1>1, <1>2, Zenon DEF TxInv

\* CheckDecode keeps the invariant.
LEMMA CheckDecodeKeeps ==
    ASSUME TxInv, CheckDecode
    PROVE  TxInv'
  <1>1. /\ result' = [kind |-> "decode", d |-> DecodeTransaction(sigs, raw)]
        /\ UNCHANGED <<sigs, raw, origin>>
    BY Zenon DEF CheckDecode
  <1> DEFINE d == DecodeTransaction(sigs, raw)
  <1>2. sigs' = sigs /\ raw' = raw /\ result' = [kind |-> "decode", d |-> d]
    BY <1>1, Zenon
  <1> HIDE DEF d
  <1>3. result'.kind = "decode" /\ result'.d = d
    BY <1>2
  <1>4. ResultOk'
    BY <1>2, <1>3, Kinds, Zenon DEF ResultOk, d
  <1> QED BY <1>1, <1>4, Checked, Zenon

\* CheckValid keeps the invariant.
LEMMA CheckValidKeeps ==
    ASSUME TxInv, NEW c, CheckValid(c)
    PROVE  TxInv'
  <1> DEFINE d == DecodeTransaction(sigs, raw)
             e == ValidateTransaction(sigs, raw, c)
  <1>1. /\ result' = [kind |-> "validate", err |-> e, d |-> d, chain |-> c]
        /\ UNCHANGED <<sigs, raw, origin>>
    BY Zenon DEF CheckValid
  <1>2. sigs' = sigs /\ raw' = raw
    BY <1>1, Zenon
  <1> HIDE DEF d, e
  <1>3. result'.kind = "validate" /\ result'.d = d /\ result'.err = e /\ result'.chain = c
    BY <1>1
  <1>4. ResultOk'
    BY <1>2, <1>3, Kinds, Zenon DEF ResultOk, d, e
  <1> QED BY <1>1, <1>4, Checked, Zenon

\* CheckTyped keeps the invariant.
LEMMA CheckTypedKeeps ==
    ASSUME TxInv, NEW g \in sigs, NEW s \in {g.s, N - g.s}, NEW v \in {0, 27, 28},
           NEW d \in Domains, NEW h \in Structs, CheckTyped(g, s, v, d, h)
    PROVE  TxInv'
  <1> DEFINE who == RecoverTyped(sigs, g.r, s, v, d, h)
  <1>1. /\ result' = [kind |-> "typed", who |-> who, domain |-> d, struct |-> h]
        /\ UNCHANGED <<sigs, raw, origin>> /\ DomainValid(d)
    BY Zenon DEF CheckTyped
  <1>2. sigs' = sigs
    BY <1>1, Zenon
  <1> HIDE DEF who
  <1>3. result'.kind = "typed" /\ result'.who = who /\ result'.domain = d /\ result'.struct = h
    BY <1>1
  <1>4. \E x \in sigs', w \in {0, 27, 28} : \E z \in {x.s, N - x.s} :
            who = RecoverTyped(sigs', x.r, z, w, d, h)
    BY <1>2, Zenon DEF who
  <1>5. ResultOk'
    BY <1>1, <1>3, <1>4, Kinds, Zenon DEF ResultOk
  <1> QED BY <1>1, <1>5, Checked, Zenon

\* TxDiscard keeps the invariant.
LEMMA DiscardKeeps ==
    ASSUME TxInv, TxDiscard
    PROVE  TxInv'
  <1>1. raw' = <<>> /\ origin' = Absent /\ result' = Absent /\ sigs' = sigs /\ SigsOk(sigs)
    BY Zenon DEF TxInv, TxDiscard
  <1>2. raw' \in Seq(Byte)
    BY <1>1
  <1>3. SigsOk(sigs') /\ OriginOk' /\ ResultOk'
    BY <1>1, Kinds, Zenon DEF OriginOk, ResultOk
  <1> QED BY <1>2, <1>3, Zenon DEF TxInv

\* Every step keeps the invariant.
LEMMA NextTxInv == TxInv /\ [TxNext]_txVars => TxInv'
  <1> SUFFICES ASSUME TxInv, [TxNext]_txVars PROVE TxInv'
    OBVIOUS
  <1>1. CASE \E k \in Keys, tx \in Txs, g \in Signatures : SignTx(k, tx, g)
    BY <1>1, SignTxKeeps, Zenon
  <1>2. CASE \E k \in Keys, m \in Messages, g \in Signatures : SignPersonalMessage(k, m, g)
    BY <1>2, SignPersonalMessageKeeps, Zenon
  <1>3. CASE \E k \in Keys, d \in Domains, h \in Structs, g \in Signatures : SignTypedData(k, d, h, g)
    BY <1>3, SignTypedDataKeeps, Zenon
  <1>4. CASE \E c \in Byte : Feed(c)
    BY <1>4, FeedKeeps, Zenon
  <1>5. CASE origin.kind = "signed" /\ \E b \in Rewrites(raw, origin.tx) : Rewrite(b)
    BY <1>5, RewriteKeeps, Zenon
  <1>6. CASE CheckDecode
    BY <1>6, CheckDecodeKeeps, Zenon
  <1>7. CASE \E c \in Chains \cup {NilChain} : CheckValid(c)
    BY <1>7, CheckValidKeeps, Zenon
  <1>8. CASE \E g \in sigs, s \in {0, 1}, v \in {0, 27, 28}, d \in Domains, h \in Structs :
               CheckTyped(g, IF s = 0 THEN g.s ELSE N - g.s, v, d, h)
    <2>1. PICK g \in sigs, s \in {0, 1}, v \in {0, 27, 28}, d \in Domains, h \in Structs :
               CheckTyped(g, IF s = 0 THEN g.s ELSE N - g.s, v, d, h)
      BY <1>8, Zenon
    <2>2. PICK z : z = IF s = 0 THEN g.s ELSE N - g.s
      BY Zenon
    <2>3. z \in {g.s, N - g.s}
      BY <2>2, Zenon
    <2>4. CheckTyped(g, z, v, d, h)
      BY <2>1, <2>2, Zenon
    <2> QED BY <2>3, <2>4, CheckTypedKeeps, Zenon
  <1>9. CASE TxDiscard
    BY <1>9, DiscardKeeps, Zenon
  <1>10. CASE UNCHANGED txVars
    <2>1. sigs' = sigs /\ raw' = raw /\ origin' = origin /\ result' = result
      BY <1>10, Zenon DEF txVars
    <2> QED BY <2>1, Zenon DEF TxInv, OriginOk, ResultOk
  <1> QED BY <1>1, <1>2, <1>3, <1>4, <1>5, <1>6, <1>7, <1>8, <1>9, <1>10, Zenon DEF TxNext

\* The invariant holds in every reachable state.
THEOREM TxInvariant == TxSpec => []TxInv
  BY InitTxInv, NextTxInv, PTL DEF TxSpec

------------------------------------------------------------------------------
(* One encoding.                                                           *)

\* Transactions with the same fields.
SameFields(t, tx, d) == \A f \in Range(Body(t)) : tx[f] = d[f]

\* The items of a transaction that was read, from fields that are the same.
LEMMA ItemsAre ==
    ASSUME NEW t \in {0, 1, 2}, NEW items \in Seq(Values(Inside)), Len(items) = Len(Body(t)) + 3,
           NEW d, ReadOf(t, items, d), NEW tx, SameFields(t, tx, d)
    PROVE  items = FieldItems(Body(t), tx) \o <<Bytes(d.v), Bytes(d.r), Bytes(d.s)>>
  <1> DEFINE b == Body(t)
             n == Len(b)
             V == Values(Inside)
             front == FieldItems(b, tx)
             x == Bytes(d.v)
             y == Bytes(d.r)
             z == Bytes(d.s)
  <1>1. n \in Nat /\ DOMAIN b = 1..n /\ b \in Seq(Names)
    BY Order, Bodies, Zenon
  <1>2. \A i \in 1..n : b[i] \in Range(b)
    BY Distinct, Zenon
  <1>3. \A i \in 1..n : FieldFits(b[i], d[b[i]]) /\ FieldItem(b[i], d[b[i]]) = items[i]
    BY Zenon DEF ReadOf
  <1>4. /\ items[n + 1] = x /\ items[n + 2] = y /\ items[n + 3] = z
    BY Zenon DEF ReadOf
  <1> HIDE DEF b, x, y, z
  <1>5. \A i \in 1..n : tx[b[i]] = d[b[i]]
    BY <1>2, Zenon DEF b, SameFields
  <1>6. Fits(b, tx)
    BY <1>1, <1>3, <1>5, Zenon DEF Fits
  <1>7. front \in Seq(V) /\ Len(front) = n
    BY <1>1, <1>6, FieldsEncoded, Zenon
  <1>8. \A i \in 1..n : front[i] = items[i]
    <2> SUFFICES ASSUME NEW i \in 1..n PROVE front[i] = items[i]
      OBVIOUS
    <2>1. front[i] = FieldItem(b[i], tx[b[i]])
      BY <1>1, Zenon DEF FieldItems
    <2> QED BY <1>3, <1>5, <2>1, Zenon
  <1>9. items \in Seq(V) /\ Len(items) = n + 3
    BY Zenon DEF b
  <1> HIDE DEF V, front, n
  <1>10. x \in V /\ y \in V /\ z \in V
    <2>1. n + 1 \in 1..Len(items) /\ n + 2 \in 1..Len(items) /\ n + 3 \in 1..Len(items)
      BY <1>1, <1>9
    <2> QED BY <1>4, <1>9, <2>1, SeqIs, Zenon
  <1> DEFINE c == <<x, y, z>>
  <1>11. c \in Seq(V) /\ Len(c) = 3 /\ c[1] = x /\ c[2] = y /\ c[3] = z
    BY <1>10
  <1> HIDE DEF c
  <1>12. /\ front \o c \in Seq(V) /\ Len(front \o c) = n + 3
         /\ \A i \in 1..n : (front \o c)[i] = front[i]
         /\ \A i \in 1..3 : (front \o c)[n + i] = c[i]
    <2>0. front \in Seq(V) /\ c \in Seq(V)
      BY <1>7, <1>11, Zenon
    <2>1. /\ Len(front \o c) = Len(front) + Len(c) /\ front \o c \in Seq(V)
          /\ \A i \in 1..Len(front) : (front \o c)[i] = front[i]
          /\ \A i \in 1..Len(c) : (front \o c)[Len(front) + i] = c[i]
      BY <2>0
    <2> QED BY <1>7, <1>11, <2>1, Zenon
  <1>13. ASSUME NEW i \in 1..(n + 3) PROVE items[i] = (front \o c)[i]
    <2>1. i \in 1..n \/ i = n + 1 \/ i = n + 2 \/ i = n + 3
      BY <1>1
    <2>2. 1 \in 1..3 /\ 2 \in 1..3 /\ 3 \in 1..3
      OBVIOUS
    <2>3. /\ (front \o c)[n + 1] = x /\ (front \o c)[n + 2] = y /\ (front \o c)[n + 3] = z
      BY <1>11, <1>12, <2>2, Zenon
    <2> QED BY <1>4, <1>8, <1>12, <2>1, <2>3, Zenon
  <1>14. items = front \o c
    BY <1>9, <1>12, <1>13, SameSeq, Zenon
  <1> QED BY <1>14, Zenon DEF front, c, b, x, y, z

\* A scalar that was read is written the same way.
LEMMA ScalarRead ==
    ASSUME NEW b \in Seq(Byte), asScalar(Bytes(b))
    PROVE  uintToBytes(Number(b)) = b
  <1>1. checkIntegerField(Bytes(b).b) /\ Bytes(b).b = b
    BY Shapes, Zenon DEF asScalar
  <1>2. Minimal(b)
    BY <1>1, Zenon DEF checkIntegerField, Minimal
  <1> QED BY <1>2, NumberUint, Zenon

\* So is v.
LEMMA VRead ==
    ASSUME NEW t \in {0, 1, 2}, NEW tx, tx.type = t, tx.chainId \in Nat,
           NEW d, d.v \in Seq(Byte), t = 0 => checkIntegerField(d.v),
           NEW chainId, NEW recID, NEW chained, HowRead(t, d, chainId, recID, chained),
           t = 0 => chained /\ tx.chainId = chainId
    PROVE  d.v = uintToBytes(VOf(tx, recID))
  <1> DEFINE v == Number(d.v)
  <1>1. v \in Nat
    BY NumberBound, Zenon
  <1>2. CASE t = 0
    <2>1. /\ ~(v < 35) /\ chainId = (v - 35) \div 2 /\ recID = (v - 35) % 2
      BY <1>2, Zenon DEF HowRead
    <2>2. uintToBytes(v) = d.v
      <3>1. Minimal(d.v)
        BY <1>2, Zenon DEF checkIntegerField, Minimal
      <3> QED BY <3>1, NumberUint, Zenon
    <2> HIDE DEF v
    <2>3. v = recID + 35 + 2 * chainId
      <3>1. v - 35 \in Nat
        BY <1>1, <2>1
      <3>2. \A m \in Nat : m \div 2 \in Nat /\ m % 2 \in Nat /\ m = 2 * (m \div 2) + (m % 2)
        OBVIOUS
      <3>3. /\ chainId \in Nat /\ recID \in Nat /\ v - 35 = 2 * chainId + recID
        BY <2>1, <3>1, <3>2
      <3> QED BY <1>1, <3>3
    <2>4. v = VOf(tx, recID)
      BY <1>2, <2>3, Zenon DEF VOf
    <2> QED BY <2>2, <2>4, Zenon
  <1>3. CASE t # 0
    <2>1. yParity(d.v) # 2 /\ recID = yParity(d.v)
      BY <1>3, Zenon DEF HowRead
    <2>2. VOf(tx, recID) = recID
      BY <1>3, Zenon DEF VOf
    <2>3. CASE d.v = <<>>
      <3>1. recID = 0
        BY <2>1, <2>3, Zenon DEF yParity
      <3> QED BY <2>2, <2>3, <3>1, UintStep, Zenon
    <2>4. CASE d.v # <<>>
      <3>1. d.v = <<1>> /\ recID = 1
        BY <2>1, <2>4, Zenon DEF yParity
      <3>2. Number(<<1>>) = 1 /\ <<1>> \in Seq(Byte)
        BY OneByte, Zenon
      <3>3. Minimal(<<1>>)
        BY DEF Minimal
      <3>4. uintToBytes(Number(<<1>>)) = <<1>>
        BY <3>2, <3>3, NumberUint, Zenon
      <3> QED BY <2>2, <3>1, <3>2, <3>4, Zenon
    <2> QED BY <2>3, <2>4, Zenon
  <1> QED BY <1>2, <1>3, Zenon

\* A low s is that of the signature, not its complement.
LEMMA LowIs ==
    ASSUME NEW g, SigTyped(g), NEW s \in Nat, s <= HalfN, NEW k,
           <<s, k>> \in {<<g.s, g.recID>>, <<N - g.s, 1 - g.recID>>}
    PROVE  s = g.s /\ k = g.recID
  <1>1. g.s \in 1..HalfN /\ HalfN \in Nat /\ 2 * HalfN + 1 = N
    BY HalfIs, Zenon DEF SigTyped
  <1>2. s # N - g.s
    <2>1. \A x \in 1..HalfN : N - x > HalfN
      BY <1>1
    <2> QED BY <1>1, <2>1
  <1>3. (s = g.s /\ k = g.recID) \/ s = N - g.s
    OBVIOUS
  <1> QED BY <1>2, <1>3, Zenon

\* The invariant implies OneEncoding.
LEMMA InvOneEncoding == TxInv => OneEncoding
  <1> SUFFICES ASSUME TxInv, Accepted
               PROVE  \E g \in sigs :
                        /\ g.of.kind = "tx"
                        /\ raw = EncodeSigned(g.of.tx, uintToBytes(g.r), uintToBytes(g.s),
                                              assembleV(g.of.tx, g.recID))
    BY Zenon DEF OneEncoding
  <1> DEFINE d == result.d
             x == d.tx
  <1>1. LowS(x)
    BY AcceptedIs, Zenon
  <1>2. PICK t, items, chainId, recID, chained, g, tx :
                 Attributed(sigs, raw, d, t, items, chainId, recID, chained, g, tx)
    BY AcceptedIs, Zenon
  <1>a. TxRead(sigs, raw, d, t, items, chainId, recID, chained)
    BY <1>2, Zenon DEF Attributed
  <1>3. /\ t \in {0, 1, 2} /\ ItemsOk(t, items) /\ raw = Envelope(t, items)
    BY <1>a, Zenon DEF TxRead
  <1>4. /\ x.type = t /\ x.chainId = chainId /\ ReadOf(t, items, x)
        /\ HowRead(t, x, chainId, recID, chained) /\ recID \in {0, 1}
    BY <1>a, ReadIs, Zenon
  <1>5. /\ g \in sigs /\ MadeForTx(g, tx) /\ SameTx(tx, x) /\ tx.type = x.type
        /\ (x.type = 0 => chained) /\ g.r = Number(x.r)
        /\ <<Number(x.s), recID>> \in {<<g.s, g.recID>>, <<N - g.s, 1 - g.recID>>}
    BY <1>2, Zenon DEF Attributed, Recovers
  <1> HIDE DEF d, x
  <1>6. SigTyped(g) /\ TxTyped(tx) /\ tx.chainId \in Nat
    BY <1>5, TxsAssumption, Zenon DEF TxInv, SigsOk, MadeForTx, TxTyped
  <1>7. /\ x.v \in Seq(Byte) /\ (t = 0 => checkIntegerField(x.v))
        /\ x.r \in Seq(Byte) /\ asScalar(Bytes(x.r))
        /\ x.s \in Seq(Byte) /\ asScalar(Bytes(x.s))
    BY <1>4, Zenon DEF ReadOf
  <1>8. Number(x.s) = g.s /\ recID = g.recID
    <2>1. Number(x.s) \in Nat /\ Number(x.s) <= HalfN
      BY <1>1, <1>7, NumberBound, Zenon DEF LowS
    <2>2. <<Number(x.s), recID>> \in {<<g.s, g.recID>>, <<N - g.s, 1 - g.recID>>}
      BY <1>5, Zenon
    <2> DEFINE s == Number(x.s)
    <2> HIDE DEF s
    <2>3. s = g.s /\ recID = g.recID
      BY <1>6, <2>1, <2>2, LowIs, SMTT(30) DEF s
    <2> QED BY <2>3, Zenon DEF s
  <1>9. x.r = uintToBytes(g.r) /\ x.s = uintToBytes(g.s)
    BY <1>5, <1>7, <1>8, ScalarRead, Zenon
  <1>10. x.v = uintToBytes(VOf(tx, g.recID))
    <2>1. t = 0 => chained /\ tx.chainId = chainId
      BY <1>4, <1>5, Zenon DEF SameTx
    <2>2. tx.type = t
      BY <1>4, <1>5, Zenon
    <2>3. x.v = uintToBytes(VOf(tx, recID))
      <3>1. /\ t \in {0, 1, 2} /\ tx.chainId \in Nat /\ x.v \in Seq(Byte)
            /\ t = 0 => checkIntegerField(x.v)
        BY <1>3, <1>6, <1>7, Zenon
      <3>2. HowRead(t, x, chainId, recID, chained)
        BY <1>4, Zenon
      <3> QED BY <2>1, <2>2, <3>1, <3>2, VRead, SMTT(30)
    <2> QED BY <1>8, <2>3, Zenon
  <1>11. items \in Seq(Values(Inside)) /\ Len(items) = Len(Body(t)) + 3
    <2>1. Len(Layout(t)) = Len(Body(t)) + 3
      BY <1>3, Order, Zenon
    <2> QED BY <1>3, <2>1, Zenon DEF ItemsOk
  <1>12. items = FieldItems(Body(t), tx) \o <<Bytes(x.v), Bytes(x.r), Bytes(x.s)>>
    <2>1. SameFields(t, tx, x)
      BY <1>4, <1>5, Zenon DEF SameTx, SameFields
    <2>2. t \in {0, 1, 2} /\ ReadOf(t, items, x)
      BY <1>3, <1>4, Zenon
    <2> QED BY <1>11, <2>1, <2>2, ItemsAre, Zenon
  <1>13. items = SignedItems(tx, g.recID, uintToBytes(g.r), uintToBytes(g.s)) /\ tx.type = t
    BY <1>4, <1>5, <1>9, <1>10, <1>12, Zenon DEF SignedItems
  <1>14. EncodeSigned(tx, uintToBytes(g.r), uintToBytes(g.s), assembleV(tx, g.recID))
           = Envelope(tx.type, SignedItems(tx, g.recID, uintToBytes(g.r), uintToBytes(g.s)))
    <2>1. g.recID \in {0, 1} /\ uintToBytes(g.r) \in Seq(Byte) /\ uintToBytes(g.s) \in Seq(Byte)
      BY <1>4, <1>7, <1>8, <1>9, Zenon
    <2> HIDE DEF SignedItems
    <2> QED BY <1>6, <2>1, SignedIs, Zenon
  <1>15. g.of.kind = "tx" /\ g.of.tx = tx
    BY <1>5, MadeForIs, Zenon
  <1> QED BY <1>3, <1>5, <1>13, <1>14, <1>15, Zenon

------------------------------------------------------------------------------
(* What is signed decodes.                                                 *)

\* Where DecodeTransaction goes with an envelope.
LEMMA DecodeEnvelope ==
    ASSUME NEW made, NEW t \in {0, 1, 2}, NEW l \in Seq(Values(Inside)), NEW e,
           e = Encode(MaxNestingDepth, List(l))
    PROVE  /\ t = 0 => DecodeTransaction(made, Envelope(t, l)) = decodeLegacy(made, e)
           /\ t # 0 => DecodeTransaction(made, Envelope(t, l)) = decodeTyped(made, t, e)
  <1> DEFINE b == Envelope(t, l)
  <1>1. EnvelopeIs(t, l, b)
    BY EnvelopeHead, Zenon
  <1> HIDE DEF b
  <1>2. CASE t = 0
    <2>1. b # <<>> /\ b[1] >= ListShort /\ b = e
      BY <1>1, <1>2, Zenon DEF EnvelopeIs
    <2> QED BY <1>2, <2>1, Zenon DEF DecodeTransaction, b
  <1>3. CASE t # 0
    <2>1. b # <<>> /\ b[1] = t /\ Tail(b) = e
      BY <1>1, <1>3, Zenon DEF EnvelopeIs
    <2>2. ~(t >= ListShort) /\ t \in {1, 2}
      BY <1>3, Layouts
    <2> QED BY <1>3, <2>1, <2>2, Zenon DEF DecodeTransaction, b
  <1> QED BY <1>2, <1>3, Zenon

\* The items of a body are read back.
LEMMA BodyOf ==
    ASSUME NEW t, NEW items, ItemsOk(t, items), NEW e, e = Encode(MaxNestingDepth, List(items)),
           Len(e) <= MaxInputLen
    PROVE  DecodeBody(t, e).err = "ok" /\ DecodeBody(t, e).fields = FieldsRead(t, items)
  <1>1. /\ items \in Seq(Values(Inside)) /\ Len(items) = Len(Layout(t))
        /\ \A i \in DOMAIN Layout(t) : FieldOk(t, Layout(t)[i], items[i])
    BY Zenon DEF ItemsOk
  <1>2. List(items) \in Values(MaxNestingDepth)
    BY <1>1, ListHead, Zenon
  <1>3. Decode(e) = Ok(List(items), <<>>)
    BY <1>2, RoundTrip, Zenon
  <1> DEFINE d == Ok(List(items), <<>>)
  <1>4. d.err = "ok" /\ d.val = List(items)
    BY DEF Ok
  <1>5. List(items).t = "list" /\ List(items).l = items
    BY Shapes, Zenon
  <1>6. "ok" # "panic"
    OBVIOUS
  <1> HIDE DEF d
  <1>7. ReadBody(t, d) = ReadItems(t, Layout(t), items)
    BY <1>4, <1>5, <1>6, Zenon DEF ReadBody
  <1>8. ReadItems(t, Layout(t), items) = [err |-> "ok", fields |-> FieldsRead(t, items)]
    BY <1>1, Zenon DEF ReadItems, FieldsRead
  <1>9. DecodeBody(t, e) = [err |-> "ok", fields |-> FieldsRead(t, items)]
    BY <1>3, <1>7, <1>8, Zenon DEF DecodeBody, d
  <1> HIDE DEF FieldsRead
  <1> QED BY <1>9

\* A body that is too long is refused.
LEMMA BodyTooLong ==
    ASSUME NEW t, NEW e \in Seq(Nat), ~(Len(e) <= MaxInputLen)
    PROVE  DecodeBody(t, e).err # "ok"
  <1>1. \A x : Err(x).err = x
    BY Zenon DEF Err
  <1>2. Len(e) > MaxInputLen
    BY RlpAssumption
  <1>3. Decode(e) = Err("ErrTruncated") \/ Decode(e) = Err("ErrInputTooLarge")
    BY <1>2, Zenon DEF Decode
  <1> DEFINE d == Decode(e)
  <1>4. d.err # "ok" /\ d.err # "panic"
    <2> HIDE DEF d
    <2>1. d = Err("ErrTruncated") \/ d = Err("ErrInputTooLarge")
      BY <1>3, Zenon DEF d
    <2> QED BY <1>1, <2>1
  <1>5. ReadBody(t, d) = Err("ErrDecodeFailed")
    <2> HIDE DEF d
    <2> QED BY <1>4, Zenon DEF ReadBody
  <1>6. Err("ErrDecodeFailed").err # "ok"
    BY <1>1
  <1> QED BY <1>5, <1>6, Zenon DEF DecodeBody

\* An integer field is one whose number has no more than WordLen bytes.
LEMMA IntegerField ==
    ASSUME NEW x \in Nat
    PROVE  checkIntegerField(uintToBytes(x)) <=> x < Power(WordLen)
  <1>1. WordLen \in Nat
    BY CurveAssumption
  <1>2. Len(uintToBytes(x)) <= WordLen <=> x < Power(WordLen)
    BY <1>1, UintLen, Zenon
  <1>3. uintToBytes(x) = <<>> \/ uintToBytes(x)[1] # 0
    BY UintIs, Zenon DEF Minimal
  <1> QED BY <1>2, <1>3, Zenon DEF checkIntegerField

\* The access list of a transaction is one the decoder parses.
LEMMA AccessParsed ==
    ASSUME NEW x \in Seq(AccessListEntry)
    PROVE  parseAccessList(AccessValue(x))
  <1>0. WordLen \in Nat /\ AddrLen \in Nat
    BY CurveAssumption
  <1> DEFINE l == [i \in DOMAIN x |-> EntryValue(x[i])]
  <1>1. AccessValue(x).t = "list" /\ AccessValue(x).l = l
    BY Shapes, Zenon DEF AccessValue
  <1>2. ASSUME NEW i \in DOMAIN x PROVE IsEntry(EntryValue(x[i]))
    <2> DEFINE entry == x[i]
    <2>1. entry \in AccessListEntry
      <3> HIDE DEF AccessListEntry
      <3>1. DOMAIN x = 1..Len(x)
        BY SeqIs, Zenon
      <3> QED BY <3>1, SeqIs, Zenon
    <2> HIDE DEF entry
    <2>2. entry.address \in [1..AddrLen -> Byte] /\ entry.keys \in Seq([1..WordLen -> Byte])
      <3> DEFINE A == [1..AddrLen -> Byte]
                 K == Seq([1..WordLen -> Byte])
      <3>1. entry \in [address : A, keys : K]
        BY <2>1, Zenon DEF AccessListEntry
      <3> HIDE DEF A, K
      <3>2. entry.address \in A /\ entry.keys \in K
        BY <3>1
      <3> QED BY <3>2, Zenon DEF A, K
    <2> DEFINE keys == entry.keys
               a == Bytes(entry.address)
               k == KeysValue(keys)
               pair == <<a, k>>
    <2>3. Len(entry.address) = AddrLen
      BY <1>0, <2>2, AsFunction, Zenon
    <2>4. a.t = "bytes" /\ a.b = entry.address
      BY Shapes, Zenon
    <2>5. \A j \in DOMAIN keys : Len(keys[j]) = WordLen
      <3> DEFINE K == [1..WordLen -> Byte]
      <3>1. \A j \in DOMAIN keys : keys[j] \in K
        <4>1. keys \in Seq(K)
          BY <2>2, Zenon
        <4> HIDE DEF K
        <4>2. DOMAIN keys = 1..Len(keys)
          BY <4>1, SeqIs, Zenon
        <4> QED BY <4>1, <4>2, SeqIs, Zenon
      <3> QED BY <1>0, <3>1, AsFunction, Zenon
    <2>6. IsKeys(k)
      <3> DEFINE m == [j \in DOMAIN keys |-> Bytes(keys[j])]
      <3>1. k.t = "list" /\ k.l = m
        BY Shapes, Zenon DEF KeysValue
      <3>2. DOMAIN m = DOMAIN keys /\ \A j \in DOMAIN keys : m[j] = Bytes(keys[j])
        BY Zenon
      <3> HIDE DEF m
      <3>3. ASSUME NEW j \in DOMAIN m PROVE IsBytes(m[j]) /\ Len(m[j].b) = WordLen
        <4>0. m[j] = Bytes(keys[j])
          BY <3>2, Zenon
        <4>a. Bytes(keys[j]).t = "bytes" /\ Bytes(keys[j]).b = keys[j]
          BY Shapes, Zenon
        <4>1. m[j].t = "bytes" /\ m[j].b = keys[j]
          BY <4>0, <4>a, Zenon
        <4> QED BY <2>5, <3>2, <4>1, Zenon DEF IsBytes
      <3> HIDE DEF k
      <3> QED BY <3>1, <3>3, Zenon DEF IsKeys
    <2> HIDE DEF a, k
    <2>7. Len(pair) = 2 /\ pair[1] = a /\ pair[2] = k
      OBVIOUS
    <2> HIDE DEF pair
    <2> DEFINE v == List(pair)
    <2>8. v.t = "list" /\ v.l = pair
      BY Shapes, Zenon
    <2> HIDE DEF v
    <2>9. IsEntry(v)
      BY <2>3, <2>4, <2>6, <2>7, <2>8, Zenon DEF IsEntry, IsBytes
    <2> QED BY <2>9, Zenon DEF EntryValue, v, pair, a, k, entry
  <1>3. DOMAIN l = DOMAIN x /\ \A i \in DOMAIN x : l[i] = EntryValue(x[i])
    BY Zenon
  <1> HIDE DEF l
  <1>4. \A i \in DOMAIN l : IsEntry(l[i])
    BY <1>2, <1>3, Zenon
  <1> QED BY <1>1, <1>4, Zenon DEF parseAccessList

\* Which fields of a transaction the decoder takes.
LEMMA FieldsOk ==
    ASSUME NEW tx, TxTyped(tx), NEW t, t = tx.type, NEW f \in Range(Body(t))
    PROVE  FieldOk(t, f, FieldItem(f, tx[f])) <=> (f \in BigFields => tx[f] < Power(WordLen))
  <1> DEFINE x == tx[f]
             v == FieldItem(f, x)
  <1>0. FieldTyped(f, x) /\ f \in Names
    BY Places, Zenon DEF TxTyped
  <1> HIDE DEF x
  <1>1. /\ \A b : Bytes(b).t = "bytes" /\ Bytes(b).b = b
        /\ \A b : IsBytes(Bytes(b))
    BY Shapes, Zenon DEF IsBytes
  <1>2. CASE f \in Uint64Fields
    <2>1. x \in 0..(Word - 1) /\ Word \in Nat /\ Word = Power(LenBytes) /\ LenBytes \in Nat
      BY <1>0, <1>2, PowerIs, Layouts, Zenon DEF FieldTyped, Word
    <2>2. x \in Nat /\ x < Power(LenBytes)
      BY <2>1
    <2>3. x < Power(WordLen)
      <3>1. Power(LenBytes) <= Power(WordLen) /\ Power(WordLen) \in Nat /\ Power(LenBytes) \in Nat
        BY <2>1, CurveAssumption, PowerMonotone, PowerIs, Zenon
      <3> QED BY <2>2, <3>1
    <2>4. Len(uintToBytes(x)) <= LenBytes /\ checkIntegerField(uintToBytes(x))
      BY <2>1, <2>2, <2>3, UintLen, IntegerField, Zenon
    <2>5. v = Bytes(uintToBytes(x)) /\ f \notin BigFields
      BY <1>2, NamesAre, Zenon DEF FieldItem, Numbers
    <2> HIDE DEF v
    <2>6. IsBytes(v) /\ v.b = uintToBytes(x)
      BY <1>1, <2>5, Zenon
    <2>7. FieldOk(t, f, v)
      BY <1>2, <2>4, <2>6, Zenon DEF FieldOk, asUint64
    <2> QED BY <2>5, <2>7, Zenon DEF v, x
  <1>3. CASE f \notin Uint64Fields /\ f \in BigFields
    <2>1. x \in Nat /\ v = Bytes(uintToBytes(x))
      BY <1>0, <1>3, Zenon DEF FieldTyped, FieldItem, Numbers
    <2> HIDE DEF v
    <2>2. IsBytes(v) /\ v.b = uintToBytes(x)
      BY <1>1, <2>1, Zenon
    <2>3. FieldOk(t, f, v) <=> checkIntegerField(uintToBytes(x))
      BY <1>3, <2>2, Zenon DEF FieldOk, asBigInt
    <2> QED BY <1>3, <2>1, <2>3, IntegerField, Zenon DEF v, x
  <1>4. CASE f = "to"
    <2>1. f \notin Uint64Fields /\ f \notin BigFields /\ f \notin Numbers /\ f # "accessList"
      BY <1>4 DEF Uint64Fields, BigFields, Numbers
    <2>2. Len(x) \in {0, AddrLen} /\ v = Bytes(x)
      BY <1>0, <1>4, <2>1, Zenon DEF FieldTyped, FieldItem
    <2> HIDE DEF v
    <2>3. IsBytes(v) /\ v.b = x
      BY <1>1, <2>2, Zenon
    <2>4. FieldOk(t, f, v)
      BY <1>4, <2>1, <2>2, <2>3, Zenon DEF FieldOk, asAddress
    <2> QED BY <2>1, <2>4, Zenon DEF v, x
  <1>5. CASE f = "data"
    <2>1. f \notin Uint64Fields /\ f \notin BigFields /\ f \notin Numbers /\ f # "accessList" /\ f # "to"
      BY <1>5 DEF Uint64Fields, BigFields, Numbers
    <2>2. v = Bytes(x)
      BY <2>1, Zenon DEF FieldItem
    <2> HIDE DEF v
    <2>3. IsBytes(v)
      BY <1>1, <2>2, Zenon
    <2>4. FieldOk(t, f, v)
      BY <1>5, <2>1, <2>3, Zenon DEF FieldOk
    <2> QED BY <2>1, <2>4, Zenon DEF v, x
  <1>6. CASE f = "accessList"
    <2>1. f \notin Uint64Fields /\ f \notin BigFields /\ f \notin Numbers /\ f # "data" /\ f # "to"
      BY <1>6 DEF Uint64Fields, BigFields, Numbers
    <2>2. x \in Seq(AccessListEntry) /\ v = AccessValue(x)
      BY <1>0, <1>6, <2>1, Zenon DEF FieldTyped, FieldItem
    <2>3. parseAccessList(v)
      <3> HIDE DEF v
      <3> QED BY <2>2, AccessParsed, Zenon
    <2> HIDE DEF v
    <2>4. FieldOk(t, f, v)
      BY <1>6, <2>1, <2>3, Zenon DEF FieldOk
    <2> QED BY <2>1, <2>4, Zenon DEF v, x
  <1> QED BY <1>0, <1>2, <1>3, <1>4, <1>5, <1>6, Zenon DEF Names, Numbers

\* A scalar as SignTx writes it is one the decoder takes if it has all its bytes.
LEMMA PaddedScalar ==
    ASSUME NEW x \in 1..(N - 1)
    PROVE  /\ asScalar(Bytes(Padded(x))) <=> Len(uintToBytes(x)) = WordLen
           /\ Len(uintToBytes(x)) = WordLen => Padded(x) = uintToBytes(x) /\ Number(Padded(x)) = x
  <1> DEFINE u == uintToBytes(x)
             p == Padded(x)
             z == WordLen - Len(u)
  <1>1. /\ x \in Nat /\ x < N /\ x # 0 /\ x < Power(WordLen) /\ Len(u) \in Nat
        /\ p \in Seq(Byte) /\ Len(p) = WordLen
    BY Scalars, Zenon
  <1>2. z \in Nat /\ (\A i \in 1..z : p[i] = 0) /\ (z = 0 => p = u)
    BY <1>1, PaddedIs, Zenon
  <1>3. Number(u) = x /\ checkIntegerField(u)
    BY <1>1, UintIs, IntegerField, Zenon
  <1>4. Bytes(p).t = "bytes" /\ Bytes(p).b = p
    BY Shapes, Zenon
  <1>5. z = 0 <=> Len(u) = WordLen
    BY <1>1, CurveAssumption
  <1> HIDE DEF u, p
  <1>6. ASSUME z = 0 PROVE asScalar(Bytes(p)) /\ p = u /\ Number(p) = x
    <2>1. p = u
      BY <1>2, <1>6, Zenon
    <2>2. Number(p) = x /\ checkIntegerField(p)
      BY <1>3, <2>1, Zenon
    <2> QED BY <1>1, <1>4, <2>1, <2>2, Zenon DEF asScalar, IsBytes
  <1>7. ASSUME asScalar(Bytes(p)) PROVE z = 0
    <2>1. p = <<>> \/ p[1] # 0
      BY <1>4, <1>7, Zenon DEF asScalar, checkIntegerField
    <2>2. p = <<>> => Len(p) = 0
      OBVIOUS
    <2>3. p = <<>> => WordLen = 0
      BY <1>1, <2>2, Zenon
    <2>4. p[1] # 0 => ~(1 \in 1..z)
      BY <1>2, Zenon
    <2>5. WordLen = 0 => z = 0
      BY <1>1, <1>2
    <2>6. ~(1 \in 1..z) => z = 0
      BY <1>2
    <2> QED BY <2>1, <2>3, <2>4, <2>5, <2>6, Zenon
  <1>8. /\ asScalar(Bytes(p)) <=> Len(u) = WordLen
        /\ Len(u) = WordLen => p = u /\ Number(p) = x
    BY <1>5, <1>6, <1>7, Zenon
  <1> QED BY <1>8, Zenon DEF u, p

\* The items of a signed transaction, one by one.
SignedAt(t, tx, k, r, s, items) ==
    LET b == Body(t)
        n == Len(b)
    IN  /\ \A i \in 1..n : items[i] = FieldItem(b[i], tx[b[i]])
        /\ items[n + 1] = Bytes(uintToBytes(VOf(tx, k)))
        /\ items[n + 2] = Bytes(r) /\ items[n + 3] = Bytes(s)

\* They are where they should be.
LEMMA SignedPlaces ==
    ASSUME NEW tx, TxTyped(tx), NEW k \in {0, 1}, NEW r \in Seq(Byte), NEW s \in Seq(Byte)
    PROVE  SignedAt(tx.type, tx, k, r, s, SignedItems(tx, k, r, s))
  <1> DEFINE b == Body(tx.type)
             n == Len(b)
             V == Values(Inside)
             front == FieldItems(b, tx)
             x == Bytes(uintToBytes(VOf(tx, k)))
             y == Bytes(r)
             z == Bytes(s)
  <1>1. /\ tx.type \in {0, 1, 2} /\ Fits(b, tx)
    BY TypedFits, Zenon DEF TxFits
  <1>2. n \in Nat /\ DOMAIN b = 1..n /\ b \in Seq(Names)
    BY <1>1, Order, Bodies, Zenon
  <1>3. front \in Seq(V) /\ Len(front) = n
    BY <1>1, <1>2, FieldsEncoded, Zenon
  <1>4. \A i \in 1..n : front[i] = FieldItem(b[i], tx[b[i]])
    BY <1>2, Zenon DEF FieldItems
  <1>5. x \in V /\ y \in V /\ z \in V
    <2>1. uintToBytes(VOf(tx, k)) \in Seq(Byte) /\ Inside \in Nat
      BY SignedIs, UintIs, InsideIs, Zenon
    <2> QED BY <2>1, EncodeIs, Zenon
  <1>6. SignedItems(tx, k, r, s) = front \o <<x, y, z>>
    BY Zenon DEF SignedItems
  <1> HIDE DEF b, n, V, front, x, y, z
  <1> DEFINE c == <<x, y, z>>
  <1>7. c \in Seq(V) /\ Len(c) = 3 /\ c[1] = x /\ c[2] = y /\ c[3] = z
    BY <1>5
  <1> HIDE DEF c
  <1>8. /\ \A i \in 1..n : (front \o c)[i] = front[i]
        /\ \A i \in 1..3 : (front \o c)[n + i] = c[i]
    <2>0. front \in Seq(V) /\ c \in Seq(V)
      BY <1>3, <1>7, Zenon
    <2>1. /\ \A i \in 1..Len(front) : (front \o c)[i] = front[i]
          /\ \A i \in 1..Len(c) : (front \o c)[Len(front) + i] = c[i]
      BY <2>0
    <2> QED BY <1>3, <1>7, <2>1, Zenon
  <1>9. 1 \in 1..3 /\ 2 \in 1..3 /\ 3 \in 1..3
    OBVIOUS
  <1>10. (front \o c)[n + 1] = x /\ (front \o c)[n + 2] = y /\ (front \o c)[n + 3] = z
    BY <1>7, <1>8, <1>9, Zenon
  <1> QED BY <1>4, <1>6, <1>8, <1>10, Zenon DEF SignedAt, b, n, x, y, z, c

\* The integers of a signed transaction are as the decoder wants them.
Sized(tx, g) ==
    /\ \A f \in BigFields \cap Range(Body(tx.type)) : tx[f] < Power(WordLen)
    /\ tx.type = 0 => VOf(tx, g.recID) < Power(WordLen)
    /\ Len(uintToBytes(g.r)) = WordLen /\ Len(uintToBytes(g.s)) = WordLen

\* Then, and only then, the decoder takes each of its items.
LEMMA SignedItemsOk ==
    ASSUME NEW tx \in Txs, NEW g \in Signatures
    PROVE  ItemsOk(tx.type, SignedItems(tx, g.recID, Padded(g.r), Padded(g.s))) <=> Sized(tx, g)
  <1> DEFINE k == g.recID
             r == Padded(g.r)
             s == Padded(g.s)
             items == SignedItems(tx, k, r, s)
             t == tx.type
             b == Body(t)
             n == Len(b)
             layout == Layout(t)
             v == VOf(tx, k)
  <1>1. TxTyped(tx) /\ t \in {0, 1, 2}
    BY TxsAssumption, Zenon DEF TxTyped
  <1>2. g.r \in 1..(N - 1) /\ g.s \in 1..(N - 1) /\ k \in {0, 1}
    BY SignaturesAssumption, HalfIs, Zenon
  <1>3. r \in Seq(Byte) /\ s \in Seq(Byte)
    BY <1>2, Scalars, Zenon
  <1>4. v \in Nat /\ items \in Seq(Values(Inside)) /\ Len(items) = n + 3
    <2> HIDE DEF r, s, k
    <2> QED BY <1>1, <1>2, <1>3, SignedIs, Zenon
  <1>5. /\ \A i \in 1..n : items[i] = FieldItem(b[i], tx[b[i]])
        /\ items[n + 1] = Bytes(uintToBytes(v)) /\ items[n + 2] = Bytes(r) /\ items[n + 3] = Bytes(s)
    <2>1. SignedAt(t, tx, k, r, s, items)
      <3> HIDE DEF r, s, k
      <3> QED BY <1>1, <1>2, <1>3, SignedPlaces, Zenon
    <2> HIDE DEF items
    <2> QED BY <2>1, Zenon DEF SignedAt
  <1>6. /\ n \in Nat /\ Len(layout) = n + 3 /\ DOMAIN layout = 1..(n + 3) /\ DOMAIN b = 1..n
        /\ \A i \in 1..n : layout[i] = b[i]
        /\ layout[n + 1] = "v" /\ layout[n + 2] = "r" /\ layout[n + 3] = "s"
    BY <1>1, Order, Zenon
  <1>7. /\ \A i \in 1..n : FieldOk(t, b[i], FieldItem(b[i], tx[b[i]]))
                             <=> (b[i] \in BigFields => tx[b[i]] < Power(WordLen))
    <2>1. \A i \in 1..n : b[i] \in Range(b)
      BY <1>1, Distinct, Zenon
    <2> QED BY <1>1, <2>1, FieldsOk, Zenon
  <1>8. /\ asScalar(Bytes(r)) <=> Len(uintToBytes(g.r)) = WordLen
        /\ asScalar(Bytes(s)) <=> Len(uintToBytes(g.s)) = WordLen
    BY <1>2, PaddedScalar, Zenon
  <1>9. checkIntegerField(uintToBytes(v)) <=> v < Power(WordLen)
    BY <1>4, IntegerField, Zenon
  <1> HIDE DEF items, b, layout, v, r, s, k, t
  <1>10. /\ FieldOk(t, "v", Bytes(uintToBytes(v))) <=> (t = 0 => checkIntegerField(uintToBytes(v)))
         /\ FieldOk(t, "r", Bytes(r)) <=> asScalar(Bytes(r))
         /\ FieldOk(t, "s", Bytes(s)) <=> asScalar(Bytes(s))
    <2>1. /\ \A f \in {"v", "r", "s"} : f \notin Uint64Fields /\ f \notin BigFields /\ f # "to" /\ f # "data" /\ f # "accessList"
          /\ "r" # "v" /\ "s" # "v"
      BY DEF Uint64Fields, BigFields
    <2> DEFINE w == uintToBytes(v)
    <2> HIDE DEF w
    <2>2. IsBytes(Bytes(w)) /\ Bytes(w).b = w
      BY Shapes, Zenon DEF IsBytes
    <2>3. FieldOk(t, "v", Bytes(w)) <=> (t = 0 => checkIntegerField(w))
      BY <2>1, <2>2, Zenon DEF FieldOk
    <2>4. FieldOk(t, "r", Bytes(r)) <=> asScalar(Bytes(r))
      BY <2>1, Zenon DEF FieldOk
    <2>5. FieldOk(t, "s", Bytes(s)) <=> asScalar(Bytes(s))
      BY <2>1, Zenon DEF FieldOk
    <2> QED BY <2>3, <2>4, <2>5, Zenon DEF w
  <1>11. (\A i \in DOMAIN layout : FieldOk(t, layout[i], items[i])) <=>
           /\ \A i \in 1..n : FieldOk(t, b[i], items[i])
           /\ FieldOk(t, "v", items[n + 1]) /\ FieldOk(t, "r", items[n + 2])
           /\ FieldOk(t, "s", items[n + 3])
    <2>1. /\ \A i \in 1..(n + 3) : i \in 1..n \/ i = n + 1 \/ i = n + 2 \/ i = n + 3
          /\ \A i \in 1..n : i \in 1..(n + 3)
          /\ n + 1 \in 1..(n + 3) /\ n + 2 \in 1..(n + 3) /\ n + 3 \in 1..(n + 3)
      BY <1>6
    <2>2. ASSUME \A i \in DOMAIN layout : FieldOk(t, layout[i], items[i])
          PROVE  /\ \A i \in 1..n : FieldOk(t, b[i], items[i])
                 /\ FieldOk(t, "v", items[n + 1]) /\ FieldOk(t, "r", items[n + 2])
                 /\ FieldOk(t, "s", items[n + 3])
      BY <1>6, <2>1, <2>2, Zenon
    <2>3. ASSUME /\ \A i \in 1..n : FieldOk(t, b[i], items[i])
                 /\ FieldOk(t, "v", items[n + 1]) /\ FieldOk(t, "r", items[n + 2])
                 /\ FieldOk(t, "s", items[n + 3]),
                 NEW i \in DOMAIN layout
          PROVE  FieldOk(t, layout[i], items[i])
      BY <1>6, <2>1, <2>3, Zenon
    <2> QED BY <2>2, <2>3, Zenon
  <1>12. (\A i \in 1..n : FieldOk(t, b[i], items[i])) <=>
           \A f \in BigFields \cap Range(b) : tx[f] < Power(WordLen)
    <2>1. (\A i \in 1..n : FieldOk(t, b[i], items[i])) <=>
            \A i \in 1..n : b[i] \in BigFields => tx[b[i]] < Power(WordLen)
      BY <1>5, <1>7, Zenon
    <2>2. \A f : f \in Range(b) <=> \E i \in 1..n : f = b[i]
      BY <1>6, Zenon DEF Range
    <2> QED BY <2>1, <2>2, Zenon
  <1>13. ItemsOk(t, items) <=> \A i \in DOMAIN layout : FieldOk(t, layout[i], items[i])
    BY <1>4, <1>6, Zenon DEF ItemsOk, layout
  <1>14. ItemsOk(t, items) <=>
           /\ \A f \in BigFields \cap Range(b) : tx[f] < Power(WordLen)
           /\ t = 0 => v < Power(WordLen)
           /\ Len(uintToBytes(g.r)) = WordLen /\ Len(uintToBytes(g.s)) = WordLen
    <2>1. FieldOk(t, "v", items[n + 1]) <=> (t = 0 => v < Power(WordLen))
      BY <1>5, <1>9, <1>10, Zenon
    <2>2. FieldOk(t, "r", items[n + 2]) <=> Len(uintToBytes(g.r)) = WordLen
      BY <1>5, <1>8, <1>10, Zenon
    <2>3. FieldOk(t, "s", items[n + 3]) <=> Len(uintToBytes(g.s)) = WordLen
      BY <1>5, <1>8, <1>10, Zenon
    <2> QED BY <1>11, <1>12, <1>13, <2>1, <2>2, <2>3, Zenon
  <1> QED BY <1>14, Zenon DEF Sized, items, b, v, r, s, k, t

\* Items of a signed transaction that the decoder takes.
SignedAs(tx, k, r, s, items) ==
    /\ TxTyped(tx) /\ k \in {0, 1} /\ r \in Seq(Byte) /\ s \in Seq(Byte)
    /\ items = SignedItems(tx, k, r, s) /\ ItemsOk(tx.type, items)

\* The transaction x is tx with its signature.
SignedBack(tx, k, r, s, x) ==
    /\ SameTx(tx, x) /\ x.type = tx.type
    /\ x.v = uintToBytes(VOf(tx, k)) /\ x.r = r /\ x.s = s

\* What is read back from the items of a signed transaction.
LEMMA SignedFields ==
    ASSUME NEW tx, NEW k, NEW r, NEW s, NEW items, SignedAs(tx, k, r, s, items),
           NEW t, t = tx.type, NEW chainId, ChainRead(t, items, chainId),
           t = 0 => chainId = tx.chainId
    PROVE  SignedBack(tx, k, r, s, Typed(FieldsRead(t, items), t, chainId))
  <1> DEFINE x == Typed(FieldsRead(t, items), t, chainId)
             b == Body(t)
             n == Len(b)
  <1>0. /\ TxTyped(tx) /\ k \in {0, 1} /\ r \in Seq(Byte) /\ s \in Seq(Byte)
        /\ items = SignedItems(tx, k, r, s) /\ ItemsOk(t, items)
    BY Zenon DEF SignedAs
  <1>1. t \in {0, 1, 2} /\ Fits(b, tx) /\ DOMAIN b = 1..n
    <2>1. t \in {0, 1, 2} /\ Fits(b, tx)
      BY <1>0, TypedFits, Zenon DEF TxFits
    <2> QED BY <2>1, Order, Zenon
  <1>2. /\ x.type = t /\ x.chainId = chainId
        /\ \A i \in 1..n : x[b[i]] = FieldValue(b[i], items[i])
        /\ x.v = items[n + 1].b /\ x.r = items[n + 2].b /\ x.s = items[n + 3].b
    <2>1. t \in {0, 1, 2} /\ ItemsOk(t, items) /\ ChainRead(t, items, chainId)
      BY <1>0, <1>1, Zenon
    <2> QED BY <2>1, ReadParts
  <1>3. /\ \A i \in 1..n : items[i] = FieldItem(b[i], tx[b[i]])
        /\ items[n + 1] = Bytes(uintToBytes(VOf(tx, k)))
        /\ items[n + 2] = Bytes(r) /\ items[n + 3] = Bytes(s)
    <2>1. SignedAt(t, tx, k, r, s, items)
      BY <1>0, SignedPlaces, Zenon
    <2> QED BY <2>1, Zenon DEF SignedAt
  <1> HIDE DEF x, b
  <1>4. x.v = uintToBytes(VOf(tx, k)) /\ x.r = r /\ x.s = s
    <2>1. \A w : Bytes(w).b = w
      BY Shapes, Zenon
    <2> QED BY <1>2, <1>3, <2>1, Zenon
  <1>5. \A i \in 1..n : x[b[i]] = tx[b[i]]
    <2> SUFFICES ASSUME NEW i \in 1..n PROVE x[b[i]] = tx[b[i]]
      OBVIOUS
    <2>1. FieldFits(b[i], tx[b[i]])
      BY <1>1, Zenon DEF Fits
    <2>2. FieldValue(b[i], FieldItem(b[i], tx[b[i]])) = tx[b[i]]
      BY <2>1, FieldEncoded, Zenon
    <2> QED BY <1>2, <1>3, <2>2, Zenon
  <1>6. \A f \in Range(b) : tx[f] = x[f]
    BY <1>1, <1>5, Zenon DEF Range
  <1>7. tx.chainId = x.chainId
    <2>1. t # 0 => t \in {1, 2}
      BY <1>1, Zenon
    <2>2. t # 0 => "chainId" \in Range(b)
      BY <2>1, Bodies, Zenon DEF b
    <2> QED BY <1>2, <1>6, <2>2, Zenon
  <1>8. SameTx(tx, x)
    BY <1>2, <1>6, <1>7, Zenon DEF SameTx, b
  <1> QED BY <1>2, <1>4, <1>8, Zenon DEF x, SignedBack

\* The same transaction has the same digest.
LEMMA SameDigest ==
    ASSUME NEW tx, NEW x, SameTx(tx, x), x.type = tx.type
    PROVE  /\ tx.type = 0 => SigningPreimage(x, TRUE) = SigningPreimage(tx, TRUE)
           /\ tx.type # 0 => SigningPreimage(x, FALSE) = SigningPreimage(tx, TRUE)
  <1> DEFINE b == Body(tx.type)
  <1>1. tx.chainId = x.chainId /\ \A f \in Range(b) : tx[f] = x[f]
    BY Zenon DEF SameTx
  <1> HIDE DEF b
  <1>2. \A i \in DOMAIN b : tx[b[i]] = x[b[i]]
    BY <1>1, Zenon DEF Range
  <1>3. encodeFields(b, x) = encodeFields(b, tx)
    BY <1>2, Zenon DEF encodeFields
  <1>4. encodeFields(Body(x.type), x) = encodeFields(Body(tx.type), tx)
    BY <1>3, Zenon DEF b
  <1>5. ASSUME tx.type = 0 PROVE SigningPreimage(x, TRUE) = SigningPreimage(tx, TRUE)
    BY <1>1, <1>4, <1>5, Zenon DEF SigningPreimage
  <1>6. ASSUME tx.type # 0 PROVE SigningPreimage(x, FALSE) = SigningPreimage(tx, TRUE)
    BY <1>1, <1>4, <1>6, Zenon DEF SigningPreimage
  <1> QED BY <1>5, <1>6, Zenon

\* The y-parity of a recovery id.
LEMMA Parity ==
    ASSUME NEW k \in {0, 1}
    PROVE  yParity(uintToBytes(k)) = k /\ k # 2
  <1>1. uintToBytes(0) = <<>>
    BY UintStep, Zenon
  <1>2. uintToBytes(1) = <<1>>
    <2>1. Number(<<1>>) = 1 /\ <<1>> \in Seq(Byte)
      BY OneByte, Zenon
    <2>2. Minimal(<<1>>)
      BY DEF Minimal
    <2> QED BY <2>1, <2>2, NumberUint, Zenon
  <1>3. yParity(<<>>) = 0
    BY Zenon DEF yParity
  <1>4. yParity(<<1>>) = 1
    <2>1. <<1>> # <<>>
      OBVIOUS
    <2> QED BY <2>1, Zenon DEF yParity
  <1>5. k # 2
    OBVIOUS
  <1> QED BY <1>1, <1>2, <1>3, <1>4, <1>5, Zenon

\* A legacy transaction that is as the decoder wants it is read back.
LEMMA LegacySigned ==
    ASSUME NEW made, NEW tx, NEW k, NEW r, NEW s, NEW items, SignedAs(tx, k, r, s, items), tx.type = 0,
           Len(Encode(MaxNestingDepth, List(items))) <= MaxInputLen
    PROVE  DecodeTransaction(made, Envelope(0, items))
             = WithSender(made, Typed(FieldsRead(0, items), 0, tx.chainId), k, TRUE)
  <1> DEFINE e == Encode(MaxNestingDepth, List(items))
             fields == FieldsRead(0, items)
             v == Number(fields.v)
             x == Typed(fields, 0, tx.chainId)
  <1>0. TxTyped(tx) /\ k \in {0, 1} /\ ItemsOk(0, items)
    BY Zenon DEF SignedAs
  <1>1. items \in Seq(Values(Inside))
    BY <1>0, Zenon DEF ItemsOk
  <1>2. DecodeTransaction(made, Envelope(0, items)) = decodeLegacy(made, e)
    BY <1>1, DecodeEnvelope, ZenonT(40)
  <1>3. DecodeBody(0, e).err = "ok" /\ DecodeBody(0, e).fields = fields
    BY <1>0, BodyOf, Zenon
  <1>4. decodeLegacy(made, e) = LegacyOf(made, fields, v)
    BY <1>3, Zenon DEF decodeLegacy
  <1>5. fields.v = uintToBytes(VOf(tx, k))
    <2>1. x.v = uintToBytes(VOf(tx, k))
      <3>1. ChainRead(0, items, tx.chainId)
        BY Zenon DEF ChainRead
      <3>2. SignedBack(tx, k, r, s, x)
        BY <3>1, SignedFields, Zenon
      <3> QED BY <3>2, Zenon DEF SignedBack
    <2>2. x.v = fields.v
      <3>1. "v" \in Range(Layout(0))
        BY Places, Zenon
      <3>2. "v" # "type" /\ "v" # "chainId"
        OBVIOUS
      <3>3. DOMAIN fields = Range(Layout(0))
        BY Zenon DEF FieldsRead
      <3> HIDE DEF fields
      <3> QED BY <3>1, <3>2, <3>3, Zenon DEF Typed
    <2> QED BY <2>1, <2>2, Zenon
  <1>6. tx.chainId \in Nat /\ v = k + 35 + 2 * tx.chainId
    <2>1. tx.chainId \in Nat
      BY <1>0, Zenon DEF TxTyped
    <2>2. k + 35 + 2 * tx.chainId \in Nat
      BY <1>0, <2>1
    <2>3. VOf(tx, k) = k + 35 + 2 * tx.chainId
      BY Zenon DEF VOf
    <2> QED BY <1>5, <2>1, <2>2, <2>3, UintIs, Zenon
  <1> HIDE DEF v, fields, e
  <1> DEFINE c == tx.chainId
  <1> HIDE DEF c
  <1>7. c \in Nat /\ v = k + 35 + 2 * c
    BY <1>6, Zenon DEF c
  <1>8. v \notin {27, 28} /\ ~(v < 35) /\ (v - 35) \div 2 = c /\ (v - 35) % 2 = k
    <2>1. v - 35 = 2 * c + k /\ v >= 35 /\ v \in Nat
      BY <1>0, <1>7
    <2>2. \A m \in Nat : /\ m \div 2 \in Nat /\ m % 2 \in {0, 1} /\ m = 2 * (m \div 2) + (m % 2)
      OBVIOUS
    <2>3. v - 35 \in Nat
      BY <2>1
    <2> DEFINE q == (v - 35) \div 2
               p == (v - 35) % 2
    <2>4. q \in Nat /\ p \in {0, 1} /\ 2 * c + k = 2 * q + p
      BY <2>1, <2>2, <2>3, SMTT(30)
    <2> HIDE DEF q, p
    <2>5. q = c /\ p = k
      BY <1>0, <1>7, <2>4, SMTT(30)
    <2>6. v \notin {27, 28} /\ ~(v < 35)
      BY <2>1
    <2> QED BY <2>5, <2>6, Zenon DEF q, p
  <1>9. LegacyOf(made, fields, v) = WithSender(made, Typed(fields, 0, c), k, TRUE)
    BY <1>8, Zenon DEF LegacyOf
  <1> QED BY <1>2, <1>4, <1>9, Zenon DEF fields, c

\* So is a typed transaction.
LEMMA TypedSigned ==
    ASSUME NEW made, NEW tx, NEW k, NEW r, NEW s, NEW items, SignedAs(tx, k, r, s, items),
           tx.type # 0, Len(Encode(MaxNestingDepth, List(items))) <= MaxInputLen
    PROVE  LET x == Typed(FieldsRead(tx.type, items), tx.type, FieldsRead(tx.type, items).chainId)
           IN  DecodeTransaction(made, Envelope(tx.type, items)) = WithSender(made, x, k, FALSE)
  <1> DEFINE t == tx.type
             e == Encode(MaxNestingDepth, List(items))
             fields == FieldsRead(t, items)
             c == fields.chainId
             x == Typed(fields, t, c)
  <1>0. TxTyped(tx) /\ k \in {0, 1} /\ ItemsOk(t, items)
    BY Zenon DEF SignedAs
  <1>1. items \in Seq(Values(Inside)) /\ t \in {0, 1, 2}
    BY <1>0, Zenon DEF ItemsOk, TxTyped
  <1>2. DecodeTransaction(made, Envelope(t, items)) = decodeTyped(made, t, e)
    BY <1>1, DecodeEnvelope, Zenon
  <1>3. DecodeBody(t, e).err = "ok" /\ DecodeBody(t, e).fields = fields
    BY <1>0, BodyOf, Zenon
  <1>4. decodeTyped(made, t, e) = TypedOf(made, t, fields, yParity(fields.v))
    BY <1>3, Zenon DEF decodeTyped
  <1>5. fields.v = uintToBytes(VOf(tx, k))
    <2>1. x.v = uintToBytes(VOf(tx, k))
      <3>1. ChainRead(t, items, c)
        BY Zenon DEF ChainRead
      <3>2. SignedBack(tx, k, r, s, x)
        BY <3>1, SignedFields, Zenon
      <3> QED BY <3>2, Zenon DEF SignedBack
    <2>2. x.v = fields.v
      <3>1. "v" \in Range(Layout(t))
        BY <1>1, Places, Zenon
      <3>2. "v" # "type" /\ "v" # "chainId"
        OBVIOUS
      <3>3. DOMAIN fields = Range(Layout(t))
        BY Zenon DEF FieldsRead
      <3> HIDE DEF fields
      <3> QED BY <3>1, <3>2, <3>3, Zenon DEF Typed
    <2> QED BY <2>1, <2>2, Zenon
  <1>6. yParity(fields.v) = k /\ k # 2
    <2>1. VOf(tx, k) = k
      BY Zenon DEF VOf
    <2> HIDE DEF fields
    <2> QED BY <1>0, <1>5, <2>1, Parity, Zenon
  <1> HIDE DEF fields, e
  <1>7. TypedOf(made, t, fields, k) = WithSender(made, Typed(fields, t, fields.chainId), k, FALSE)
    BY <1>6, Zenon DEF TypedOf
  <1> QED BY <1>2, <1>4, <1>6, <1>7, Zenon DEF fields

\* What is reported of a transaction whose sender was recovered.
LEMMA SentIs ==
    ASSUME NEW tx, NEW who, who # "ErrRecoverFailed"
    PROVE  Sent(tx, who).err = "ok" /\ Sent(tx, who).tx = tx /\ Sent(tx, who).sender = who
  <1>1. Sent(tx, who) = [err |-> "ok", tx |-> tx, sender |-> who]
    BY Zenon DEF Sent
  <1> QED BY <1>1

\* The sender of a signed transaction is its signer.
LEMMA SignerSent ==
    ASSUME NEW made, SigsOk(made), NEW key \in Keys, NEW tx, NEW g, TxSig(key, tx, g) \in made
    PROVE  Recover(made, g.r, g.s, g.recID, SigningPreimage(tx, TRUE)) = key
  <1> DEFINE digest == SigningPreimage(tx, TRUE)
             what == [kind |-> "tx", tx |-> tx]
             h == [key |-> key, digest |-> digest, r |-> g.r, s |-> g.s, recID |-> g.recID,
                   of |-> what]
  <1>1. h \in made
    BY Zenon DEF TxSig
  <1> HIDE DEF digest, what
  <1>0. h.key = key /\ h.digest = digest /\ h.r = g.r /\ h.s = g.s /\ h.recID = g.recID
    OBVIOUS
  <1> HIDE DEF h
  <1> DEFINE r == g.r
             s == g.s
             k == g.recID
  <1>2. Recovers(h, r, s, k, digest)
    BY <1>0, Zenon DEF Recovers
  <1> HIDE DEF r, s, k
  <1>3. Recover(made, r, s, k, digest) = h.key
    BY <1>1, <1>2, RecoverOf, SMTT(30)
  <1> QED BY <1>0, <1>3, Zenon DEF r, s, k, digest

\* What SignTx returned, if it is as the decoder wants it, decodes to the
\* transaction that was signed and its signer.
LEMMA SizedDecodes ==
    ASSUME NEW made, SigsOk(made), NEW key \in Keys, NEW tx \in Txs, NEW g \in Signatures,
           TxSig(key, tx, g) \in made, Sized(tx, g), NEW items,
           items = SignedItems(tx, g.recID, Padded(g.r), Padded(g.s)),
           Len(Encode(MaxNestingDepth, List(items))) <= MaxInputLen,
           NEW d, d = DecodeTransaction(made, Envelope(tx.type, items))
    PROVE  d.err = "ok" /\ d.sender = key /\ SameTx(tx, d.tx)
  <1> DEFINE k == g.recID
             r == Padded(g.r)
             s == Padded(g.s)
             t == tx.type
  <1>1. TxTyped(tx) /\ t \in {0, 1, 2} /\ tx.chainId \in Nat
    BY TxsAssumption, Zenon DEF TxTyped
  <1>2. g.r \in 1..(N - 1) /\ g.s \in 1..(N - 1) /\ k \in {0, 1}
    BY SignaturesAssumption, HalfIs, Zenon
  <1>3. r \in Seq(Byte) /\ s \in Seq(Byte)
    BY <1>2, Scalars, Zenon
  <1>4. Number(r) = g.r /\ Number(s) = g.s
    BY <1>2, PaddedScalar, Zenon DEF Sized
  <1>5. ItemsOk(t, items)
    BY SignedItemsOk, Zenon
  <1>6. items = SignedItems(tx, k, r, s)
    BY Zenon
  <1> HIDE DEF k, r, s
  <1>a. SignedAs(tx, k, r, s, items)
    BY <1>1, <1>2, <1>3, <1>5, <1>6, Zenon DEF SignedAs
  <1>b. \A x : \A digest :
          SignedBack(tx, k, r, s, x) /\ digest = SigningPreimage(tx, TRUE)
            /\ d = Sent(x, Recover(made, Number(x.r), Number(x.s), k, digest)) =>
          d.err = "ok" /\ d.sender = key /\ SameTx(tx, d.tx)
    <2> SUFFICES ASSUME NEW x, NEW digest,
                        SignedBack(tx, k, r, s, x), digest = SigningPreimage(tx, TRUE),
                        d = Sent(x, Recover(made, Number(x.r), Number(x.s), k, digest))
                 PROVE  d.err = "ok" /\ d.sender = key /\ SameTx(tx, d.tx)
      BY Zenon
    <2>1. SameTx(tx, x) /\ Number(x.r) = g.r /\ Number(x.s) = g.s
      BY <1>4, Zenon DEF SignedBack
    <2>2. Recover(made, g.r, g.s, g.recID, SigningPreimage(tx, TRUE)) = key
      BY SignerSent, Zenon
    <2>3. d = Sent(x, key)
      BY <2>1, <2>2, Zenon DEF k
    <2>4. Sent(x, key).err = "ok" /\ Sent(x, key).tx = x /\ Sent(x, key).sender = key
      <3>1. key # "ErrRecoverFailed"
        BY CurveAssumption, Zenon
      <3> QED BY <3>1, SentIs, Zenon
    <2> QED BY <2>1, <2>3, <2>4, Zenon
  <1>7. CASE t = 0
    <2> DEFINE x == Typed(FieldsRead(0, items), 0, tx.chainId)
               digest == SigningPreimage(x, TRUE)
    <2>1. SignedBack(tx, k, r, s, x)
      <3>1. ChainRead(0, items, tx.chainId)
        BY Zenon DEF ChainRead
      <3> QED BY <1>7, <1>a, <3>1, SignedFields, Zenon
    <2>2. DecodeTransaction(made, Envelope(0, items)) = WithSender(made, x, k, TRUE)
      BY <1>7, <1>a, LegacySigned, ZenonT(40)
    <2> HIDE DEF x
    <2>3. digest = SigningPreimage(tx, TRUE)
      BY <1>7, <2>1, SameDigest, Zenon DEF SignedBack
    <2>4. d = Sent(x, Recover(made, Number(x.r), Number(x.s), k, digest))
      BY <1>7, <2>2, Zenon DEF WithSender
    <2> HIDE DEF digest
    <2> QED BY <1>b, <2>1, <2>3, <2>4, Zenon
  <1>8. CASE t # 0
    <2> DEFINE c == FieldsRead(t, items).chainId
               x == Typed(FieldsRead(t, items), t, c)
               digest == SigningPreimage(x, FALSE)
    <2>1. SignedBack(tx, k, r, s, x)
      <3>1. ChainRead(t, items, c)
        BY Zenon DEF ChainRead
      <3> HIDE DEF c
      <3> QED BY <1>8, <1>a, <3>1, SignedFields, Zenon
    <2>2. DecodeTransaction(made, Envelope(t, items)) = WithSender(made, x, k, FALSE)
      BY <1>8, <1>a, TypedSigned, Zenon
    <2> HIDE DEF x
    <2>3. digest = SigningPreimage(tx, TRUE)
      BY <1>8, <2>1, SameDigest, Zenon DEF SignedBack
    <2>4. d = Sent(x, Recover(made, Number(x.r), Number(x.s), k, digest))
      BY <2>2, Zenon DEF WithSender
    <2> HIDE DEF digest
    <2> QED BY <1>b, <2>1, <2>3, <2>4, Zenon
  <1> QED BY <1>7, <1>8, Zenon

\* What the decoder accepts of what SignTx returned is as it wants it, and fits.
LEMMA DecodedSized ==
    ASSUME NEW made, NEW tx \in Txs, NEW g \in Signatures, NEW items,
           items = SignedItems(tx, g.recID, Padded(g.r), Padded(g.s)),
           items \in Seq(Values(Inside)), IsSlice(Envelope(tx.type, items)),
           DecodeTransaction(made, Envelope(tx.type, items)).err = "ok"
    PROVE  Sized(tx, g) /\ Len(Encode(MaxNestingDepth, List(items))) <= MaxInputLen
  <1> DEFINE t == tx.type
             b == Envelope(t, items)
             e == Encode(MaxNestingDepth, List(items))
             d == DecodeTransaction(made, b)
  <1>1. t \in {0, 1, 2}
    BY TxsAssumption, Zenon DEF TxTyped
  <1>2. b \in Seq(Byte) /\ e \in Seq(Nat)
    BY <1>1, EnvelopeBytes, BytesAre, Zenon
  <1>3. ItemsOk(t, items)
    <2>1. PICK u, l, chainId, recID, chained : TxRead(made, b, d, u, l, chainId, recID, chained)
      BY <1>2, TxDecoded, Zenon
    <2>2. u \in {0, 1, 2} /\ ItemsOk(u, l) /\ b = Envelope(u, l) /\ l \in Seq(Values(Inside))
      BY <2>1, Zenon DEF TxRead, ItemsOk
    <2>3. t = u /\ items = l
      <3> HIDE DEF t
      <3>1. Envelope(t, items) = Envelope(u, l) /\ IsSlice(Envelope(t, items))
        BY <2>2, Zenon DEF t
      <3> QED BY <1>1, <2>2, <3>1, SameEnvelope, ZenonT(40)
    <2> QED BY <2>2, <2>3, Zenon
  <1>4. Sized(tx, g)
    BY <1>3, SignedItemsOk, Zenon
  <1>5. Len(e) <= MaxInputLen
    <2> SUFFICES ASSUME ~(Len(e) <= MaxInputLen) PROVE FALSE
      OBVIOUS
    <2>1. DecodeBody(t, e).err # "ok"
      <3> HIDE DEF e
      <3> QED BY <1>2, BodyTooLong, Zenon
    <2>2. (t = 0 => d = decodeLegacy(made, e)) /\ (t # 0 => d = decodeTyped(made, t, e))
      BY <1>1, DecodeEnvelope, ZenonT(40)
    <2> HIDE DEF d, e
    <2>3. CASE t = 0
      <3>1. decodeLegacy(made, e) = DecodeBody(t, e)
        BY <2>1, <2>3, Zenon DEF decodeLegacy
      <3> QED BY <2>1, <2>2, <2>3, <3>1, Zenon DEF d
    <2>4. CASE t # 0
      <3>1. decodeTyped(made, t, e) = DecodeBody(t, e)
        BY <2>1, Zenon DEF decodeTyped
      <3> QED BY <2>1, <2>2, <2>4, <3>1, Zenon DEF d
    <2> QED BY <2>3, <2>4, Zenon
  <1> QED BY <1>4, <1>5, Zenon

\* Everything in the signed transaction is as the decoder wants it.
Representable(tx, g) == AmountsFit(tx, g) /\ FullScalars(g)

\* That says just Sized, and a bound on the list.
LEMMA RepresentableIs ==
    ASSUME NEW tx, NEW g, NEW b, b = SignedRaw(tx, g), NEW n \in Nat, Len(b) = Len(TypePrefix(tx.type)) + n
    PROVE  Representable(tx, g) <=> Sized(tx, g) /\ n <= MaxInputLen
  <1>1. tx.type = 0 => VOf(tx, g.recID) = g.recID + 35 + 2 * tx.chainId
    BY Zenon DEF VOf
  <1>2. Len(TypePrefix(tx.type)) \in Nat
    <2>1. TypePrefix(tx.type) = <<>> \/ TypePrefix(tx.type) = <<tx.type>>
      BY Zenon DEF TypePrefix
    <2> QED BY <2>1
  <1>3. Len(b) <= Len(TypePrefix(tx.type)) + MaxInputLen <=> n <= MaxInputLen
    <2> DEFINE m == Len(TypePrefix(tx.type))
    <2>1. m \in Nat /\ Len(b) = m + n /\ MaxInputLen \in Nat
      BY <1>2, RlpAssumption, Zenon
    <2> HIDE DEF m
    <2>2. m + n <= m + MaxInputLen <=> n <= MaxInputLen
      BY <2>1
    <2> QED BY <2>1, <2>2, Zenon DEF m
  <1>4. Representable(tx, g) <=> Sized(tx, g) /\ Len(b) <= Len(TypePrefix(tx.type)) + MaxInputLen
    BY <1>1, Zenon DEF Representable, AmountsFit, FullScalars, Sized
  <1> QED BY <1>3, <1>4, Zenon

\* What SignTx signed is decoded exactly when all of it fits and the scalars are
\* full, and then comes back as it was.
DecodesWhenRepresentable ==
    origin.kind = "signed" /\ result.kind = "decode" =>
        /\ result.d.err = "ok" <=> Representable(origin.tx, origin.sig)
        /\ result.d.err = "ok" => CameBack

\* The invariant implies DecodesWhenRepresentable.
LEMMA InvDecodesWhen == TxInv => DecodesWhenRepresentable
  <1> SUFFICES ASSUME TxInv, origin.kind = "signed", result.kind = "decode"
               PROVE  /\ result.d.err = "ok" <=> Representable(origin.tx, origin.sig)
                      /\ result.d.err = "ok" =>
                           result.d.sender = origin.key /\ SameTx(origin.tx, result.d.tx)
    BY Zenon DEF DecodesWhenRepresentable, CameBack
  <1>1. PICK key \in Keys, tx \in Txs, g \in Signatures :
          /\ origin = [kind |-> "signed", key |-> key, tx |-> tx, sig |-> g]
          /\ raw = SignedRaw(tx, g) /\ TxSig(key, tx, g) \in sigs
    BY Zenon DEF TxInv, OriginOk
  <1>2. origin.key = key /\ origin.tx = tx /\ origin.sig = g
    <2>1. origin = [kind |-> "signed", key |-> key, tx |-> tx, sig |-> g]
      BY <1>1, Zenon
    <2> QED BY <2>1
  <1> DEFINE d == result.d
             t == tx.type
             items == SignedItems(tx, g.recID, Padded(g.r), Padded(g.s))
             e == Encode(MaxNestingDepth, List(items))
  <1>3. d = DecodeTransaction(sigs, raw) /\ SigsOk(sigs)
    BY Zenon DEF TxInv, ResultOk
  <1>4. TxTyped(tx) /\ t \in {0, 1, 2} /\ IsSlice(raw)
    BY <1>1, TxsAssumption, Zenon DEF TxTyped
  <1>5. items \in Seq(Values(Inside)) /\ raw = Envelope(t, items)
    <2> DEFINE r == Padded(g.r)
               s == Padded(g.s)
               k == g.recID
    <2>1. g.r \in 1..(N - 1) /\ g.s \in 1..(N - 1) /\ k \in {0, 1}
      BY SignaturesAssumption, HalfIs, Zenon
    <2>2. r \in Seq(Byte) /\ s \in Seq(Byte)
      BY <2>1, Scalars, Zenon
    <2>3. raw = EncodeSigned(tx, r, s, assembleV(tx, k))
      BY <1>1, Zenon DEF SignedRaw
    <2> HIDE DEF r, s, k
    <2>4. SignedItems(tx, k, r, s) \in Seq(Values(Inside)) /\ raw = Envelope(t, SignedItems(tx, k, r, s))
      BY <1>4, <2>1, <2>2, <2>3, SignedIs, Zenon
    <2> QED BY <2>4, Zenon DEF r, s, k
  <1>6. items = SignedItems(tx, g.recID, Padded(g.r), Padded(g.s))
    OBVIOUS
  <1> HIDE DEF items, d
  <1>7. e \in Seq(Byte) /\ Len(raw) = Len(TypePrefix(t)) + Len(e)
    BY <1>4, <1>5, EnvelopeBytes, Zenon
  <1>8. Len(e) \in Nat
    BY <1>7, SeqIs, Zenon
  <1>9. Representable(tx, g) <=> Sized(tx, g) /\ Len(e) <= MaxInputLen
    <2> HIDE DEF e
    <2> QED BY <1>1, <1>7, <1>8, RepresentableIs, ZenonT(40)
  <1>10. ASSUME Sized(tx, g), Len(e) <= MaxInputLen
         PROVE  d.err = "ok" /\ d.sender = key /\ SameTx(tx, d.tx)
    <2>1. d = DecodeTransaction(sigs, Envelope(tx.type, items))
      BY <1>3, <1>5, Zenon
    <2>2. TxSig(key, tx, g) \in sigs /\ SigsOk(sigs)
      BY <1>1, <1>3, Zenon
    <2> QED BY <1>6, <1>10, <2>1, <2>2, SizedDecodes, SMTT(30)
  <1>11. ASSUME d.err = "ok" PROVE Sized(tx, g) /\ Len(e) <= MaxInputLen
    BY <1>3, <1>4, <1>5, <1>6, <1>11, DecodedSized, Zenon
  <1> QED BY <1>2, <1>9, <1>10, <1>11, Zenon DEF d

------------------------------------------------------------------------------
(* The theorems.                                                           *)

\* DecodeTransaction gives back what SignTx signed, with the wallet as sender,
\* when everything fits and both scalars have all their bytes.
THEOREM SignedTransactionsDecode == TxSpec => []SignedDecodes
  <1>1. DecodesWhenRepresentable => SignedDecodes
    BY Zenon DEF DecodesWhenRepresentable, SignedDecodes, Representable
  <1> QED BY <1>1, TxInvariant, InvDecodesWhen, PTL

\* It refuses everything else that SignTx produces: a scalar that starts with a
\* zero byte is written in full, and that transaction is not decoded.
THEOREM ShortScalarsRefused == TxSpec => []DecodesWhenRepresentable
  BY TxInvariant, InvDecodesWhen, PTL

\* A wallet is reported as the sender of a transaction, or as the signer of
\* typed data, only if it signed those very fields for that chain, or that
\* struct in that domain.
THEOREM SendersSigned == TxSpec => []SenderSigned
  BY TxInvariant, InvSenderSigned, PTL

\* ValidateTransaction accepts one encoding of a signed transaction.
THEOREM EncodingsAreUnique == TxSpec => []OneEncoding
  BY TxInvariant, InvOneEncoding, PTL

\* A transaction signed for one chain is never valid on another.
THEOREM TransactionsStayOnChain == TxSpec => []ChainBound
  BY TxInvariant, InvChainBound, PTL

\* Decode accepts only what Encode produces.
THEOREM DecodeIsCanonical == TxSpec => []RlpCanonical
  BY TxInvariant, InvRlp, PTL

\* Decode panics only on input in which a long length is so near the end of the
\* uint64 range that the bound wraps; it returns on every other input.
THEOREM DecodeReturns == TxSpec => []PanicWraps
  BY TxInvariant, InvRlp, PTL

==============================================================================
