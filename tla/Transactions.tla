----------------------------- MODULE Transactions -----------------------------
(***************************************************************************)
(* Ethereum transactions (chain/wallet) and typed data (chain/eip712): a   *)
(* wallet signs transactions, personal messages and typed data; what       *)
(* travels as raw bytes may be rewritten; a receiver decodes it, recovers  *)
(* the sender and validates it for a chain.                                *)
(*                                                                         *)
(* A digest is the byte sequence that was hashed.  A signature is a pair   *)
(* of scalars with a recovery id; recovery yields the signing key for the  *)
(* digest that was signed, also from the complementary pair (r, N - s).    *)
(***************************************************************************)
EXTENDS Rlp, Functions, FiniteSets

CONSTANTS
    WordLen,       \* bytes of a uint256 and of a scalar (32)
    AddrLen,       \* bytes of an address (20)
    N,             \* the group order, below Base^WordLen
    Keys, Stranger,
    Txs,           \* transactions a wallet is asked to sign
    Messages,      \* personal messages, byte sequences
    Domains, NilChain, Structs,     \* typed data
    Signatures,    \* the pairs of scalars and recovery ids signing yields
    Chains,        \* chain ids a receiver may expect
    MaxSigs,       \* bound on the number of signatures
    MaxFeed        \* bound on the length of arbitrary input

VARIABLES
    sigs,          \* signatures made: key, digest, scalars, what was signed
    raw,           \* the bytes under way
    origin,        \* how raw came about
    result         \* result of the last check

txVars == <<sigs, raw, origin, result>>

Absent == [kind |-> "none"]

HalfN == N \div 2

\* The byte that starts a personal message or typed data (0x19).
Magic == 3

------------------------------------------------------------------------------
(* Fields: their order in each transaction type and their encodings.       *)

Signature == <<"v", "r", "s">>

LegacyBody == <<"nonce", "gasPrice", "gasLimit", "to", "value", "data">>

AccessBody == <<"chainId", "nonce", "gasPrice", "gasLimit", "to", "value", "data", "accessList">>

FeeBody == <<"chainId", "nonce", "maxPriorityFeePerGas", "maxFeePerGas", "gasLimit", "to",
             "value", "data", "accessList">>

Body(type) == IF type = 0 THEN LegacyBody ELSE IF type = 1 THEN AccessBody ELSE FeeBody

Layout(type) == Body(type) \o Signature

Uint64Fields == {"nonce", "gasLimit"}
BigFields    == {"chainId", "gasPrice", "maxPriorityFeePerGas", "maxFeePerGas", "value"}

\* encodeBig of a non-negative number; a nil big.Int is 0.
encodeBig(n) == EncodeBytes(uintToBytes(n))

encodeKeys(keys) == EncodeList([j \in DOMAIN keys |-> EncodeBytes(keys[j])])

encodeEntry(entry) == EncodeList(<<EncodeBytes(entry.address), encodeKeys(entry.keys)>>)

encodeAccessList(entries) == EncodeList([i \in DOMAIN entries |-> encodeEntry(entries[i])])

encodeField(f, x) ==
    IF f \in Uint64Fields THEN EncodeUint64(x)
    ELSE IF f \in BigFields THEN encodeBig(x)
    ELSE IF f = "accessList" THEN encodeAccessList(x)
    ELSE EncodeBytes(x)                  \* to, data

encodeFields(layout, tx) == [i \in DOMAIN layout |-> encodeField(layout[i], tx[layout[i]])]

TypePrefix(type) == IF type = 0 THEN <<>> ELSE <<type>>

\* Mutant of SigningPreimage: never the chain id of a legacy transaction.
PreimageUnchained(tx, chained) ==
    TypePrefix(tx.type) \o EncodeList(encodeFields(Body(tx.type), tx))

\* SigningHash before Keccak-256; a legacy transaction signs its chain id
\* (EIP-155), or nothing of the kind when it has none.
SigningPreimage(tx, chained) ==
    TypePrefix(tx.type) \o
    EncodeList(encodeFields(Body(tx.type), tx)
                 \o (IF tx.type = 0 /\ chained
                     THEN <<encodeBig(tx.chainId), EncodeUint64(0), EncodeUint64(0)>>
                     ELSE <<>>))

------------------------------------------------------------------------------
(* Signing.                                                                *)

\* Mutant of assembleV: v leaves the chain id out.
AssembleVBare(tx, recID) ==
    IF tx.type = 0 THEN uintToBytes(27 + recID) ELSE <<recID>>

assembleV(tx, recID) ==
    IF tx.type = 0 THEN uintToBytes(recID + 35 + 2 * tx.chainId) ELSE <<recID>>

\* A scalar as the signer returns it: always WordLen bytes.
Padded(x) == LET b == uintToBytes(x)
             IN  [i \in 1..(WordLen - Len(b)) |-> 0] \o b

SignedList(tx, v, r, s) ==
    EncodeList(encodeFields(Body(tx.type), tx) \o <<v, EncodeBytes(r), EncodeBytes(s)>>)

\* The y-parity goes through a big.Int, so that 0 becomes empty.
EncodeTyped(tx, r, s, v) == TypePrefix(tx.type) \o SignedList(tx, encodeBig(Number(v)), r, s)

EncodeSigned(tx, r, s, v) ==
    IF tx.type = 0 THEN SignedList(tx, EncodeBytes(v), r, s) ELSE EncodeTyped(tx, r, s, v)

SignedRaw(tx, g) == EncodeSigned(tx, Padded(g.r), Padded(g.s), assembleV(tx, g.recID))

personalDigest(msg) == <<Magic, 0>> \o uintToBytes(Len(msg)) \o msg

\* DomainSeparator.Validate and Hash: every field is part of the hash.
DomainValid(d) == d.chainId # NilChain /\ d.chainId >= 0 /\ d.chainId < Power(WordLen)

typedDigest(d, h) == <<Magic, 1>> \o <<d.name>> \o Padded(d.chainId) \o <<d.contract, h>>

------------------------------------------------------------------------------
(* Decoding.                                                               *)

IsBytes(v) == v.t = "bytes"

checkIntegerField(b) == Len(b) <= WordLen /\ (b = <<>> \/ b[1] # 0)

asScalar(v) == /\ IsBytes(v) /\ checkIntegerField(v.b)
               /\ Number(v.b) # 0 /\ Number(v.b) < N

asUint64(v) == IsBytes(v) /\ Len(v.b) <= LenBytes /\ checkIntegerField(v.b)

asBigInt(v) == IsBytes(v) /\ checkIntegerField(v.b)

asAddress(v) == IsBytes(v) /\ Len(v.b) \in {0, AddrLen}

\* parseAccessList: a list of [address, [key, ...]].
IsKeys(v) == v.t = "list" /\ \A j \in DOMAIN v.l : IsBytes(v.l[j]) /\ Len(v.l[j].b) = WordLen

IsEntry(v) == /\ v.t = "list" /\ Len(v.l) = 2
              /\ IsBytes(v.l[1]) /\ Len(v.l[1].b) = AddrLen
              /\ IsKeys(v.l[2])

parseAccessList(v) == v.t = "list" /\ \A i \in DOMAIN v.l : IsEntry(v.l[i])

FieldOk(type, f, v) ==
    IF f \in Uint64Fields THEN asUint64(v)
    ELSE IF f \in BigFields THEN asBigInt(v)
    ELSE IF f = "to" THEN asAddress(v)
    ELSE IF f = "data" THEN IsBytes(v)
    ELSE IF f = "accessList" THEN parseAccessList(v)
    ELSE IF f = "v" THEN IsBytes(v) /\ (type = 0 => checkIntegerField(v.b))
    ELSE asScalar(v)                     \* r, s

EntryOf(v) == [address |-> v.l[1].b, keys |-> [j \in DOMAIN v.l[2].l |-> v.l[2].l[j].b]]

AccessEntries(v) == [i \in DOMAIN v.l |-> EntryOf(v.l[i])]

FieldValue(f, v) ==
    IF f \in Uint64Fields \cup BigFields THEN Number(v.b)
    ELSE IF f = "accessList" THEN AccessEntries(v)
    ELSE v.b

\* RecoverPubKey and the address of the key, given the signatures that were
\* made.  A digest nobody signed with these scalars recovers some other key, or
\* none.
Recovers(g, r, s, recID, digest) ==
    /\ g.digest = digest /\ g.r = r
    /\ <<s, recID>> \in {<<g.s, g.recID>>, <<N - g.s, 1 - g.recID>>}

Recover(made, r, s, recID, digest) ==
    IF \E g \in made : Recovers(g, r, s, recID, digest)
    THEN (CHOOSE g \in made : Recovers(g, r, s, recID, digest)).key
    ELSE IF \E g \in made : g.r = r THEN Stranger ELSE "ErrRecoverFailed"

yParity(v) == IF v = <<>> THEN 0 ELSE IF v = <<1>> THEN 1 ELSE 2    \* 2: refused

\* The common part of decodeLegacy, decodeEIP2930 and decodeEIP1559: the items
\* are read in the order of the layout; body is what follows the type byte.
Place(layout, f) == CHOOSE k \in DOMAIN layout : layout[k] = f

ReadItems(type, layout, items) ==
    IF \/ Len(items) # Len(layout)
       \/ \E i \in DOMAIN layout : ~FieldOk(type, layout[i], items[i])
    THEN Err("ErrInvalidField")
    ELSE [err |-> "ok",
          fields |-> [f \in Range(layout) |-> FieldValue(f, items[Place(layout, f)])]]

ReadBody(type, d) ==
    IF d.err = "panic" THEN d
    ELSE IF d.err # "ok" THEN Err("ErrDecodeFailed")
    ELSE IF d.val.t # "list" THEN Err("ErrInvalidField")
    ELSE ReadItems(type, Layout(type), d.val.l)

DecodeBody(type, body) == ReadBody(type, Decode(body))

Sent(tx, who) == IF who = "ErrRecoverFailed" THEN Err(who)
                 ELSE [err |-> "ok", tx |-> tx, sender |-> who]

WithSender(made, tx, recID, chained) ==
    Sent(tx, Recover(made, Number(tx.r), Number(tx.s), recID, SigningPreimage(tx, chained)))

Typed(fields, type, chainId) ==
    [f \in DOMAIN fields \cup {"type", "chainId"} |->
        IF f = "type" THEN type ELSE IF f = "chainId" THEN chainId ELSE fields[f]]

LegacyOf(made, fields, v) ==
    IF v \in {27, 28} THEN WithSender(made, Typed(fields, 0, NilChain), v - 27, FALSE)
    ELSE IF v < 35 THEN Err("ErrInvalidField")
    ELSE WithSender(made, Typed(fields, 0, (v - 35) \div 2), (v - 35) % 2, TRUE)

decodeLegacy(made, body) ==
    LET of(b) == IF b.err # "ok" THEN b ELSE LegacyOf(made, b.fields, Number(b.fields.v))
    IN  of(DecodeBody(0, body))

TypedOf(made, type, fields, parity) ==
    IF parity = 2 THEN Err("ErrInvalidField")
    ELSE WithSender(made, Typed(fields, type, fields.chainId), parity, FALSE)

decodeTyped(made, type, body) ==
    LET of(b) == IF b.err # "ok" THEN b ELSE TypedOf(made, type, b.fields, yParity(b.fields.v))
    IN  of(DecodeBody(type, body))

DecodeTransaction(made, b) ==
    IF b = <<>> THEN Err("ErrEmptyInput")
    ELSE IF b[1] >= ListShort THEN decodeLegacy(made, b)
    ELSE IF b[1] \in {1, 2} THEN decodeTyped(made, b[1], Tail(b))
    ELSE Err("ErrInvalidType")

------------------------------------------------------------------------------
(* Validation.                                                             *)

checkFieldSanity(tx) == Len(tx.r) \in 1..WordLen /\ Len(tx.s) \in 1..WordLen

\* Mutant of checkChainID: only typed transactions are compared.
CheckChainIDTyped(tx, expected) ==
    tx.type = 0 \/ expected = NilChain \/ tx.chainId = expected

\* A pre-EIP-155 transaction (v is 27 or 28) has no chain id to check.
checkChainID(tx, expected) ==
    \/ tx.type = 0 /\ Number(tx.v) \in {27, 28}
    \/ expected = NilChain \/ tx.chainId = expected

checkV(tx) == IF tx.type = 0 THEN Number(tx.v) \in {27, 28} \/ Number(tx.v) >= 35
              ELSE Number(tx.v) \in {0, 1}

\* Mutant of LowS: the threshold is the order instead of half of it.
LowSLoose(tx) == Number(tx.s) < N

LowS(tx) == Number(tx.s) <= HalfN

Checks(tx, expected) ==
    IF ~checkFieldSanity(tx) THEN "ErrFieldSanity"
    ELSE IF ~checkChainID(tx, expected) THEN "ErrChainIDMismatch"
    ELSE IF ~checkV(tx) THEN "ErrInvalidV"
    ELSE IF ~LowS(tx) THEN "ErrHighS"
    ELSE "ok"

\* The recovered address is never the zero address: that has no known key.
ValidateTransaction(made, b, expected) ==
    LET of(d) == IF d.err \in {"panic", "ErrInvalidType"} THEN d.err
                 ELSE IF d.err # "ok" THEN "ErrInvalidRLP"
                 ELSE Checks(d.tx, expected)
    IN  of(DecodeTransaction(made, b))

\* eip712.Recover of a 65-byte signature whose last byte is v.
RecoverTyped(made, r, s, v, d, h) ==
    IF v - 27 \notin 0..3 THEN "ErrInvalid" ELSE Recover(made, r, s, v - 27, typedDigest(d, h))

------------------------------------------------------------------------------
(* What the types of the code say of the constants.                        *)

AccessListEntry == [address : [1..AddrLen -> Byte], keys : Seq([1..WordLen -> Byte])]

\* The struct fields; amounts and chain ids are not negative.
FieldTyped(f, x) ==
    IF f \in Uint64Fields THEN x \in 0..(Word - 1)
    ELSE IF f \in BigFields THEN x \in Nat
    ELSE IF f = "to" THEN x \in Seq(Byte) /\ Len(x) \in {0, AddrLen}
    ELSE IF f = "accessList" THEN x \in Seq(AccessListEntry)
    ELSE x \in Seq(Byte)                \* data

TxTyped(tx) == /\ tx.type \in {0, 1, 2} /\ tx.chainId \in Nat
               /\ \A f \in Range(Body(tx.type)) : FieldTyped(f, tx[f])

\* A slice of bytes: its length is an int.
IsSlice(b) == 2 * Len(b) < Word

\* secp256k1 has an odd order; no key is one of the other answers.
ASSUME CurveAssumption ==
    /\ WordLen \in Nat /\ AddrLen \in Nat /\ LenBytes <= WordLen
    /\ MaxNestingDepth >= 4
    /\ N \in Nat /\ N % 2 = 1 /\ N < Power(WordLen)
    /\ Stranger \notin Keys /\ "ErrRecoverFailed" \notin Keys /\ "ErrInvalid" \notin Keys
    /\ NilChain \notin Nat

\* The signer returns a low s and a recovery id of 0 or 1.
ASSUME SignaturesAssumption == \A g \in Signatures :
    g.r \in 1..(N - 1) /\ g.s \in 1..HalfN /\ g.recID \in {0, 1}

ASSUME TxsAssumption == \A tx \in Txs :
    /\ TxTyped(tx) /\ IsSlice(SigningPreimage(tx, TRUE))
    /\ \A g \in Signatures : IsSlice(SignedRaw(tx, g))

\* The hashes of a domain's strings, and of structs, are numbers here.
ASSUME DigestsAssumption ==
    /\ \A m \in Messages : m \in Seq(Byte)
    /\ \A d \in Domains : d \in [name : Nat, chainId : Int \cup {NilChain}, contract : Nat]
    /\ \A h \in Structs : h \in Nat

------------------------------------------------------------------------------
(* Actions.                                                                *)

TxInit == sigs = {} /\ raw = <<>> /\ origin = Absent /\ result = Absent

TxIdle == origin = Absent /\ result = Absent /\ raw = <<>>

Sign(k, digest, g, what) ==
    sigs' = sigs \cup {[key |-> k, digest |-> digest, r |-> g.r, s |-> g.s,
                        recID |-> g.recID, of |-> what]}

\* A signature nobody has made yet: the scalars are fresh for every digest.
Unused(g) == \A h \in sigs : h.r # g.r

SignTx(k, tx, g) ==
    /\ TxIdle /\ Cardinality(sigs) < MaxSigs /\ Unused(g)
    /\ IF tx.chainId = 0
       THEN result' = [kind |-> "sign", err |-> "zero chain ID"] /\ UNCHANGED <<sigs, raw, origin>>
       ELSE /\ Sign(k, SigningPreimage(tx, TRUE), g, [kind |-> "tx", tx |-> tx])
            /\ raw' = SignedRaw(tx, g)
            /\ origin' = [kind |-> "signed", key |-> k, tx |-> tx, sig |-> g]
            /\ UNCHANGED result

SignPersonalMessage(k, msg, g) ==
    /\ TxIdle /\ Cardinality(sigs) < MaxSigs /\ Unused(g)
    /\ Sign(k, personalDigest(msg), g, [kind |-> "personal", msg |-> msg])
    /\ UNCHANGED <<raw, origin, result>>

SignTypedData(k, d, h, g) ==
    /\ TxIdle /\ Cardinality(sigs) < MaxSigs /\ Unused(g)
    /\ IF DomainValid(d)
       THEN /\ Sign(k, typedDigest(d, h), g, [kind |-> "typed", domain |-> d, struct |-> h])
            /\ UNCHANGED result
       ELSE result' = [kind |-> "sign", err |-> "ErrInvalidDomain"] /\ UNCHANGED sigs
    /\ UNCHANGED <<raw, origin>>

\* Any bytes may arrive.
Feed(c) ==
    /\ sigs = {} /\ result = Absent /\ origin = Absent /\ Len(raw) < MaxFeed
    /\ raw' = Append(raw, c)
    /\ UNCHANGED <<sigs, origin, result>>

\* The encodings that differ from a signed one in one item, in the signature
\* (its complement, or one made for something else), or at the end.
Parts(b) == IF b[1] >= ListShort THEN decodeItem(b, 0).val.l ELSE decodeItem(Tail(b), 0).val.l

Joined(type, items) == TypePrefix(type) \o Encode(MaxNestingDepth + 1, List(items))

Items == {Bytes(<<>>), Bytes(<<0>>), Bytes(<<1>>), Bytes(<<0, 1>>), Bytes(<<2, 4>>),
          Bytes(<<1, 1, 1>>), Bytes(<<1, 1, 1, 1>>), List(<<>>), List(<<Bytes(<<5, 5>>)>>),
          List(<<List(<<List(<<List(<<>>)>>)>>)>>)}

Front(s) == SubSeq(s, 1, Len(s) - 1)

\* The signature g in place of the one at the end of items, with this v.
Resigned(items, v, r, s) ==
    SubSeq(items, 1, Len(items) - 3) \o <<Bytes(v), Bytes(r), Bytes(s)>>

Vs(tx, recID) == {assembleV(tx, recID), uintToBytes(27 + recID), uintToBytes(recID)}

Rewrites(b, tx) ==
    LET of(items, vs) ==
          {Joined(tx.type, [items EXCEPT ![i] = x]) : i \in DOMAIN items, x \in Items}
            \cup {Joined(tx.type, Resigned(items, v, Padded(g.r), Padded(g.s))) :
                    g \in sigs, v \in vs}
            \cup UNION {{Joined(tx.type, Resigned(items, v, uintToBytes(g.r), uintToBytes(s))) :
                    s \in {g.s, N - g.s}, v \in vs} : g \in sigs}
            \cup {Append(b, 0), Front(b), Joined(3 - tx.type, items), Joined(tx.type, Front(items))}
    IN  of(Parts(b), UNION {Vs(tx, i) : i \in {0, 1}})

Rewrite(b) ==
    /\ result = Absent /\ b \in Seq(Byte)
    /\ raw' = b
    /\ origin' = [origin EXCEPT !.kind = "rewritten"]
    /\ UNCHANGED <<sigs, result>>

CheckDecode ==
    /\ result = Absent /\ raw # <<>>
    /\ result' = [kind |-> "decode", d |-> DecodeTransaction(sigs, raw)]
    /\ UNCHANGED <<sigs, raw, origin>>

CheckValid(expected) ==
    /\ result = Absent /\ raw # <<>>
    /\ result' = [kind |-> "validate", err |-> ValidateTransaction(sigs, raw, expected),
                  d |-> DecodeTransaction(sigs, raw), chain |-> expected]
    /\ UNCHANGED <<sigs, raw, origin>>

CheckTyped(g, s, v, d, h) ==
    /\ TxIdle /\ DomainValid(d)
    /\ result' = [kind |-> "typed", who |-> RecoverTyped(sigs, g.r, s, v, d, h),
                  domain |-> d, struct |-> h]
    /\ UNCHANGED <<sigs, raw, origin>>

TxDiscard ==
    /\ ~TxIdle /\ (result # Absent \/ origin # Absent)
    /\ raw' = <<>> /\ origin' = Absent /\ result' = Absent
    /\ UNCHANGED sigs

TxNext ==
    \/ \E k \in Keys, tx \in Txs, g \in Signatures : SignTx(k, tx, g)
    \/ \E k \in Keys, m \in Messages, g \in Signatures : SignPersonalMessage(k, m, g)
    \/ \E k \in Keys, d \in Domains, h \in Structs, g \in Signatures : SignTypedData(k, d, h, g)
    \/ \E c \in Byte : Feed(c)
    \/ origin.kind = "signed" /\ \E b \in Rewrites(raw, origin.tx) : Rewrite(b)
    \/ CheckDecode
    \/ \E c \in Chains \cup {NilChain} : CheckValid(c)
    \/ \E g \in sigs, s \in {0, 1}, v \in {0, 27, 28}, d \in Domains, h \in Structs :
         CheckTyped(g, IF s = 0 THEN g.s ELSE N - g.s, v, d, h)
    \/ TxDiscard

TxSpec == TxInit /\ [][TxNext]_txVars

------------------------------------------------------------------------------
(* Properties.                                                             *)

SameTx(tx, d) == \A f \in {"type", "chainId"} \cup Range(Body(tx.type)) : tx[f] = d[f]

\* Every big integer fits a uint256, v included, and the list fits the decoder.
AmountsFit(tx, g) ==
    /\ \A f \in BigFields \cap Range(Body(tx.type)) : tx[f] < Power(WordLen)
    /\ tx.type = 0 => g.recID + 35 + 2 * tx.chainId < Power(WordLen)
    /\ Len(SignedRaw(tx, g)) <= Len(TypePrefix(tx.type)) + MaxInputLen

\* Neither scalar starts with a zero byte.
FullScalars(g) == Len(uintToBytes(g.r)) = WordLen /\ Len(uintToBytes(g.s)) = WordLen

\* The decoder gave back the transaction, with the wallet as its sender.
CameBack ==
    /\ result.d.err = "ok"
    /\ result.d.sender = origin.key
    /\ SameTx(origin.tx, result.d.tx)

\* DecodeTransaction gives back what SignTx signed, with the wallet as sender,
\* when both scalars of the signature have all their bytes.
SignedDecodes ==
    /\ origin.kind = "signed" /\ result.kind = "decode"
    /\ AmountsFit(origin.tx, origin.sig) /\ FullScalars(origin.sig)
    => CameBack

\* Whatever arrives, a wallet is reported as the sender of a transaction, or
\* as the signer of typed data, only if it signed those very fields for that
\* chain, or that struct in that domain.
SenderSigned ==
    /\ result.kind = "decode" /\ result.d.err = "ok" /\ result.d.sender \in Keys =>
         \E g \in sigs : /\ g.key = result.d.sender /\ g.of.kind = "tx"
                         /\ SameTx(g.of.tx, result.d.tx)
    /\ result.kind = "typed" /\ result.who \in Keys =>
         \E g \in sigs : g.key = result.who
                           /\ g.of = [kind |-> "typed", domain |-> result.domain,
                                      struct |-> result.struct]

Accepted == result.kind = "validate" /\ result.err = "ok" /\ result.d.sender \in Keys

\* Of all the encodings of a signed transaction ValidateTransaction accepts one,
\* byte for byte: no complementary s, no second form of an integer, no tail.
OneEncoding ==
    Accepted => \E g \in sigs :
        /\ g.of.kind = "tx"
        /\ raw = EncodeSigned(g.of.tx, uintToBytes(g.r), uintToBytes(g.s),
                              assembleV(g.of.tx, g.recID))

\* A transaction a wallet signed for one chain is never valid on another, even
\* though ValidateTransaction skips the check when v says there is no chain.
ChainBound ==
    Accepted /\ result.chain # NilChain =>
        \E g \in sigs : /\ g.of.kind = "tx" /\ g.key = result.d.sender
                        /\ g.of.tx.chainId = result.chain
                        /\ g.r = Number(result.d.tx.r)

\* Decode accepts only what Encode produces: the bytes of a value are unique.
RlpCanonical ==
    LET canonical(d) == d.err = "ok" => Encode(MaxNestingDepth, d.val) = raw IN canonical(Decode(raw))

------------------------------------------------------------------------------
(* What comments and tests say, and the code does not do.                  *)

\* decode_test.go 217-219: the test "signs a transaction with each type, decodes
\* the raw bytes, and verifies the recovered sender matches the wallet address
\* and all fields match the original."  Every signature makes the round trip.
EverySignatureDecodes ==
    origin.kind = "signed" /\ result.kind = "decode" /\ AmountsFit(origin.tx, origin.sig) => CameBack

\* rlp.go 134-136: "Decode enforces canonical form and returns an error for
\* truncated input".  It never slices its input out of bounds.
RlpReturns == Decode(raw).err # "panic"

==============================================================================
