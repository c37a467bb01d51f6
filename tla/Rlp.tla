---------------------------------- MODULE Rlp ---------------------------------
(***************************************************************************)
(* Recursive length prefix encoding (chain/rlp).                           *)
(*                                                                         *)
(* The four prefix ranges are laid out by three numbers: in the code       *)
(* Single = 128 bytes stand for themselves, the short forms hold up to     *)
(* ShortMax = 55 bytes, and a length has at most LenBytes = 8 bytes.  They *)
(* make a byte 0..Base-1 (Base = 256) and a uint64 0..Word-1 (Word = 2^64),*)
(* so smaller numbers give the same code over smaller bytes.               *)
(***************************************************************************)
EXTENDS Integers, Sequences

CONSTANTS
    Single, ShortMax, LenBytes,
    MaxInputLen,       \* longest input Decode accepts
    MaxNestingDepth    \* deepest nesting Decode accepts

StrShort  == Single                                  \* 0x80
StrLong   == Single + ShortMax                       \* 0xb7, plus len of len
ListShort == Single + ShortMax + LenBytes + 1        \* 0xc0
ListLong  == ListShort + ShortMax                    \* 0xf7, plus len of len
Base      == ListLong + LenBytes + 1
Byte      == 0..(Base - 1)

\* The powers of Base: Power(n) is what n bytes can hold.
PowerDef(n, prev) == IF n = 0 THEN 1 ELSE Base * prev[n - 1]
Power(n) == LET power[i \in Nat] == PowerDef(i, power) IN power[n]

Word == Power(LenBytes)

\* MaxInputLen is 10 << 20, far below the largest int.
ASSUME RlpAssumption ==
    /\ Single \in Nat /\ ShortMax \in Nat /\ LenBytes \in Nat
    /\ Single > 0 /\ ShortMax > 0 /\ LenBytes > 0
    /\ MaxInputLen \in Nat /\ MaxNestingDepth \in Nat
    /\ 2 * MaxInputLen < Word

\* uintToBytes: minimal big-endian, zero is empty.
UintDef(n, prev) == IF n = 0 THEN <<>> ELSE Append(prev[n \div Base], n % Base)
uintToBytes(n) == LET digits[i \in Nat] == UintDef(i, digits) IN digits[n]

\* The loop of decodeLength over the first n bytes.
NumberDef(b, n, prev) == IF n = 0 THEN 0 ELSE prev[n - 1] * Base + b[n]
NumberTo(b, n) == LET number[i \in Nat] == NumberDef(b, i, number) IN number[n]

Number(b) == NumberTo(b, Len(b))

\* int(x) of a uint64.
Signed(x) == IF 2 * x < Word THEN x ELSE x - Word

------------------------------------------------------------------------------
(* Encoding.                                                               *)

Prefixed(short, long, payload) ==
    IF Len(payload) <= ShortMax THEN <<short + Len(payload)>> \o payload
    ELSE LET n == uintToBytes(Len(payload)) IN <<long + Len(n)>> \o n \o payload

EncodeBytes(b) == IF Len(b) = 1 /\ b[1] < Single THEN b
                  ELSE Prefixed(StrShort, StrLong, b)

\* The items copied one after the other, up to the n-th.
JoinDef(items, n, prev) == IF n = 0 THEN <<>> ELSE prev[n - 1] \o items[n]
JoinTo(items, n) == LET joined[i \in Nat] == JoinDef(items, i, joined) IN joined[n]

Join(items) == JoinTo(items, Len(items))

EncodeList(items) == Prefixed(ListShort, ListLong, Join(items))

EncodeUint64(n) == EncodeBytes(uintToBytes(n))

------------------------------------------------------------------------------
(* Decoding.  A value is a byte string or a list of values.                *)

Bytes(b) == [t |-> "bytes", b |-> b]
List(l)  == [t |-> "list", l |-> l]

Ok(val, rest) == [err |-> "ok", val |-> val, rest |-> rest]
Err(e) == [err |-> e]

From(b, i) == SubSeq(b, i, Len(b))

\* Mutant of LongEnd: a length may have leading zeros or be a short one.
LongEndLoose(b, lenOfLen) ==
    LET digits == SubSeq(b, 2, 1 + lenOfLen)
        length == Number(digits)
        end    == 1 + lenOfLen + Signed(length)
    IN  IF Len(b) < 1 + lenOfLen THEN Err("ErrTruncated")
        ELSE IF Len(b) < (1 + lenOfLen + length) % Word THEN Err("ErrTruncated")
        ELSE IF end < 1 + lenOfLen \/ end > Len(b) THEN Err("panic")
        ELSE [err |-> "ok", start |-> 2 + lenOfLen, end |-> end]

\* Where the payload of a long form lies: after the length, up to end.  The
\* bound is compared in uint64 and the slice taken with an int.
LongEnd(b, lenOfLen) ==
    LET digits == SubSeq(b, 2, 1 + lenOfLen)
        length == Number(digits)
        end    == 1 + lenOfLen + Signed(length)
    IN  IF Len(b) < 1 + lenOfLen THEN Err("ErrTruncated")
        ELSE IF Len(digits) > 1 /\ digits[1] = 0 THEN Err("ErrInvalidEncoding")
        ELSE IF length <= ShortMax THEN Err("ErrInvalidEncoding")
        ELSE IF Len(b) < (1 + lenOfLen + length) % Word THEN Err("ErrTruncated")
        ELSE IF end < 1 + lenOfLen \/ end > Len(b) THEN Err("panic")
        ELSE [err |-> "ok", start |-> 2 + lenOfLen, end |-> end]

\* Where the payload of a short form lies: its length is in the prefix.
ShortEnd(b, length) ==
    IF Len(b) < 1 + length THEN Err("ErrTruncated")
    ELSE [err |-> "ok", start |-> 2, end |-> 1 + length]

\* The payload of the item at the head of b, by its prefix.
Extent(b) ==
    IF b[1] < Single THEN [err |-> "ok", start |-> 1, end |-> 1]
    ELSE IF b[1] <= StrLong THEN ShortEnd(b, b[1] - StrShort)
    ELSE IF b[1] < ListShort THEN LongEnd(b, b[1] - StrLong)
    ELSE IF b[1] <= ListLong THEN ShortEnd(b, b[1] - ListShort)
    ELSE LongEnd(b, b[1] - ListLong)

Payload(b, x) == SubSeq(b, x.start, x.end)

\* A short form never holds a single byte that stands for itself.
StringItem(b, x) ==
    IF x.start = 2 /\ x.end = 2 /\ b[2] < Single THEN Err("ErrInvalidEncoding")
    ELSE Ok(Bytes(Payload(b, x)), From(b, x.end + 1))

ListItem(b, x, inner) ==
    IF inner.err # "ok" THEN inner ELSE Ok(List(inner.val), From(b, x.end + 1))

\* The item in x; lists[n] decodes the payloads of n bytes.
ItemWithin(b, depth, x, lists) ==
    IF x.err # "ok" THEN x
    ELSE IF b[1] < ListShort THEN StringItem(b, x)
    ELSE ListItem(b, x, lists[x.end + 1 - x.start][depth + 1][Payload(b, x)])

ItemDef(b, depth, lists) ==
    IF b = <<>> THEN Err("ErrTruncated")
    ELSE IF b[1] >= ListShort /\ depth >= MaxNestingDepth THEN Err("ErrNestingLimit")
    ELSE ItemWithin(b, depth, Extent(b), lists)

\* The loop of decodeListItems: the item at the head, then the others.
Cons(head, tail) ==
    IF tail.err # "ok" THEN tail ELSE Ok(<<head.val>> \o tail.val, <<>>)

ItemsAfter(head, depth, lists) ==
    IF head.err # "ok" THEN head
    ELSE Cons(head, lists[Len(head.rest)][depth][head.rest])

ListsDef(n, prev) ==
    [depth \in Nat |-> [b \in [1..n -> Byte] |->
        IF n = 0 THEN Ok(<<>>, <<>>) ELSE ItemsAfter(ItemDef(b, depth, prev), depth, prev)]]

Lists == LET lists[n \in Nat] == ListsDef(n, lists) IN lists

decodeListItems(b, depth) == Lists[Len(b)][depth][b]

decodeItem(b, depth) == ItemDef(b, depth, Lists)

Complete(d) == IF d.err = "ok" /\ d.rest # <<>> THEN Err("ErrTrailingBytes") ELSE d

Decode(b) ==
    IF b = <<>> THEN Err("ErrTruncated")
    ELSE IF Len(b) > MaxInputLen THEN Err("ErrInputTooLarge")
    ELSE Complete(decodeItem(b, 0))

------------------------------------------------------------------------------
(* The encoding of a decoded value, composed the way callers compose it.   *)

\* The values with at most n lists around a byte string.
ValuesDef(n, prev) ==
    [t : {"bytes"}, b : Seq(Byte)]
      \cup (IF n = 0 THEN {} ELSE [t : {"list"}, l : Seq(prev[n - 1])])
Values(n) == LET values[i \in Nat] == ValuesDef(i, values) IN values[n]

EncodeDef(n, prev) ==
    [v \in Values(n) |->
        IF v.t = "bytes" THEN EncodeBytes(v.b)
        ELSE EncodeList([i \in DOMAIN v.l |-> prev[n - 1][v.l[i]]])]
Encoder(n) == LET encode[i \in Nat] == EncodeDef(i, encode) IN encode[n]

Encode(n, v) == Encoder(n)[v]

==============================================================================
