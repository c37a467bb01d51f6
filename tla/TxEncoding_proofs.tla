--------------------------- MODULE TxEncoding_proofs ---------------------------
(***************************************************************************)
(* What the RLP code computes, for inputs of every length, and what the    *)
(* encodings of transactions made with it have in common and tell apart.   *)
(***************************************************************************)
EXTENDS Transactions, WellFoundedInduction, TLAPS

------------------------------------------------------------------------------
(* Induction over sets of natural numbers.                                 *)

\* A non-empty set of natural numbers has a least element.
LEMMA Least ==
    ASSUME NEW S, S \subseteq Nat, S # {}
    PROVE  \E i \in S : \A j \in S : i <= j
  <1>1. PICK i \in S : \A j \in S : ~(<<j, i>> \in OpToRel(<, Nat))
    BY WFMin, NatLessThanWellFounded, Zenon
  <1>2. \A j \in Nat, k \in Nat : j < k => <<j, k>> \in OpToRel(<, Nat)
    BY Zenon DEF OpToRel
  <1>3. \A j \in S : ~(j < i)
    BY <1>1, <1>2, Zenon
  <1>4. \A j \in S : i <= j
    BY <1>3
  <1> QED BY <1>4, Zenon

\* A set of natural numbers that holds n whenever it holds all numbers below n
\* holds every natural number.
LEMMA Induction ==
    ASSUME NEW S, S \subseteq Nat,
           \A n \in Nat : (\A i \in 0..(n - 1) : i \in S) => n \in S
    PROVE  \A n \in Nat : n \in S
  <1> DEFINE C == {n \in Nat : n \notin S}
  <1> SUFFICES ASSUME C # {} PROVE FALSE
    OBVIOUS
  <1>1. PICK n \in C : \A j \in C : n <= j
    <2>1. C \subseteq Nat
      OBVIOUS
    <2> QED BY <2>1, Least, Zenon
  <1>2. n \in Nat /\ \A i \in 0..(n - 1) : i \in S
    BY <1>1
  <1> QED BY <1>2, Zenon

\* So does one that holds 0 and with every number the next.
LEMMA InductionNext ==
    ASSUME NEW S, S \subseteq Nat, 0 \in S, \A n \in Nat : n \in S => n + 1 \in S
    PROVE  \A n \in Nat : n \in S
  <1>1. ASSUME NEW n \in Nat, \A i \in 0..(n - 1) : i \in S PROVE n \in S
    <2>1. CASE n = 0
      BY <2>1, Zenon
    <2>2. CASE n # 0
      <3>1. n - 1 \in Nat /\ n - 1 \in 0..(n - 1) /\ (n - 1) + 1 = n
        BY <2>2
      <3> QED BY <1>1, <3>1, Zenon
    <2> QED BY <2>1, <2>2, Zenon
  <1> QED BY <1>1, Induction, Zenon

------------------------------------------------------------------------------
(* The recursive definitions of the model are of functions on the natural  *)
(* numbers.  These exist: they are put together from the functions that    *)
(* satisfy the equation up to n.                                           *)

\* One step of each definition: the value for n, in terms of x.arg and of the values
\* below n.
Step(x, n, prev) ==
    IF x.of = "Power" THEN PowerDef(n, prev)
    ELSE IF x.of = "uintToBytes" THEN UintDef(n, prev)
    ELSE IF x.of = "Number" THEN NumberDef(x.arg, n, prev)
    ELSE IF x.of = "Join" THEN JoinDef(x.arg, n, prev)
    ELSE IF x.of = "Lists" THEN ListsDef(n, prev)
    ELSE IF x.of = "Values" THEN ValuesDef(n, prev)
    ELSE EncodeDef(n, prev)

Prior(g, k) == [i \in 0..(k - 1) |-> g[i]]
Upto(x, g, n) == g = [k \in 0..n |-> Step(x, k, Prior(g, k))]

\* Two functions that satisfy the equation agree where both are defined.
LEMMA AgreeBelow ==
    ASSUME NEW x, NEW m \in Nat, NEW n \in Nat, NEW g, NEW h, Upto(x, g, m), Upto(x, h, n)
    PROVE  \A k \in Nat : k <= m /\ k <= n => g[k] = h[k]
  <1> DEFINE S == {k \in Nat : k <= m /\ k <= n /\ g[k] # h[k]}
  <1> SUFFICES ASSUME S # {} PROVE FALSE
    OBVIOUS
  <1>1. PICK k \in S : \A j \in S : k <= j
    <2>1. S \subseteq Nat
       OBVIOUS
    <2> QED BY <2>1, Least, Zenon
  <1>2. \A i \in 0..(k-1) : g[i] = h[i]
    BY <1>1
  <1>3. Prior(g, k) = Prior(h, k)
    BY <1>2, Zenon DEF Prior
  <1>4. k \in 0..m /\ k \in 0..n
    BY <1>1
  <1>5. g[k] = Step(x, k, Prior(g, k)) /\ h[k] = Step(x, k, Prior(h, k))
    BY <1>4, Zenon DEF Upto
  <1> QED BY <1>1, <1>3, <1>5, Zenon

\* For every n some function satisfies the equation up to n.
LEMMA Exists ==
    ASSUME NEW x
    PROVE  \A n \in Nat : \E g : Upto(x, g, n)
  <1> DEFINE S == {n \in Nat : ~\E g : Upto(x, g, n)}
  <1> SUFFICES ASSUME S # {} PROVE FALSE
    OBVIOUS
  <1>1. PICK n \in S : \A j \in S : n <= j
    <2>1. S \subseteq Nat
       OBVIOUS
    <2> QED BY <2>1, Least, Zenon
  <1>2. n \in Nat
    OBVIOUS
  <1>3. CASE n = 0
    <2> DEFINE g == [k \in 0..0 |-> Step(x, 0, <<>>)]
    <2>1. Prior(g, 0) = <<>>
        BY DEF Prior
    <2>2. Upto(x, g, 0)
        BY <2>1 DEF Upto
    <2> QED BY <1>1, <1>3, <2>2, Zenon
  <1>4. CASE n # 0
    <2>1. n - 1 \in Nat /\ n - 1 \notin S
        BY <1>1, <1>2, <1>4
    <2>2. PICK h : Upto(x, h, n - 1)
        BY <2>1, Zenon
    <2> DEFINE g == [k \in 0..n |-> IF k = n THEN Step(x, n, Prior(h, n)) ELSE h[k]]
    <2>3. ASSUME NEW k \in 0..n PROVE Prior(g, k) = Prior(h, k)
        <3>1. \A i \in 0..(k-1) : i \in 0..n /\ i # n
            BY <1>2, <2>3
        <3> QED BY <3>1, Zenon DEF Prior
    <2>4. ASSUME NEW k \in 0..n, k # n PROVE h[k] = Step(x, k, Prior(h, k))
        BY <1>2, <2>2, <2>4 DEF Upto
    <2>5. \A k \in 0..n : g[k] = Step(x, k, Prior(g, k))
        BY <2>3, <2>4, Zenon
    <2>6. Upto(x, g, n)
        BY <2>5, Zenon DEF Upto
    <2> QED BY <1>1, <2>6, Zenon
  <1> QED BY <1>3, <1>4, Zenon

\* Some function has for every n the value that Step gives it.
LEMMA Recursive ==
    \A x : \E f : f = [n \in Nat |-> Step(x, n, [i \in 0..(n - 1) |-> f[i]])]
  <1> TAKE x
  <1> DEFINE G(n) == CHOOSE g : Upto(x, g, n)
             F == [n \in Nat |-> G(n)[n]]
  <1>1. \A n \in Nat : Upto(x, G(n), n)
    BY Exists, Zenon
  <1>2. ASSUME NEW n \in Nat PROVE F[n] = Step(x, n, [i \in 0..(n - 1) |-> F[i]])
    <2>1. ASSUME NEW i \in 0..(n - 1) PROVE G(n)[i] = F[i]
      <3>0. i \in Nat /\ i <= n /\ i <= i
        OBVIOUS
      <3>1. Upto(x, G(n), n) /\ Upto(x, G(i), i)
        BY <1>1, <3>0, Zenon
      <3> HIDE DEF G
      <3>2. G(n)[i] = G(i)[i]
        BY <3>0, <3>1, AgreeBelow
      <3> QED BY <3>0, <3>2, Zenon
    <2>2. G(n)[n] = Step(x, n, Prior(G(n), n))
      <3> HIDE DEF G
      <3> QED BY <1>1 DEF Upto
    <2>3. Prior(G(n), n) = [i \in 0..(n - 1) |-> F[i]]
      <3> HIDE DEF G, F
      <3> QED BY <2>1, Zenon DEF Prior
    <2>4. F[n] = G(n)[n]
      OBVIOUS
    <2> HIDE DEF F, G
    <2> QED BY <2>2, <2>3, <2>4, Zenon
  <1>3. F = [n \in Nat |-> Step(x, n, [i \in 0..(n - 1) |-> F[i]])]
    <2>1. F = [n \in Nat |-> F[n]]
      OBVIOUS
    <2> HIDE DEF F
    <2> QED BY <1>2, <2>1, Zenon
  <1> HIDE DEF F
  <1> QED BY <1>3, Zenon

------------------------------------------------------------------------------
(* Sequences.                                                              *)

\* A sequence over S has a length, and elements of S.
LEMMA SeqIs ==
    ASSUME NEW S, NEW s \in Seq(S)
    PROVE  /\ Len(s) \in Nat
           /\ s \in [1..Len(s) -> S]
           /\ \A i \in 1..Len(s) : s[i] \in S
           /\ DOMAIN s = 1..Len(s)
  OBVIOUS

\* The empty sequence is one over every set.
LEMMA NoElements == \A S : <<>> \in Seq(S) /\ Len(<<>>) = 0
  OBVIOUS

\* A sequence over S is one over every larger set.
LEMMA SeqWithin ==
    ASSUME NEW S, NEW T, NEW s \in Seq(S), S \subseteq T
    PROVE  s \in Seq(T)
  OBVIOUS

\* Sequences of equal length with equal elements are equal.
LEMMA SameSeq ==
    ASSUME NEW S, NEW s \in Seq(S), NEW t \in Seq(S), Len(s) = Len(t),
           \A i \in 1..Len(s) : s[i] = t[i]
    PROVE  s = t
  OBVIOUS

\* The concatenation of two sequences.
LEMMA ConcatIs ==
    ASSUME NEW S, NEW s \in Seq(S), NEW t \in Seq(S)
    PROVE  /\ s \o t \in Seq(S) /\ Len(s \o t) = Len(s) + Len(t)
           /\ \A i \in 1..(Len(s) + Len(t)) :
                (s \o t)[i] = IF i <= Len(s) THEN s[i] ELSE t[i - Len(s)]
  OBVIOUS

\* Nothing is added by the empty sequence.
LEMMA ConcatNone ==
    ASSUME NEW S, NEW s \in Seq(S)
    PROVE  s \o <<>> = s /\ <<>> \o s = s
  OBVIOUS

\* Concatenation associates.
LEMMA ConcatTwice ==
    ASSUME NEW S, NEW s \in Seq(S), NEW t \in Seq(S), NEW u \in Seq(S)
    PROVE  (s \o t) \o u = s \o (t \o u)
  OBVIOUS

\* A sequence with one more element.
LEMMA AppendIs ==
    ASSUME NEW S, NEW s \in Seq(S), NEW x \in S
    PROVE  /\ Append(s, x) \in Seq(S) /\ Append(s, x) # <<>>
           /\ Len(Append(s, x)) = Len(s) + 1
           /\ \A i \in 1..Len(s) : Append(s, x)[i] = s[i]
           /\ Append(s, x)[Len(s) + 1] = x
  OBVIOUS

\* Two adjacent slices are one.
LEMMA SlicesMeet ==
    ASSUME NEW S, NEW s \in Seq(S), NEW m \in 1..(Len(s) + 1), NEW k \in (m - 1)..Len(s),
           NEW n \in k..Len(s)
    PROVE  SubSeq(s, m, k) \o SubSeq(s, k + 1, n) = SubSeq(s, m, n)
  OBVIOUS

------------------------------------------------------------------------------
(* The definitions have the values they say.                               *)

\* The layout of the prefixes.
LEMMA Layouts ==
    /\ Single \in Nat /\ Single > 0 /\ ShortMax \in Nat /\ ShortMax > 0
    /\ LenBytes \in Nat /\ LenBytes > 0
    /\ StrShort = Single /\ StrLong = Single + ShortMax /\ StrShort \in Nat /\ StrLong \in Nat
    /\ ListShort = StrLong + LenBytes + 1 /\ ListShort \in Nat
    /\ ListLong = ListShort + ShortMax /\ ListLong \in Nat
    /\ Base = ListLong + LenBytes + 1 /\ Base \in Nat /\ Base > LenBytes + 4
  BY RlpAssumption DEF StrShort, StrLong, ListShort, ListLong, Base

\* Dividing by Base.
LEMMA Division ==
    ASSUME NEW n \in Nat
    PROVE  /\ n \div Base \in Nat /\ n % Base \in Nat /\ n % Base < Base
           /\ n = Base * (n \div Base) + (n % Base)
           /\ n # 0 => n \div Base < n
  <1> DEFINE q == n \div Base
             r == n % Base
  <1>1. Base \in Nat /\ Base > 1
    BY Layouts
  <1>2. q \in Int /\ r \in Int /\ n = Base * q + r /\ 0 <= r /\ r < Base
    BY <1>1
  <1> HIDE DEF q, r
  <1>3. q >= 0
    <2> SUFFICES ASSUME q <= -1 PROVE FALSE
      BY <1>2
    <2>1. Base * q <= -Base
      BY <1>1, <1>2
    <2> QED BY <1>1, <1>2, <2>1
  <1>4. n # 0 => q < n
    <2> SUFFICES ASSUME n > 0, q >= n PROVE FALSE
      BY <1>2
    <2>1. PICK k \in Nat : Base = k + 2
      <3>1. Base - 2 \in Nat /\ Base = (Base - 2) + 2
        BY <1>1
      <3> QED BY <3>1, Zenon
    <2>2. k * q \in Nat
      BY <1>2, <1>3
    <2>3. Base * q = k * q + 2 * q
      BY <1>2, <2>1
    <2> DEFINE a == Base * q
               c == k * q
    <2>4. n = a + r /\ c \in Nat /\ a = c + 2 * q
      BY <1>2, <2>2, <2>3, Zenon
    <2> HIDE DEF a, c
    <2> QED BY <1>2, <1>3, <2>4
  <1> QED BY <1>2, <1>3, <1>4 DEF q, r

\* The powers of Base are the function PowerDef describes.
LEMMA PowerUnfold == \A n \in Nat :
    Power(n) = PowerDef(n, [i \in Nat |-> Power(i)])
  <1> DEFINE x == [of |-> "Power", arg |-> 0]
             below(g, n) == [i \in 0..(n - 1) |-> g[i]]
             IsF(f) == f = [n \in Nat |-> PowerDef(n, f)]
  <1>1. PICK g : g = [n \in Nat |-> Step(x, n, below(g, n))]
    BY Recursive, Zenon
  <1>2. ASSUME NEW n \in Nat PROVE Step(x, n, below(g, n)) = PowerDef(n, g)
    <2>1. Step(x, n, below(g, n)) = PowerDef(n, below(g, n))
      BY Zenon DEF Step
    <2>2. PowerDef(n, below(g, n)) = PowerDef(n, g)
      <3>1. n # 0 => n - 1 \in 0..(n - 1) /\ n - 1 \in Nat
        OBVIOUS
      <3> QED BY <3>1, Zenon DEF PowerDef
    <2> QED BY <2>1, <2>2, Zenon
  <1>3. IsF(g)
    BY <1>1, <1>2, Zenon
  <1> DEFINE F == CHOOSE f : IsF(f)
  <1>4. IsF(F)
    BY <1>3, Zenon
  <1>5. \A n : Power(n) = F[n]
    BY Zenon DEF Power
  <1> HIDE DEF F
  <1>6. F = [n \in Nat |-> Power(n)]
    BY <1>4, <1>5, Zenon
  <1> QED BY <1>4, <1>5, <1>6, Zenon

\* The bytes of a number are the function UintDef describes.
LEMMA UintUnfold == \A n \in Nat :
    uintToBytes(n) = UintDef(n, [i \in Nat |-> uintToBytes(i)])
  <1> DEFINE x == [of |-> "uintToBytes", arg |-> 0]
             below(g, n) == [i \in 0..(n - 1) |-> g[i]]
             IsF(f) == f = [n \in Nat |-> UintDef(n, f)]
  <1>1. PICK g : g = [n \in Nat |-> Step(x, n, below(g, n))]
    BY Recursive, Zenon
  <1>2. ASSUME NEW n \in Nat PROVE Step(x, n, below(g, n)) = UintDef(n, g)
    <2>1. Step(x, n, below(g, n)) = UintDef(n, below(g, n))
      BY Zenon DEF Step
    <2>2. UintDef(n, below(g, n)) = UintDef(n, g)
      <3>1. n # 0 => n \div Base \in 0..(n - 1) /\ n \div Base \in Nat
        BY Division
      <3> QED BY <3>1, Zenon DEF UintDef
    <2> QED BY <2>1, <2>2, Zenon
  <1>3. IsF(g)
    BY <1>1, <1>2, Zenon
  <1> DEFINE F == CHOOSE f : IsF(f)
  <1>4. IsF(F)
    BY <1>3, Zenon
  <1>5. \A n : uintToBytes(n) = F[n]
    BY Zenon DEF uintToBytes
  <1> HIDE DEF F
  <1>6. F = [n \in Nat |-> uintToBytes(n)]
    BY <1>4, <1>5, Zenon
  <1> QED BY <1>4, <1>5, <1>6, Zenon

\* The loop of decodeLength is the function NumberDef describes.
LEMMA NumberUnfold == \A b : \A n \in Nat :
    NumberTo(b, n) = NumberDef(b, n, [i \in Nat |-> NumberTo(b, i)])
  <1> TAKE b
  <1> DEFINE x == [of |-> "Number", arg |-> b]
             below(g, n) == [i \in 0..(n - 1) |-> g[i]]
             IsF(f) == f = [n \in Nat |-> NumberDef(b, n, f)]
  <1>1. PICK g : g = [n \in Nat |-> Step(x, n, below(g, n))]
    BY Recursive, Zenon
  <1>2. ASSUME NEW n \in Nat PROVE Step(x, n, below(g, n)) = NumberDef(b, n, g)
    <2>1. Step(x, n, below(g, n)) = NumberDef(b, n, below(g, n))
      BY Zenon DEF Step
    <2>2. NumberDef(b, n, below(g, n)) = NumberDef(b, n, g)
      <3>1. n # 0 => n - 1 \in 0..(n - 1) /\ n - 1 \in Nat
        OBVIOUS
      <3> QED BY <3>1, Zenon DEF NumberDef
    <2> QED BY <2>1, <2>2, Zenon
  <1>3. IsF(g)
    BY <1>1, <1>2, Zenon
  <1> DEFINE F == CHOOSE f : IsF(f)
  <1>4. IsF(F)
    BY <1>3, Zenon
  <1>5. \A n : NumberTo(b, n) = F[n]
    BY Zenon DEF NumberTo
  <1> HIDE DEF F
  <1>6. F = [n \in Nat |-> NumberTo(b, n)]
    BY <1>4, <1>5, Zenon
  <1> QED BY <1>4, <1>5, <1>6, Zenon

\* So is the loop that copies the items,
LEMMA JoinUnfold == \A items : \A n \in Nat :
    JoinTo(items, n) = JoinDef(items, n, [i \in Nat |-> JoinTo(items, i)])
  <1> TAKE items
  <1> DEFINE x == [of |-> "Join", arg |-> items]
             below(g, n) == [i \in 0..(n - 1) |-> g[i]]
             IsF(f) == f = [n \in Nat |-> JoinDef(items, n, f)]
  <1>1. PICK g : g = [n \in Nat |-> Step(x, n, below(g, n))]
    BY Recursive, Zenon
  <1>2. ASSUME NEW n \in Nat PROVE Step(x, n, below(g, n)) = JoinDef(items, n, g)
    <2>1. Step(x, n, below(g, n)) = JoinDef(items, n, below(g, n))
      BY Zenon DEF Step
    <2>2. JoinDef(items, n, below(g, n)) = JoinDef(items, n, g)
      <3>1. n # 0 => n - 1 \in 0..(n - 1) /\ n - 1 \in Nat
        OBVIOUS
      <3> QED BY <3>1, Zenon DEF JoinDef
    <2> QED BY <2>1, <2>2, Zenon
  <1>3. IsF(g)
    BY <1>1, <1>2, Zenon
  <1> DEFINE F == CHOOSE f : IsF(f)
  <1>4. IsF(F)
    BY <1>3, Zenon
  <1>5. \A n : JoinTo(items, n) = F[n]
    BY Zenon DEF JoinTo
  <1> HIDE DEF F
  <1>6. F = [n \in Nat |-> JoinTo(items, n)]
    BY <1>4, <1>5, Zenon
  <1> QED BY <1>4, <1>5, <1>6, Zenon

\* the values of each nesting,
LEMMA ValuesUnfold == \A n \in Nat :
    Values(n) = ValuesDef(n, [i \in Nat |-> Values(i)])
  <1> DEFINE x == [of |-> "Values", arg |-> 0]
             below(g, n) == [i \in 0..(n - 1) |-> g[i]]
             IsF(f) == f = [n \in Nat |-> ValuesDef(n, f)]
  <1>1. PICK g : g = [n \in Nat |-> Step(x, n, below(g, n))]
    BY Recursive, Zenon
  <1>2. ASSUME NEW n \in Nat PROVE Step(x, n, below(g, n)) = ValuesDef(n, g)
    <2>1. Step(x, n, below(g, n)) = ValuesDef(n, below(g, n))
      BY Zenon DEF Step
    <2>2. ValuesDef(n, below(g, n)) = ValuesDef(n, g)
      <3>1. n # 0 => n - 1 \in 0..(n - 1) /\ n - 1 \in Nat
        OBVIOUS
      <3> QED BY <3>1, Zenon DEF ValuesDef
    <2> QED BY <2>1, <2>2, Zenon
  <1>3. IsF(g)
    BY <1>1, <1>2, Zenon
  <1> DEFINE F == CHOOSE f : IsF(f)
  <1>4. IsF(F)
    BY <1>3, Zenon
  <1>5. \A n : Values(n) = F[n]
    BY Zenon DEF Values
  <1> HIDE DEF F
  <1>6. F = [n \in Nat |-> Values(n)]
    BY <1>4, <1>5, Zenon
  <1> QED BY <1>4, <1>5, <1>6, Zenon

\* A value is a byte string or, within some nesting, a list of values.
LEMMA InValues == \A n \in Nat : \A v :
    v \in Values(n) <=>
        \/ v \in [t : {"bytes"}, b : Seq(Byte)]
        \/ n # 0 /\ v \in [t : {"list"}, l : Seq(Values(n - 1))]
  <1> TAKE n \in Nat
  <1> TAKE v
  <1> DEFINE V == [i \in Nat |-> Values(i)]
             S == [t : {"bytes"}, b : Seq(Byte)]
             L(U) == [t : {"list"}, l : Seq(U)]
  <1>1. n # 0 => n - 1 \in Nat
    OBVIOUS
  <1>2. n # 0 => V[n - 1] = Values(n - 1)
    BY <1>1, Zenon
  <1>3. Values(n) = S \cup (IF n = 0 THEN {} ELSE L(V[n - 1]))
    BY ValuesUnfold, Zenon DEF ValuesDef
  <1> HIDE DEF V, S, L
  <1>4. v \in Values(n) <=> v \in S \/ (n # 0 /\ v \in L(Values(n - 1)))
    BY <1>2, <1>3
  <1> QED BY <1>4, Zenon DEF S, L

\* and their encoding.
LEMMA EncoderUnfold == \A n \in Nat :
    Encoder(n) = EncodeDef(n, [i \in Nat |-> Encoder(i)])
  <1> DEFINE x == [of |-> "Encode", arg |-> 0]
             below(g, n) == [i \in 0..(n - 1) |-> g[i]]
             IsF(f) == f = [n \in Nat |-> EncodeDef(n, f)]
  <1>1. PICK g : g = [n \in Nat |-> Step(x, n, below(g, n))]
    BY Recursive, Zenon
  <1>2. ASSUME NEW n \in Nat PROVE Step(x, n, below(g, n)) = EncodeDef(n, g)
    <2>1. Step(x, n, below(g, n)) = EncodeDef(n, below(g, n))
      BY Zenon DEF Step
    <2>2. EncodeDef(n, below(g, n)) = EncodeDef(n, g)
      <3>1. CASE n # 0
        <4>1. n - 1 \in 0..(n - 1) /\ n - 1 \in Nat
          BY <3>1
        <4>2. below(g, n)[n - 1] = g[n - 1]
          BY <4>1, Zenon
        <4> HIDE DEF below
        <4> QED BY <4>2, Zenon DEF EncodeDef
      <3>2. CASE n = 0
        <4>1. \A v \in Values(n) : v.t = "bytes"
          BY <3>2, InValues
        <4> HIDE DEF below
        <4> QED BY <4>1, Zenon DEF EncodeDef
      <3> QED BY <3>1, <3>2, Zenon
    <2> QED BY <2>1, <2>2, Zenon
  <1>3. IsF(g)
    BY <1>1, <1>2, Zenon
  <1> DEFINE F == CHOOSE f : IsF(f)
  <1>4. IsF(F)
    BY <1>3, Zenon
  <1>5. \A n : Encoder(n) = F[n]
    BY Zenon DEF Encoder
  <1> HIDE DEF F
  <1>6. F = [n \in Nat |-> Encoder(n)]
    BY <1>4, <1>5, Zenon
  <1> QED BY <1>4, <1>5, <1>6, Zenon

------------------------------------------------------------------------------
(* Numbers and their bytes.                                                *)

\* The powers of Base grow by the factor Base.
LEMMA PowerIs ==
    /\ Power(0) = 1
    /\ \A n \in Nat : Power(n) \in Nat /\ Power(n + 1) = Base * Power(n) /\ Power(n) > n
  <1> DEFINE P == [i \in Nat |-> Power(i)]
             S == {n \in Nat : Power(n) \in Nat /\ Power(n) > n}
  <1>1. Base \in Nat /\ Base > 1
    BY Layouts
  <1>2. Power(0) = 1
    BY PowerUnfold, Zenon DEF PowerDef
  <1>3. ASSUME NEW n \in Nat PROVE Power(n + 1) = Base * Power(n)
    <2>1. n + 1 \in Nat /\ n + 1 # 0 /\ (n + 1) - 1 = n
      OBVIOUS
    <2>2. P[(n + 1) - 1] = Power(n)
      BY <2>1, Zenon
    <2>3. Power(n + 1) = PowerDef(n + 1, P)
      BY <2>1, PowerUnfold, Zenon
    <2> HIDE DEF P
    <2> QED BY <2>1, <2>2, <2>3, Zenon DEF PowerDef
  <1>4. 0 \in S
    BY <1>2
  <1>5. ASSUME NEW n \in Nat, n \in S PROVE n + 1 \in S
    <2> DEFINE p == Power(n)
    <2>1. p \in Nat /\ p > n /\ Power(n + 1) = Base * p
      BY <1>3, <1>5, Zenon
    <2> HIDE DEF p
    <2>2. PICK k \in Nat : Base = k + 2
      <3>1. Base - 2 \in Nat /\ Base = (Base - 2) + 2
        BY <1>1
      <3> QED BY <3>1, Zenon
    <2>3. k * p \in Nat /\ Base * p = k * p + 2 * p
      BY <2>1, <2>2
    <2> DEFINE q == k * p
    <2>4. q \in Nat /\ Power(n + 1) = q + 2 * p
      BY <2>1, <2>3, Zenon
    <2> HIDE DEF q
    <2> QED BY <2>1, <2>4
  <1>6. \A n \in Nat : n \in S
    <2>1. S \subseteq Nat
      BY Zenon
    <2> HIDE DEF S
    <2> QED BY <1>4, <1>5, <2>1, InductionNext, Zenon
  <1> QED BY <1>2, <1>3, <1>6, Zenon

\* A larger power is at least a factor Base larger.
LEMMA PowerGrows ==
    ASSUME NEW m \in Nat, NEW n \in Nat, m < n
    PROVE  Base * Power(m) <= Power(n)
  <1> DEFINE S == {k \in Nat : Base * Power(m) <= Power(m + 1 + k)}
  <1>1. Base \in Nat /\ Base > 1 /\ Power(m) \in Nat
    <2>1. Power(m) \in Nat
      BY PowerIs, Zenon
    <2> QED BY <2>1, Layouts
  <1>2. Base * Power(m) \in Nat
    BY <1>1
  <1>3. m + 1 + 0 = m + 1 /\ Power(m + 1) = Base * Power(m)
    <2>1. Power(m + 1) = Base * Power(m)
      BY PowerIs, Zenon
    <2> QED BY <2>1
  <1>4. 0 \in S
    BY <1>2, <1>3
  <1>5. ASSUME NEW k \in Nat, k \in S PROVE k + 1 \in S
    <2> DEFINE p == Power(m + 1 + k)
    <2>1. m + 1 + k \in Nat /\ m + 1 + (k + 1) = (m + 1 + k) + 1 /\ k + 1 \in Nat
      OBVIOUS
    <2>2. p \in Nat /\ Power(m + 1 + (k + 1)) = Base * p
      BY <2>1, PowerIs, Zenon
    <2> HIDE DEF p
    <2>3. Base * p >= p
      BY <1>1, <2>2
    <2>4. Base * Power(m) <= p
      BY <1>5, Zenon DEF p
    <2>5. Base * Power(m) <= Base * p
      <3> DEFINE a == Base * Power(m)
                 b == Base * p
      <3>1. a \in Nat /\ b \in Int /\ b >= p /\ a <= p
        BY <1>1, <1>2, <2>2, <2>3, <2>4
      <3> HIDE DEF a, b
      <3>2. a <= b
        BY <2>2, <3>1
      <3> QED BY <3>2, Zenon DEF a, b
    <2> QED BY <2>1, <2>2, <2>5, Zenon
  <1>6. \A k \in Nat : k \in S
    <2>1. S \subseteq Nat
      BY Zenon
    <2> HIDE DEF S
    <2> QED BY <1>4, <1>5, <2>1, InductionNext, Zenon
  <1>7. n - m - 1 \in Nat /\ m + 1 + (n - m - 1) = n
    OBVIOUS
  <1> QED BY <1>6, <1>7, Zenon

\* The number in a sequence that grows by one byte.
LEMMA NumberAppend ==
    ASSUME NEW b \in Seq(Byte), NEW c \in Byte
    PROVE  Number(Append(b, c)) = Number(b) * Base + c
  <1> DEFINE a == Append(b, c)
             S == {n \in Nat : n <= Len(b) => NumberTo(a, n) = NumberTo(b, n)}
  <1>1. Len(b) \in Nat /\ Len(a) = Len(b) + 1 /\ a[Len(b) + 1] = c
    OBVIOUS
  <1>2. \A i \in 1..Len(b) : a[i] = b[i]
    OBVIOUS
  <1> HIDE DEF a
  <1>3. \A s : NumberTo(s, 0) = 0
    BY NumberUnfold, Zenon DEF NumberDef
  <1>4. \A s : \A n \in Nat : NumberTo(s, n + 1) = NumberTo(s, n) * Base + s[n + 1]
    <2> TAKE s
    <2> TAKE n \in Nat
    <2> DEFINE P == [i \in Nat |-> NumberTo(s, i)]
    <2>1. n + 1 \in Nat /\ n + 1 # 0 /\ (n + 1) - 1 = n
      OBVIOUS
    <2>2. P[(n + 1) - 1] = NumberTo(s, n)
      BY <2>1, Zenon
    <2>3. NumberTo(s, n + 1) = NumberDef(s, n + 1, P)
      BY <2>1, NumberUnfold, Zenon
    <2> HIDE DEF P
    <2> QED BY <2>1, <2>2, <2>3, Zenon DEF NumberDef
  <1>5. 0 \in S
    BY <1>3, Zenon
  <1>6. ASSUME NEW n \in Nat, n \in S PROVE n + 1 \in S
    <2> SUFFICES ASSUME n + 1 <= Len(b) PROVE NumberTo(a, n + 1) = NumberTo(b, n + 1)
      OBVIOUS
    <2>1. n <= Len(b) /\ n + 1 \in 1..Len(b)
      BY <1>1
    <2> QED BY <1>2, <1>4, <1>6, <2>1, Zenon
  <1>7. Len(b) \in S
    <2>1. S \subseteq Nat
      BY Zenon
    <2> HIDE DEF S
    <2> QED BY <1>1, <1>5, <1>6, <2>1, InductionNext, Zenon
  <1>8. NumberTo(a, Len(b)) = NumberTo(b, Len(b))
    BY <1>1, <1>7
  <1>9. Number(a) = NumberTo(a, Len(b)) * Base + a[Len(b) + 1]
    BY <1>1, <1>4, Zenon DEF Number
  <1> QED BY <1>1, <1>8, <1>9, Zenon DEF Number, a

\* A sequence that is not empty is its front and its last element.
LEMMA FrontLast ==
    ASSUME NEW T, NEW s \in Seq(T), NEW n \in Nat, Len(s) = n + 1
    PROVE  \E u \in Seq(T), c \in T : /\ s = Append(u, c) /\ Len(u) = n
                                      /\ \A i \in 1..n : u[i] = s[i]
  <1> DEFINE u == [i \in 1..n |-> s[i]]
             c == s[n + 1]
  <1>1. u \in Seq(T) /\ Len(u) = n /\ c \in T
    OBVIOUS
  <1>2. \A i \in 1..n : u[i] = s[i]
    OBVIOUS
  <1>3. s = Append(u, c)
    BY <1>1, <1>2
  <1> QED BY <1>1, <1>2, <1>3

\* A sequence of one element.
LEMMA Singleton ==
    ASSUME NEW T, NEW s \in Seq(T), Len(s) = 1
    PROVE  s = <<s[1]>> /\ s[1] \in T
  OBVIOUS

\* Induction over sequences: P, the ones that are fine, as a set.
LEMMA AppendInduction ==
    ASSUME NEW T, NEW P, <<>> \in P, \A s \in Seq(T), c \in T : s \in P => Append(s, c) \in P
    PROVE  \A s \in Seq(T) : s \in P
  <1> DEFINE S == {n \in Nat : \A s \in Seq(T) : Len(s) = n => s \in P}
  <1>1. 0 \in S
    <2>1. \A s \in Seq(T) : Len(s) = 0 => s = <<>>
      OBVIOUS
    <2> QED BY <2>1, Zenon
  <1>2. ASSUME NEW n \in Nat, n \in S PROVE n + 1 \in S
    <2>1. n + 1 \in Nat
      OBVIOUS
    <2> SUFFICES ASSUME NEW s \in Seq(T), Len(s) = n + 1 PROVE s \in P
      BY <2>1, Zenon
    <2>2. PICK u \in Seq(T), c \in T : /\ s = Append(u, c) /\ Len(u) = n
                                        /\ \A i \in 1..n : u[i] = s[i]
      BY FrontLast, Zenon
    <2> QED BY <1>2, <2>2, Zenon
  <1>3. \A n \in Nat : n \in S
    <2>1. S \subseteq Nat
      BY Zenon
    <2> HIDE DEF S
    <2> QED BY <1>1, <1>2, <2>1, InductionNext, Zenon
  <1>4. \A s \in Seq(T) : Len(s) \in Nat
    OBVIOUS
  <1> QED BY <1>3, <1>4, Zenon

\* A digit and what is before it are what division by Base yields.
LEMMA Digits ==
    ASSUME NEW q \in Nat, NEW c \in Byte
    PROVE  /\ q * Base + c \in Nat
           /\ (q * Base + c) \div Base = q /\ (q * Base + c) % Base = c
           /\ q # 0 => q * Base + c > q
  <1> DEFINE n == q * Base + c
             d == n \div Base
             r == n % Base
  <1>1. Base \in Nat /\ Base > 1 /\ c \in Nat /\ c < Base
    BY Layouts DEF Byte
  <1>2. n \in Nat
    BY <1>1
  <1>3. d \in Nat /\ r \in Nat /\ r < Base /\ n = Base * d + r
    BY <1>2, Division, Zenon
  <1> HIDE DEF d, r
  <1>4. ~(d > q)
    <2> SUFFICES ASSUME d > q PROVE FALSE
      OBVIOUS
    <2>1. PICK k \in Nat : d = q + 1 + k
      <3>1. d - q - 1 \in Nat /\ d = q + 1 + (d - q - 1)
        BY <1>3
      <3> QED BY <3>1, Zenon
    <2>2. Base * d = q * Base + Base + Base * k /\ Base * k \in Nat /\ q * Base \in Nat
      BY <1>1, <2>1
    <2> DEFINE x == q * Base
               y == Base * k
    <2>3. x \in Nat /\ y \in Nat /\ x + c = x + Base + y + r
      BY <1>1, <1>3, <2>2
    <2> HIDE DEF x, y
    <2> QED BY <1>1, <1>3, <2>3
  <1>5. ~(q > d)
    <2> SUFFICES ASSUME q > d PROVE FALSE
      OBVIOUS
    <2>1. PICK k \in Nat : q = d + 1 + k
      <3>1. q - d - 1 \in Nat /\ q = d + 1 + (q - d - 1)
        BY <1>3
      <3> QED BY <3>1, Zenon
    <2>2. q * Base = Base * d + Base + Base * k /\ Base * k \in Nat /\ Base * d \in Nat
      BY <1>1, <1>3, <2>1
    <2> DEFINE x == Base * d
               y == Base * k
    <2>3. x \in Nat /\ y \in Nat /\ x + Base + y + c = x + r
      BY <1>1, <1>3, <2>2
    <2> HIDE DEF x, y
    <2> QED BY <1>1, <1>3, <2>3
  <1>6. d = q
    BY <1>3, <1>4, <1>5
  <1>7. r = c
    <2>1. q * Base + c = Base * q + r
      BY <1>3, <1>6, Zenon
    <2>2. q * Base \in Nat /\ Base * q = q * Base
      BY <1>1
    <2> DEFINE x == q * Base
    <2>3. x \in Nat /\ x + c = x + r
      BY <2>1, <2>2, Zenon
    <2> HIDE DEF x
    <2> QED BY <1>1, <1>3, <2>3
  <1>8. q # 0 => n > q
    <2>1. PICK k \in Nat : Base = k + 2
      <3>1. Base - 2 \in Nat /\ Base = (Base - 2) + 2
        BY <1>1
      <3> QED BY <3>1, Zenon
    <2>2. q * Base = q * k + 2 * q /\ q * k \in Nat
      BY <2>1
    <2> DEFINE y == q * k
    <2>3. n = y + 2 * q + c /\ y \in Nat
      BY <2>2, Zenon
    <2> HIDE DEF y, n
    <2> QED BY <1>1, <2>3
  <1> QED BY <1>2, <1>6, <1>7, <1>8, Zenon DEF d, r

\* No bytes are zero.
LEMMA NumberEmpty == Number(<<>>) = 0 /\ Len(<<>>) = 0
  <1>1. Len(<<>>) = 0 /\ 0 \in Nat
    OBVIOUS
  <1>2. NumberTo(<<>>, 0) = 0
    BY <1>1, NumberUnfold, Zenon DEF NumberDef
  <1> QED BY <1>1, <1>2, Zenon DEF Number

\* n bytes hold a number below Power(n).
LEMMA NumberBound ==
    \A b \in Seq(Byte) : Number(b) \in Nat /\ Number(b) < Power(Len(b))
  <1> DEFINE P == {b \in Seq(Byte) : Number(b) \in Nat /\ Number(b) < Power(Len(b))}
  <1>1. Number(<<>>) = 0 /\ Len(<<>>) = 0
    BY NumberEmpty, Zenon
  <1>2. <<>> \in P
    <2>1. <<>> \in Seq(Byte) /\ 0 \in Nat /\ 0 < 1
      OBVIOUS
    <2>2. Power(0) = 1
      BY PowerIs, Zenon
    <2> QED BY <1>1, <2>1, <2>2, Zenon
  <1>3. ASSUME NEW b \in Seq(Byte), NEW c \in Byte, b \in P PROVE Append(b, c) \in P
    <2> DEFINE q == Number(b)
               p == Power(Len(b))
    <2>1. Len(b) \in Nat /\ Append(b, c) \in Seq(Byte) /\ Len(Append(b, c)) = Len(b) + 1
      OBVIOUS
    <2>2. Number(Append(b, c)) = q * Base + c
      BY NumberAppend, Zenon
    <2>3. p \in Nat /\ Power(Len(b) + 1) = Base * p
      BY <2>1, PowerIs, Zenon
    <2>4. q \in Nat /\ q < p
      BY <1>3, Zenon
    <2> HIDE DEF q, p
    <2>5. Base \in Nat /\ Base > 1 /\ c \in Nat /\ c < Base
      BY Layouts DEF Byte
    <2>6. PICK k \in Nat : p = q + 1 + k
      <3>1. p - q - 1 \in Nat /\ p = q + 1 + (p - q - 1)
        BY <2>3, <2>4
      <3> QED BY <3>1, Zenon
    <2>7. q * Base + c \in Nat /\ q * Base + c < Base * p
      <3>1. Base * p = q * Base + Base + Base * k /\ Base * k \in Nat /\ q * Base \in Nat
        BY <2>4, <2>5, <2>6
      <3> DEFINE x == q * Base
                 y == Base * k
      <3>2. Base * p = x + Base + y /\ x \in Nat /\ y \in Nat
        BY <3>1, Zenon
      <3> DEFINE z == Base * p
      <3> HIDE DEF x, y
      <3>3. x + c \in Nat /\ x + c < x + Base + y
        BY <2>5, <3>2
      <3> QED BY <3>2, <3>3, Zenon DEF x
    <2> QED BY <2>1, <2>2, <2>3, <2>7, Zenon
  <1>4. \A b \in Seq(Byte) : b \in P
    <2> HIDE DEF P
    <2> QED BY <1>2, <1>3, AppendInduction, Zenon
  <1> QED BY <1>4, Zenon

\* The bytes of a number, without leading zeros.
Minimal(b) == b = <<>> \/ b[1] # 0

\* uintToBytes gives the last digit after the others.
LEMMA UintStep ==
    /\ uintToBytes(0) = <<>>
    /\ \A n \in Nat : n # 0 =>
         uintToBytes(n) = Append(uintToBytes(n \div Base), n % Base)
  <1>1. uintToBytes(0) = <<>>
    BY UintUnfold, Zenon DEF UintDef
  <1>2. ASSUME NEW n \in Nat, n # 0
        PROVE  uintToBytes(n) = Append(uintToBytes(n \div Base), n % Base)
    <2> DEFINE U == [i \in Nat |-> uintToBytes(i)]
    <2>1. n \div Base \in Nat
      BY Division, Zenon
    <2>2. U[n \div Base] = uintToBytes(n \div Base)
      BY <2>1, Zenon
    <2>3. uintToBytes(n) = UintDef(n, U)
      BY UintUnfold, Zenon
    <2> HIDE DEF U
    <2> QED BY <1>2, <2>2, <2>3, Zenon DEF UintDef
  <1> QED BY <1>1, <1>2, Zenon

\* uintToBytes gives bytes that hold the number, the first of them not zero.
LEMMA UintIs == \A n \in Nat :
    /\ uintToBytes(n) \in Seq(Byte)
    /\ Number(uintToBytes(n)) = n
    /\ Minimal(uintToBytes(n))
    /\ n # 0 => uintToBytes(n) # <<>>
  <1> DEFINE Good(n) == /\ uintToBytes(n) \in Seq(Byte) /\ Number(uintToBytes(n)) = n
                        /\ Minimal(uintToBytes(n))
                        /\ n # 0 => uintToBytes(n) # <<>>
             S == {n \in Nat : Good(n)}
  <1>1. Good(0)
    <2>1. <<>> \in Seq(Byte)
      OBVIOUS
    <2> QED BY <2>1, UintStep, NumberEmpty, Zenon DEF Minimal
  <1>2. ASSUME NEW n \in Nat, \A i \in 0..(n - 1) : i \in S PROVE n \in S
    <2>1. CASE n = 0
      BY <1>1, <2>1, Zenon
    <2>2. CASE n # 0
      <3> DEFINE q == n \div Base
                 c == n % Base
                 u == uintToBytes(q)
      <3>1. q \in Nat /\ c \in Nat /\ c < Base /\ n = Base * q + c /\ q < n
        BY <2>2, Division, Zenon
      <3>2. uintToBytes(n) = Append(u, c)
        BY <2>2, UintStep, Zenon
      <3> HIDE DEF q, c
      <3>3. q \in 0..(n - 1) /\ c \in Byte /\ n = q * Base + c
        BY <3>1, Layouts DEF Byte
      <3>4. Good(q)
        BY <1>2, <3>3, Zenon
      <3> HIDE DEF u
      <3>5. u \in Seq(Byte) /\ Number(u) = q /\ Minimal(u) /\ (q # 0 => u # <<>>)
        BY <3>4, Zenon DEF u
      <3>6. Append(u, c) \in Seq(Byte) /\ Append(u, c) # <<>>
        BY <3>3, <3>5
      <3>7. Number(Append(u, c)) = n
        BY <3>3, <3>5, NumberAppend, Zenon
      <3>8. Append(u, c)[1] # 0
        <4>1. CASE u = <<>>
          <5>1. q = 0
            BY <3>5, <4>1, Zenon
          <5>2. c = n
            <6>1. 0 * Base + c = c
              BY <3>3, Layouts DEF Byte
            <6> QED BY <3>3, <5>1, <6>1, Zenon
          <5>3. Append(u, c)[1] = c
            BY <4>1
          <5> QED BY <2>2, <5>2, <5>3, Zenon
        <4>2. CASE u # <<>>
          <5>1. Append(u, c)[1] = u[1]
            BY <3>3, <3>5, <4>2
          <5> QED BY <3>5, <4>2, <5>1, Zenon DEF Minimal
        <4> QED BY <4>1, <4>2, Zenon
      <3> QED BY <3>2, <3>6, <3>7, <3>8, Zenon DEF Minimal
    <2> QED BY <2>1, <2>2, Zenon
  <1>3. \A n \in Nat : n \in S
    <2>1. S \subseteq Nat
      BY Zenon
    <2> HIDE DEF S
    <2> QED BY <1>2, <2>1, Induction, Zenon
  <1> QED BY <1>3, Zenon

\* Bytes without leading zeros are the bytes of the number they hold.
LEMMA NumberUint == \A b \in Seq(Byte) : Minimal(b) => uintToBytes(Number(b)) = b
  <1> DEFINE P == {b \in Seq(Byte) : Minimal(b) => uintToBytes(Number(b)) = b}
  <1>1. <<>> \in P
    <2>1. <<>> \in Seq(Byte)
      OBVIOUS
    <2> QED BY <2>1, UintStep, NumberEmpty, Zenon
  <1>2. ASSUME NEW b \in Seq(Byte), NEW c \in Byte, b \in P PROVE Append(b, c) \in P
    <2> DEFINE q == Number(b)
               a == Append(b, c)
               n == q * Base + c
    <2>1. a \in Seq(Byte) /\ a # <<>> /\ (b = <<>> => a[1] = c) /\ (b # <<>> => a[1] = b[1])
      OBVIOUS
    <2>2. Number(a) = n
      BY NumberAppend, Zenon
    <2>3. q \in Nat
      BY NumberBound, Zenon
    <2>4. n \in Nat /\ n \div Base = q /\ n % Base = c
      BY <2>3, Digits, Zenon
    <2> SUFFICES ASSUME Minimal(a) PROVE uintToBytes(n) = a
      BY <2>1, <2>2, Zenon
    <2>5. a[1] # 0
      BY <2>1, Zenon DEF Minimal
    <2>6. Minimal(b)
      BY <2>1, <2>5, Zenon DEF Minimal
    <2>7. uintToBytes(q) = b
      BY <1>2, <2>6, Zenon
    <2>8. n # 0
      <3>1. CASE b = <<>>
        <4>1. c # 0 /\ q = 0
          BY <2>1, <2>5, <3>1, NumberEmpty, Zenon
        <4>2. 0 * Base + c = c
          BY Layouts DEF Byte
        <4> QED BY <4>1, <4>2, Zenon
      <3>2. CASE b # <<>>
        <4>1. q # 0
          BY <2>7, <3>2, UintStep, Zenon
        <4>2. n > q
          BY <2>3, <4>1, Digits, Zenon
        <4> HIDE DEF n, q
        <4> QED BY <2>3, <2>4, <4>2
      <3> QED BY <3>1, <3>2, Zenon
    <2> HIDE DEF n, q
    <2> QED BY <2>4, <2>7, <2>8, UintStep, Zenon
  <1>3. \A b \in Seq(Byte) : b \in P
    <2> HIDE DEF P
    <2> QED BY <1>1, <1>2, AppendInduction, Zenon
  <1> QED BY <1>3, Zenon

\* No power is below an earlier one.
LEMMA PowerMonotone ==
    ASSUME NEW m \in Nat, NEW n \in Nat, m <= n
    PROVE  Power(m) <= Power(n)
  <1> DEFINE p == Power(m)
             r == Power(n)
  <1>1. p \in Nat /\ r \in Nat
    BY PowerIs, Zenon
  <1>2. m < n => Base * p <= r
    BY PowerGrows, Zenon
  <1>3. m = n => p = r
    BY Zenon
  <1> HIDE DEF p, r
  <1>4. Base * p >= p
    BY <1>1, Layouts
  <1>5. p <= r
    <2> DEFINE x == Base * p
    <2>1. x \in Int /\ x >= p /\ (m < n => x <= r)
      BY <1>1, <1>2, <1>4, Layouts
    <2> HIDE DEF x
    <2> QED BY <1>1, <1>3, <2>1
  <1> QED BY <1>5, Zenon DEF p, r

\* A number has at most k bytes exactly if it is below Power(k).
LEMMA UintLen == \A n \in Nat : \A k \in Nat :
    Len(uintToBytes(n)) <= k <=> n < Power(k)
  <1> DEFINE S == {n \in Nat : \A k \in Nat : n < Power(k) => Len(uintToBytes(n)) <= k}
  <1>1. ASSUME NEW n \in Nat, \A i \in 0..(n - 1) : i \in S PROVE n \in S
    <2> SUFFICES ASSUME NEW k \in Nat, n < Power(k) PROVE Len(uintToBytes(n)) <= k
      BY Zenon
    <2>1. CASE n = 0
      <3>1. uintToBytes(n) = <<>>
        BY <2>1, UintStep, Zenon
      <3> QED BY <3>1
    <2>2. CASE n # 0
      <3> DEFINE q == n \div Base
                 c == n % Base
                 u == uintToBytes(q)
      <3>1. q \in Nat /\ c \in Nat /\ c < Base /\ n = Base * q + c /\ q < n
        BY <2>2, Division, Zenon
      <3>2. uintToBytes(n) = Append(u, c)
        BY <2>2, UintStep, Zenon
      <3> HIDE DEF q, c
      <3>3. q \in 0..(n - 1)
        BY <3>1
      <3>4. u \in Seq(Byte)
        BY <3>1, UintIs, Zenon
      <3>5. k # 0
        <4> SUFFICES ASSUME k = 0 PROVE FALSE
          OBVIOUS
        <4>1. n < 1
          BY PowerIs, Zenon
        <4> QED BY <2>2, <4>1
      <3>6. k - 1 \in Nat /\ (k - 1) + 1 = k
        BY <3>5
      <3> DEFINE p == Power(k - 1)
      <3>7. p \in Nat /\ Power(k) = Base * p
        BY <3>6, PowerIs, Zenon
      <3> HIDE DEF p, u
      <3>8. q < p
        <4> SUFFICES ASSUME q >= p PROVE FALSE
          BY <3>1, <3>7
        <4>1. PICK j \in Nat : q = p + j
          <5>1. q - p \in Nat /\ q = p + (q - p)
            BY <3>1, <3>7
          <5> QED BY <5>1, Zenon
        <4>2. Base * q = Base * p + Base * j /\ Base * j \in Nat /\ Base * p \in Nat
          BY <3>7, <4>1, Layouts
        <4> DEFINE x == Base * p
                   y == Base * j
        <4>3. x \in Nat /\ y \in Nat /\ n = (x + y) + c /\ n < x
          BY <3>1, <3>7, <4>2, Zenon
        <4> HIDE DEF x, y
        <4> QED BY <3>1, <4>3
      <3>9. Len(u) <= k - 1
        BY <1>1, <3>3, <3>6, <3>8, Zenon DEF p, u
      <3>10. Len(Append(u, c)) = Len(u) + 1 /\ Len(u) \in Nat
        BY <3>4
      <3> QED BY <3>2, <3>9, <3>10
    <2> QED BY <2>1, <2>2, Zenon
  <1>2. \A n \in Nat : n \in S
    <2>1. S \subseteq Nat
      BY Zenon
    <2> HIDE DEF S
    <2> QED BY <1>1, <2>1, Induction, Zenon
  <1>3. ASSUME NEW n \in Nat, NEW k \in Nat, Len(uintToBytes(n)) <= k PROVE n < Power(k)
    <2> DEFINE m == Len(uintToBytes(n))
               p == Power(m)
               r == Power(k)
    <2>1. uintToBytes(n) \in Seq(Byte) /\ Number(uintToBytes(n)) = n
      BY UintIs, Zenon
    <2>2. m \in Nat /\ m <= k
      BY <1>3, <2>1
    <2>3. n < p
      BY <2>1, NumberBound, Zenon
    <2>4. p \in Nat /\ r \in Nat
      BY <2>2, PowerIs, Zenon
    <2>5. p <= r
      BY <2>2, PowerMonotone, Zenon
    <2> HIDE DEF m, p, r
    <2>6. n < r
      BY <2>3, <2>4, <2>5
    <2> QED BY <2>6, Zenon DEF r
  <1> QED BY <1>2, <1>3, Zenon

------------------------------------------------------------------------------
(* Where an item lies.                                                     *)

\* The length after a prefix: it fits the word, and a shorter one with the bytes
\* before the payload does not reach its end.
LEMMA LengthBound ==
    ASSUME NEW d \in Seq(Byte), Len(d) > 0, Len(d) <= LenBytes
    PROVE  /\ Number(d) \in Nat /\ Number(d) < Word /\ Word \in Nat
           /\ Len(d) < LenBytes => 1 + Len(d) + Number(d) < Word
  <1> DEFINE k == Len(d)
             n == Number(d)
             p == Power(k)
  <1>1. k \in Nat /\ LenBytes \in Nat /\ 0 < k /\ k <= LenBytes
    BY Layouts
  <1>2. n \in Nat /\ n < p
    BY NumberBound, Zenon
  <1>3. p \in Nat /\ Word \in Nat /\ p > k
    BY <1>1, PowerIs, Zenon DEF Word
  <1>4. p <= Word
    BY <1>1, PowerMonotone, Zenon DEF Word
  <1>5. k < LenBytes => Base * p <= Word
    BY <1>1, PowerGrows, Zenon DEF Word
  <1> HIDE DEF k, n, p
  <1>6. PICK j \in Nat : Base = j + 2
    <2>1. Base - 2 \in Nat /\ Base = (Base - 2) + 2
      BY Layouts
    <2> QED BY <2>1, Zenon
  <1>7. Base * p = j * p + 2 * p /\ j * p \in Nat
    BY <1>3, <1>6
  <1> DEFINE y == j * p
  <1>8. y \in Nat /\ (k < LenBytes => y + 2 * p <= Word)
    BY <1>5, <1>7, Zenon
  <1> HIDE DEF y
  <1>9. n < Word /\ (k < LenBytes => 1 + k + n < Word)
    BY <1>1, <1>2, <1>3, <1>4, <1>8
  <1> QED BY <1>2, <1>3, <1>9, Zenon DEF k, n

\* A number below the modulus is its own remainder.
LEMMA SmallModulo ==
    ASSUME NEW a \in Nat, NEW m \in Nat, a < m
    PROVE  a % m = a
  <1> DEFINE q == a \div m
             r == a % m
  <1>1. q \in Int /\ r \in Int /\ a = m * q + r /\ 0 <= r /\ r < m
    OBVIOUS
  <1> HIDE DEF q, r
  <1>2. q = 0
    <2>1. q >= 1 => m * q >= m
      BY <1>1
    <2>2. q <= -1 => m * q <= -m
      BY <1>1
    <2> DEFINE x == m * q
    <2>3. x \in Int /\ a = x + r /\ (q >= 1 => x >= m) /\ (q <= -1 => x <= -m)
      BY <1>1, <2>1, <2>2
    <2> HIDE DEF x
    <2> QED BY <1>1, <2>3
  <1> QED BY <1>1, <1>2 DEF r

\* A long form that LongEnd accepts: d is its length and x where its payload lies.
LongOk(b, k, d, x) ==
    /\ Len(b) >= 1 + k /\ d \in Seq(Byte) /\ Len(d) = k /\ Minimal(d)
    /\ Number(d) \in Nat /\ Number(d) > ShortMax
    /\ x = [err |-> "ok", start |-> 2 + k, end |-> 1 + k + Number(d)]
    /\ 1 + k + Number(d) <= Len(b)

\* A length so near the end of the range that the bound wraps.
LongWraps(b, k, d) == k = LenBytes /\ Len(b) >= 1 + k /\ Number(d) >= Word - 1 - LenBytes

\* What LongEnd accepts, and where it would take a slice out of bounds.
LEMMA LongEndIs ==
    ASSUME NEW b \in Seq(Byte), NEW k \in 1..LenBytes
    PROVE  /\ LongEnd(b, k).err = "ok" => LongOk(b, k, SubSeq(b, 2, 1 + k), LongEnd(b, k))
           /\ LongEnd(b, k).err = "panic" /\ Len(b) <= MaxInputLen =>
                LongWraps(b, k, SubSeq(b, 2, 1 + k))
  <1>0. SUFFICES ASSUME NEW d, d = SubSeq(b, 2, 1 + k), NEW x, x = LongEnd(b, k)
                 PROVE  /\ x.err = "ok" => LongOk(b, k, d, x)
                        /\ x.err = "panic" /\ Len(b) <= MaxInputLen => LongWraps(b, k, d)
    BY Zenon
  <1> DEFINE n == Number(d)
             end == 1 + k + Signed(n)
  <1>1. x = IF Len(b) < 1 + k THEN Err("ErrTruncated")
            ELSE IF Len(d) > 1 /\ d[1] = 0 THEN Err("ErrInvalidEncoding")
            ELSE IF n <= ShortMax THEN Err("ErrInvalidEncoding")
            ELSE IF Len(b) < (1 + k + n) % Word THEN Err("ErrTruncated")
            ELSE IF end < 1 + k \/ end > Len(b) THEN Err("panic")
            ELSE [err |-> "ok", start |-> 2 + k, end |-> end]
    BY <1>0, Zenon DEF LongEnd
  <1>2. k \in Nat /\ k > 0 /\ k <= LenBytes /\ Len(b) \in Nat /\ ShortMax \in Nat /\ ShortMax > 0
    BY Layouts
  <1>3. \A e : Err(e).err = e
    BY Zenon DEF Err
  <1> SUFFICES ASSUME x.err \in {"ok", "panic"}
               PROVE  /\ x.err = "ok" => LongOk(b, k, d, x)
                      /\ x.err = "panic" /\ Len(b) <= MaxInputLen => LongWraps(b, k, d)
    OBVIOUS
  <1> HIDE DEF end
  <1>4. /\ ~(Len(b) < 1 + k) /\ ~(Len(d) > 1 /\ d[1] = 0) /\ ~(n <= ShortMax)
        /\ ~(Len(b) < (1 + k + n) % Word)
        /\ x.err = "panic" => end < 1 + k \/ end > Len(b)
        /\ x.err = "ok" => /\ ~(end < 1 + k \/ end > Len(b))
                           /\ x = [err |-> "ok", start |-> 2 + k, end |-> end]
    <2> HIDE DEF n
    <2> QED BY <1>1, <1>3
  <1>5. Len(b) >= 1 + k
    BY <1>2, <1>4
  <1>6. d \in Seq(Byte) /\ Len(d) = k
    BY <1>0, <1>2, <1>5
  <1>7. n \in Nat /\ n < Word /\ Word \in Nat /\ (k < LenBytes => 1 + k + n < Word)
    BY <1>2, <1>6, LengthBound, Zenon
  <1>8. n > ShortMax
    <2> HIDE DEF n
    <2> QED BY <1>2, <1>4, <1>7
  <1>9. Minimal(d)
    <2> SUFFICES ASSUME d # <<>>, d[1] = 0 PROVE FALSE
      BY Zenon DEF Minimal
    <2>1. d = <<d[1]>>
      <3>1. Len(d) = 1
        BY <1>2, <1>4, <1>6
      <3> QED BY <1>6, <3>1, Singleton, Zenon
    <2>2. Number(d) = d[1]
      <3>1. d = Append(<<>>, d[1]) /\ <<>> \in Seq(Byte) /\ d[1] \in Byte
        <4>1. d[1] \in Byte /\ Append(<<>>, d[1]) = <<d[1]>> /\ <<>> \in Seq(Byte)
          BY <1>2, <1>6
        <4> QED BY <2>1, <4>1, Zenon
      <3>2. Number(d) = 0 * Base + d[1]
        BY <3>1, NumberAppend, NumberEmpty, Zenon
      <3>3. 0 * Base + d[1] = d[1]
        BY <3>1, Layouts DEF Byte
      <3> QED BY <3>2, <3>3, Zenon
    <2>3. n = 0
      BY <2>2, Zenon
    <2> HIDE DEF n
    <2> QED BY <1>2, <1>8, <2>3
  <1>10. end = IF 2 * n < Word THEN 1 + k + n ELSE 1 + k + (n - Word)
    <2> HIDE DEF n
    <2> QED BY <1>7 DEF end, Signed
  <1>11. ASSUME x.err = "ok" PROVE 2 * n < Word /\ end = 1 + k + n /\ end <= Len(b)
    <2>1. ~(end < 1 + k) /\ ~(end > Len(b))
      BY <1>4, <1>11
    <2> HIDE DEF n
    <2> QED BY <1>2, <1>7, <1>10, <2>1
  <1>12. ASSUME x.err = "panic", Len(b) <= MaxInputLen PROVE k = LenBytes /\ n >= Word - 1 - LenBytes
    <2>1. end < 1 + k \/ end > Len(b)
      BY <1>4, <1>12
    <2>2. ~(1 + k + n < Word)
      <3> SUFFICES ASSUME 1 + k + n < Word PROVE FALSE
        OBVIOUS
      <3> HIDE DEF n
      <3>1. (1 + k + n) % Word = 1 + k + n
        <4>1. 1 + k + n \in Nat
          BY <1>2, <1>7
        <4> QED BY <1>7, <4>1, SmallModulo, Zenon
      <3>2. ~(Len(b) < 1 + k + n)
        BY <1>4, <3>1
      <3>3. 2 * n < Word
        BY <1>2, <1>7, <1>12, <3>2, RlpAssumption
      <3>4. end = 1 + k + n
        BY <1>10, <3>3
      <3> QED BY <1>2, <1>7, <2>1, <3>2, <3>4
    <2> HIDE DEF n
    <2>3. k = LenBytes /\ LenBytes \in Nat
      BY <1>2, <1>7, <2>2, Layouts
    <2> QED BY <1>2, <1>7, <2>2, <2>3
  <1> QED BY <1>4, <1>5, <1>6, <1>7, <1>8, <1>9, <1>11, <1>12, Zenon DEF LongOk, LongWraps

\* The payload of the item in x lies within b, after the prefix if there is one.
Lies(b, x) ==
    /\ x.start \in Nat /\ x.end \in Nat /\ 1 <= x.start /\ x.start <= x.end + 1
    /\ 1 <= x.end /\ x.end <= Len(b)

\* The item in x and what follows it.
Splits(b, x, short, long) == b = Prefixed(short, long, Payload(b, x)) \o From(b, x.end + 1)

\* A slice of b, and the rest after it.
LEMMA Slices ==
    ASSUME NEW T, NEW b \in Seq(T), NEW x, Lies(b, x)
    PROVE  /\ Payload(b, x) \in Seq(T) /\ Len(Payload(b, x)) = x.end + 1 - x.start
           /\ From(b, x.end + 1) \in Seq(T) /\ Len(From(b, x.end + 1)) = Len(b) - x.end
           /\ \A i \in 1..(x.end + 1 - x.start) : Payload(b, x)[i] = b[x.start + i - 1]
           /\ \A i \in 1..(Len(b) - x.end) : From(b, x.end + 1)[i] = b[x.end + i]
  <1> DEFINE s == x.start
             e == x.end
  <1>1. s \in Nat /\ e \in Nat /\ 1 <= s /\ s <= e + 1 /\ 1 <= e /\ e <= Len(b)
    BY Zenon DEF Lies
  <1> HIDE DEF s, e
  <1>2. /\ SubSeq(b, s, e) \in Seq(T) /\ Len(SubSeq(b, s, e)) = e + 1 - s
        /\ \A i \in 1..(e + 1 - s) : SubSeq(b, s, e)[i] = b[s + i - 1]
    BY <1>1
  <1>3. /\ SubSeq(b, e + 1, Len(b)) \in Seq(T) /\ Len(SubSeq(b, e + 1, Len(b))) = Len(b) - e
        /\ \A i \in 1..(Len(b) - e) : SubSeq(b, e + 1, Len(b))[i] = b[e + i]
    BY <1>1
  <1> QED BY <1>2, <1>3, Zenon DEF s, e, Payload, From

Associates(a, b, c) == (a \o b) \o c = a \o (b \o c)

\* One sequence after another.
LEMMA Concat ==
    ASSUME NEW T, NEW a \in Seq(T), NEW b \in Seq(T)
    PROVE  /\ a \o b \in Seq(T) /\ Len(a \o b) = Len(a) + Len(b)
           /\ \A i \in 1..Len(a) : (a \o b)[i] = a[i]
           /\ \A i \in 1..Len(b) : (a \o b)[Len(a) + i] = b[i]
           /\ a \o <<>> = a /\ <<>> \o a = a
           /\ \A c \in Seq(T) : Associates(a, b, c)
  <1>1. /\ a \o b \in Seq(T) /\ Len(a \o b) = Len(a) + Len(b)
        /\ \A i \in 1..Len(a) : (a \o b)[i] = a[i]
        /\ \A i \in 1..Len(b) : (a \o b)[Len(a) + i] = b[i]
        /\ a \o <<>> = a /\ <<>> \o a = a
    OBVIOUS
  <1>2. ASSUME NEW c \in Seq(T) PROVE Associates(a, b, c)
    BY ConcatTwice DEF Associates
  <1> QED BY <1>1, <1>2, Zenon

\* The second of two sequences, cut off after the first.
LEMMA After ==
    ASSUME NEW T, NEW a \in Seq(T), NEW b \in Seq(T)
    PROVE  /\ SubSeq(a \o b, Len(a) + 1, Len(a) + Len(b)) = b
           /\ SubSeq(a \o b, 1, Len(a)) = a
  OBVIOUS

\* Two neighbouring slices and a byte before them.
LEMMA Cut ==
    ASSUME NEW T, NEW b \in Seq(T), NEW s \in Nat, NEW e \in Nat, 2 <= s, s <= e + 1, e <= Len(b)
    PROVE  b = <<b[1]>> \o SubSeq(b, 2, s - 1) \o SubSeq(b, s, e) \o SubSeq(b, e + 1, Len(b))
  <1>1. b[1] \in T /\ Len(b) \in Nat /\ 1 <= Len(b)
    BY SMTT(30)
  <1>2. SubSeq(b, s, e) \o SubSeq(b, e + 1, Len(b)) = SubSeq(b, s, Len(b))
    <2>1. s \in 1..(Len(b) + 1) /\ e \in (s - 1)..Len(b) /\ Len(b) \in e..Len(b)
      BY <1>1
    <2> QED BY <2>1, SlicesMeet, Zenon
  <1>3. SubSeq(b, 2, s - 1) \o SubSeq(b, s, Len(b)) = SubSeq(b, 2, Len(b))
    <2>1. /\ 2 \in 1..(Len(b) + 1) /\ s - 1 \in (2 - 1)..Len(b) /\ Len(b) \in (s - 1)..Len(b)
          /\ (s - 1) + 1 = s
      BY <1>1
    <2>2. SubSeq(b, 2, s - 1) \o SubSeq(b, (s - 1) + 1, Len(b)) = SubSeq(b, 2, Len(b))
      BY <2>1, SlicesMeet, Zenon
    <2> QED BY <2>1, <2>2, Zenon
  <1>4. <<b[1]>> \o SubSeq(b, 2, Len(b)) = b
    BY <1>1, SMTT(30)
  <1> DEFINE A == <<b[1]>>
             B == SubSeq(b, 2, s - 1)
             C == SubSeq(b, s, e)
             D == SubSeq(b, e + 1, Len(b))
  <1>5. A \in Seq(T) /\ B \in Seq(T) /\ C \in Seq(T) /\ D \in Seq(T)
    BY <1>1
  <1> HIDE DEF A, B, C, D
  <1>6. Associates(A \o B, C, D) /\ Associates(A, B, C \o D)
    BY <1>5, Concat, Zenon
  <1> QED BY <1>2, <1>3, <1>4, <1>6, Zenon DEF A, B, C, D, Associates

\* The short form: b is the item in it and the rest.
LEMMA ShortForm ==
    ASSUME NEW b \in Seq(Byte), NEW short \in Nat, NEW long, NEW n \in Nat, n <= ShortMax,
           b # <<>>, b[1] = short + n,
           NEW x, x = [err |-> "ok", start |-> 2, end |-> 1 + n], 1 + n <= Len(b)
    PROVE  Lies(b, x) /\ Splits(b, x, short, long)
  <1>1. Lies(b, x)
    BY DEF Lies
  <1> DEFINE p == Payload(b, x)
             r == From(b, x.end + 1)
  <1>2. p \in Seq(Byte) /\ Len(p) = n
    <2>1. x.end + 1 - x.start = n
      OBVIOUS
    <2> QED BY <1>1, <2>1, Slices, Zenon
  <1>3. b = <<b[1]>> \o SubSeq(b, 2, 2 - 1) \o SubSeq(b, 2, 1 + n) \o SubSeq(b, (1 + n) + 1, Len(b))
    <2>1. 2 \in Nat /\ 1 + n \in Nat /\ 2 <= 2 /\ 2 <= (1 + n) + 1
      OBVIOUS
    <2> QED BY <2>1, Cut, Zenon
  <1>4. SubSeq(b, 2, 2 - 1) = <<>> /\ <<b[1]>> \o <<>> = <<b[1]>>
    OBVIOUS
  <1>5. p = SubSeq(b, 2, 1 + n) /\ r = SubSeq(b, (1 + n) + 1, Len(b))
    BY Zenon DEF Payload, From
  <1> HIDE DEF p, r
  <1>6. b = <<b[1]>> \o p \o r
    BY <1>3, <1>4, <1>5, Zenon
  <1>7. Prefixed(short, long, p) = <<short + n>> \o p
    BY <1>2, Zenon DEF Prefixed
  <1> QED BY <1>1, <1>6, <1>7, Zenon DEF Splits, p, r

\* The long form.
LEMMA LongForm ==
    ASSUME NEW b \in Seq(Byte), NEW short, NEW long \in Nat, NEW k \in 1..LenBytes,
           b # <<>>, b[1] = long + k,
           NEW d, d = SubSeq(b, 2, 1 + k), NEW x, x = LongEnd(b, k), x.err = "ok"
    PROVE  /\ Lies(b, x) /\ Splits(b, x, short, long)
           /\ x.start >= 2 /\ x.end + 1 - x.start > ShortMax
  <1> DEFINE n == Number(d)
  <1>1. /\ Len(b) >= 1 + k /\ d \in Seq(Byte) /\ Len(d) = k /\ Minimal(d)
        /\ n \in Nat /\ n > ShortMax
        /\ x = [err |-> "ok", start |-> 2 + k, end |-> 1 + k + n]
        /\ 1 + k + n <= Len(b)
    BY LongEndIs, Zenon DEF LongOk
  <1>2. uintToBytes(n) = d
    BY <1>1, NumberUint, Zenon
  <1> HIDE DEF n
  <1>3. x.start = 2 + k /\ x.end = 1 + k + n
    BY <1>1
  <1>4. k \in Nat /\ 1 <= k /\ k <= LenBytes /\ 2 + k \in Nat /\ 1 + k + n \in Nat
    BY <1>1, Layouts
  <1>5. Lies(b, x)
    <2>1. 1 <= 2 + k /\ 2 + k <= (1 + k + n) + 1 /\ 1 <= 1 + k + n
      BY <1>1, <1>4
    <2> QED BY <1>1, <1>3, <1>4, <2>1, Zenon DEF Lies
  <1> DEFINE p == Payload(b, x)
             r == From(b, x.end + 1)
  <1>6. p \in Seq(Byte) /\ Len(p) = n
    <2>1. x.end + 1 - x.start = n
      BY <1>1, <1>3, <1>4
    <2> QED BY <1>5, <2>1, Slices, Zenon
  <1>7. b = <<b[1]>> \o SubSeq(b, 2, (2 + k) - 1) \o SubSeq(b, 2 + k, 1 + k + n)
              \o SubSeq(b, (1 + k + n) + 1, Len(b))
    <2>1. 2 <= 2 + k /\ 2 + k <= (1 + k + n) + 1
      BY <1>1, <1>4
    <2> QED BY <1>1, <1>4, <2>1, Cut, Zenon
  <1>8. (2 + k) - 1 = 1 + k
    BY <1>4
  <1>9. p = SubSeq(b, 2 + k, 1 + k + n) /\ r = SubSeq(b, (1 + k + n) + 1, Len(b))
    BY <1>3, Zenon DEF Payload, From
  <1> HIDE DEF p, r
  <1>10. b = <<b[1]>> \o d \o p \o r
    BY <1>7, <1>8, <1>9, Zenon
  <1>11. Prefixed(short, long, p) = <<long + k>> \o d \o p
    <2>1. ~(n <= ShortMax)
      BY <1>1, Layouts
    <2> QED BY <1>1, <1>2, <1>6, <2>1, Zenon DEF Prefixed
  <1>12. x.start >= 2 /\ x.end + 1 - x.start > ShortMax
    BY <1>1, <1>3, <1>4
  <1> QED BY <1>5, <1>10, <1>11, <1>12, Zenon DEF Splits, p, r

\* At i of b there is a length that makes the bound wrap.
WrapsAt(b, i) ==
    /\ b[i] \in {StrLong + LenBytes, ListLong + LenBytes}
    /\ Number(SubSeq(b, i + 1, i + LenBytes)) >= Word - 1 - LenBytes

Wraps(b) == \E i \in 1..(Len(b) - LenBytes) : WrapsAt(b, i)

\* What an item found in b is: with an accepted extent x, b is the item and the
\* rest; only a wrapping length makes the slice fail.
Found(b, x) ==
    /\ x.err = "ok" =>
         /\ Lies(b, x)
         /\ b[1] < Single => x.start = 1 /\ x.end = 1
         /\ b[1] >= Single => x.start >= 2
         /\ x.start \notin {1, 2} => x.end + 1 - x.start > ShortMax
         /\ b[1] >= Single /\ b[1] < ListShort => Splits(b, x, StrShort, StrLong)
         /\ b[1] >= ListShort => Splits(b, x, ListShort, ListLong)
    /\ x.err = "panic" /\ Len(b) <= MaxInputLen => Wraps(b)

\* The short forms,
LEMMA ShortFound ==
    ASSUME NEW b \in Seq(Byte), b # <<>>, NEW short, NEW long,
           \/ short = StrShort /\ long = StrLong /\ b[1] >= Single /\ b[1] <= StrLong
           \/ short = ListShort /\ long = ListLong /\ b[1] >= ListShort /\ b[1] <= ListLong
    PROVE  Found(b, ShortEnd(b, b[1] - short))
  <1> DEFINE n == b[1] - short
             x == ShortEnd(b, n)
  <1>1. short \in Nat /\ n \in Nat /\ n <= ShortMax /\ b[1] = short + n /\ Len(b) \in Nat
    <2>1. b[1] \in Byte
      OBVIOUS
    <2>2. b[1] \in Nat /\ Len(b) \in Nat
      BY <2>1, Layouts DEF Byte
    <2> DEFINE c == b[1]
    <2>3. c \in Nat /\ n = c - short
      BY <2>2, Zenon
    <2>4. \/ short = StrShort /\ c >= Single /\ c <= StrLong
          \/ short = ListShort /\ c >= ListShort /\ c <= ListLong
      BY Zenon
    <2> HIDE DEF c, n
    <2>5. short \in Nat /\ n \in Nat /\ n <= ShortMax /\ c = short + n
      BY <2>3, <2>4, Layouts
    <2> QED BY <2>2, <2>5, Zenon DEF c
  <1> HIDE DEF n
  <1>2. Len(b) < 1 + n => x.err = "ErrTruncated"
    BY Zenon DEF ShortEnd, Err
  <1>3. ~(Len(b) < 1 + n) => x = [err |-> "ok", start |-> 2, end |-> 1 + n]
    BY Zenon DEF ShortEnd
  <1>4. CASE Len(b) < 1 + n
    <2> HIDE DEF x
    <2>1. x.err # "ok" /\ x.err # "panic"
      BY <1>2, <1>4
    <2> QED BY <2>1, Zenon DEF Found, n, x
  <1>5. CASE ~(Len(b) < 1 + n)
    <2>1. x = [err |-> "ok", start |-> 2, end |-> 1 + n] /\ 1 + n <= Len(b)
      BY <1>1, <1>3, <1>5
    <2> HIDE DEF x
    <2>2. Lies(b, x) /\ Splits(b, x, short, long)
      BY <1>1, <2>1, ShortForm, Zenon
    <2>3. x.err = "ok" /\ x.start = 2
      BY <2>1
    <2>4. ~(b[1] < Single) /\ 2 >= 2
      BY <1>1, Layouts
    <2>5. \/ short = StrShort /\ long = StrLong /\ ~(b[1] >= ListShort)
          \/ short = ListShort /\ long = ListLong /\ ~(b[1] < ListShort)
      BY <1>1, Layouts
    <2> QED BY <2>2, <2>3, <2>4, <2>5, Zenon DEF Found, n, x
  <1> QED BY <1>4, <1>5, Zenon DEF n, x

\* and the long ones.
LEMMA LongFound ==
    ASSUME NEW b \in Seq(Byte), b # <<>>, NEW short, NEW long,
           \/ short = StrShort /\ long = StrLong /\ b[1] > StrLong /\ b[1] < ListShort
           \/ short = ListShort /\ long = ListLong /\ b[1] > ListLong
    PROVE  Found(b, LongEnd(b, b[1] - long))
  <1> DEFINE k == b[1] - long
             x == LongEnd(b, k)
             d == SubSeq(b, 2, 1 + k)
  <1>1. long \in Nat /\ k \in Nat /\ k \in 1..LenBytes /\ b[1] = long + k /\ Len(b) \in Nat
    <2>1. b[1] \in Byte
      OBVIOUS
    <2>2. b[1] \in Nat /\ b[1] < Base
      BY <2>1, Layouts DEF Byte
    <2> QED BY <2>2, Layouts
  <1> HIDE DEF k
  <1>2. x.err = "ok" => LongOk(b, k, d, x)
    BY <1>1, LongEndIs, Zenon
  <1>3. x.err = "panic" /\ Len(b) <= MaxInputLen => LongWraps(b, k, d)
    BY <1>1, LongEndIs, Zenon
  <1>4. x.err = "ok" => /\ Lies(b, x) /\ Splits(b, x, short, long)
                        /\ x.start >= 2 /\ x.end + 1 - x.start > ShortMax
    BY <1>1, LongForm, Zenon
  <1> HIDE DEF x
  <1>5. ASSUME LongWraps(b, k, d) PROVE Wraps(b)
    <2>1. k = LenBytes /\ Len(b) >= 1 + LenBytes /\ Number(d) >= Word - 1 - LenBytes
      BY <1>5, Zenon DEF LongWraps
    <2>2. 1 \in 1..(Len(b) - LenBytes) /\ 1 + 1 = 2
      BY <1>1, <2>1, Layouts
    <2>3. b[1] \in {StrLong + LenBytes, ListLong + LenBytes}
      BY <1>1, <2>1, Zenon
    <2>4. WrapsAt(b, 1)
      BY <2>1, <2>2, <2>3, Zenon DEF WrapsAt
    <2> QED BY <2>2, <2>4, Zenon DEF Wraps
  <1>6. ~(b[1] < Single)
    BY <1>1, Layouts
  <1>7. \/ short = StrShort /\ long = StrLong /\ ~(b[1] >= ListShort)
        \/ short = ListShort /\ long = ListLong /\ ~(b[1] < ListShort)
    BY <1>1, Layouts
  <1> QED BY <1>3, <1>4, <1>5, <1>6, <1>7, Zenon DEF Found, x, k

\* What an item at the head of b is, whatever its form.
LEMMA ExtentFound ==
    ASSUME NEW b \in Seq(Byte), b # <<>>
    PROVE  Found(b, Extent(b))
  <1>1. b[1] \in Nat
    <2>1. b[1] \in Byte
      OBVIOUS
    <2> QED BY <2>1, Layouts DEF Byte
  <1>2. CASE b[1] < Single
    <2> DEFINE x == [err |-> "ok", start |-> 1, end |-> 1]
    <2>1. Extent(b) = x
      BY <1>2, Zenon DEF Extent
    <2>2. Lies(b, x) /\ x.start = 1 /\ x.end = 1 /\ x.err # "panic"
      BY DEF Lies
    <2> HIDE DEF x
    <2>3. ~(b[1] >= Single) /\ ~(b[1] >= ListShort)
      BY <1>1, <1>2, Layouts
    <2> QED BY <2>1, <2>2, <2>3, Zenon DEF Found
  <1>3. CASE ~(b[1] < Single) /\ b[1] <= StrLong
    <2>1. Extent(b) = ShortEnd(b, b[1] - StrShort)
      BY <1>3, Zenon DEF Extent
    <2>2. b[1] >= Single
      BY <1>1, <1>3, Layouts
    <2> QED BY <1>3, <2>1, <2>2, ShortFound, Zenon
  <1>4. CASE ~(b[1] < Single) /\ ~(b[1] <= StrLong) /\ b[1] < ListShort
    <2>1. Extent(b) = LongEnd(b, b[1] - StrLong)
      BY <1>4, Zenon DEF Extent
    <2>2. b[1] > StrLong
      BY <1>1, <1>4, Layouts
    <2> QED BY <1>4, <2>1, <2>2, LongFound, Zenon
  <1>5. CASE ~(b[1] < ListShort) /\ b[1] <= ListLong
    <2>1. ~(b[1] < Single) /\ ~(b[1] <= StrLong) /\ b[1] >= ListShort
      BY <1>1, <1>5, Layouts
    <2>2. Extent(b) = ShortEnd(b, b[1] - ListShort)
      BY <1>5, <2>1, Zenon DEF Extent
    <2> QED BY <1>5, <2>1, <2>2, ShortFound, Zenon
  <1>6. CASE ~(b[1] < ListShort) /\ ~(b[1] <= ListLong)
    <2>1. ~(b[1] < Single) /\ ~(b[1] <= StrLong) /\ b[1] > ListLong
      BY <1>1, <1>6, Layouts
    <2>2. Extent(b) = LongEnd(b, b[1] - ListLong)
      BY <1>6, <2>1, Zenon DEF Extent
    <2> QED BY <2>1, <2>2, LongFound, Zenon
  <1> QED BY <1>2, <1>3, <1>4, <1>5, <1>6, Zenon

------------------------------------------------------------------------------
(* Decoding.                                                               *)

\* The payloads of lists at this place, decoded.
Inner(b, depth, lists) ==
    lists[Extent(b).end + 1 - Extent(b).start][depth + 1][Payload(b, Extent(b))]

\* How an item was decoded.
ItemOk(b, depth, lists, r) ==
    /\ b # <<>> /\ Extent(b).err = "ok"
    /\ \/ /\ b[1] < ListShort
          /\ ~(Extent(b).start = 2 /\ Extent(b).end = 2 /\ b[2] < Single)
          /\ r = Ok(Bytes(Payload(b, Extent(b))), From(b, Extent(b).end + 1))
       \/ /\ b[1] >= ListShort /\ ~(depth >= MaxNestingDepth)
          /\ Inner(b, depth, lists).err = "ok"
          /\ r = Ok(List(Inner(b, depth, lists).val), From(b, Extent(b).end + 1))

\* Where a slice out of bounds came from.
ItemPanics(b, depth, lists) ==
    /\ b # <<>>
    /\ \/ Extent(b).err = "panic"
       \/ /\ b[1] >= ListShort /\ ~(depth >= MaxNestingDepth)
          /\ Extent(b).err = "ok" /\ Inner(b, depth, lists).err = "panic"

\* decodeItem fails, or has found the item at the head.
LEMMA ItemCases ==
    ASSUME NEW b \in Seq(Byte), NEW depth, NEW lists, NEW r, r = ItemDef(b, depth, lists)
    PROVE  /\ r.err = "ok" => ItemOk(b, depth, lists, r)
           /\ r.err = "panic" => ItemPanics(b, depth, lists)
  <1> DEFINE x == Extent(b)
             inner == Inner(b, depth, lists)
  <1>1. \A e : Err(e).err = e
    BY Zenon DEF Err
  <1>2. CASE b = <<>>
    <2>1. r = Err("ErrTruncated")
      BY <1>2, Zenon DEF ItemDef
    <2>2. r.err # "ok" /\ r.err # "panic"
      BY <1>1, <2>1
    <2> QED BY <2>2, Zenon
  <1>3. CASE b # <<>> /\ b[1] >= ListShort /\ depth >= MaxNestingDepth
    <2>1. r = Err("ErrNestingLimit")
      BY <1>3, Zenon DEF ItemDef
    <2>2. r.err # "ok" /\ r.err # "panic"
      BY <1>1, <2>1
    <2> QED BY <2>2, Zenon
  <1>4. CASE b # <<>> /\ ~(b[1] >= ListShort /\ depth >= MaxNestingDepth)
    <2>1. r = ItemWithin(b, depth, x, lists)
      BY <1>4, Zenon DEF ItemDef
    <2>2. b[1] < ListShort \/ b[1] >= ListShort
      <3>1. b[1] \in Byte
        BY <1>4
      <3> QED BY <3>1, Layouts DEF Byte
    <2>3. CASE x.err # "ok"
      <3>1. r = x
        BY <2>1, <2>3, Zenon DEF ItemWithin
      <3> QED BY <1>4, <2>3, <3>1, Zenon DEF ItemPanics
    <2>4. CASE x.err = "ok" /\ b[1] < ListShort
      <3>1. r = StringItem(b, x)
        BY <2>1, <2>4, Zenon DEF ItemWithin
      <3>2. CASE x.start = 2 /\ x.end = 2 /\ b[2] < Single
        <4>1. r = Err("ErrInvalidEncoding")
          BY <3>1, <3>2, Zenon DEF StringItem
        <4>2. r.err # "ok" /\ r.err # "panic"
          BY <1>1, <4>1
        <4> QED BY <4>2, Zenon
      <3>3. CASE ~(x.start = 2 /\ x.end = 2 /\ b[2] < Single)
        <4>1. r = Ok(Bytes(Payload(b, x)), From(b, x.end + 1))
          BY <3>1, <3>3, Zenon DEF StringItem
        <4>2. r.err # "panic"
          BY <4>1 DEF Ok
        <4> QED BY <1>4, <2>4, <3>3, <4>1, <4>2, Zenon DEF ItemOk
      <3> QED BY <3>2, <3>3, Zenon
    <2>5. CASE x.err = "ok" /\ ~(b[1] < ListShort)
      <3>1. r = ListItem(b, x, inner)
        BY <2>1, <2>5, Zenon DEF ItemWithin, Inner
      <3>2. CASE inner.err # "ok"
        <4>1. r = inner
          BY <3>1, <3>2, Zenon DEF ListItem
        <4> QED BY <1>4, <2>2, <2>5, <3>2, <4>1, Zenon DEF ItemPanics
      <3>3. CASE inner.err = "ok"
        <4>1. r = Ok(List(inner.val), From(b, x.end + 1))
          BY <3>1, <3>3, Zenon DEF ListItem
        <4>2. r.err # "panic"
          BY <4>1 DEF Ok
        <4> QED BY <1>4, <2>2, <2>5, <3>3, <4>1, <4>2, Zenon DEF ItemOk
      <3> QED BY <3>2, <3>3, Zenon
    <2> QED BY <2>3, <2>4, <2>5, Zenon
  <1> QED BY <1>2, <1>3, <1>4, Zenon

\* A list and the rest after an item are shorter than what they were taken from.
LEMMA Shorter ==
    ASSUME NEW b \in Seq(Byte), b # <<>>, Extent(b).err = "ok"
    PROVE  LET x == Extent(b) IN
           /\ Lies(b, x)
           /\ Payload(b, x) \in Seq(Byte) /\ Len(Payload(b, x)) = x.end + 1 - x.start
           /\ From(b, x.end + 1) \in Seq(Byte) /\ Len(From(b, x.end + 1)) \in Nat
           /\ Len(From(b, x.end + 1)) < Len(b)
           /\ b[1] >= ListShort => /\ x.end + 1 - x.start \in Nat
                                   /\ x.end + 1 - x.start < Len(b)
  <1> DEFINE x == Extent(b)
  <1>1. Found(b, x)
    BY ExtentFound, Zenon
  <1>2. Lies(b, x) /\ (b[1] >= Single => x.start >= 2)
    BY <1>1, Zenon DEF Found
  <1> HIDE DEF x
  <1>3. /\ Payload(b, x) \in Seq(Byte) /\ Len(Payload(b, x)) = x.end + 1 - x.start
        /\ From(b, x.end + 1) \in Seq(Byte) /\ Len(From(b, x.end + 1)) = Len(b) - x.end
    BY <1>2, Slices, Zenon
  <1> DEFINE s == x.start
             e == x.end
             n == Len(b)
             c == b[1]
  <1>4. /\ s \in Nat /\ e \in Nat /\ 1 <= s /\ s <= e + 1 /\ 1 <= e /\ e <= n /\ n \in Nat
        /\ c >= Single => s >= 2
    <2>1. n \in Nat
      OBVIOUS
    <2> QED BY <1>2, <2>1, Zenon DEF Lies
  <1>5. c \in Nat
    <2>1. b[1] \in Byte
      OBVIOUS
    <2> QED BY <2>1, Layouts DEF Byte
  <1> HIDE DEF s, e, n, c
  <1>6. /\ n - e \in Nat /\ n - e < n
        /\ c >= ListShort => e + 1 - s \in Nat /\ e + 1 - s < n
    BY <1>4, <1>5, Layouts
  <1> QED BY <1>2, <1>3, <1>6, Zenon DEF s, e, n, c, x

\* A sequence as a function on 1..n.
LEMMA AsFunction ==
    ASSUME NEW T, NEW n \in Nat, NEW s
    PROVE  s \in [1..n -> T] <=> s \in Seq(T) /\ Len(s) = n
  OBVIOUS

\* The decoder of lists is the function ListsDef describes.
LEMMA ListsUnfold == \A n \in Nat : Lists[n] = ListsDef(n, Lists)
  <1> DEFINE x == [of |-> "Lists", arg |-> 0]
             below(g, n) == [i \in 0..(n - 1) |-> g[i]]
             IsF(f) == f = [n \in Nat |-> ListsDef(n, f)]
  <1>1. PICK g : g = [n \in Nat |-> Step(x, n, below(g, n))]
    BY Recursive, Zenon
  <1>2. ASSUME NEW n \in Nat PROVE Step(x, n, below(g, n)) = ListsDef(n, g)
    <2> DEFINE h == below(g, n)
    <2>1. Step(x, n, h) = ListsDef(n, h)
      BY Zenon DEF Step
    <2>2. \A i \in Nat : i < n => h[i] = g[i]
      <3>1. \A i \in Nat : i < n => i \in 0..(n - 1)
        OBVIOUS
      <3> QED BY <3>1, Zenon
    <2> HIDE DEF h
    <2>3. ASSUME NEW depth \in Nat, NEW b \in [1..n -> Byte], n # 0
          PROVE  ItemsAfter(ItemDef(b, depth, h), depth, h) = ItemsAfter(ItemDef(b, depth, g), depth, g)
      <3>1. b \in Seq(Byte) /\ Len(b) = n
        BY AsFunction, Zenon
      <3>2. b # <<>>
        BY <2>3, <3>1, NumberEmpty, Zenon
      <3>3. ASSUME Extent(b).err = "ok", b[1] >= ListShort
            PROVE  h[Extent(b).end + 1 - Extent(b).start] = g[Extent(b).end + 1 - Extent(b).start]
        BY <2>2, <3>1, <3>2, <3>3, Shorter, Zenon
      <3>4. b[1] < ListShort \/ b[1] >= ListShort
        <4>1. b[1] \in Byte
          BY <3>1, <3>2
        <4> QED BY <4>1, Layouts DEF Byte
      <3>5. ItemDef(b, depth, h) = ItemDef(b, depth, g)
        BY <3>3, <3>4, Zenon DEF ItemDef, ItemWithin
      <3> DEFINE r == ItemDef(b, depth, g)
      <3>6. r.err = "ok" => h[Len(r.rest)] = g[Len(r.rest)]
        <4> SUFFICES ASSUME r.err = "ok" PROVE h[Len(r.rest)] = g[Len(r.rest)]
          OBVIOUS
        <4>1. ItemOk(b, depth, g, r)
          BY <3>1, ItemCases, Zenon
        <4>2. Extent(b).err = "ok" /\ r.rest = From(b, Extent(b).end + 1)
          <5> HIDE DEF r
          <5>1. \A v, u : Ok(v, u).rest = u
            BY Zenon DEF Ok
          <5> QED BY <4>1, <5>1, Zenon DEF ItemOk
        <4> QED BY <2>2, <3>1, <3>2, <4>2, Shorter, Zenon
      <3> HIDE DEF r
      <3>7. ItemsAfter(r, depth, h) = ItemsAfter(r, depth, g)
        BY <3>6, Zenon DEF ItemsAfter
      <3> QED BY <3>5, <3>7, Zenon DEF r
    <2>4. ListsDef(n, h) = ListsDef(n, g)
      BY <2>3, Zenon DEF ListsDef
    <2> QED BY <2>1, <2>4, Zenon DEF h
  <1>3. IsF(g)
    BY <1>1, <1>2, Zenon
  <1> DEFINE F == CHOOSE f : IsF(f)
  <1>4. IsF(F)
    BY <1>3, Zenon
  <1>5. Lists = F
    BY Zenon DEF Lists
  <1> HIDE DEF F
  <1> QED BY <1>4, <1>5, Zenon

\* A slice of n elements after the i-th.
LEMMA SliceOf ==
    ASSUME NEW T, NEW b \in Seq(T), NEW i \in Nat, NEW n \in Nat, i + n <= Len(b)
    PROVE  /\ SubSeq(b, i + 1, i + n) \in Seq(T) /\ Len(SubSeq(b, i + 1, i + n)) = n
           /\ \A m \in 1..n : SubSeq(b, i + 1, i + n)[m] = b[i + m]
  OBVIOUS

\* A length that wraps somewhere in a slice wraps there in the whole.
LEMMA WrapsWithin ==
    ASSUME NEW b \in Seq(Byte), NEW s \in Nat, NEW e \in Nat, 1 <= s, s <= e + 1, e <= Len(b),
           Wraps(SubSeq(b, s, e))
    PROVE  Wraps(b)
  <1> DEFINE p == SubSeq(b, s, e)
  <1>1. p \in Seq(Byte) /\ Len(p) = e + 1 - s /\ \A i \in 1..(e + 1 - s) : p[i] = b[s + i - 1]
    OBVIOUS
  <1> HIDE DEF p
  <1>2. PICK i \in 1..(Len(p) - LenBytes) : WrapsAt(p, i)
    BY Zenon DEF p, Wraps
  <1> DEFINE j == s + i - 1
  <1>3. /\ i \in Nat /\ 1 <= i /\ i + LenBytes <= e + 1 - s /\ j \in Nat /\ LenBytes \in Nat
        /\ j \in 1..(Len(b) - LenBytes) /\ p[i] = b[j] /\ Len(b) \in Nat
        /\ i + LenBytes <= Len(p)
    BY <1>1, <1>2, Layouts
  <1>4. SubSeq(p, i + 1, i + LenBytes) = SubSeq(b, j + 1, j + LenBytes)
    <2> DEFINE u == SubSeq(p, i + 1, i + LenBytes)
               w == SubSeq(b, j + 1, j + LenBytes)
    <2>1. /\ u \in Seq(Byte) /\ Len(u) = LenBytes
          /\ \A m \in 1..LenBytes : u[m] = p[i + m]
      BY <1>1, <1>3, SliceOf, ZenonT(40)
    <2>2. /\ w \in Seq(Byte) /\ Len(w) = LenBytes
          /\ \A m \in 1..LenBytes : w[m] = b[j + m]
      <3>1. j + LenBytes <= Len(b)
        BY <1>3
      <3> QED BY <1>3, <3>1, SliceOf, ZenonT(40)
    <2> HIDE DEF u, w
    <2>3. \A m \in 1..LenBytes : u[m] = w[m]
      <3> TAKE m \in 1..LenBytes
      <3>1. i + m \in 1..(e + 1 - s) /\ s + (i + m) - 1 = j + m
        BY <1>3
      <3> QED BY <1>1, <2>1, <2>2, <3>1, Zenon
    <2>4. u = w
      BY <2>1, <2>2, <2>3, SameSeq, Zenon
    <2> QED BY <2>4, Zenon DEF u, w
  <1>5. WrapsAt(b, j)
    BY <1>2, <1>3, <1>4, Zenon DEF WrapsAt
  <1> HIDE DEF j
  <1> QED BY <1>3, <1>5, Zenon DEF Wraps

------------------------------------------------------------------------------
(* Encodings.                                                              *)

\* The items copied one after the other.
LEMMA JoinIs ==
    /\ Join(<<>>) = <<>>
    /\ \A s \in Seq(Seq(Nat)), e \in Seq(Nat) :
         /\ Join(s) \in Seq(Nat)
         /\ Join(Append(s, e)) = Join(s) \o e
         /\ Join(<<e>> \o s) = e \o Join(s)
  <1> DEFINE T == Seq(Nat)
  <1>1. \A s : JoinTo(s, 0) = <<>>
    BY JoinUnfold, Zenon DEF JoinDef
  <1>2. \A s : \A n \in Nat : JoinTo(s, n + 1) = JoinTo(s, n) \o s[n + 1]
    <2> TAKE s
    <2> TAKE n \in Nat
    <2> DEFINE P == [i \in Nat |-> JoinTo(s, i)]
    <2>1. n + 1 \in Nat /\ n + 1 # 0 /\ (n + 1) - 1 = n
      OBVIOUS
    <2>2. P[(n + 1) - 1] = JoinTo(s, n)
      BY <2>1, Zenon
    <2>3. JoinTo(s, n + 1) = JoinDef(s, n + 1, P)
      BY <2>1, JoinUnfold, Zenon
    <2> HIDE DEF P
    <2> QED BY <2>1, <2>2, <2>3, Zenon DEF JoinDef
  <1>3. Join(<<>>) = <<>>
    BY <1>1, NumberEmpty, Zenon DEF Join
  <1>4. ASSUME NEW s \in Seq(T), NEW e \in T PROVE Join(Append(s, e)) = Join(s) \o e
    <2> DEFINE a == Append(s, e)
               S == {n \in Nat : n <= Len(s) => JoinTo(a, n) = JoinTo(s, n)}
    <2> HIDE DEF T
    <2>1. /\ Len(s) \in Nat /\ Len(a) = Len(s) + 1 /\ a[Len(s) + 1] = e
          /\ \A i \in 1..Len(s) : a[i] = s[i]
      OBVIOUS
    <2> HIDE DEF a
    <2>2. 0 \in S
      BY <1>1, Zenon
    <2>3. ASSUME NEW n \in Nat, n \in S PROVE n + 1 \in S
      <3>1. n + 1 \in Nat
        OBVIOUS
      <3> SUFFICES ASSUME n + 1 <= Len(s) PROVE JoinTo(a, n + 1) = JoinTo(s, n + 1)
        BY <3>1, Zenon
      <3>2. n <= Len(s) /\ n + 1 \in 1..Len(s)
        BY <2>1
      <3> QED BY <1>2, <2>1, <2>3, <3>2, Zenon
    <2>4. Len(s) \in S
      <3>1. S \subseteq Nat
        BY Zenon
      <3> HIDE DEF S
      <3> QED BY <2>1, <2>2, <2>3, <3>1, InductionNext, Zenon
    <2>5. JoinTo(a, Len(s)) = JoinTo(s, Len(s))
      <3>1. Len(s) <= Len(s)
        BY <2>1
      <3> QED BY <2>4, <3>1, Zenon
    <2>6. Join(a) = JoinTo(a, Len(s)) \o a[Len(s) + 1]
      BY <1>2, <2>1, Zenon DEF Join
    <2> QED BY <2>1, <2>5, <2>6, Zenon DEF Join, a
  <1> DEFINE Q == {s \in Seq(T) : Join(s) \in Seq(Nat)}
  <1>5. \A s \in Seq(T) : Join(s) \in Seq(Nat)
    <2>1. <<>> \in Q
      <3>1. <<>> \in Seq(T) /\ <<>> \in Seq(Nat)
        BY NoElements, Zenon
      <3> QED BY <1>3, <3>1, Zenon
    <2>2. ASSUME NEW s \in Seq(T), NEW e \in T, s \in Q PROVE Append(s, e) \in Q
      <3>1. Append(s, e) \in Seq(T)
        BY AppendIs, Zenon
      <3>2. Join(s) \o e \in Seq(Nat)
        BY <2>2, ConcatIs, Zenon
      <3> QED BY <1>4, <3>1, <3>2, Zenon
    <2>3. \A s \in Seq(T) : s \in Q
      <3> HIDE DEF Q, T
      <3> QED BY <2>1, <2>2, AppendInduction, Zenon
    <2> QED BY <2>3, Zenon
  <1>6. ASSUME NEW e \in T PROVE \A s \in Seq(T) : Join(<<e>> \o s) = e \o Join(s)
    <2> DEFINE P == {s \in Seq(T) : Join(<<e>> \o s) = e \o Join(s)}
    <2>0. <<>> \in Seq(T) /\ <<e>> \in Seq(T) /\ <<e>> = Append(<<>>, e)
      <3> HIDE DEF T
      <3> QED OBVIOUS
    <2>1. <<>> \in P
      <3>1. <<e>> \o <<>> = Append(<<>>, e)
        BY <2>0, ConcatNone, Zenon
      <3>2. <<>> \o e = e /\ e \o <<>> = e
        BY ConcatNone, Zenon
      <3>3. Join(Append(<<>>, e)) = Join(<<>>) \o e
        BY <1>4, <2>0, Zenon
      <3> QED BY <1>3, <2>0, <3>1, <3>2, <3>3, Zenon
    <2>2. ASSUME NEW s \in Seq(T), NEW c \in T, s \in P PROVE Append(s, c) \in P
      <3>1. <<e>> \o s \in Seq(T) /\ Append(s, c) \in Seq(T)
        BY <2>0, ConcatIs, AppendIs, Zenon
      <3>2. <<e>> \o Append(s, c) = Append(<<e>> \o s, c)
        <4> HIDE DEF T
        <4> QED OBVIOUS
      <3>3. Join(Append(<<e>> \o s, c)) = (e \o Join(s)) \o c
        BY <1>4, <2>2, <3>1, Zenon
      <3>4. Join(Append(s, c)) = Join(s) \o c
        BY <1>4, Zenon
      <3>5. Associates(e, Join(s), c)
        BY <1>5, Concat, Zenon
      <3> QED BY <3>1, <3>2, <3>3, <3>4, <3>5, Zenon DEF Associates
    <2>3. \A s \in Seq(T) : s \in P
      <3> HIDE DEF P, T
      <3> QED BY <2>1, <2>2, AppendInduction, Zenon
    <2> QED BY <2>3, Zenon
  <1> QED BY <1>3, <1>4, <1>5, <1>6, Zenon

\* The encodings of the values in l.
Encoded(n, l) == [i \in DOMAIN l |-> Encode(n, l[i])]

\* Encode, form by form.
LEMMA EncodeIs ==
    ASSUME NEW n \in Nat
    PROVE  /\ \A b \in Seq(Byte) : Bytes(b) \in Values(n) /\ Encode(n, Bytes(b)) = EncodeBytes(b)
           /\ \A l \in Seq(Values(n)) : /\ List(l) \in Values(n + 1)
                                        /\ Encode(n + 1, List(l)) = EncodeList(Encoded(n, l))
  <1> DEFINE E == [i \in Nat |-> Encoder(i)]
  <1>1. \A m \in Nat : \A v \in Values(m) :
          Encode(m, v) = IF v.t = "bytes" THEN EncodeBytes(v.b)
                         ELSE EncodeList([i \in DOMAIN v.l |-> E[m - 1][v.l[i]]])
    <2> TAKE m \in Nat
    <2> TAKE v \in Values(m)
    <2>1. Encoder(m) = EncodeDef(m, E)
      BY EncoderUnfold, Zenon
    <2> HIDE DEF E
    <2> QED BY <2>1, Zenon DEF EncodeDef, Encode
  <1>2. ASSUME NEW b \in Seq(Byte)
        PROVE  Bytes(b) \in Values(n) /\ Encode(n, Bytes(b)) = EncodeBytes(b)
    <2>1. Bytes(b) \in [t : {"bytes"}, b : Seq(Byte)] /\ Bytes(b).t = "bytes" /\ Bytes(b).b = b
      BY DEF Bytes
    <2>2. Bytes(b) \in Values(n)
      BY <2>1, InValues, Zenon
    <2> HIDE DEF E
    <2> QED BY <1>1, <2>1, <2>2, Zenon
  <1>3. ASSUME NEW l \in Seq(Values(n))
        PROVE  List(l) \in Values(n + 1) /\ Encode(n + 1, List(l)) = EncodeList(Encoded(n, l))
    <2>0. n + 1 \in Nat /\ n + 1 # 0 /\ (n + 1) - 1 = n
      OBVIOUS
    <2>1. List(l) \in [t : {"list"}, l : Seq(Values(n))] /\ List(l).t # "bytes" /\ List(l).l = l
      BY DEF List
    <2>2. List(l) \in Values(n + 1)
      BY <2>0, <2>1, InValues, Zenon
    <2>3. E[(n + 1) - 1] = Encoder(n)
      BY <2>0, Zenon
    <2> HIDE DEF E
    <2>4. Encode(n + 1, List(l)) = EncodeList([i \in DOMAIN l |-> Encoder(n)[l[i]]])
      BY <1>1, <2>0, <2>1, <2>2, <2>3, Zenon
    <2> QED BY <2>2, <2>4, Zenon DEF Encoded, Encode
  <1> QED BY <1>2, <1>3, Zenon

\* Bytes are numbers.
LEMMA BytesAre == Byte \subseteq Nat /\ \A b \in Seq(Byte) : b \in Seq(Nat)
  <1>1. Byte \subseteq Nat
    BY Layouts DEF Byte
  <1> QED BY <1>1, SeqWithin, Zenon

\* The encodings of a sequence of values, as a sequence.
LEMMA EncodedIs ==
    ASSUME NEW n, NEW V, NEW T, \A v \in V : Encode(n, v) \in T, NEW l \in Seq(V)
    PROVE  /\ Encoded(n, l) \in Seq(T) /\ Len(Encoded(n, l)) = Len(l)
           /\ \A i \in 1..Len(l) : Encoded(n, l)[i] = Encode(n, l[i])
           /\ \A v \in V : Encoded(n, <<v>> \o l) = <<Encode(n, v)>> \o Encoded(n, l)
  <1>1. /\ Len(l) \in Nat /\ DOMAIN l = 1..Len(l) /\ \A i \in 1..Len(l) : l[i] \in V
    OBVIOUS
  <1>2. Encoded(n, l) = [i \in 1..Len(l) |-> Encode(n, l[i])]
    BY <1>1, Zenon DEF Encoded
  <1>3. \A i \in 1..Len(l) : Encode(n, l[i]) \in T
    BY <1>1, Zenon
  <1>4. Encoded(n, l) \in Seq(T) /\ Len(Encoded(n, l)) = Len(l)
    BY <1>1, <1>2, <1>3
  <1>5. \A i \in 1..Len(l) : Encoded(n, l)[i] = Encode(n, l[i])
    BY <1>2, Zenon
  <1>6. ASSUME NEW v \in V PROVE Encoded(n, <<v>> \o l) = <<Encode(n, v)>> \o Encoded(n, l)
    <2> DEFINE m == <<v>> \o l
               e == Encode(n, v)
               u == Encoded(n, l)
    <2>1. /\ m \in Seq(V) /\ Len(m) = Len(l) + 1 /\ DOMAIN m = 1..(Len(l) + 1) /\ m[1] = v
          /\ \A i \in 1..Len(l) : m[i + 1] = l[i]
      OBVIOUS
    <2>2. e \in T /\ u \in Seq(T) /\ Len(u) = Len(l)
      BY <1>4, Zenon
    <2> HIDE DEF m, e, u
    <2>3. /\ <<e>> \o u \in Seq(T) /\ Len(<<e>> \o u) = Len(l) + 1 /\ (<<e>> \o u)[1] = e
          /\ \A i \in 1..Len(l) : (<<e>> \o u)[i + 1] = u[i]
      BY <1>1, <2>2
    <2> DEFINE w == Encoded(n, m)
    <2>4. /\ w = [i \in 1..(Len(l) + 1) |-> Encode(n, m[i])]
      BY <2>1, Zenon DEF Encoded
    <2>5. 1 \in 1..(Len(l) + 1) /\ \A i \in 1..Len(l) : i + 1 \in 1..(Len(l) + 1)
      BY <1>1
    <2>6. w[1] = e /\ \A i \in 1..Len(l) : w[i + 1] = u[i]
      BY <1>5, <2>1, <2>4, <2>5, Zenon DEF e, u
    <2>7. w \in Seq(T) /\ Len(w) = Len(l) + 1
      <3>1. \A i \in 1..(Len(l) + 1) : m[i] \in V
        BY <2>1
      <3>2. \A i \in 1..(Len(l) + 1) : Encode(n, m[i]) \in T
        BY <3>1, Zenon
      <3>3. Len(l) + 1 \in Nat
        BY <1>1
      <3> HIDE DEF w
      <3> QED BY <2>4, <3>2, <3>3
    <2> HIDE DEF w
    <2>8. \A i \in 1..(Len(l) + 1) : w[i] = (<<e>> \o u)[i]
      <3> TAKE i \in 1..(Len(l) + 1)
      <3>1. i = 1 \/ (i - 1 \in 1..Len(l) /\ (i - 1) + 1 = i)
        BY <1>1
      <3> QED BY <2>3, <2>6, <3>1, Zenon
    <2>9. w = <<e>> \o u
      BY <2>3, <2>7, <2>8, SameSeq, Zenon
    <2> QED BY <2>9, Zenon DEF w, e, u, m
  <1> QED BY <1>4, <1>5, <1>6, Zenon

\* A prefix and its payload are numbers, at least one of them.
LEMMA PrefixedTyped ==
    ASSUME NEW short \in Nat, NEW long \in Nat, NEW p \in Seq(Nat)
    PROVE  Prefixed(short, long, p) \in Seq(Nat) /\ Len(Prefixed(short, long, p)) >= 1 + Len(p)
  <1> DEFINE n == uintToBytes(Len(p))
  <1>1. Len(p) \in Nat
    OBVIOUS
  <1>2. n \in Seq(Nat)
    BY <1>1, UintIs, BytesAre, Zenon
  <1> HIDE DEF n
  <1>3. /\ <<short + Len(p)>> \o p \in Seq(Nat) /\ Len(<<short + Len(p)>> \o p) = 1 + Len(p)
    BY <1>1
  <1>4. /\ <<long + Len(n)>> \o n \o p \in Seq(Nat)
        /\ Len(<<long + Len(n)>> \o n \o p) = 1 + Len(n) + Len(p) /\ Len(n) \in Nat
    BY <1>1, <1>2
  <1>5. /\ Len(p) <= ShortMax => Prefixed(short, long, p) = <<short + Len(p)>> \o p
        /\ ~(Len(p) <= ShortMax) => Prefixed(short, long, p) = <<long + Len(n)>> \o n \o p
    BY Zenon DEF Prefixed, n
  <1>6. 1 + Len(p) >= 1 + Len(p) /\ 1 + Len(n) + Len(p) >= 1 + Len(p)
    BY <1>1, <1>4
  <1> QED BY <1>3, <1>4, <1>5, <1>6, Zenon

\* An encoding is numbers, at least one of them.
LEMMA EncodingTyped == \A n \in Nat : \A v \in Values(n) :
    Encode(n, v) \in Seq(Nat) /\ Len(Encode(n, v)) >= 1
  <1> DEFINE Fine(n) == \A v \in Values(n) : Encode(n, v) \in Seq(Nat) /\ Len(Encode(n, v)) >= 1
             S == {n \in Nat : Fine(n)}
  <1>1. ASSUME NEW b \in Seq(Byte) PROVE EncodeBytes(b) \in Seq(Nat) /\ Len(EncodeBytes(b)) >= 1
    <2>1. b \in Seq(Nat) /\ StrShort \in Nat /\ StrLong \in Nat
      <3>1. StrShort \in Nat /\ StrLong \in Nat
        BY Layouts
      <3> QED BY <3>1, BytesAre, Zenon
    <2> DEFINE u == Prefixed(StrShort, StrLong, b)
    <2>2. u \in Seq(Nat) /\ Len(u) >= 1 + Len(b)
      BY <2>1, PrefixedTyped, Zenon
    <2> HIDE DEF u
    <2>3. Len(u) >= 1
      BY <2>2
    <2>4. Len(b) = 1 => Len(b) >= 1
      BY <2>1
    <2> QED BY <2>1, <2>2, <2>3, <2>4, Zenon DEF EncodeBytes, u
  <1>2. ASSUME NEW b \in [t : {"bytes"}, b : Seq(Byte)] PROVE b.b \in Seq(Byte) /\ b = Bytes(b.b)
    BY DEF Bytes
  <1>3. 0 \in S
    <2>1. 0 \in Nat
      OBVIOUS
    <2>2. ASSUME NEW v \in Values(0) PROVE Encode(0, v) \in Seq(Nat) /\ Len(Encode(0, v)) >= 1
      <3>1. v \in [t : {"bytes"}, b : Seq(Byte)]
        BY <2>1, InValues, Zenon
      <3> QED BY <1>1, <1>2, <2>1, <3>1, EncodeIs, Zenon
    <2> QED BY <2>1, <2>2, Zenon
  <1>4. ASSUME NEW n \in Nat, n \in S PROVE n + 1 \in S
    <2>0. n + 1 \in Nat /\ (n + 1) - 1 = n
      OBVIOUS
    <2>1. ASSUME NEW v \in Values(n + 1)
          PROVE  Encode(n + 1, v) \in Seq(Nat) /\ Len(Encode(n + 1, v)) >= 1
      <3>1. CASE v \in [t : {"bytes"}, b : Seq(Byte)]
        BY <1>1, <1>2, <2>0, <3>1, EncodeIs, Zenon
      <3>2. CASE v \in [t : {"list"}, l : Seq(Values(n))]
        <4>1. v.l \in Seq(Values(n)) /\ v = List(v.l)
          BY <3>2 DEF List
        <4>2. Encode(n + 1, v) = EncodeList(Encoded(n, v.l))
          BY <4>1, EncodeIs, Zenon
        <4>3. \A w \in Values(n) : Encode(n, w) \in Seq(Nat)
          BY <1>4, Zenon
        <4>4. Encoded(n, v.l) \in Seq(Seq(Nat))
          BY <4>1, <4>3, EncodedIs, Zenon
        <4>5. Join(Encoded(n, v.l)) \in Seq(Nat) /\ ListShort \in Nat /\ ListLong \in Nat
          <5>1. ListShort \in Nat /\ ListLong \in Nat /\ <<>> \in Seq(Nat)
            BY Layouts
          <5> QED BY <4>4, <5>1, JoinIs, Zenon
        <4> DEFINE j == Join(Encoded(n, v.l))
                   u == Prefixed(ListShort, ListLong, j)
        <4>6. u \in Seq(Nat) /\ Len(u) >= 1 + Len(j)
          BY <4>5, PrefixedTyped, Zenon
        <4>7. Len(j) \in Nat
          BY <4>5, SeqIs, Zenon
        <4>8. Encode(n + 1, v) = u
          BY <4>2, Zenon DEF EncodeList
        <4> HIDE DEF u, j
        <4>9. Len(u) >= 1
          BY <4>6, <4>7
        <4> QED BY <4>6, <4>8, <4>9, Zenon
      <3> QED BY <2>0, <3>1, <3>2, InValues, Zenon
    <2> QED BY <2>0, <2>1, Zenon
  <1>5. \A n \in Nat : n \in S
    <2>1. S \subseteq Nat
      BY Zenon
    <2> HIDE DEF S
    <2> QED BY <1>3, <1>4, <2>1, InductionNext, Zenon
  <1> QED BY <1>5, Zenon

------------------------------------------------------------------------------
(* What the decoder accepts.                                               *)

\* What is left of the nesting at this depth.
Left(depth) == MaxNestingDepth - depth

\* A decoded item and the rest; a failure comes from a length that wraps.
ItemFine(b, depth, r) ==
    /\ r.err = "ok" => /\ r.val \in Values(Left(depth)) /\ r.rest \in Seq(Byte)
                       /\ b = Encode(Left(depth), r.val) \o r.rest
    /\ r.err = "panic" /\ Len(b) <= MaxInputLen => Wraps(b)

\* The decoded items of a list.
ListFine(b, depth, r) ==
    /\ r.err = "ok" => /\ r.val \in Seq(Values(Left(depth)))
                       /\ b = Join(Encoded(Left(depth), r.val))
    /\ r.err = "panic" /\ Len(b) <= MaxInputLen => Wraps(b)

ListsFine(n) == \A depth \in 0..MaxNestingDepth : \A b \in Seq(Byte) :
    Len(b) = n => ListFine(b, depth, Lists[n][depth][b])

\* A string at the head of b.
LEMMA StringFine ==
    ASSUME NEW b \in Seq(Byte), b # <<>>, NEW x, Found(b, x), x.err = "ok", b[1] < ListShort,
           ~(x.start = 2 /\ x.end = 2 /\ b[2] < Single)
    PROVE  b = EncodeBytes(Payload(b, x)) \o From(b, x.end + 1)
  <1> DEFINE p == Payload(b, x)
             r == From(b, x.end + 1)
  <1>1. /\ Lies(b, x) /\ (b[1] < Single => x.start = 1 /\ x.end = 1)
        /\ (b[1] >= Single => x.start >= 2)
        /\ x.start \notin {1, 2} => x.end + 1 - x.start > ShortMax
        /\ b[1] >= Single /\ b[1] < ListShort => Splits(b, x, StrShort, StrLong)
    BY Zenon DEF Found
  <1>2. /\ p \in Seq(Byte) /\ Len(p) = x.end + 1 - x.start
        /\ r \in Seq(Byte) /\ Len(r) = Len(b) - x.end
        /\ \A i \in 1..(x.end + 1 - x.start) : p[i] = b[x.start + i - 1]
        /\ \A i \in 1..(Len(b) - x.end) : r[i] = b[x.end + i]
    <2>1. Lies(b, x)
      BY <1>1, Zenon
    <2>2. p \in Seq(Byte) /\ Len(p) = x.end + 1 - x.start
      BY <2>1, Slices, Zenon
    <2>3. r \in Seq(Byte) /\ Len(r) = Len(b) - x.end
      BY <2>1, Slices, Zenon
    <2>4. \A i \in 1..(x.end + 1 - x.start) : p[i] = b[x.start + i - 1]
      BY <2>1, Slices
    <2>5. \A i \in 1..(Len(b) - x.end) : r[i] = b[x.end + i]
      BY <2>1, Slices
    <2> QED BY <2>2, <2>3, <2>4, <2>5, Zenon
  <1>3. b[1] \in Nat /\ b[1] \in Byte /\ Len(b) \in Nat /\ Len(b) >= 1
    <2>1. b[1] \in Byte /\ Len(b) \in Nat /\ Len(b) >= 1
      OBVIOUS
    <2> QED BY <2>1, Layouts DEF Byte
  <1> HIDE DEF p, r
  <1>4. CASE b[1] < Single
    <2>1. x.start = 1 /\ x.end = 1
      BY <1>1, <1>4, Zenon
    <2>2. Len(p) = 1 /\ p[1] = b[1] /\ Len(r) = Len(b) - 1 /\ \A i \in 1..(Len(b) - 1) : r[i] = b[1 + i]
      BY <1>2, <2>1
    <2>3. EncodeBytes(p) = p
      BY <1>4, <2>2, Zenon DEF EncodeBytes
    <2>4. p = <<b[1]>>
      BY <1>2, <2>2, Singleton, Zenon
    <2>5. b = <<b[1]>> \o r
      <3> DEFINE w == <<b[1]>> \o r
      <3>1. w \in Seq(Byte) /\ Len(w) = Len(b) /\ w[1] = b[1] /\ \A i \in 1..(Len(b) - 1) : w[1 + i] = r[i]
        BY <1>2, <1>3, <2>2
      <3> HIDE DEF w
      <3>2. \A i \in 1..Len(b) : b[i] = w[i]
        <4> TAKE i \in 1..Len(b)
        <4>1. i = 1 \/ (i - 1 \in 1..(Len(b) - 1) /\ 1 + (i - 1) = i)
          BY <1>3
        <4> QED BY <2>2, <3>1, <4>1, Zenon
      <3>3. b = w
        BY <3>1, <3>2, SameSeq, Zenon
      <3> QED BY <3>3, Zenon DEF w
    <2> QED BY <2>3, <2>4, <2>5, Zenon DEF p, r
  <1>5. CASE ~(b[1] < Single)
    <2>1. b[1] >= Single
      BY <1>3, <1>5, Layouts
    <2>2. Splits(b, x, StrShort, StrLong) /\ x.start >= 2
      BY <1>1, <2>1, Zenon
    <2>3. ~(Len(p) = 1 /\ p[1] < Single)
      <3> SUFFICES ASSUME Len(p) = 1, p[1] < Single PROVE FALSE
        OBVIOUS
      <3>1. x.start \in Nat /\ x.end \in Nat
        BY <1>1, Zenon DEF Lies
      <3>2. x.end + 1 - x.start = 1
        BY <1>2
      <3>3. x.start = 2
        BY <1>1, <2>2, <3>1, <3>2, Layouts
      <3>4. x.end = 2 /\ 1 \in 1..(x.end + 1 - x.start) /\ x.start + 1 - 1 = 2
        BY <3>1, <3>2, <3>3
      <3>5. p[1] = b[2]
        BY <1>2, <3>4, Zenon
      <3> QED BY <3>3, <3>4, <3>5, Zenon
    <2>4. EncodeBytes(p) = Prefixed(StrShort, StrLong, p)
      BY <2>3, Zenon DEF EncodeBytes
    <2> QED BY <2>2, <2>4, Zenon DEF Splits, p, r
  <1> QED BY <1>4, <1>5, Zenon

\* An item at the head of b, when the lists shorter than b are fine.
LEMMA ItemStep ==
    ASSUME NEW b \in Seq(Byte), NEW depth \in 0..MaxNestingDepth,
           \A i \in Nat : i < Len(b) => ListsFine(i)
    PROVE  ItemFine(b, depth, ItemDef(b, depth, Lists))
  <1> DEFINE x == Extent(b)
             r == ItemDef(b, depth, Lists)
             inner == Inner(b, depth, Lists)
             p == Payload(b, x)
             rest == From(b, x.end + 1)
  <1>0. /\ depth \in Nat /\ Left(depth) \in Nat
        /\ ~(depth >= MaxNestingDepth) => /\ depth + 1 \in 0..MaxNestingDepth
                                          /\ Left(depth + 1) \in Nat
                                          /\ Left(depth + 1) + 1 = Left(depth)
    BY RlpAssumption DEF Left
  <1>1. ASSUME b # <<>>, x.err = "ok"
        PROVE  /\ Found(b, x) /\ Lies(b, x) /\ p \in Seq(Byte) /\ rest \in Seq(Byte)
               /\ b[1] >= ListShort /\ ~(depth >= MaxNestingDepth) => ListFine(p, depth + 1, inner)
    <2>1. Found(b, x)
      BY <1>1, ExtentFound, Zenon
    <2>2. /\ Lies(b, x) /\ p \in Seq(Byte) /\ rest \in Seq(Byte)
          /\ Len(p) = x.end + 1 - x.start
          /\ b[1] >= ListShort => x.end + 1 - x.start \in Nat /\ x.end + 1 - x.start < Len(b)
      BY <1>1, Shorter, Zenon
    <2>3. ASSUME b[1] >= ListShort, ~(depth >= MaxNestingDepth) PROVE ListFine(p, depth + 1, inner)
      <3>1. ListsFine(x.end + 1 - x.start)
        BY <2>2, <2>3, Zenon
      <3>2. inner = Lists[x.end + 1 - x.start][depth + 1][p]
        BY Zenon DEF Inner
      <3> HIDE DEF p, x, inner
      <3> QED BY <1>0, <2>2, <2>3, <3>1, <3>2, Zenon DEF ListsFine
    <2> QED BY <2>1, <2>2, <2>3, Zenon
  <1>2. ASSUME r.err = "ok"
        PROVE  r.val \in Values(Left(depth)) /\ r.rest \in Seq(Byte) /\ b = Encode(Left(depth), r.val) \o r.rest
    <2>1. ItemOk(b, depth, Lists, r)
      BY <1>2, ItemCases, Zenon
    <2>2. \A v, u : Ok(v, u).val = v /\ Ok(v, u).rest = u
      BY Zenon DEF Ok
    <2> HIDE DEF r
    <2>3. b # <<>> /\ x.err = "ok"
      BY <2>1, Zenon DEF ItemOk
    <2>4. CASE /\ b[1] < ListShort /\ ~(x.start = 2 /\ x.end = 2 /\ b[2] < Single)
               /\ r = Ok(Bytes(p), rest)
      <3>1. b = EncodeBytes(p) \o rest
        BY <1>1, <2>3, <2>4, StringFine, Zenon
      <3>2. r.val = Bytes(p) /\ r.rest = rest
        BY <2>2, <2>4, Zenon
      <3>3. Bytes(p) \in Values(Left(depth)) /\ Encode(Left(depth), Bytes(p)) = EncodeBytes(p)
        BY <1>0, <1>1, <2>3, EncodeIs, Zenon
      <3> HIDE DEF p, rest
      <3>4. rest \in Seq(Byte)
        BY <1>1, <2>3, Zenon
      <3> QED BY <3>1, <3>2, <3>3, <3>4, Zenon
    <2>5. CASE /\ b[1] >= ListShort /\ ~(depth >= MaxNestingDepth)
               /\ inner.err = "ok" /\ r = Ok(List(inner.val), rest)
      <3>1. ListFine(p, depth + 1, inner) /\ Found(b, x) /\ rest \in Seq(Byte)
        BY <1>1, <2>3, <2>5, Zenon
      <3>2. Splits(b, x, ListShort, ListLong)
        BY <2>3, <2>5, <3>1, Zenon DEF Found
      <3>3. b = Prefixed(ListShort, ListLong, p) \o rest
        BY <3>2, Zenon DEF Splits
      <3>4. r.val = List(inner.val) /\ r.rest = rest
        BY <2>2, <2>5, Zenon
      <3> DEFINE l == inner.val
                 m == Left(depth + 1)
      <3>5. l \in Seq(Values(m)) /\ p = Join(Encoded(m, l)) /\ m \in Nat /\ m + 1 = Left(depth)
        BY <1>0, <2>5, <3>1, Zenon DEF ListFine
      <3> HIDE DEF l, m, p, rest
      <3>6. List(l) \in Values(m + 1) /\ Encode(m + 1, List(l)) = EncodeList(Encoded(m, l))
        BY <3>5, EncodeIs, Zenon
      <3>7. EncodeList(Encoded(m, l)) = Prefixed(ListShort, ListLong, p)
        BY <3>5, Zenon DEF EncodeList
      <3> QED BY <3>1, <3>3, <3>4, <3>5, <3>6, <3>7, Zenon DEF l
    <2> QED BY <2>1, <2>4, <2>5, Zenon DEF ItemOk
  <1>3. ASSUME r.err = "panic", Len(b) <= MaxInputLen PROVE Wraps(b)
    <2>1. ItemPanics(b, depth, Lists)
      BY <1>3, ItemCases, Zenon
    <2>2. b # <<>>
      BY <2>1, Zenon DEF ItemPanics
    <2>3. CASE x.err = "panic"
      <3>1. Found(b, x)
        BY <2>2, ExtentFound, Zenon
      <3> QED BY <1>3, <2>3, <3>1, Zenon DEF Found
    <2>4. CASE /\ b[1] >= ListShort /\ ~(depth >= MaxNestingDepth)
               /\ x.err = "ok" /\ inner.err = "panic"
      <3>1. ListFine(p, depth + 1, inner) /\ Lies(b, x)
        BY <1>1, <2>2, <2>4, Zenon
      <3>2. Len(p) = x.end + 1 - x.start
        BY <3>1, Slices, Zenon
      <3> DEFINE s == x.start
                 e == x.end
      <3>3. s \in Nat /\ e \in Nat /\ 1 <= s /\ s <= e + 1 /\ e <= Len(b)
        BY <3>1, Zenon DEF Lies
      <3> HIDE DEF s, e
      <3>4. e + 1 - s <= MaxInputLen
        BY <1>3, <3>3, RlpAssumption
      <3>5. Wraps(p)
        BY <2>4, <3>1, <3>2, <3>4, Zenon DEF ListFine, s, e
      <3>6. p = SubSeq(b, s, e)
        BY Zenon DEF s, e, Payload
      <3> HIDE DEF p
      <3> QED BY <3>3, <3>5, <3>6, WrapsWithin, Zenon
    <2> QED BY <2>1, <2>3, <2>4, Zenon DEF ItemPanics
  <1> QED BY <1>2, <1>3, Zenon DEF ItemFine

\* The items of a list, whatever its length.
LEMMA ListsAreFine == \A n \in Nat : ListsFine(n)
  <1> DEFINE S == {n \in Nat : ListsFine(n)}
  <1>1. ASSUME NEW n \in Nat, \A i \in 0..(n - 1) : i \in S PROVE n \in S
    <2> SUFFICES ASSUME NEW depth \in 0..MaxNestingDepth, NEW b \in Seq(Byte), Len(b) = n
                 PROVE  ListFine(b, depth, Lists[n][depth][b])
      BY Zenon DEF ListsFine
    <2> DEFINE m == Left(depth)
               d == Lists[n][depth][b]
               head == ItemDef(b, depth, Lists)
    <2>0. depth \in Nat /\ m \in Nat
      BY RlpAssumption DEF Left
    <2>1. b \in [1..n -> Byte]
      BY AsFunction, Zenon
    <2>2. d = IF n = 0 THEN Ok(<<>>, <<>>) ELSE ItemsAfter(head, depth, Lists)
      <3> DEFINE body(k, c) == IF n = 0 THEN Ok(<<>>, <<>>)
                               ELSE ItemsAfter(ItemDef(c, k, Lists), k, Lists)
      <3>1. Lists[n] = [k \in Nat |-> [c \in [1..n -> Byte] |-> body(k, c)]]
        BY ListsUnfold, Zenon DEF ListsDef
      <3> HIDE DEF body
      <3>2. Lists[n][depth] = [c \in [1..n -> Byte] |-> body(depth, c)]
        BY <2>0, <3>1, Zenon
      <3>3. Lists[n][depth][b] = body(depth, b)
        BY <2>1, <3>2, Zenon
      <3> QED BY <3>3, Zenon DEF body
    <2>3. \A i \in Nat : i < n => ListsFine(i)
      <3>1. \A i \in Nat : i < n => i \in 0..(n - 1)
        OBVIOUS
      <3> QED BY <1>1, <3>1, Zenon
    <2>4. \A v, u : Ok(v, u).val = v /\ Ok(v, u).rest = u /\ Ok(v, u).err = "ok"
      BY Zenon DEF Ok
    <2>5. "ok" # "panic"
      OBVIOUS
    <2>6. CASE n = 0
      <3>1. d = Ok(<<>>, <<>>)
        BY <2>2, <2>6, Zenon
      <3>2. b = <<>>
        BY <2>6
      <3>3. <<>> \in Seq(Values(m)) /\ Encoded(m, <<>>) = <<>>
        BY DEF Encoded
      <3> HIDE DEF d, m
      <3>4. d.err = "ok" /\ d.val = <<>>
        BY <2>4, <3>1, Zenon
      <3> QED BY <2>5, <3>2, <3>3, <3>4, JoinIs, Zenon DEF ListFine, d, m
    <2>7. CASE n # 0
      <3>1. d = ItemsAfter(head, depth, Lists)
        BY <2>2, <2>7, Zenon
      <3>2. ItemFine(b, depth, head)
        BY <2>3, ItemStep, Zenon
      <3>3. CASE head.err # "ok"
        <4>1. d = head
          BY <3>1, <3>3, Zenon DEF ItemsAfter
        <4> QED BY <3>2, <3>3, <4>1, Zenon DEF ItemFine, ListFine
      <3>4. CASE head.err = "ok"
        <4> DEFINE rest == head.rest
                   tail == Lists[Len(rest)][depth][rest]
                   v == head.val
        <4>1. d = Cons(head, tail)
          BY <3>1, <3>4, Zenon DEF ItemsAfter
        <4>2. v \in Values(m) /\ rest \in Seq(Byte) /\ b = Encode(m, v) \o rest
          BY <3>2, <3>4, Zenon DEF ItemFine
        <4>3. Encode(m, v) \in Seq(Nat) /\ Len(Encode(m, v)) >= 1
          BY <2>0, <4>2, EncodingTyped, Zenon
        <4> HIDE DEF head, rest, v, m
        <4>4. rest \in Seq(Nat)
          BY <4>2, BytesAre, Zenon
        <4>5. Len(rest) \in Nat /\ Len(rest) < n /\ n = Len(Encode(m, v)) + Len(rest)
          <5> DEFINE e == Encode(m, v)
          <5>1. Len(e \o rest) = Len(e) + Len(rest)
            BY <4>3, <4>4, Concat, Zenon
          <5>2. Len(e) \in Nat /\ Len(rest) \in Nat
            BY <4>3, <4>4, SeqIs, Zenon
          <5>3. n = Len(e) + Len(rest) /\ Len(e) >= 1
            BY <4>2, <4>3, <5>1, Zenon
          <5> HIDE DEF e
          <5>4. Len(rest) < n
            BY <5>2, <5>3
          <5> QED BY <5>2, <5>3, <5>4, Zenon DEF e
        <4>6. ListFine(rest, depth, tail)
          BY <2>3, <4>2, <4>5, Zenon DEF ListsFine
        <4> HIDE DEF tail
        <4>7. CASE tail.err # "ok"
          <5>1. d = tail
            BY <4>1, <4>7, Zenon DEF Cons
          <5>2. ASSUME Wraps(rest) PROVE Wraps(b)
            <6> DEFINE e == Len(Encode(m, v))
                       s == e + 1
            <6>1. e \in Nat
              BY <4>3, SeqIs, Zenon
            <6>2. b \in Seq(Nat) /\ SubSeq(Encode(m, v) \o rest, e + 1, e + Len(rest)) = rest
              <7>1. b \in Seq(Nat)
                BY BytesAre, Zenon
              <7>2. SubSeq(Encode(m, v) \o rest, e + 1, e + Len(rest)) = rest
                BY <4>3, <4>4, <4>5, After, Zenon
              <7> QED BY <7>1, <7>2, Zenon
            <6>3. SubSeq(b, s, n) = rest
              BY <4>2, <4>5, <6>2, Zenon
            <6> HIDE DEF e
            <6>4. s \in Nat /\ 1 <= s /\ s <= n + 1 /\ n <= Len(b)
              <7>1. n = e + Len(rest)
                BY <4>5, Zenon DEF e
              <7> QED BY <4>5, <6>1, <7>1
            <6> QED BY <5>2, <6>3, <6>4, WrapsWithin, Zenon
          <5>3. Len(b) <= MaxInputLen => Len(rest) <= MaxInputLen
            BY <4>5, RlpAssumption
          <5> QED BY <4>6, <4>7, <5>1, <5>2, <5>3, Zenon DEF ListFine
        <4>8. CASE tail.err = "ok"
          <5>1. d = Ok(<<v>> \o tail.val, <<>>)
            BY <4>1, <4>8, Zenon DEF Cons, v
          <5> DEFINE l == tail.val
          <5>2. l \in Seq(Values(m)) /\ rest = Join(Encoded(m, l))
            BY <4>6, <4>8, Zenon DEF ListFine, m
          <5> HIDE DEF l, d
          <5>3. d.err = "ok" /\ d.val = <<v>> \o l
            BY <2>4, <5>1, Zenon DEF l, v
          <5>4. \A w \in Values(m) : Encode(m, w) \in Seq(Nat)
            BY <2>0, EncodingTyped, Zenon
          <5>5. <<v>> \o l \in Seq(Values(m))
            BY <4>2, <5>2
          <5>6. Encoded(m, <<v>> \o l) = <<Encode(m, v)>> \o Encoded(m, l) /\ Encoded(m, l) \in Seq(Seq(Nat))
            BY <4>2, <5>2, <5>4, EncodedIs, Zenon
          <5>7. Join(Encoded(m, <<v>> \o l)) = Encode(m, v) \o rest
            BY <4>3, <5>2, <5>6, JoinIs, Zenon
          <5> QED BY <2>5, <4>2, <5>3, <5>5, <5>7, Zenon DEF ListFine, d, m
        <4> QED BY <4>7, <4>8, Zenon
      <3> QED BY <3>3, <3>4, Zenon
    <2> QED BY <2>6, <2>7, Zenon
  <1>2. \A n \in Nat : n \in S
    <2>1. S \subseteq Nat
      BY Zenon
    <2> HIDE DEF S
    <2> QED BY <1>1, <2>1, Induction, Zenon
  <1> QED BY <1>2, Zenon

\* decodeItem takes one item off the head of b, and the item has only this form.
THEOREM ItemDecoded ==
    ASSUME NEW b \in Seq(Byte), NEW depth \in 0..MaxNestingDepth
    PROVE  ItemFine(b, depth, decodeItem(b, depth))
  BY ListsAreFine, ItemStep, Zenon DEF decodeItem

------------------------------------------------------------------------------
(* What is encoded is decoded.                                             *)

\* A sequence in the middle of three.
LEMMA Middle ==
    ASSUME NEW T, NEW a \in Seq(T), NEW b \in Seq(T), NEW c \in Seq(T)
    PROVE  SubSeq((a \o b) \o c, Len(a) + 1, Len(a) + Len(b)) = b
  <1> DEFINE u == (a \o b) \o c
             w == SubSeq(u, Len(a) + 1, Len(a) + Len(b))
  <1>1. /\ u \in Seq(T) /\ Len(u) = Len(a) + Len(b) + Len(c)
        /\ Len(a) \in Nat /\ Len(b) \in Nat /\ Len(c) \in Nat
        /\ \A i \in 1..Len(b) : u[Len(a) + i] = b[i]
    OBVIOUS
  <1> HIDE DEF u
  <1>2. Len(a) + Len(b) <= Len(u)
    BY <1>1
  <1>3. /\ w \in Seq(T) /\ Len(w) = Len(b) /\ \A i \in 1..Len(b) : w[i] = u[Len(a) + i]
    BY <1>1, <1>2
  <1> HIDE DEF w
  <1>4. \A i \in 1..Len(b) : w[i] = b[i]
    BY <1>1, <1>3, Zenon
  <1>5. w = b
    BY <1>3, <1>4, SameSeq, Zenon
  <1> QED BY <1>5, Zenon DEF w, u

\* The prefixes of strings and of lists.
Forms(short, long) ==
    \/ short = StrShort /\ long = StrLong
    \/ short = ListShort /\ long = ListLong

\* An encoded item: where its payload lies in b.
Placed(b, x, p, rest) ==
    /\ b \in Seq(Byte) /\ b # <<>> /\ x.err = "ok" /\ x.end + 1 - x.start = Len(p)
    /\ Payload(b, x) = p /\ From(b, x.end + 1) = rest

IsShort(short, p, rest, e, b) ==
    LET x == ShortEnd(b, b[1] - short)
    IN  /\ e \in Seq(Byte) /\ b[1] = short + Len(p)
        /\ Placed(b, x, p, rest) /\ x.start = 2 /\ x.end = 1 + Len(p)

IsLong(long, p, rest, e, b) ==
    LET x == LongEnd(b, b[1] - long)
    IN  /\ e \in Seq(Byte) /\ b[1] > long /\ b[1] <= long + LenBytes
        /\ Placed(b, x, p, rest) /\ x.start # 2

IsForm(short, long, p, rest, e, b) ==
    /\ e \in Seq(Byte) /\ b[1] \in Nat /\ b[1] >= short /\ b[1] <= long + LenBytes
    /\ Placed(b, Extent(b), p, rest)
    /\ Extent(b).start = 2 => b[1] = short + Len(p) /\ Extent(b).end = 1 + Len(p)

IsString(p, rest, e, b) ==
    /\ e \in Seq(Byte) /\ b[1] < ListShort /\ ~(b[1] >= ListShort)
    /\ Placed(b, Extent(b), p, rest)
    /\ ~(Extent(b).start = 2 /\ Extent(b).end = 2 /\ b[2] < Single)

\* The short forms.
LEMMA ShortPlaced ==
    ASSUME NEW short, NEW long, Forms(short, long),
           NEW p \in Seq(Byte), NEW rest \in Seq(Byte), Len(p) <= ShortMax
    PROVE  IsShort(short, p, rest, Prefixed(short, long, p), Prefixed(short, long, p) \o rest)
  <1> DEFINE n == Len(p)
             c == short + n
             e == <<c>> \o p
             b == e \o rest
             x == [err |-> "ok", start |-> 2, end |-> 1 + n]
  <1>1. n \in Nat /\ short \in Nat /\ c \in Byte /\ c - short = n /\ Len(rest) \in Nat
    <2>1. n \in Nat /\ Len(rest) \in Nat
      OBVIOUS
    <2>2. short \in Nat /\ short + ShortMax < Base /\ ShortMax \in Nat
      BY Layouts DEF Forms
    <2> HIDE DEF n
    <2> QED BY <2>1, <2>2, Layouts DEF Byte, n
  <1>2. Prefixed(short, long, p) = e
    BY Zenon DEF Prefixed
  <1> HIDE DEF c
  <1>3. <<c>> \in Seq(Byte) /\ Len(<<c>>) = 1
    BY <1>1
  <1>4. e \in Seq(Byte) /\ Len(e) = 1 + n /\ e[1] = c
    <2> HIDE DEF n
    <2> QED BY <1>1, <1>3 DEF n
  <1>5. b \in Seq(Byte) /\ Len(b) = 1 + n + Len(rest) /\ b[1] = c /\ b # <<>>
    <2> HIDE DEF e, n
    <2> QED BY <1>1, <1>4
  <1>6. SubSeq(b, 1 + 1, 1 + n) = p
    BY <1>3, Middle, Zenon
  <1>7. SubSeq(b, (1 + n) + 1, (1 + n) + Len(rest)) = rest
    BY <1>4, After, ZenonT(40)
  <1>8. ShortEnd(b, n) = x
    <2>1. ~(Len(b) < 1 + n)
      <3> HIDE DEF b, n
      <3> QED BY <1>1, <1>5
    <2> HIDE DEF b, n
    <2> QED BY <2>1, Zenon DEF ShortEnd
  <1>9. x.err = "ok" /\ x.start = 2 /\ x.end = 1 + n
    OBVIOUS
  <1> HIDE DEF x
  <1>10. Payload(b, x) = p /\ From(b, x.end + 1) = rest
    <2>1. 1 + 1 = 2
      OBVIOUS
    <2> HIDE DEF b, n
    <2> QED BY <1>5, <1>6, <1>7, <1>9, <2>1, Zenon DEF Payload, From
  <1>11. x.end + 1 - x.start = n
    <2> HIDE DEF n
    <2> QED BY <1>1, <1>9
  <1> QED BY <1>1, <1>2, <1>4, <1>5, <1>8, <1>9, <1>10, <1>11, Zenon DEF Placed, c, IsShort

\* The long forms.
LEMMA LongPlaced ==
    ASSUME NEW short, NEW long, Forms(short, long),
           NEW p \in Seq(Byte), NEW rest \in Seq(Byte), ~(Len(p) <= ShortMax),
           2 * (Len(Prefixed(short, long, p)) + Len(rest)) < Word
    PROVE  IsLong(long, p, rest, Prefixed(short, long, p), Prefixed(short, long, p) \o rest)
  <1> DEFINE n == Len(p)
             d == uintToBytes(n)
             k == Len(d)
             c == long + k
             h == <<c>> \o d
             e == h \o p
             b == e \o rest
             x == [err |-> "ok", start |-> 2 + k, end |-> 1 + k + n]
  <1>1. Prefixed(short, long, p) = e
    BY Zenon DEF Prefixed
  <1>2. n \in Nat /\ Len(rest) \in Nat /\ n > ShortMax /\ n # 0
    <2>1. n \in Nat /\ Len(rest) \in Nat
      OBVIOUS
    <2> HIDE DEF n
    <2>2. ~(n <= ShortMax)
      BY Zenon DEF n
    <2> QED BY <2>1, <2>2, Layouts
  <1>3. d \in Seq(Byte) /\ Number(d) = n /\ Minimal(d) /\ d # <<>> /\ d \in Seq(Nat)
    BY <1>2, UintIs, BytesAre, Zenon
  <1> HIDE DEF n
  <1>4. long \in Nat /\ Word \in Nat /\ long + LenBytes < Base
    <2>1. long \in Nat /\ long + LenBytes < Base
      BY Layouts DEF Forms
    <2>2. LenBytes \in Nat
      BY Layouts
    <2> QED BY <2>1, <2>2, PowerIs, Zenon DEF Word
  <1>5. k \in Nat /\ k >= 1
    <2> HIDE DEF d
    <2> QED BY <1>3
  <1>6. Len(e) = 1 + k + n /\ 2 * ((1 + k + n) + Len(rest)) < Word
    <2>1. Len(e) = 1 + k + n
      <3>1. h \in Seq(Nat) /\ Len(h) = 1 + k
        <4> HIDE DEF d
        <4> QED BY <1>3, <1>4, <1>5
      <3>2. p \in Seq(Nat)
        BY BytesAre, Zenon
      <3> HIDE DEF h, k
      <3> QED BY <3>1, <3>2, Concat, Zenon DEF n
    <2> QED BY <1>1, <2>1, Zenon
  <1>7. k <= LenBytes /\ LenBytes \in Nat
    <2>1. n < Word
      <3> HIDE DEF k
      <3> QED BY <1>2, <1>4, <1>5, <1>6
    <2>2. LenBytes \in Nat
      BY Layouts
    <2> QED BY <1>2, <2>1, <2>2, UintLen, Zenon DEF Word
  <1> HIDE DEF d, k
  <1>8. c \in Byte /\ c - long = k /\ k \in 1..LenBytes /\ c > long /\ c <= long + LenBytes
    BY <1>4, <1>5, <1>7, Layouts DEF Byte
  <1> HIDE DEF c
  <1>9. <<c>> \in Seq(Byte) /\ Len(<<c>>) = 1
    BY <1>8
  <1>10. h \in Seq(Byte) /\ Len(h) = 1 + k /\ h[1] = c
    BY <1>3, <1>8, <1>9 DEF k
  <1>11. e \in Seq(Byte) /\ e[1] = c
    <2> HIDE DEF h
    <2> QED BY <1>5, <1>10
  <1>12. b \in Seq(Byte) /\ Len(b) = (1 + k + n) + Len(rest) /\ b[1] = c /\ b # <<>>
    <2> HIDE DEF e
    <2> QED BY <1>2, <1>5, <1>6, <1>11
  <1>13. SubSeq(b, 2, 1 + k) = d
    <2>1. Associates(h, p, rest)
      BY <1>10, Concat, Zenon
    <2>2. p \o rest \in Seq(Byte)
      BY ConcatIs, Zenon
    <2>3. SubSeq((<<c>> \o d) \o (p \o rest), 1 + 1, 1 + k) = d
      BY <1>3, <1>9, <2>2, Middle, Zenon DEF k
    <2>4. 1 + 1 = 2
      OBVIOUS
    <2> QED BY <2>1, <2>3, <2>4, Zenon DEF Associates
  <1>14. SubSeq(b, (1 + k) + 1, (1 + k) + n) = p
    <2> HIDE DEF h
    <2>1. SubSeq(b, Len(h) + 1, Len(h) + Len(p)) = p
      BY <1>10, Middle, Zenon
    <2> QED BY <1>10, <2>1, Zenon DEF n
  <1>15. SubSeq(b, (1 + k + n) + 1, (1 + k + n) + Len(rest)) = rest
    BY <1>6, <1>11, After, ZenonT(40)
  <1> HIDE DEF b
  <1>16. LongEnd(b, k) = x
    <2>1. ~(Len(b) < 1 + k) /\ ~(n <= ShortMax) /\ 2 * n < Word /\ 1 + k + n \in Nat /\ 1 + k + n < Word
      BY <1>2, <1>4, <1>5, <1>6, <1>12, Layouts
    <2>2. ~(Len(d) > 1 /\ d[1] = 0)
      BY <1>3, Zenon DEF Minimal
    <2>3. (1 + k + n) % Word = 1 + k + n
      BY <1>4, <2>1, SmallModulo, Zenon
    <2>4. ~(Len(b) < 1 + k + n) /\ ~(1 + k + n < 1 + k) /\ ~(1 + k + n > Len(b))
      BY <1>2, <1>5, <1>12
    <2>5. Signed(n) = n
      BY <2>1, Zenon DEF Signed
    <2> QED BY <1>3, <1>13, <2>1, <2>2, <2>3, <2>4, <2>5, Zenon DEF LongEnd
  <1>17. x.err = "ok" /\ x.start = 2 + k /\ x.end = 1 + k + n
    OBVIOUS
  <1> HIDE DEF x
  <1>18. Payload(b, x) = p /\ From(b, x.end + 1) = rest
    <2>1. (1 + k) + 1 = 2 + k
      BY <1>5
    <2> QED BY <1>12, <1>14, <1>15, <1>17, <2>1, Zenon DEF Payload, From
  <1>19. x.end + 1 - x.start = n /\ x.start # 2
    BY <1>2, <1>5, <1>17
  <1>20. Placed(b, x, p, rest)
    BY <1>12, <1>17, <1>18, <1>19, Zenon DEF Placed, n
  <1> QED BY <1>1, <1>8, <1>11, <1>12, <1>16, <1>19, <1>20, Zenon DEF b, IsLong

\* Either form, found by its prefix.
LEMMA FormPlaced ==
    ASSUME NEW short, NEW long, Forms(short, long),
           NEW p \in Seq(Byte), NEW rest \in Seq(Byte),
           2 * (Len(Prefixed(short, long, p)) + Len(rest)) < Word
    PROVE  IsForm(short, long, p, rest,
                  Prefixed(short, long, p), Prefixed(short, long, p) \o rest)
  <1> DEFINE e == Prefixed(short, long, p)
             b == e \o rest
             c == b[1]
  <1>0. Len(p) \in Nat
    OBVIOUS
  <1>1. /\ short = StrShort \/ short = ListShort
        /\ short = StrShort => long = StrLong
        /\ short = ListShort => long = ListLong
        /\ StrShort # ListShort
    <2>1. StrShort # ListShort
      BY Layouts
    <2> QED BY <2>1, Zenon DEF Forms
  <1>2. CASE Len(p) <= ShortMax
    <2> DEFINE x == ShortEnd(b, c - short)
    <2>1. /\ e \in Seq(Byte) /\ c = short + Len(p)
          /\ Placed(b, x, p, rest) /\ x.start = 2 /\ x.end = 1 + Len(p)
      <3>1. IsShort(short, p, rest, e, b)
        BY <1>2, ShortPlaced, Zenon
      <3> HIDE DEF e, b
      <3> QED BY <3>1, Zenon DEF IsShort
    <2> HIDE DEF x, c
    <2>2. /\ c \in Nat /\ c >= short /\ c <= long + LenBytes /\ ~(c < Single)
          /\ short = StrShort => c <= StrLong
          /\ short = ListShort => ~(c <= StrLong) /\ ~(c < ListShort) /\ c <= ListLong
      BY <1>0, <1>1, <1>2, <2>1, Layouts, SMTT(30)
    <2> HIDE DEF b, e
    <2>3. Extent(b) = x
      BY <1>1, <2>2, Zenon DEF Extent, x, c
    <2>4. IsForm(short, long, p, rest, e, b)
      BY <2>1, <2>2, <2>3, Zenon DEF c, IsForm
    <2> QED BY <2>4, Zenon DEF b, e
  <1>3. CASE ~(Len(p) <= ShortMax)
    <2> DEFINE x == LongEnd(b, c - long)
    <2>1. /\ e \in Seq(Byte) /\ c > long /\ c <= long + LenBytes
          /\ Placed(b, x, p, rest) /\ x.start # 2
      <3>1. IsLong(long, p, rest, e, b)
        BY <1>3, LongPlaced, Zenon
      <3> HIDE DEF e, b
      <3> QED BY <3>1, Zenon DEF IsLong
    <2>2. c \in Byte
      <3> HIDE DEF b
      <3>1. b \in Seq(Byte) /\ b # <<>>
        BY <2>1, Zenon DEF Placed
      <3> QED BY <3>1
    <2> HIDE DEF x, c
    <2>3. /\ c \in Nat /\ c >= short /\ ~(c < Single)
          /\ short = StrShort => ~(c <= StrLong) /\ c < ListShort
          /\ short = ListShort => ~(c <= StrLong) /\ ~(c < ListShort) /\ ~(c <= ListLong)
      BY <1>1, <2>1, <2>2, Layouts DEF Byte
    <2> HIDE DEF b, e
    <2>4. Extent(b) = x
      BY <1>1, <2>3, Zenon DEF Extent, x, c
    <2>5. IsForm(short, long, p, rest, e, b)
      BY <2>1, <2>3, <2>4, Zenon DEF c, IsForm
    <2> QED BY <2>5, Zenon DEF b, e
  <1> QED BY <1>2, <1>3, Zenon

\* An encoded string, and that StringItem accepts it.
LEMMA StringPlaced ==
    ASSUME NEW p \in Seq(Byte), NEW rest \in Seq(Byte),
           2 * (Len(EncodeBytes(p)) + Len(rest)) < Word
    PROVE  IsString(p, rest, EncodeBytes(p), EncodeBytes(p) \o rest)
  <1> DEFINE e == EncodeBytes(p)
             b == e \o rest
             x == Extent(b)
  <1>1. CASE Len(p) = 1 /\ p[1] < Single
    <2>1. e = p
      BY <1>1, Zenon DEF EncodeBytes
    <2>2. /\ p \o rest \in Seq(Byte) /\ p \o rest # <<>> /\ (p \o rest)[1] = p[1] /\ p[1] \in Byte
          /\ Len(p \o rest) = 1 + Len(rest)
      <3>1. p = <<p[1]>> /\ p[1] \in Byte
        BY <1>1, Singleton, Zenon
      <3>2. p \o rest \in Seq(Byte) /\ Len(p \o rest) = Len(p) + Len(rest)
        BY ConcatIs, Zenon
      <3>3. Len(rest) \in Nat /\ 1 \in 1..Len(p)
        BY <1>1
      <3>4. (p \o rest)[1] = p[1]
        BY <3>3
      <3>5. p \o rest # <<>>
        BY <1>1, <3>2, <3>3
      <3> QED BY <1>1, <3>1, <3>2, <3>4, <3>5, Zenon
    <2>3. p[1] < ListShort /\ ~(p[1] >= ListShort)
      BY <1>1, <2>2, Layouts DEF Byte
    <2>4. x = [err |-> "ok", start |-> 1, end |-> 1]
      BY <1>1, <2>1, <2>2, Zenon DEF Extent
    <2>5. x.err = "ok" /\ x.start = 1 /\ x.end = 1 /\ x.end + 1 - x.start = 1
      <3> HIDE DEF x
      <3> QED BY <2>4
    <2>6. SubSeq(p \o rest, 1, 1) = p /\ SubSeq(p \o rest, 1 + 1, 1 + Len(rest)) = rest
      BY <1>1, After, Zenon
    <2>7. 1 # 2
      OBVIOUS
    <2> HIDE DEF x
    <2> QED BY <1>1, <2>1, <2>2, <2>3, <2>5, <2>6, <2>7, Zenon DEF Placed, Payload, From, x, IsString
  <1>2. CASE ~(Len(p) = 1 /\ p[1] < Single)
    <2>1. e = Prefixed(StrShort, StrLong, p)
      BY <1>2, Zenon DEF EncodeBytes
    <2>2. Forms(StrShort, StrLong)
      BY Zenon DEF Forms
    <2>3. /\ e \in Seq(Byte) /\ b[1] \in Nat /\ b[1] <= StrLong + LenBytes
          /\ Placed(b, x, p, rest)
          /\ x.start = 2 => x.end = 1 + Len(p)
      <3>1. IsForm(StrShort, StrLong, p, rest, e, b)
        BY <2>1, <2>2, FormPlaced, Zenon
      <3> HIDE DEF e, b
      <3> QED BY <3>1, Zenon DEF IsForm
    <2> HIDE DEF b, x
    <2>4. b[1] < ListShort /\ ~(b[1] >= ListShort)
      BY <2>3, Layouts
    <2>5. ASSUME x.start = 2, x.end = 2, b[2] < Single PROVE FALSE
      <3>0. Len(p) \in Nat
        OBVIOUS
      <3>1. Len(p) = 1
        <4>1. 2 = 1 + Len(p)
          BY <2>3, <2>5, Zenon
        <4>2. \A n \in Nat : 2 = 1 + n => n = 1
          OBVIOUS
        <4> QED BY <3>0, <4>1, <4>2, Zenon
      <3>2. b \in Seq(Byte) /\ SubSeq(b, 2, 2) = p /\ x.end + 1 - x.start = 1
        BY <2>3, <2>5, <3>1, Zenon DEF Placed, Payload
      <3>3. SubSeq(b, 2, 2)[1] = b[2]
        OBVIOUS
      <3> QED BY <1>2, <2>5, <3>1, <3>2, <3>3, Zenon
    <2> QED BY <2>3, <2>4, <2>5, Zenon DEF b, x, IsString
  <1> QED BY <1>1, <1>2, Zenon

\* Every value that fits at this depth is decoded from its encoding.
Trips(depth) == \A v \in Values(Left(depth)) : \A rest \in Seq(Byte) :
    2 * (Len(Encode(Left(depth), v)) + Len(rest)) < Word =>
        /\ Encode(Left(depth), v) \in Seq(Byte)
        /\ ItemDef(Encode(Left(depth), v) \o rest, depth, Lists) = Ok(v, rest)

\* The same for the items of a list.
ListTrips(depth, l) ==
    LET b == Join(Encoded(Left(depth), l))
    IN  2 * Len(b) < Word => b \in Seq(Byte) /\ Lists[Len(b)][depth][b] = Ok(l, <<>>)

\* A list decoded after its first item.
LEMMA ListsStep ==
    ASSUME NEW b \in Seq(Byte), NEW depth \in Nat
    PROVE  /\ b = <<>> => Lists[Len(b)][depth][b] = Ok(<<>>, <<>>)
           /\ b # <<>> => Lists[Len(b)][depth][b] = ItemsAfter(ItemDef(b, depth, Lists), depth, Lists)
  <1> DEFINE n == Len(b)
             body(k, c) == IF n = 0 THEN Ok(<<>>, <<>>)
                           ELSE ItemsAfter(ItemDef(c, k, Lists), k, Lists)
  <1>1. n \in Nat /\ (b = <<>> => n = 0) /\ (b # <<>> => n # 0)
    OBVIOUS
  <1> HIDE DEF n
  <1>2. b \in [1..n -> Byte]
    BY <1>1, AsFunction, Zenon DEF n
  <1>3. Lists[n] = [k \in Nat |-> [c \in [1..n -> Byte] |-> body(k, c)]]
    BY <1>1, ListsUnfold, Zenon DEF ListsDef
  <1> HIDE DEF body
  <1>4. Lists[n][depth] = [c \in [1..n -> Byte] |-> body(depth, c)]
    BY <1>3, Zenon
  <1>5. Lists[n][depth][b] = body(depth, b)
    BY <1>2, <1>4, Zenon
  <1> QED BY <1>1, <1>5, Zenon DEF body, n

\* A sequence that is not empty is its first element and the others.
LEMMA FirstOthers ==
    ASSUME NEW T, NEW s \in Seq(T), NEW n \in Nat, Len(s) = n + 1
    PROVE  \E c \in T, u \in Seq(T) : s = <<c>> \o u /\ Len(u) = n
  <1>1. Head(s) \in T /\ Tail(s) \in Seq(T) /\ Len(Tail(s)) = n /\ s = <<Head(s)>> \o Tail(s)
    OBVIOUS
  <1> QED BY <1>1, Zenon

\* If items at this depth are decoded from their encodings, so are lists of them.
LEMMA ListTrip ==
    ASSUME NEW depth \in 0..MaxNestingDepth, Trips(depth)
    PROVE  \A l \in Seq(Values(Left(depth))) : ListTrips(depth, l)
  <1> DEFINE m == Left(depth)
             V == Values(m)
             S == {n \in Nat : \A l \in Seq(V) : Len(l) = n => ListTrips(depth, l)}
  <1>0. depth \in Nat /\ m \in Nat
    BY RlpAssumption DEF Left
  <1>1. \A v, u : Ok(v, u).val = v /\ Ok(v, u).rest = u /\ Ok(v, u).err = "ok"
    BY Zenon DEF Ok
  <1>2. \A v \in V : Encode(m, v) \in Seq(Nat)
    BY <1>0, EncodingTyped, Zenon
  <1> HIDE DEF m, V
  <1>3. 0 \in S
    <2> SUFFICES ASSUME NEW l \in Seq(V), Len(l) = 0 PROVE ListTrips(depth, l)
      OBVIOUS
    <2>1. l = <<>> /\ <<>> \in Seq(Byte)
      OBVIOUS
    <2>2. Encoded(m, <<>>) = <<>>
      BY DEF Encoded
    <2>3. Join(Encoded(m, l)) = <<>>
      BY <2>1, <2>2, JoinIs, Zenon
    <2>4. Lists[Len(<<>>)][depth][<<>>] = Ok(<<>>, <<>>)
      BY <1>0, <2>1, ListsStep, Zenon
    <2> QED BY <2>1, <2>3, <2>4, Zenon DEF ListTrips, m
  <1>4. ASSUME NEW n \in Nat, n \in S PROVE n + 1 \in S
    <2>0. n + 1 \in Nat
      OBVIOUS
    <2> SUFFICES ASSUME NEW l \in Seq(V), Len(l) = n + 1 PROVE ListTrips(depth, l)
      BY <2>0, Zenon
    <2>1. PICK v \in V, u \in Seq(V) : l = <<v>> \o u /\ Len(u) = n
      BY FirstOthers, Zenon
    <2> DEFINE b == Join(Encoded(m, l))
               e == Encode(m, v)
               r == Join(Encoded(m, u))
    <2>2. ListTrips(depth, u)
      BY <1>4, <2>1, Zenon
    <2>3. Encoded(m, u) \in Seq(Seq(Nat)) /\ Encoded(m, <<v>> \o u) = <<e>> \o Encoded(m, u)
      BY <1>2, EncodedIs, Zenon
    <2>4. e \in Seq(Nat)
      BY <1>2, Zenon
    <2>5. r \in Seq(Nat) /\ b = e \o r
      BY <2>1, <2>3, <2>4, JoinIs, Zenon
    <2>6. Len(b) = Len(e) + Len(r) /\ Len(e) \in Nat /\ Len(r) \in Nat /\ Len(e) >= 1
      <3>1. Len(e \o r) = Len(e) + Len(r)
        BY <2>4, <2>5, ConcatIs, Zenon
      <3>2. Len(e) >= 1
        BY <1>0, EncodingTyped, Zenon DEF V
      <3>3. Len(e) \in Nat /\ Len(r) \in Nat
        BY <2>4, <2>5, SeqIs, Zenon
      <3> QED BY <2>5, <3>1, <3>2, <3>3, Zenon
    <2> HIDE DEF b, e, r
    <2>7. ASSUME 2 * Len(b) < Word
          PROVE  b \in Seq(Byte) /\ Lists[Len(b)][depth][b] = Ok(l, <<>>)
      <3>0. Word \in Nat
        <4>1. LenBytes \in Nat
          BY Layouts
        <4> QED BY <4>1, PowerIs, Zenon DEF Word
      <3>1. 2 * (Len(e) + Len(r)) < Word /\ 2 * Len(r) < Word
        BY <2>6, <2>7, <3>0
      <3>2. r \in Seq(Byte) /\ Lists[Len(r)][depth][r] = Ok(u, <<>>)
        BY <2>2, <3>1, Zenon DEF ListTrips, r, m
      <3>3. e \in Seq(Byte) /\ ItemDef(e \o r, depth, Lists) = Ok(v, r)
        BY <3>1, <3>2, Zenon DEF Trips, e, m, V
      <3>4. b \in Seq(Byte)
        BY <2>5, <3>2, <3>3, ConcatIs, Zenon
      <3>5. b # <<>>
        BY <2>6
      <3>6. Lists[Len(b)][depth][b] = ItemsAfter(Ok(v, r), depth, Lists)
        BY <1>0, <2>5, <3>3, <3>4, <3>5, ListsStep, Zenon
      <3>7. ItemsAfter(Ok(v, r), depth, Lists) = Cons(Ok(v, r), Ok(u, <<>>))
        BY <1>1, <3>2, Zenon DEF ItemsAfter
      <3>8. Cons(Ok(v, r), Ok(u, <<>>)) = Ok(<<v>> \o u, <<>>)
        BY <1>1, Zenon DEF Cons
      <3> QED BY <2>1, <3>4, <3>6, <3>7, <3>8, Zenon
    <2> QED BY <2>7, Zenon DEF ListTrips, b, m
  <1>5. \A n \in Nat : n \in S
    <2>1. S \subseteq Nat
      BY Zenon
    <2> HIDE DEF S
    <2> QED BY <1>3, <1>4, <2>1, InductionNext, Zenon
  <1>6. \A l \in Seq(V) : Len(l) \in Nat
    OBVIOUS
  <1> QED BY <1>5, <1>6, Zenon DEF V, m

\* An encoded string is decoded to itself at every depth.
LEMMA StringTrip ==
    ASSUME NEW p \in Seq(Byte), NEW rest \in Seq(Byte), NEW depth,
           2 * (Len(EncodeBytes(p)) + Len(rest)) < Word
    PROVE  /\ EncodeBytes(p) \in Seq(Byte)
           /\ ItemDef(EncodeBytes(p) \o rest, depth, Lists) = Ok(Bytes(p), rest)
  <1> DEFINE e == EncodeBytes(p)
             b == e \o rest
             x == Extent(b)
  <1>1. IsString(p, rest, e, b)
    BY StringPlaced, Zenon
  <1> HIDE DEF e, b
  <1>2. /\ e \in Seq(Byte) /\ b[1] < ListShort /\ ~(b[1] >= ListShort)
        /\ b # <<>> /\ x.err = "ok" /\ Payload(b, x) = p /\ From(b, x.end + 1) = rest
        /\ ~(x.start = 2 /\ x.end = 2 /\ b[2] < Single)
    BY <1>1, Zenon DEF IsString, Placed
  <1> HIDE DEF x
  <1>3. ItemDef(b, depth, Lists) = ItemWithin(b, depth, x, Lists)
    BY <1>2, Zenon DEF ItemDef, x
  <1>4. ItemWithin(b, depth, x, Lists) = StringItem(b, x)
    BY <1>2, Zenon DEF ItemWithin
  <1>5. StringItem(b, x) = Ok(Bytes(p), rest)
    BY <1>2, Zenon DEF StringItem
  <1> QED BY <1>2, <1>3, <1>4, <1>5, Zenon DEF e, b

\* An encoded list is decoded to itself when its payload is.
LEMMA ListItemTrip ==
    ASSUME NEW depth \in 0..MaxNestingDepth, depth + 1 \in 0..MaxNestingDepth,
           NEW l \in Seq(Values(Left(depth + 1))), ListTrips(depth + 1, l),
           NEW rest \in Seq(Byte),
           2 * (Len(EncodeList(Encoded(Left(depth + 1), l))) + Len(rest)) < Word
    PROVE  /\ EncodeList(Encoded(Left(depth + 1), l)) \in Seq(Byte)
           /\ ItemDef(EncodeList(Encoded(Left(depth + 1), l)) \o rest, depth, Lists)
                = Ok(List(l), rest)
  <1> DEFINE m == Left(depth + 1)
             p == Join(Encoded(m, l))
             e == Prefixed(ListShort, ListLong, p)
             b == e \o rest
             x == Extent(b)
  <1>0. EncodeList(Encoded(m, l)) = e
    BY Zenon DEF EncodeList
  <1>1. m \in Nat /\ Word \in Nat /\ ~(depth >= MaxNestingDepth)
    <2>1. LenBytes \in Nat
      BY Layouts
    <2>2. Word \in Nat
      BY <2>1, PowerIs, Zenon DEF Word
    <2> QED BY <2>2, RlpAssumption DEF Left
  <1>2. p \in Seq(Nat)
    <2>1. \A v \in Values(m) : Encode(m, v) \in Seq(Nat)
      BY <1>1, EncodingTyped, Zenon
    <2>2. Encoded(m, l) \in Seq(Seq(Nat)) /\ <<>> \in Seq(Nat)
      BY <2>1, EncodedIs, NoElements, Zenon
    <2> QED BY <2>2, JoinIs, Zenon
  <1>3. 2 * (Len(e) + Len(rest)) < Word
    BY <1>0, Zenon
  <1>4. 2 * Len(p) < Word
    <2>1. ListShort \in Nat /\ ListLong \in Nat
      BY Layouts
    <2>2. e \in Seq(Nat) /\ Len(e) >= 1 + Len(p)
      BY <1>2, <2>1, PrefixedTyped, Zenon
    <2>3. Len(p) \in Nat /\ Len(e) \in Nat /\ Len(rest) \in Nat
      BY <1>2, <2>2, SeqIs, Zenon
    <2> HIDE DEF p, e
    <2> QED BY <1>1, <1>3, <2>2, <2>3
  <1>5. p \in Seq(Byte) /\ Lists[Len(p)][depth + 1][p] = Ok(l, <<>>)
    BY <1>4, Zenon DEF ListTrips
  <1>6. Forms(ListShort, ListLong)
    BY Zenon DEF Forms
  <1>7. IsForm(ListShort, ListLong, p, rest, e, b)
    BY <1>3, <1>5, <1>6, FormPlaced, Zenon
  <1> HIDE DEF p, e, b
  <1>8. /\ e \in Seq(Byte) /\ b[1] \in Nat /\ b[1] >= ListShort
        /\ b # <<>> /\ x.err = "ok" /\ Payload(b, x) = p /\ From(b, x.end + 1) = rest
        /\ x.end + 1 - x.start = Len(p)
    BY <1>7, Zenon DEF IsForm, Placed
  <1> HIDE DEF x
  <1>9. ~(b[1] < ListShort)
    BY <1>8, Layouts
  <1>10. ItemDef(b, depth, Lists) = ItemWithin(b, depth, x, Lists)
    BY <1>1, <1>8, Zenon DEF ItemDef, x
  <1>11. ItemWithin(b, depth, x, Lists) = ListItem(b, x, Ok(l, <<>>))
    BY <1>5, <1>8, <1>9, Zenon DEF ItemWithin
  <1>12. Ok(l, <<>>).err = "ok" /\ Ok(l, <<>>).val = l
    BY Zenon DEF Ok
  <1>13. ListItem(b, x, Ok(l, <<>>)) = Ok(List(l), rest)
    BY <1>8, <1>12, Zenon DEF ListItem
  <1> QED BY <1>0, <1>8, <1>10, <1>11, <1>13, Zenon DEF b

\* Every value is decoded from its encoding, whatever follows it.
LEMMA ItemTrip == \A depth \in 0..MaxNestingDepth : Trips(depth)
  <1> DEFINE S == {j \in Nat : \A depth \in 0..MaxNestingDepth : Left(depth) = j => Trips(depth)}
  <1>0. \A depth \in 0..MaxNestingDepth :
          /\ Left(depth) \in Nat
          /\ Left(depth) # 0 => /\ depth + 1 \in 0..MaxNestingDepth
                                /\ Left(depth + 1) = Left(depth) - 1
                                /\ Left(depth) = Left(depth + 1) + 1
    BY RlpAssumption DEF Left
  <1>1. ASSUME NEW depth \in 0..MaxNestingDepth,
               Left(depth) # 0 => Trips(depth + 1)
        PROVE  Trips(depth)
    <2> SUFFICES ASSUME NEW v \in Values(Left(depth)), NEW rest \in Seq(Byte),
                        2 * (Len(Encode(Left(depth), v)) + Len(rest)) < Word
                 PROVE  /\ Encode(Left(depth), v) \in Seq(Byte)
                        /\ ItemDef(Encode(Left(depth), v) \o rest, depth, Lists) = Ok(v, rest)
      BY Zenon DEF Trips
    <2>1. CASE v \in [t : {"bytes"}, b : Seq(Byte)]
      <3>1. v = Bytes(v.b) /\ v.b \in Seq(Byte)
        BY <2>1 DEF Bytes
      <3>2. Encode(Left(depth), v) = EncodeBytes(v.b)
        BY <1>0, <3>1, EncodeIs, Zenon
      <3> DEFINE p == v.b
      <3>3. p \in Seq(Byte) /\ 2 * (Len(EncodeBytes(p)) + Len(rest)) < Word
        BY <3>1, <3>2, Zenon
      <3> HIDE DEF p
      <3>4. /\ EncodeBytes(p) \in Seq(Byte)
            /\ ItemDef(EncodeBytes(p) \o rest, depth, Lists) = Ok(Bytes(p), rest)
        BY <3>3, StringTrip, Zenon
      <3> QED BY <3>1, <3>2, <3>4, Zenon DEF p
    <2>2. CASE Left(depth) # 0 /\ v \in [t : {"list"}, l : Seq(Values(Left(depth) - 1))]
      <3>1. v = List(v.l) /\ v.l \in Seq(Values(Left(depth) - 1))
        BY <2>2 DEF List
      <3> DEFINE l == v.l
                 m == Left(depth + 1)
      <3>2. /\ depth + 1 \in 0..MaxNestingDepth /\ m \in Nat
            /\ Left(depth) = m + 1 /\ l \in Seq(Values(m))
        BY <1>0, <2>2, <3>1, Zenon
      <3>3. ListTrips(depth + 1, l)
        BY <1>1, <2>2, <3>2, ListTrip, Zenon
      <3>4. Encode(Left(depth), v) = EncodeList(Encoded(m, l))
        <4> HIDE DEF l, m
        <4>1. Encode(m + 1, List(l)) = EncodeList(Encoded(m, l))
          BY <3>2, EncodeIs, Zenon
        <4> QED BY <3>1, <3>2, <4>1, Zenon DEF l
      <3>5. 2 * (Len(EncodeList(Encoded(m, l))) + Len(rest)) < Word
        BY <3>4, Zenon
      <3> HIDE DEF l
      <3>6. /\ EncodeList(Encoded(m, l)) \in Seq(Byte)
            /\ ItemDef(EncodeList(Encoded(m, l)) \o rest, depth, Lists) = Ok(List(l), rest)
        BY <3>2, <3>3, <3>5, ListItemTrip, Zenon
      <3> QED BY <3>1, <3>4, <3>6, Zenon DEF l
    <2> QED BY <1>0, <2>1, <2>2, InValues, Zenon
  <1>2. 0 \in S
    BY <1>1, Zenon
  <1>3. ASSUME NEW j \in Nat, j \in S PROVE j + 1 \in S
    <2>1. j + 1 \in Nat /\ j + 1 # 0 /\ (j + 1) - 1 = j
      OBVIOUS
    <2> SUFFICES ASSUME NEW depth \in 0..MaxNestingDepth, Left(depth) = j + 1 PROVE Trips(depth)
      BY <2>1, Zenon
    <2>2. depth + 1 \in 0..MaxNestingDepth /\ Left(depth + 1) = j
      BY <1>0, <2>1, Zenon
    <2> QED BY <1>1, <1>3, <2>2, Zenon
  <1>4. \A j \in Nat : j \in S
    <2>1. S \subseteq Nat
      BY Zenon
    <2> HIDE DEF S
    <2> QED BY <1>2, <1>3, <2>1, InductionNext, Zenon
  <1> QED BY <1>0, <1>4, Zenon

\* Decode inverts the encoding: a value that fits is read back from its
\* encoding, so two values never have the same encoding.
THEOREM RoundTrip ==
    \A v \in Values(MaxNestingDepth) :
        LET e == Encode(MaxNestingDepth, v)
        IN  /\ 2 * Len(e) < Word => e \in Seq(Byte) /\ decodeItem(e, 0) = Ok(v, <<>>)
            /\ Len(e) <= MaxInputLen => Decode(e) = Ok(v, <<>>)
  <1> TAKE v \in Values(MaxNestingDepth)
  <1> DEFINE e == Encode(MaxNestingDepth, v)
  <1>0. MaxNestingDepth \in Nat /\ 0 \in 0..MaxNestingDepth /\ Left(0) = MaxNestingDepth
    BY RlpAssumption DEF Left
  <1>1. Trips(0)
    BY <1>0, ItemTrip, Zenon
  <1>2. e \in Seq(Nat) /\ Len(e) >= 1
    BY <1>0, EncodingTyped, Zenon
  <1> HIDE DEF e
  <1>3. Len(e) \in Nat /\ e # <<>> /\ e \o <<>> = e /\ 2 * (Len(e) + Len(<<>>)) = 2 * Len(e)
    BY <1>2
  <1>4. <<>> \in Seq(Byte)
    OBVIOUS
  <1>5. 2 * Len(e) < Word => e \in Seq(Byte) /\ decodeItem(e, 0) = Ok(v, <<>>)
    BY <1>0, <1>1, <1>3, <1>4, Zenon DEF Trips, decodeItem, e
  <1>6. ASSUME Len(e) <= MaxInputLen PROVE Decode(e) = Ok(v, <<>>)
    <2>0. Word \in Nat
      <3>1. LenBytes \in Nat
        BY Layouts
      <3> QED BY <3>1, PowerIs, Zenon DEF Word
    <2>1. 2 * Len(e) < Word /\ ~(Len(e) > MaxInputLen)
      BY <1>3, <1>6, <2>0, RlpAssumption
    <2>2. Ok(v, <<>>).rest = <<>>
      BY Zenon DEF Ok
    <2>3. Complete(Ok(v, <<>>)) = Ok(v, <<>>)
      BY <2>2, Zenon DEF Complete
    <2> QED BY <1>3, <1>5, <2>1, <2>3, Zenon DEF Decode
  <1> QED BY <1>5, <1>6, Zenon DEF e

------------------------------------------------------------------------------
(* What decoding says of the bytes, in every state.                        *)

\* Decode accepts only what Encode produces, and fails out of bounds only where
\* a length wraps.
LEMMA Decoded ==
    ASSUME NEW b \in Seq(Byte)
    PROVE  /\ Decode(b).err = "ok" => /\ Decode(b).val \in Values(MaxNestingDepth)
                                      /\ b = Encode(MaxNestingDepth, Decode(b).val)
           /\ Decode(b).err = "panic" => Wraps(b)
  <1> DEFINE d == decodeItem(b, 0)
             r == Decode(b)
  <1>0. 0 \in 0..MaxNestingDepth /\ Left(0) = MaxNestingDepth
    BY RlpAssumption DEF Left
  <1>1. ItemFine(b, 0, d)
    BY <1>0, ItemDecoded, Zenon
  <1> HIDE DEF d
  <1>2. \A e : Err(e).err = e
    BY Zenon DEF Err
  <1>3. CASE b = <<>> \/ Len(b) > MaxInputLen
    <2>1. r = Err("ErrTruncated") \/ r = Err("ErrInputTooLarge")
      BY <1>3, Zenon DEF Decode
    <2>2. r.err # "ok" /\ r.err # "panic"
      <3> HIDE DEF r
      <3> QED BY <1>2, <2>1
    <2> QED BY <2>2, Zenon
  <1>4. CASE b # <<>> /\ ~(Len(b) > MaxInputLen)
    <2>0. Len(b) <= MaxInputLen
      <3>1. Len(b) \in Nat
        OBVIOUS
      <3> QED BY <1>4, <3>1, RlpAssumption
    <2>1. r = Complete(d)
      BY <1>4, Zenon DEF Decode, d
    <2> HIDE DEF r
    <2>2. CASE d.err = "ok" /\ d.rest # <<>>
      <3>1. r = Err("ErrTrailingBytes")
        BY <2>1, <2>2, Zenon DEF Complete
      <3>2. r.err # "ok" /\ r.err # "panic"
        BY <1>2, <3>1
      <3> QED BY <3>2, Zenon DEF r
    <2>3. CASE ~(d.err = "ok" /\ d.rest # <<>>)
      <3>1. r = d
        BY <2>1, <2>3, Zenon DEF Complete
      <3>2. ASSUME d.err = "ok" PROVE b = Encode(MaxNestingDepth, d.val)
        <4>1. /\ d.val \in Values(MaxNestingDepth) /\ d.rest = <<>>
              /\ b = Encode(MaxNestingDepth, d.val) \o d.rest
          BY <1>0, <1>1, <2>3, <3>2, Zenon DEF ItemFine
        <4>2. Encode(MaxNestingDepth, d.val) \in Seq(Nat) /\ MaxNestingDepth \in Nat
          <5>1. MaxNestingDepth \in Nat
            BY RlpAssumption
          <5> QED BY <4>1, <5>1, EncodingTyped, Zenon
        <4> QED BY <4>1, <4>2, Concat, Zenon
      <3> QED BY <1>0, <1>1, <2>0, <3>1, <3>2, Zenon DEF ItemFine, r
    <2> QED BY <2>2, <2>3, Zenon
  <1> QED BY <1>3, <1>4, Zenon

------------------------------------------------------------------------------
(* Signatures and what they were made for.                                 *)

\* A signature is one of those signing yields, under one of the keys.
SigTyped(g) == /\ g.key \in Keys
               /\ g.r \in 1..(N - 1) /\ g.s \in 1..HalfN /\ g.recID \in {0, 1}

\* What it was made for is what its digest says.
MadeForTx(g, tx) == /\ tx \in Txs /\ tx.chainId # 0
                    /\ g.of = [kind |-> "tx", tx |-> tx] /\ g.digest = SigningPreimage(tx, TRUE)

MadeForMessage(g, m) == /\ m \in Messages
                        /\ g.of = [kind |-> "personal", msg |-> m] /\ g.digest = personalDigest(m)

MadeForData(g, d, h) == /\ d \in Domains /\ h \in Structs /\ DomainValid(d)
                        /\ g.of = [kind |-> "typed", domain |-> d, struct |-> h]
                        /\ g.digest = typedDigest(d, h)

MadeFor(g) == \/ \E tx \in Txs : MadeForTx(g, tx)
              \/ \E m \in Messages : MadeForMessage(g, m)
              \/ \E d \in Domains, h \in Structs : MadeForData(g, d, h)

SigsOk(made) == /\ \A g \in made : SigTyped(g) /\ MadeFor(g)
                /\ \A g, h \in made : g.r = h.r => g = h

------------------------------------------------------------------------------
(* The fields of a transaction as RLP values.                              *)

\* The nesting left inside a transaction.
Inside == MaxNestingDepth - 1

\* It has room for an access list.
LEMMA InsideIs ==
    /\ Inside \in Nat /\ MaxNestingDepth \in Nat /\ MaxNestingDepth = Inside + 1
    /\ \E n \in Nat : Inside = ((n + 1) + 1) + 1
  <1>1. /\ Inside \in Nat /\ MaxNestingDepth \in Nat /\ MaxNestingDepth = Inside + 1
        /\ Inside - 3 \in Nat /\ Inside = (((Inside - 3) + 1) + 1) + 1
    BY RlpAssumption, CurveAssumption DEF Inside
  <1> QED BY <1>1, Zenon

KeysValue(keys) == List([j \in DOMAIN keys |-> Bytes(keys[j])])

EntryValue(entry) == List(<<Bytes(entry.address), KeysValue(entry.keys)>>)

AccessValue(entries) == List([i \in DOMAIN entries |-> EntryValue(entries[i])])

Numbers == Uint64Fields \cup BigFields

Names == Numbers \cup {"to", "data", "accessList"}

FieldItem(f, x) == IF f \in Numbers THEN Bytes(uintToBytes(x))
                   ELSE IF f = "accessList" THEN AccessValue(x)
                   ELSE Bytes(x)

Entries == [address : Seq(Byte), keys : Seq(Seq(Byte))]

\* A field that can be encoded.
FieldFits(f, x) == IF f \in Numbers THEN x \in Nat
                   ELSE IF f = "accessList" THEN x \in Seq(Entries)
                   ELSE x \in Seq(Byte)

\* The two shapes of a value, and what they hold.
LEMMA Shapes ==
    /\ \A b : Bytes(b).t = "bytes" /\ Bytes(b).b = b
    /\ \A l : List(l).t = "list" /\ List(l).l = l
    /\ \A n \in Nat : \A v \in Values(n) :
         /\ v.t = "bytes" => v = Bytes(v.b) /\ v.b \in Seq(Byte)
         /\ v.t = "list" => /\ v = List(v.l) /\ n # 0 /\ n - 1 \in Nat
                            /\ v.l \in Seq(Values(n - 1))
  <1>1. \A b : Bytes(b).t = "bytes" /\ Bytes(b).b = b
    BY DEF Bytes
  <1>2. \A l : List(l).t = "list" /\ List(l).l = l
    BY DEF List
  <1>3. ASSUME NEW n \in Nat, NEW v \in Values(n)
        PROVE  /\ v.t = "bytes" => v = Bytes(v.b) /\ v.b \in Seq(Byte)
               /\ v.t = "list" => /\ v = List(v.l) /\ n # 0 /\ n - 1 \in Nat
                                  /\ v.l \in Seq(Values(n - 1))
    <2>1. CASE v \in [t : {"bytes"}, b : Seq(Byte)]
      BY <2>1 DEF Bytes
    <2>2. CASE n # 0 /\ v \in [t : {"list"}, l : Seq(Values(n - 1))]
      <3> DEFINE S == Seq(Values(n - 1))
      <3>1. n - 1 \in Nat
        BY <2>2
      <3> HIDE DEF S
      <3>2. v.t # "bytes" /\ v = List(v.l) /\ v.l \in S
        BY <2>2 DEF List, S
      <3> QED BY <2>2, <3>1, <3>2, Zenon DEF S
    <2> QED BY <2>1, <2>2, InValues, Zenon
  <1> QED BY <1>1, <1>2, <1>3, Zenon

\* The storage keys of an entry.
LEMMA KeysEncoded ==
    ASSUME NEW n \in Nat, NEW keys \in Seq(Seq(Byte))
    PROVE  /\ KeysValue(keys) \in Values(n + 1)
           /\ Encode(n + 1, KeysValue(keys)) = encodeKeys(keys)
           /\ [j \in DOMAIN KeysValue(keys).l |-> KeysValue(keys).l[j].b] = keys
  <1> DEFINE l == [j \in DOMAIN keys |-> Bytes(keys[j])]
             V == Values(n)
             B == Seq(Byte)
  <1>1. Len(keys) \in Nat /\ DOMAIN keys = 1..Len(keys) /\ keys \in [1..Len(keys) -> B]
    OBVIOUS
  <1> HIDE DEF V, B
  <1>2. \A j \in DOMAIN keys : keys[j] \in B
    BY <1>1, Zenon
  <1>3. \A j \in DOMAIN keys : Bytes(keys[j]) \in V /\ Encode(n, Bytes(keys[j])) = EncodeBytes(keys[j])
    BY <1>2, EncodeIs, Zenon DEF V, B
  <1>4. l \in [1..Len(keys) -> V] /\ DOMAIN l = DOMAIN keys
    BY <1>1, <1>3, Zenon
  <1>5. \A j \in DOMAIN keys : l[j] = Bytes(keys[j])
    BY Zenon
  <1>6. KeysValue(keys) = List(l)
    BY Zenon DEF KeysValue
  <1> HIDE DEF l
  <1>7. l \in Seq(V)
    BY <1>1, <1>4, AsFunction, Zenon
  <1>8. Encoded(n, l) = [j \in DOMAIN keys |-> EncodeBytes(keys[j])]
    BY <1>3, <1>4, <1>5, Zenon DEF Encoded
  <1>9. List(l) \in Values(n + 1) /\ Encode(n + 1, List(l)) = EncodeList(Encoded(n, l))
    BY <1>7, EncodeIs, Zenon DEF V
  <1>10. Encode(n + 1, KeysValue(keys)) = encodeKeys(keys)
    BY <1>6, <1>8, <1>9, Zenon DEF encodeKeys
  <1>11. [j \in DOMAIN l |-> l[j].b] = keys
    <2>1. \A j \in DOMAIN keys : l[j].b = keys[j]
      BY <1>5, Shapes, Zenon
    <2>2. keys = [j \in DOMAIN keys |-> keys[j]]
      BY <1>1, Zenon
    <2>3. [j \in DOMAIN l |-> l[j].b] = [j \in DOMAIN keys |-> keys[j]]
      BY <1>4, <2>1, Zenon
    <2> QED BY <2>2, <2>3, Zenon
  <1>12. KeysValue(keys).l = l
    BY <1>6, Shapes, Zenon
  <1> QED BY <1>6, <1>9, <1>10, <1>11, <1>12, Zenon

\* An entry of an access list.
LEMMA EntryEncoded ==
    ASSUME NEW n \in Nat, NEW entry \in Entries
    PROVE  /\ EntryValue(entry) \in Values((n + 1) + 1)
           /\ Encode((n + 1) + 1, EntryValue(entry)) = encodeEntry(entry)
           /\ EntryOf(EntryValue(entry)) = entry
  <1> DEFINE a == Bytes(entry.address)
             k == KeysValue(entry.keys)
             m == n + 1
             l == <<a, k>>
  <1>0. /\ entry = [address |-> entry.address, keys |-> entry.keys]
        /\ entry.address \in Seq(Byte) /\ entry.keys \in Seq(Seq(Byte))
    <2> DEFINE B == Seq(Byte)
               K == Seq(Seq(Byte))
    <2>1. entry \in [address : B, keys : K]
      BY Zenon DEF Entries
    <2> HIDE DEF B, K
    <2>2. /\ entry = [address |-> entry.address, keys |-> entry.keys]
          /\ entry.address \in B /\ entry.keys \in K
      BY <2>1
    <2> QED BY <2>2, Zenon DEF B, K
  <1>1. m \in Nat
    OBVIOUS
  <1>2. k \in Values(m) /\ Encode(m, k) = encodeKeys(entry.keys)
        /\ [j \in DOMAIN k.l |-> k.l[j].b] = entry.keys
    BY <1>0, KeysEncoded, Zenon
  <1> HIDE DEF m
  <1>3. a \in Values(m) /\ Encode(m, a) = EncodeBytes(entry.address) /\ a.b = entry.address
    BY <1>0, <1>1, EncodeIs, Shapes, Zenon
  <1>4. EntryValue(entry) = List(l)
    BY Zenon DEF EntryValue
  <1> HIDE DEF a, k
  <1>5. l \in Seq(Values(m)) /\ DOMAIN l = {1, 2} /\ l[1] = a /\ l[2] = k
    <2> DEFINE V == Values(m)
    <2>1. a \in V /\ k \in V
      BY <1>2, <1>3, Zenon
    <2> HIDE DEF V
    <2>2. l \in Seq(V) /\ DOMAIN l = {1, 2} /\ l[1] = a /\ l[2] = k
      BY <2>1
    <2> QED BY <2>2, Zenon DEF V
  <1> HIDE DEF l
  <1>6. Encoded(m, l) = <<EncodeBytes(entry.address), encodeKeys(entry.keys)>>
    <2> DEFINE u == EncodeBytes(entry.address)
               w == encodeKeys(entry.keys)
    <2>1. Encoded(m, l) = [i \in {1, 2} |-> Encode(m, l[i])]
      BY <1>5, Zenon DEF Encoded
    <2>2. Encode(m, l[1]) = u /\ Encode(m, l[2]) = w
      BY <1>2, <1>3, <1>5, Zenon
    <2> HIDE DEF u, w
    <2>3. [i \in {1, 2} |-> Encode(m, l[i])] = <<u, w>>
      BY <2>2
    <2> QED BY <2>1, <2>3, Zenon DEF u, w
  <1>7. List(l) \in Values(m + 1) /\ Encode(m + 1, List(l)) = EncodeList(Encoded(m, l))
    BY <1>1, <1>5, EncodeIs, Zenon
  <1>8. Encode(m + 1, EntryValue(entry)) = encodeEntry(entry)
    BY <1>4, <1>6, <1>7, Zenon DEF encodeEntry
  <1>9. EntryValue(entry).l = l
    BY <1>4, Shapes, Zenon
  <1>10. EntryOf(EntryValue(entry)) = entry
    <2>1. EntryOf(EntryValue(entry)) = [address |-> a.b, keys |-> [j \in DOMAIN k.l |-> k.l[j].b]]
      BY <1>5, <1>9, Zenon DEF EntryOf
    <2> QED BY <1>0, <1>2, <1>3, <2>1, Zenon
  <1> QED BY <1>4, <1>7, <1>8, <1>10, Zenon DEF m

\* An access list.
LEMMA AccessEncoded ==
    ASSUME NEW x \in Seq(Entries)
    PROVE  /\ AccessValue(x) \in Values(Inside)
           /\ Encode(Inside, AccessValue(x)) = encodeAccessList(x)
           /\ AccessEntries(AccessValue(x)) = x
  <1> DEFINE l == [i \in DOMAIN x |-> EntryValue(x[i])]
  <1>0. PICK n \in Nat : Inside = ((n + 1) + 1) + 1
    BY InsideIs, Zenon
  <1> DEFINE m == (n + 1) + 1
             V == Values(m)
  <1>1. m \in Nat /\ Inside = m + 1
    BY <1>0
  <1>2. Len(x) \in Nat /\ DOMAIN x = 1..Len(x) /\ x \in [1..Len(x) -> Entries]
    <2> DEFINE E == Entries
    <2> HIDE DEF E
    <2> SUFFICES x \in Seq(E) => /\ Len(x) \in Nat /\ DOMAIN x = 1..Len(x)
                                 /\ x \in [1..Len(x) -> E]
      BY Zenon DEF E
    <2> QED OBVIOUS
  <1>3. \A i \in DOMAIN x : /\ EntryValue(x[i]) \in V
                            /\ Encode(m, EntryValue(x[i])) = encodeEntry(x[i])
                            /\ EntryOf(EntryValue(x[i])) = x[i]
    BY <1>2, EntryEncoded, Zenon
  <1> HIDE DEF m, V
  <1>4. l \in [1..Len(x) -> V] /\ DOMAIN l = DOMAIN x
    BY <1>2, <1>3, Zenon
  <1>5. \A i \in DOMAIN x : l[i] = EntryValue(x[i])
    BY Zenon
  <1>6. AccessValue(x) = List(l)
    BY Zenon DEF AccessValue
  <1> HIDE DEF l
  <1>7. l \in Seq(V)
    BY <1>2, <1>4, AsFunction, Zenon
  <1>8. Encoded(m, l) = [i \in DOMAIN x |-> encodeEntry(x[i])]
    BY <1>3, <1>4, <1>5, Zenon DEF Encoded
  <1>9. List(l) \in Values(m + 1) /\ Encode(m + 1, List(l)) = EncodeList(Encoded(m, l))
    BY <1>1, <1>7, EncodeIs, Zenon DEF V
  <1>10. Encode(Inside, AccessValue(x)) = encodeAccessList(x)
    BY <1>1, <1>6, <1>8, <1>9, Zenon DEF encodeAccessList
  <1>11. [i \in DOMAIN l |-> EntryOf(l[i])] = x
    <2>1. x = [i \in DOMAIN x |-> x[i]]
      BY <1>2, Zenon
    <2>2. \A i \in DOMAIN x : EntryOf(l[i]) = x[i]
      BY <1>3, <1>5, Zenon
    <2>3. [i \in DOMAIN l |-> EntryOf(l[i])] = [i \in DOMAIN x |-> x[i]]
      BY <1>4, <2>2, Zenon
    <2> QED BY <2>1, <2>3, Zenon
  <1>12. AccessValue(x).l = l
    BY <1>6, Shapes, Zenon
  <1> QED BY <1>1, <1>6, <1>9, <1>10, <1>11, <1>12, Zenon DEF AccessEntries

\* A field is encoded as its value, and read back from it.
LEMMA FieldEncoded ==
    ASSUME NEW f, NEW x, FieldFits(f, x)
    PROVE  /\ FieldItem(f, x) \in Values(Inside)
           /\ Encode(Inside, FieldItem(f, x)) = encodeField(f, x)
           /\ FieldValue(f, FieldItem(f, x)) = x
  <1>0. Inside \in Nat
    BY InsideIs, Zenon
  <1>1. CASE f \in Numbers
    <2>1. uintToBytes(x) \in Seq(Byte) /\ Number(uintToBytes(x)) = x
      BY <1>1, UintIs, Zenon DEF FieldFits
    <2>2. FieldItem(f, x) = Bytes(uintToBytes(x))
      BY <1>1, Zenon DEF FieldItem
    <2>3. encodeField(f, x) = EncodeBytes(uintToBytes(x))
      BY <1>1, Zenon DEF encodeField, encodeBig, EncodeUint64, Numbers
    <2>4. \A v : FieldValue(f, v) = Number(v.b)
      BY <1>1, Zenon DEF FieldValue, Numbers
    <2> DEFINE b == uintToBytes(x)
    <2> HIDE DEF b
    <2>5. b \in Seq(Byte) /\ FieldItem(f, x) = Bytes(b) /\ encodeField(f, x) = EncodeBytes(b)
      BY <2>1, <2>2, <2>3, Zenon DEF b
    <2>6. Bytes(b) \in Values(Inside) /\ Encode(Inside, Bytes(b)) = EncodeBytes(b)
      BY <1>0, <2>5, EncodeIs, Zenon
    <2>7. FieldValue(f, Bytes(b)) = x
      BY <2>1, <2>4, Shapes, ZenonT(40) DEF b
    <2> QED BY <2>5, <2>6, <2>7, Zenon
  <1>2. CASE f \notin Numbers /\ f = "accessList"
    <2>1. x \in Seq(Entries) /\ FieldItem(f, x) = AccessValue(x)
      BY <1>2, Zenon DEF FieldFits, FieldItem
    <2>2. encodeField(f, x) = encodeAccessList(x)
      BY <1>2, Zenon DEF encodeField, Numbers
    <2>3. \A v : FieldValue(f, v) = AccessEntries(v)
      BY <1>2, Zenon DEF FieldValue, Numbers
    <2> QED BY <2>1, <2>2, <2>3, AccessEncoded, Zenon
  <1>3. CASE f \notin Numbers /\ f # "accessList"
    <2>1. x \in Seq(Byte) /\ FieldItem(f, x) = Bytes(x)
      BY <1>3, Zenon DEF FieldFits, FieldItem
    <2>2. encodeField(f, x) = EncodeBytes(x)
      BY <1>3, Zenon DEF encodeField, Numbers
    <2>3. \A v : FieldValue(f, v) = v.b
      BY <1>3, Zenon DEF FieldValue, Numbers
    <2>4. Bytes(x) \in Values(Inside) /\ Encode(Inside, Bytes(x)) = EncodeBytes(x)
      BY <1>0, <2>1, EncodeIs, Zenon
    <2>5. FieldValue(f, Bytes(x)) = x
      BY <2>3, Shapes, Zenon
    <2> QED BY <2>1, <2>2, <2>4, <2>5, Zenon
  <1> QED BY <1>1, <1>2, <1>3, Zenon

\* Storage keys that were read are the ones that were written.
LEMMA KeysRead ==
    ASSUME NEW n \in Nat, NEW v \in Values(n), IsKeys(v)
    PROVE  /\ [j \in DOMAIN v.l |-> v.l[j].b] \in Seq(Seq(Byte))
           /\ KeysValue([j \in DOMAIN v.l |-> v.l[j].b]) = v
  <1> DEFINE l == v.l
             V == Values(n - 1)
             B == Seq(Byte)
             keys == [j \in DOMAIN l |-> l[j].b]
  <1>1. v = List(l) /\ n - 1 \in Nat /\ l \in Seq(V)
    BY Shapes, Zenon DEF IsKeys
  <1> HIDE DEF V
  <1>2. Len(l) \in Nat /\ DOMAIN l = 1..Len(l) /\ l \in [1..Len(l) -> V]
    BY <1>1, SeqIs, Zenon
  <1>3. \A j \in DOMAIN l : l[j] \in V /\ l[j].t = "bytes"
    BY <1>2, Zenon DEF IsKeys, IsBytes
  <1>4. \A j \in DOMAIN l : l[j] = Bytes(l[j].b) /\ l[j].b \in B
    BY <1>1, <1>3, Shapes, Zenon DEF V
  <1> HIDE DEF l, B
  <1>5. keys \in [1..Len(l) -> B] /\ DOMAIN keys = DOMAIN l /\ \A j \in DOMAIN l : keys[j] = l[j].b
    BY <1>2, <1>4, Zenon
  <1>6. keys \in Seq(B)
    BY <1>2, <1>5, AsFunction, Zenon
  <1>7. l = [j \in DOMAIN l |-> l[j]]
    BY <1>2, Zenon
  <1> HIDE DEF keys
  <1>8. [j \in DOMAIN keys |-> Bytes(keys[j])] = [j \in DOMAIN l |-> l[j]]
    BY <1>4, <1>5, Zenon
  <1>9. KeysValue(keys) = List(l)
    BY <1>7, <1>8, Zenon DEF KeysValue
  <1> QED BY <1>1, <1>6, <1>9, Zenon DEF keys, l, B

\* An entry that was read is the one that was written.
LEMMA EntryRead ==
    ASSUME NEW n \in Nat, NEW v \in Values(n), IsEntry(v)
    PROVE  EntryOf(v) \in Entries /\ EntryValue(EntryOf(v)) = v
  <1> DEFINE l == v.l
             V == Values(n - 1)
  <1>1. v = List(l) /\ n - 1 \in Nat /\ l \in Seq(V) /\ Len(l) = 2
    BY Shapes, Zenon DEF IsEntry
  <1> DEFINE a == l[1]
             k == l[2]
             keys == [j \in DOMAIN k.l |-> k.l[j].b]
  <1>2. a \in V /\ k \in V /\ l = <<a, k>>
    <2> HIDE DEF V, l
    <2>1. l \in [1..2 -> V]
      BY <1>1, SeqIs, Zenon
    <2>2. 1 \in 1..2 /\ 2 \in 1..2 /\ 1..2 = {1, 2}
      OBVIOUS
    <2>3. a \in V /\ k \in V
      BY <2>1, <2>2, Zenon
    <2>4. l = [i \in 1..2 |-> l[i]]
      BY <2>1, Zenon
    <2>5. [i \in 1..2 |-> l[i]] = <<l[1], l[2]>>
      OBVIOUS
    <2> QED BY <2>3, <2>4, <2>5, Zenon
  <1>3. a.t = "bytes" /\ IsKeys(k)
    BY Zenon DEF IsEntry, IsBytes
  <1>4. a = Bytes(a.b) /\ a.b \in Seq(Byte)
    BY <1>1, <1>2, <1>3, Shapes, Zenon
  <1>5. keys \in Seq(Seq(Byte)) /\ KeysValue(keys) = k
    BY <1>1, <1>2, <1>3, KeysRead, Zenon
  <1>6. EntryOf(v) = [address |-> a.b, keys |-> keys]
    BY Zenon DEF EntryOf
  <1> HIDE DEF a, k, keys, l, V
  <1>7. EntryOf(v).address = a.b /\ EntryOf(v).keys = keys
    BY <1>6
  <1>8. EntryOf(v) \in Entries
    <2> DEFINE B == Seq(Byte)
               K == Seq(Seq(Byte))
    <2>1. a.b \in B /\ keys \in K
      BY <1>4, <1>5, Zenon
    <2> HIDE DEF B, K
    <2>2. [address |-> a.b, keys |-> keys] \in [address : B, keys : K]
      BY <2>1
    <2> QED BY <1>6, <2>2, Zenon DEF Entries, B, K
  <1>9. EntryValue(EntryOf(v)) = List(<<a, k>>)
    BY <1>4, <1>5, <1>7, Zenon DEF EntryValue
  <1> QED BY <1>1, <1>2, <1>8, <1>9, Zenon

\* An access list that was read is the one that was written.
LEMMA AccessRead ==
    ASSUME NEW v \in Values(Inside), parseAccessList(v)
    PROVE  AccessEntries(v) \in Seq(Entries) /\ AccessValue(AccessEntries(v)) = v
  <1> DEFINE l == v.l
             V == Values(Inside - 1)
             E == Entries
             x == AccessEntries(v)
  <1>0. Inside \in Nat
    BY InsideIs, Zenon
  <1>1. v = List(l) /\ Inside - 1 \in Nat /\ l \in Seq(V)
    BY <1>0, Shapes, Zenon DEF parseAccessList
  <1>2. Len(l) \in Nat /\ DOMAIN l = 1..Len(l) /\ l \in [1..Len(l) -> V]
    <2> HIDE DEF l, V
    <2> QED BY <1>1, SeqIs, Zenon
  <1>3. \A i \in DOMAIN l : l[i] \in V /\ IsEntry(l[i])
    BY <1>2, Zenon DEF parseAccessList
  <1>4. \A i \in DOMAIN l : EntryOf(l[i]) \in E /\ EntryValue(EntryOf(l[i])) = l[i]
    BY <1>1, <1>3, EntryRead, Zenon
  <1>5. x = [i \in DOMAIN l |-> EntryOf(l[i])]
    BY Zenon DEF AccessEntries
  <1> HIDE DEF l, V, E, x
  <1>6. x \in [1..Len(l) -> E] /\ DOMAIN x = DOMAIN l /\ \A i \in DOMAIN l : x[i] = EntryOf(l[i])
    BY <1>2, <1>4, <1>5, Zenon
  <1>7. x \in Seq(E)
    BY <1>2, <1>6, AsFunction, Zenon
  <1>8. l = [i \in DOMAIN l |-> l[i]]
    BY <1>2, Zenon
  <1>9. [i \in DOMAIN x |-> EntryValue(x[i])] = [i \in DOMAIN l |-> l[i]]
    BY <1>4, <1>6, Zenon
  <1>10. AccessValue(x) = List(l)
    BY <1>8, <1>9, Zenon DEF AccessValue
  <1> QED BY <1>1, <1>7, <1>10, Zenon DEF x, E

\* A field that was read is the one that was written: an integer has one form.
LEMMA FieldRead ==
    ASSUME NEW type, NEW f \in Names, NEW v \in Values(Inside), FieldOk(type, f, v)
    PROVE  FieldFits(f, FieldValue(f, v)) /\ FieldItem(f, FieldValue(f, v)) = v
  <1>0. Inside \in Nat
    BY InsideIs, Zenon
  <1>1. CASE f \in Numbers
    <2>1. IsBytes(v) /\ checkIntegerField(v.b)
      BY <1>1, Zenon DEF FieldOk, asUint64, asBigInt, Numbers
    <2>2. v = Bytes(v.b) /\ v.b \in Seq(Byte) /\ Minimal(v.b)
      BY <1>0, <2>1, Shapes, Zenon DEF IsBytes, checkIntegerField, Minimal
    <2>3. FieldValue(f, v) = Number(v.b)
      BY <1>1, Zenon DEF FieldValue, Numbers
    <2>4. Number(v.b) \in Nat /\ uintToBytes(Number(v.b)) = v.b
      BY <2>2, NumberBound, NumberUint, Zenon
    <2> QED BY <1>1, <2>2, <2>3, <2>4, Zenon DEF FieldFits, FieldItem
  <1>2. CASE f \notin Numbers /\ f = "accessList"
    <2>0. "accessList" # "to" /\ "accessList" # "data"
      OBVIOUS
    <2>1. parseAccessList(v)
      BY <1>2, <2>0, Zenon DEF FieldOk, Numbers
    <2>2. FieldValue(f, v) = AccessEntries(v)
      BY <1>2, Zenon DEF FieldValue, Numbers
    <2>3. AccessEntries(v) \in Seq(Entries) /\ AccessValue(AccessEntries(v)) = v
      BY <2>1, AccessRead, Zenon
    <2> QED BY <1>2, <2>2, <2>3, Zenon DEF FieldFits, FieldItem
  <1>3. CASE f \notin Numbers /\ f # "accessList"
    <2>1. IsBytes(v)
      BY <1>3, Zenon DEF FieldOk, Names, Numbers, asAddress
    <2>2. v = Bytes(v.b) /\ v.b \in Seq(Byte)
      BY <1>0, <2>1, Shapes, Zenon DEF IsBytes
    <2>3. FieldValue(f, v) = v.b
      BY <1>3, Zenon DEF FieldValue, Numbers
    <2> QED BY <1>3, <2>2, <2>3, Zenon DEF FieldFits, FieldItem
  <1> QED BY <1>1, <1>2, <1>3, Zenon

------------------------------------------------------------------------------
(* Lists of fields.                                                        *)

FieldItems(layout, tx) == [i \in DOMAIN layout |-> FieldItem(layout[i], tx[layout[i]])]

Fits(layout, tx) == \A i \in DOMAIN layout : FieldFits(layout[i], tx[layout[i]])

\* The fields in the order of a layout, encoded one by one.
LEMMA FieldsEncoded ==
    ASSUME NEW layout \in Seq(Names), NEW tx, Fits(layout, tx)
    PROVE  /\ FieldItems(layout, tx) \in Seq(Values(Inside))
           /\ Len(FieldItems(layout, tx)) = Len(layout)
           /\ Encoded(Inside, FieldItems(layout, tx)) = encodeFields(layout, tx)
  <1> DEFINE l == FieldItems(layout, tx)
             V == Values(Inside)
  <1>1. Len(layout) \in Nat /\ DOMAIN layout = 1..Len(layout)
    OBVIOUS
  <1>2. \A i \in DOMAIN layout :
          /\ FieldItem(layout[i], tx[layout[i]]) \in V
          /\ Encode(Inside, FieldItem(layout[i], tx[layout[i]])) = encodeField(layout[i], tx[layout[i]])
    BY FieldEncoded, Zenon DEF Fits
  <1> HIDE DEF V
  <1>3. /\ l \in [1..Len(layout) -> V] /\ DOMAIN l = DOMAIN layout
        /\ \A i \in DOMAIN layout : l[i] = FieldItem(layout[i], tx[layout[i]])
    BY <1>1, <1>2, Zenon DEF FieldItems
  <1> HIDE DEF l
  <1>4. l \in Seq(V) /\ Len(l) = Len(layout)
    BY <1>1, <1>3, AsFunction, Zenon
  <1>5. Encoded(Inside, l) = encodeFields(layout, tx)
    BY <1>2, <1>3, Zenon DEF Encoded, encodeFields
  <1> QED BY <1>4, <1>5, Zenon DEF l, V

\* The encodings of two lists one after the other.
LEMMA EncodedConcat ==
    ASSUME NEW n, NEW V, NEW T, \A v \in V : Encode(n, v) \in T, NEW a \in Seq(V), NEW b \in Seq(V)
    PROVE  Encoded(n, a \o b) = Encoded(n, a) \o Encoded(n, b)
  <1> DEFINE ab == a \o b
             x == Encoded(n, ab)
             u == Encoded(n, a)
             w == Encoded(n, b)
  <1>1. /\ ab \in Seq(V) /\ Len(ab) = Len(a) + Len(b)
        /\ \A i \in 1..Len(a) : ab[i] = a[i]
        /\ \A i \in 1..Len(b) : ab[Len(a) + i] = b[i]
    OBVIOUS
  <1> HIDE DEF ab
  <1>2. x \in Seq(T) /\ Len(x) = Len(ab) /\ \A i \in 1..Len(ab) : x[i] = Encode(n, ab[i])
    BY <1>1, EncodedIs, Zenon
  <1>3. u \in Seq(T) /\ Len(u) = Len(a) /\ \A i \in 1..Len(a) : u[i] = Encode(n, a[i])
    BY EncodedIs, Zenon
  <1>4. w \in Seq(T) /\ Len(w) = Len(b) /\ \A i \in 1..Len(b) : w[i] = Encode(n, b[i])
    BY EncodedIs, Zenon
  <1> HIDE DEF x, u, w
  <1>5. /\ u \o w \in Seq(T) /\ Len(u \o w) = Len(u) + Len(w)
        /\ \A i \in 1..Len(u) : (u \o w)[i] = u[i]
        /\ \A i \in 1..Len(w) : (u \o w)[Len(u) + i] = w[i]
    <2>1. u \in Seq(T) /\ w \in Seq(T)
      BY <1>3, <1>4, Zenon
    <2> QED BY <2>1
  <1>6. Len(a) \in Nat /\ Len(b) \in Nat
    OBVIOUS
  <1>7. ASSUME NEW i \in 1..Len(x) PROVE x[i] = (u \o w)[i]
    <2>1. CASE i <= Len(a)
      <3>1. i \in 1..Len(a) /\ i \in 1..Len(ab) /\ i \in 1..Len(u)
        BY <1>1, <1>2, <1>3, <1>6, <2>1
      <3> QED BY <1>1, <1>2, <1>3, <1>5, <3>1, Zenon
    <2>2. CASE ~(i <= Len(a))
      <3> DEFINE k == i - Len(a)
      <3>1. k \in 1..Len(b) /\ i \in 1..Len(ab) /\ Len(a) + k = i
        BY <1>1, <1>2, <1>6, <2>2
      <3> HIDE DEF k
      <3>2. ab[i] = b[k] /\ (u \o w)[i] = w[k]
        BY <1>1, <1>3, <1>4, <1>5, <3>1, Zenon
      <3> QED BY <1>2, <1>4, <3>1, <3>2, Zenon
    <2> QED BY <2>1, <2>2, Zenon
  <1>8. Len(x) = Len(u \o w)
    BY <1>1, <1>2, <1>3, <1>4, <1>5, Zenon
  <1>9. x = u \o w
    BY <1>2, <1>5, <1>7, <1>8, SameSeq, Zenon
  <1> QED BY <1>9, Zenon DEF x, u, w, ab

\* A transaction is the encoding of the list of its fields and of what follows.
LEMMA ListEncoded ==
    ASSUME NEW layout \in Seq(Names), NEW tx, Fits(layout, tx), NEW more \in Seq(Values(Inside))
    PROVE  /\ FieldItems(layout, tx) \o more \in Seq(Values(Inside))
           /\ Len(FieldItems(layout, tx) \o more) = Len(layout) + Len(more)
           /\ List(FieldItems(layout, tx) \o more) \in Values(MaxNestingDepth)
           /\ Encode(MaxNestingDepth, List(FieldItems(layout, tx) \o more))
                = EncodeList(encodeFields(layout, tx) \o Encoded(Inside, more))
  <1> DEFINE l == FieldItems(layout, tx)
             V == Values(Inside)
  <1>0. Inside \in Nat /\ MaxNestingDepth = Inside + 1
    BY InsideIs, Zenon
  <1>1. l \in Seq(V) /\ Len(l) = Len(layout) /\ Encoded(Inside, l) = encodeFields(layout, tx)
    BY FieldsEncoded, Zenon
  <1> HIDE DEF l
  <1>2. l \o more \in Seq(V) /\ Len(l \o more) = Len(layout) + Len(more)
    <2>1. l \o more \in Seq(V) /\ Len(l \o more) = Len(l) + Len(more)
      BY <1>1, ConcatIs, Zenon
    <2> QED BY <1>1, <2>1, Zenon
  <1>3. \A v \in V : Encode(Inside, v) \in Seq(Nat)
    BY <1>0, EncodingTyped, Zenon
  <1>4. Encoded(Inside, l \o more) = Encoded(Inside, l) \o Encoded(Inside, more)
    BY <1>1, <1>3, EncodedConcat, Zenon
  <1>5. /\ List(l \o more) \in Values(Inside + 1)
        /\ Encode(Inside + 1, List(l \o more)) = EncodeList(Encoded(Inside, l \o more))
    BY <1>0, <1>2, EncodeIs, Zenon
  <1> QED BY <1>0, <1>1, <1>2, <1>4, <1>5, Zenon DEF l

\* Three more items.
LEMMA Triple ==
    ASSUME NEW a \in Values(Inside), NEW b \in Values(Inside), NEW c \in Values(Inside)
    PROVE  /\ <<a, b, c>> \in Seq(Values(Inside)) /\ Len(<<a, b, c>>) = 3
           /\ Encoded(Inside, <<a, b, c>>) = <<Encode(Inside, a), Encode(Inside, b), Encode(Inside, c)>>
  <1> DEFINE V == Values(Inside)
             l == <<a, b, c>>
  <1> HIDE DEF V
  <1>0. a \in V /\ b \in V /\ c \in V
    BY Zenon DEF V
  <1>1. l \in Seq(V) /\ Len(l) = 3 /\ DOMAIN l = 1..3 /\ l[1] = a /\ l[2] = b /\ l[3] = c
    BY <1>0
  <1> HIDE DEF l
  <1>2. Encoded(Inside, l) = [i \in 1..3 |-> Encode(Inside, l[i])]
    BY <1>1, Zenon DEF Encoded
  <1> DEFINE x == Encode(Inside, a)
             y == Encode(Inside, b)
             z == Encode(Inside, c)
  <1>3. Encode(Inside, l[1]) = x /\ Encode(Inside, l[2]) = y /\ Encode(Inside, l[3]) = z
    BY <1>1, Zenon
  <1> HIDE DEF x, y, z
  <1>4. [i \in 1..3 |-> Encode(Inside, l[i])] = <<x, y, z>>
    BY <1>3
  <1> QED BY <1>1, <1>2, <1>4, Zenon DEF V, l, x, y, z

\* The first byte of a list.
LEMMA ListHead ==
    ASSUME NEW l \in Seq(Values(Inside))
    PROVE  LET e == Encode(MaxNestingDepth, List(l))
           IN  /\ List(l) \in Values(MaxNestingDepth) /\ e \in Seq(Nat) /\ Len(e) >= 1
               /\ e[1] \in Nat /\ e[1] >= ListShort
  <1> DEFINE p == Join(Encoded(Inside, l))
             e == Encode(MaxNestingDepth, List(l))
  <1>0. Inside \in Nat /\ MaxNestingDepth = Inside + 1 /\ MaxNestingDepth \in Nat
    BY InsideIs, Zenon
  <1>1. List(l) \in Values(MaxNestingDepth) /\ e = Prefixed(ListShort, ListLong, p)
    BY <1>0, EncodeIs, Zenon DEF EncodeList
  <1>2. e \in Seq(Nat) /\ Len(e) >= 1
    BY <1>0, <1>1, EncodingTyped, Zenon
  <1>3. p \in Seq(Nat)
    <2>1. \A v \in Values(Inside) : Encode(Inside, v) \in Seq(Nat)
      BY <1>0, EncodingTyped, Zenon
    <2>2. Encoded(Inside, l) \in Seq(Seq(Nat)) /\ <<>> \in Seq(Nat)
      BY <2>1, EncodedIs, NoElements, Zenon
    <2> QED BY <2>2, JoinIs, Zenon
  <1> HIDE DEF p
  <1>4. Len(p) \in Nat
    BY <1>3, SeqIs, Zenon
  <1>5. ASSUME NEW c \in Nat, NEW u \in Seq(Nat), e = <<c>> \o u PROVE e[1] = c
    BY <1>5
  <1>6. CASE Len(p) <= ShortMax
    <2>1. e = <<ListShort + Len(p)>> \o p
      BY <1>1, <1>6, Zenon DEF Prefixed
    <2>2. ListShort + Len(p) \in Nat /\ ListShort + Len(p) >= ListShort
      BY <1>4, Layouts
    <2> HIDE DEF e
    <2>3. e[1] = ListShort + Len(p)
      BY <1>3, <1>5, <2>1, <2>2, Zenon
    <2> QED BY <1>1, <1>2, <2>2, <2>3, Zenon DEF e
  <1>7. CASE ~(Len(p) <= ShortMax)
    <2> DEFINE n == uintToBytes(Len(p))
    <2>1. e = <<ListLong + Len(n)>> \o n \o p
      BY <1>1, <1>7, Zenon DEF Prefixed
    <2>2. n \in Seq(Nat)
      BY <1>4, UintIs, BytesAre, Zenon
    <2> HIDE DEF n, e
    <2>3. Len(n) \in Nat
      BY <2>2, SeqIs, Zenon
    <2>4. ListLong + Len(n) \in Nat /\ ListLong + Len(n) >= ListShort
      BY <2>3, Layouts
    <2> DEFINE c == ListLong + Len(n)
    <2>5. <<c>> \in Seq(Nat)
      BY <2>4
    <2> HIDE DEF c
    <2>6. n \o p \in Seq(Nat) /\ (<<c>> \o n) \o p = <<c>> \o (n \o p)
      <3>1. n \o p \in Seq(Nat)
        BY <1>3, <2>2, ConcatIs, Zenon
      <3>2. Associates(<<c>>, n, p)
        BY <1>3, <2>2, <2>5, Concat, Zenon
      <3> QED BY <3>1, <3>2, Zenon DEF Associates
    <2>7. e[1] = c
      BY <1>5, <2>1, <2>4, <2>6, Zenon DEF c
    <2> QED BY <1>1, <1>2, <2>4, <2>7, Zenon DEF e, c
  <1> QED BY <1>6, <1>7, Zenon

------------------------------------------------------------------------------
(* Envelopes: the type byte and the list.  They differ for different       *)
(* transactions, and from the digests of messages and of typed data.       *)

Envelope(t, l) == TypePrefix(t) \o Encode(MaxNestingDepth, List(l))

\* How an envelope starts.
EnvelopeIs(t, l, b) ==
    /\ b \in Seq(Nat) /\ Len(b) >= 1 /\ b # <<>> /\ b[1] \in Nat
    /\ t = 0 => b[1] >= ListShort /\ b = Encode(MaxNestingDepth, List(l))
    /\ t # 0 => /\ b[1] = t /\ Tail(b) = Encode(MaxNestingDepth, List(l))
                /\ Len(b) = 1 + Len(Encode(MaxNestingDepth, List(l)))

\* The type of an envelope shows in its first byte.
LEMMA EnvelopeHead ==
    ASSUME NEW t \in {0, 1, 2}, NEW l \in Seq(Values(Inside))
    PROVE  EnvelopeIs(t, l, Envelope(t, l))
  <1> DEFINE e == Encode(MaxNestingDepth, List(l))
             b == Envelope(t, l)
  <1>1. e \in Seq(Nat) /\ Len(e) >= 1 /\ e[1] \in Nat /\ e[1] >= ListShort
    BY ListHead, Zenon
  <1> HIDE DEF e
  <1>2. b = TypePrefix(t) \o e
    BY Zenon DEF Envelope, e
  <1>3. CASE t = 0
    <2>1. b = e
      <3>1. TypePrefix(t) = <<>>
        BY <1>3, Zenon DEF TypePrefix
      <3> QED BY <1>1, <1>2, <3>1, Concat, Zenon
    <2>2. e # <<>>
      BY <1>1
    <2> QED BY <1>1, <1>3, <2>1, <2>2, Zenon DEF EnvelopeIs, e
  <1>4. CASE t # 0
    <2>1. b = <<t>> \o e /\ t \in Nat
      BY <1>2, <1>4 DEF TypePrefix
    <2> HIDE DEF b
    <2>2. b \in Seq(Nat) /\ Len(b) = 1 + Len(e) /\ b[1] = t /\ Tail(b) = e
      BY <1>1, <2>1, SMTT(30)
    <2>3. Len(b) >= 1 /\ b # <<>>
      BY <1>1, <2>2
    <2> QED BY <1>4, <2>1, <2>2, <2>3, Zenon DEF EnvelopeIs, e, b
  <1> QED BY <1>3, <1>4, Zenon

\* Different lists have different envelopes.
LEMMA SameEnvelope ==
    ASSUME NEW t \in {0, 1, 2}, NEW l \in Seq(Values(Inside)),
           NEW u \in {0, 1, 2}, NEW m \in Seq(Values(Inside)),
           Envelope(t, l) = Envelope(u, m), IsSlice(Envelope(t, l))
    PROVE  t = u /\ l = m
  <1> DEFINE b == Envelope(t, l)
             e == Encode(MaxNestingDepth, List(l))
             f == Encode(MaxNestingDepth, List(m))
  <1>0. Word \in Nat /\ ListShort \in Nat /\ ListShort > 2
    <2>1. LenBytes \in Nat /\ ListShort \in Nat /\ ListShort > 2
      BY Layouts
    <2> QED BY <2>1, PowerIs, Zenon DEF Word
  <1>1. EnvelopeIs(t, l, b) /\ EnvelopeIs(u, m, b)
    BY EnvelopeHead, Zenon
  <1>2. 2 * Len(b) < Word
    BY Zenon DEF IsSlice
  <1>3. List(l) \in Values(MaxNestingDepth) /\ List(m) \in Values(MaxNestingDepth) /\ e \in Seq(Nat)
    BY ListHead, Zenon
  <1> HIDE DEF b, e, f
  <1>4. t = u
    <2>1. /\ t = 0 => b[1] >= ListShort
          /\ u = 0 => b[1] >= ListShort
          /\ t # 0 => b[1] = t
          /\ u # 0 => b[1] = u
      BY <1>1, Zenon DEF EnvelopeIs
    <2> QED BY <1>0, <2>1
  <1>5. e = f
    BY <1>1, <1>4, Zenon DEF EnvelopeIs, e, f
  <1>6. 2 * Len(e) < Word
    <2>1. b = e \/ Len(b) = 1 + Len(e)
      BY <1>1, Zenon DEF EnvelopeIs, e
    <2>2. Len(e) \in Nat
      BY <1>3, SeqIs, Zenon
    <2> QED BY <1>0, <1>2, <2>1, <2>2
  <1>7. decodeItem(e, 0) = Ok(List(l), <<>>) /\ decodeItem(e, 0) = Ok(List(m), <<>>)
    BY <1>3, <1>5, <1>6, RoundTrip, Zenon DEF e, f
  <1>8. \A v, w : Ok(v, w).val = v
    BY Zenon DEF Ok
  <1> DEFINE d == decodeItem(e, 0)
  <1> HIDE DEF d
  <1>9. d.val = List(l) /\ d.val = List(m)
    BY <1>7, <1>8, Zenon DEF d
  <1>10. List(l).l = l /\ List(m).l = m
    BY Shapes, Zenon
  <1>11. List(l) = List(m)
    BY <1>9, Zenon
  <1> QED BY <1>4, <1>10, <1>11, Zenon

\* What follows the fields of a transaction in what is signed.
More(tx, chained) ==
    IF tx.type = 0 /\ chained THEN <<Bytes(uintToBytes(tx.chainId)), Bytes(<<>>), Bytes(<<>>)>>
    ELSE <<>>

Preitems(tx, chained) == FieldItems(Body(tx.type), tx) \o More(tx, chained)

TxFits(tx, chained) == /\ tx.type \in {0, 1, 2} /\ Fits(Body(tx.type), tx)
                       /\ tx.type = 0 /\ chained => tx.chainId \in Nat

\* The fields of the transaction types.
LEMMA Bodies ==
    /\ \A t \in {0, 1, 2} : Body(t) \in Seq(Names) /\ Len(Body(t)) >= 6
    /\ Len(Body(0)) = 6
    /\ \A t \in {1, 2} : "chainId" \in Range(Body(t))
  <1>0. /\ {"nonce", "gasPrice", "gasLimit", "to", "value", "data"} \subseteq Names
        /\ {"chainId", "maxPriorityFeePerGas", "maxFeePerGas", "accessList"} \subseteq Names
    BY DEF Names, Numbers, Uint64Fields, BigFields
  <1>1. LegacyBody \in Seq(Names) /\ Len(LegacyBody) = 6
    BY <1>0 DEF LegacyBody
  <1>2. AccessBody \in Seq(Names) /\ Len(AccessBody) = 8 /\ 1 \in DOMAIN AccessBody /\ AccessBody[1] = "chainId"
    BY <1>0 DEF AccessBody
  <1>3. FeeBody \in Seq(Names) /\ Len(FeeBody) = 9 /\ 1 \in DOMAIN FeeBody /\ FeeBody[1] = "chainId"
    BY <1>0 DEF FeeBody
  <1>4. Body(0) = LegacyBody /\ Body(1) = AccessBody /\ Body(2) = FeeBody
    BY DEF Body
  <1>5. 6 >= 6 /\ 8 >= 6 /\ 9 >= 6
    OBVIOUS
  <1>6. "chainId" \in Range(AccessBody) /\ "chainId" \in Range(FeeBody)
    BY <1>2, <1>3, Zenon DEF Range
  <1> QED BY <1>1, <1>2, <1>3, <1>4, <1>5, <1>6, Zenon

\* What a transaction signs is an envelope.
LEMMA Preimage ==
    ASSUME NEW tx, NEW chained \in BOOLEAN, TxFits(tx, chained)
    PROVE  /\ Preitems(tx, chained) \in Seq(Values(Inside))
           /\ Len(Preitems(tx, chained)) = Len(Body(tx.type)) + Len(More(tx, chained))
           /\ tx.type = 0 /\ chained => Len(More(tx, chained)) = 3
           /\ ~(tx.type = 0 /\ chained) => Len(More(tx, chained)) = 0
           /\ SigningPreimage(tx, chained) = Envelope(tx.type, Preitems(tx, chained))
  <1> DEFINE layout == Body(tx.type)
             more == More(tx, chained)
             tail == IF tx.type = 0 /\ chained
                     THEN <<encodeBig(tx.chainId), EncodeUint64(0), EncodeUint64(0)>>
                     ELSE <<>>
  <1>0. layout \in Seq(Names) /\ Fits(layout, tx) /\ Inside \in Nat
    BY Bodies, InsideIs, Zenon DEF TxFits
  <1>1. /\ more \in Seq(Values(Inside)) /\ Encoded(Inside, more) = tail
        /\ tx.type = 0 /\ chained => Len(more) = 3
        /\ ~(tx.type = 0 /\ chained) => Len(more) = 0
    <2>1. CASE tx.type = 0 /\ chained
      <3> DEFINE c == uintToBytes(tx.chainId)
      <3>1. c \in Seq(Byte) /\ <<>> \in Seq(Byte)
        BY <2>1, UintIs, NoElements, Zenon DEF TxFits
      <3>2. Bytes(c) \in Values(Inside) /\ Encode(Inside, Bytes(c)) = EncodeBytes(c)
        BY <1>0, <3>1, EncodeIs, Zenon
      <3>3. Bytes(<<>>) \in Values(Inside) /\ Encode(Inside, Bytes(<<>>)) = EncodeBytes(<<>>)
        BY <1>0, <3>1, EncodeIs, Zenon
      <3>4. EncodeUint64(0) = EncodeBytes(<<>>) /\ encodeBig(tx.chainId) = EncodeBytes(c)
        BY UintStep, Zenon DEF EncodeUint64, encodeBig
      <3> DEFINE a == Bytes(c)
                 z == Bytes(<<>>)
      <3>5. more = <<a, z, z>> /\ tail = <<Encode(Inside, a), Encode(Inside, z), Encode(Inside, z)>>
        BY <2>1, <3>2, <3>3, <3>4, Zenon DEF More
      <3>6. a \in Values(Inside) /\ z \in Values(Inside)
        BY <3>2, <3>3, Zenon
      <3> HIDE DEF a, z, more, tail
      <3>7. /\ <<a, z, z>> \in Seq(Values(Inside)) /\ Len(<<a, z, z>>) = 3
            /\ Encoded(Inside, <<a, z, z>>)
                 = <<Encode(Inside, a), Encode(Inside, z), Encode(Inside, z)>>
        BY <3>6, Triple, Zenon
      <3> QED BY <2>1, <3>5, <3>7, Zenon
    <2>2. CASE ~(tx.type = 0 /\ chained)
      <3>1. more = <<>> /\ tail = <<>>
        BY <2>2, Zenon DEF More
      <3>2. Encoded(Inside, <<>>) = <<>>
        BY DEF Encoded
      <3>3. <<>> \in Seq(Values(Inside)) /\ Len(<<>>) = 0
        BY NoElements, Zenon
      <3> HIDE DEF more, tail
      <3> QED BY <2>2, <3>1, <3>2, <3>3, Zenon
    <2> QED BY <2>1, <2>2, Zenon
  <1>2. SigningPreimage(tx, chained) = TypePrefix(tx.type) \o EncodeList(encodeFields(layout, tx) \o tail)
    BY Zenon DEF SigningPreimage
  <1> HIDE DEF layout, more, tail
  <1>3. /\ FieldItems(layout, tx) \o more \in Seq(Values(Inside))
        /\ Len(FieldItems(layout, tx) \o more) = Len(layout) + Len(more)
        /\ Encode(MaxNestingDepth, List(FieldItems(layout, tx) \o more))
             = EncodeList(encodeFields(layout, tx) \o Encoded(Inside, more))
    BY <1>0, <1>1, ListEncoded, Zenon
  <1>4. Preitems(tx, chained) = FieldItems(layout, tx) \o more
    BY Zenon DEF Preitems, layout, more
  <1>5. SigningPreimage(tx, chained) = Envelope(tx.type, FieldItems(layout, tx) \o more)
    BY <1>1, <1>2, <1>3, Zenon DEF Envelope
  <1> QED BY <1>1, <1>3, <1>4, <1>5, Zenon DEF layout, more

\* Two sequences cut at the same place.
LEMMA SameParts ==
    ASSUME NEW T, NEW a \in Seq(T), NEW b \in Seq(T), NEW c \in Seq(T), NEW e \in Seq(T),
           Len(a) = Len(b), a \o c = b \o e
    PROVE  a = b /\ c = e
  <1>1. Len(a) \in Nat /\ Len(c) \in Nat /\ Len(e) \in Nat
    OBVIOUS
  <1>2. Len(a \o c) = Len(a) + Len(c) /\ Len(b \o e) = Len(b) + Len(e)
    BY ConcatIs, Zenon
  <1>3. Len(c) = Len(e)
    <2>1. Len(a) + Len(c) = Len(a) + Len(e)
      BY <1>2, Zenon
    <2> QED BY <1>1, <2>1
  <1>4. /\ SubSeq(a \o c, Len(a) + 1, Len(a) + Len(c)) = c /\ SubSeq(a \o c, 1, Len(a)) = a
        /\ SubSeq(b \o e, Len(b) + 1, Len(b) + Len(e)) = e /\ SubSeq(b \o e, 1, Len(b)) = b
    BY After, Zenon
  <1> QED BY <1>3, <1>4, Zenon

\* What a transaction signs tells all its fields, and whether it has a chain.
LEMMA SamePreimage ==
    ASSUME NEW tx, TxFits(tx, TRUE), IsSlice(SigningPreimage(tx, TRUE)),
           NEW d, NEW chained \in BOOLEAN, TxFits(d, chained),
           SigningPreimage(tx, TRUE) = SigningPreimage(d, chained)
    PROVE  SameTx(tx, d) /\ tx.type = d.type /\ (d.type = 0 => chained)
  <1> DEFINE layout == Body(tx.type)
             V == Values(Inside)
             a == FieldItems(layout, tx)
             b == FieldItems(layout, d)
             m == More(tx, TRUE)
             n == More(d, chained)
             p == Preitems(tx, TRUE)
             q == Preitems(d, chained)
  <1>0. TRUE \in BOOLEAN /\ tx.type \in {0, 1, 2} /\ d.type \in {0, 1, 2}
    BY Zenon DEF TxFits
  <1>1. p \in Seq(V) /\ SigningPreimage(tx, TRUE) = Envelope(tx.type, p)
    BY <1>0, Preimage, Zenon
  <1>2. q \in Seq(V) /\ SigningPreimage(d, chained) = Envelope(d.type, q)
    BY <1>0, Preimage, Zenon
  <1> HIDE DEF p, q
  <1>3. tx.type = d.type /\ p = q
    <2> DEFINE t == tx.type
               u == d.type
    <2>1. Envelope(t, p) = Envelope(u, q) /\ IsSlice(Envelope(t, p))
      BY <1>1, <1>2, Zenon
    <2>2. t \in {0, 1, 2} /\ u \in {0, 1, 2} /\ p \in Seq(Values(Inside)) /\ q \in Seq(Values(Inside))
      BY <1>0, <1>1, <1>2, Zenon
    <2> HIDE DEF t, u
    <2>3. t = u /\ p = q
      BY <2>1, <2>2, SameEnvelope, Zenon
    <2> QED BY <2>3, Zenon DEF t, u
  <1>4. Fits(layout, tx) /\ Fits(layout, d) /\ layout \in Seq(Names)
    BY <1>0, <1>3, Bodies, Zenon DEF TxFits
  <1>5. p = a \o m /\ q = b \o n
    BY <1>3, Zenon DEF p, q, Preitems
  <1> HIDE DEF layout
  <1>6. a \in Seq(V) /\ b \in Seq(V) /\ Len(a) = Len(layout) /\ Len(b) = Len(layout)
    BY <1>4, FieldsEncoded, Zenon
  <1>7. tx.type = 0 => chained
    <2> SUFFICES ASSUME tx.type = 0, ~chained PROVE FALSE
      OBVIOUS
    <2>1. Len(p) = Len(layout) + Len(m) /\ Len(m) = 3
      BY <1>0, Preimage, Zenon DEF p, layout
    <2>2. Len(q) = Len(layout) + Len(n) /\ Len(n) = 0
      BY <1>0, <1>3, Preimage, Zenon DEF q, layout
    <2>3. Len(layout) + 3 = Len(layout) + 0
      BY <1>3, <2>1, <2>2, Zenon
    <2>4. Len(layout) \in Nat
      BY <1>4, SeqIs, Zenon
    <2> DEFINE k == Len(layout)
    <2>5. k \in Nat /\ k + 3 = k + 0
      BY <2>3, <2>4, Zenon
    <2> HIDE DEF k
    <2> QED BY <2>5
  <1>8. m \in Seq(V) /\ n \in Seq(V)
    <2>1. <<>> \in Seq(V) /\ Inside \in Nat /\ <<>> \in Seq(Byte)
      BY NoElements, InsideIs, Zenon
    <2>2. ASSUME NEW c \in Nat PROVE <<Bytes(uintToBytes(c)), Bytes(<<>>), Bytes(<<>>)>> \in Seq(V)
      <3>1. Bytes(uintToBytes(c)) \in V /\ Bytes(<<>>) \in V
        BY <2>1, UintIs, EncodeIs, Zenon
      <3> QED BY <3>1, Triple, Zenon
    <2> QED BY <2>1, <2>2, Zenon DEF More, TxFits
  <1> HIDE DEF a, b, m, n, V
  <1>9. a = b /\ m = n
    BY <1>3, <1>5, <1>6, <1>8, SameParts, ZenonT(40)
  <1>10. ASSUME NEW i \in DOMAIN layout PROVE tx[layout[i]] = d[layout[i]]
    <2> DEFINE f == layout[i]
    <2>1. FieldItem(f, tx[f]) = FieldItem(f, d[f])
      <3>1. a[i] = FieldItem(f, tx[f]) /\ b[i] = FieldItem(f, d[f])
        BY Zenon DEF a, b, FieldItems
      <3> QED BY <1>9, <3>1, Zenon
    <2>2. FieldFits(f, tx[f]) /\ FieldFits(f, d[f])
      BY <1>4, Zenon DEF Fits
    <2> HIDE DEF f
    <2>3. FieldValue(f, FieldItem(f, tx[f])) = tx[f] /\ FieldValue(f, FieldItem(f, d[f])) = d[f]
      BY <2>2, FieldEncoded, Zenon
    <2> QED BY <2>1, <2>3, Zenon DEF f
  <1>11. \A f \in Range(layout) : tx[f] = d[f]
    BY <1>10, Zenon DEF Range
  <1>12. tx.chainId = d.chainId
    <2>1. CASE tx.type = 0
      <3> DEFINE u == uintToBytes(tx.chainId)
                 w == uintToBytes(d.chainId)
                 z == Bytes(<<>>)
      <3>1. m = <<Bytes(u), z, z>> /\ n = <<Bytes(w), z, z>>
        BY <1>3, <1>7, <2>1, Zenon DEF m, n, More
      <3>2. Number(u) = tx.chainId /\ Number(w) = d.chainId
        BY <1>3, <1>7, <2>1, UintIs, Zenon DEF TxFits
      <3> HIDE DEF u, w
      <3>3. Bytes(u) = Bytes(w)
        <4> DEFINE x == Bytes(u)
                   y == Bytes(w)
        <4>1. m = <<x, z, z>> /\ n = <<y, z, z>>
          BY <3>1, Zenon
        <4> HIDE DEF x, y, z
        <4>2. <<x, z, z>>[1] = x /\ <<y, z, z>>[1] = y
          OBVIOUS
        <4>3. x = y
          BY <1>9, <4>1, <4>2, Zenon
        <4> QED BY <4>3, Zenon DEF x, y
      <3>4. Bytes(u).b = u /\ Bytes(w).b = w
        BY Shapes, Zenon
      <3> QED BY <3>2, <3>3, <3>4, Zenon
    <2>2. CASE tx.type # 0
      <3>1. "chainId" \in Range(layout)
        BY <1>0, <2>2, Bodies, Zenon DEF layout
      <3>2. tx["chainId"] = d["chainId"]
        BY <1>11, <3>1, Zenon
      <3> QED BY <3>2, Zenon
    <2> QED BY <2>1, <2>2, Zenon
  <1>13. SameTx(tx, d)
    <2>1. tx["type"] = d["type"] /\ tx["chainId"] = d["chainId"]
      BY <1>3, <1>12, Zenon
    <2> QED BY <1>11, <2>1, Zenon DEF SameTx, layout
  <1> QED BY <1>3, <1>7, <1>13, Zenon

\* A transaction of the code's types can be encoded.
LEMMA TypedFits ==
    ASSUME NEW tx, TxTyped(tx)
    PROVE  TxFits(tx, TRUE)
  <1> DEFINE layout == Body(tx.type)
  <1>0. tx.type \in {0, 1, 2} /\ tx.chainId \in Nat /\ layout \in Seq(Names)
    BY Bodies, Zenon DEF TxTyped
  <1>1. \A k : [1..k -> Byte] \subseteq Seq(Byte) \/ k \notin Nat
    BY AsFunction, Zenon
  <1>2. AccessListEntry \subseteq Entries
    <2> DEFINE A == [1..AddrLen -> Byte]
               K == [1..WordLen -> Byte]
               B == Seq(Byte)
    <2>1. A \subseteq B /\ K \subseteq B
      BY <1>1, CurveAssumption, Zenon
    <2> HIDE DEF A, K, B
    <2>2. \A s \in Seq(K) : s \in Seq(B)
      BY <2>1, SeqWithin, Zenon
    <2>3. [address : A, keys : Seq(K)] \subseteq [address : B, keys : Seq(B)]
      <3> DEFINE S == Seq(K)
                 T == Seq(B)
      <3>1. S \subseteq T
        BY <2>2, Zenon
      <3> HIDE DEF S, T
      <3>2. [address : A, keys : S] \subseteq [address : B, keys : T]
        BY <2>1, <3>1
      <3> QED BY <3>2, Zenon DEF S, T
    <2> QED BY <2>3, Zenon DEF AccessListEntry, Entries, A, K, B
  <1>3. ASSUME NEW i \in DOMAIN layout PROVE FieldFits(layout[i], tx[layout[i]])
    <2> DEFINE f == layout[i]
               x == tx[f]
    <2>1. f \in Names /\ FieldTyped(f, x)
      <3>1. f \in Range(layout)
        BY Zenon DEF Range
      <3>2. f \in Names
        <4>1. layout \in [1..Len(layout) -> Names] /\ DOMAIN layout = 1..Len(layout)
          BY <1>0, SeqIs, Zenon
        <4> QED BY <4>1, Zenon
      <3> QED BY <3>1, <3>2, Zenon DEF TxTyped
    <2> HIDE DEF f, x
    <2>2. CASE f \in Uint64Fields
      <3>1. \A k \in 0..(Word - 1) : k \in Nat
        OBVIOUS
      <3> QED BY <2>1, <2>2, <3>1, Zenon DEF FieldTyped, FieldFits, Numbers, f, x
    <2>3. CASE f \notin Uint64Fields /\ f \in BigFields
      BY <2>1, <2>3, Zenon DEF FieldTyped, FieldFits, Numbers, f, x
    <2>4. CASE f \notin Numbers
      <3>0. "to" # "accessList"
        OBVIOUS
      <3>1. x \in Seq(AccessListEntry) => x \in Seq(Entries)
        BY <1>2, SeqWithin, Zenon
      <3> QED BY <2>1, <2>4, <3>0, <3>1, Zenon DEF FieldTyped, FieldFits, Numbers, f, x
    <2> QED BY <2>2, <2>3, <2>4, Zenon DEF Numbers
  <1> QED BY <1>0, <1>3, Zenon DEF TxFits, Fits

\* A padded number has all its bytes, and is the number.
LEMMA PaddedIs ==
    ASSUME NEW x \in Nat, x < Power(WordLen)
    PROVE  LET u == uintToBytes(x)
               z == WordLen - Len(u)
           IN  /\ u \in Seq(Byte) /\ Len(u) \in Nat /\ z \in Nat
               /\ Padded(x) \in Seq(Byte) /\ Len(Padded(x)) = WordLen
               /\ \A i \in 1..z : Padded(x)[i] = 0
               /\ \A i \in 1..Len(u) : Padded(x)[z + i] = u[i]
               /\ z = 0 => Padded(x) = u
  <1> DEFINE u == uintToBytes(x)
             z == WordLen - Len(u)
             o == [i \in 1..z |-> 0]
  <1>0. WordLen \in Nat /\ 0 \in Byte
    BY CurveAssumption, Layouts DEF Byte
  <1>1. u \in Seq(Byte) /\ Len(u) <= WordLen
    BY <1>0, UintIs, UintLen, Zenon
  <1>2. Padded(x) = o \o u
    BY Zenon DEF Padded
  <1> HIDE DEF u
  <1>3. Len(u) \in Nat
    BY <1>1, SeqIs, Zenon
  <1>4. z \in Nat /\ z + Len(u) = WordLen
    BY <1>0, <1>1, <1>3
  <1> HIDE DEF z
  <1>5. o \in Seq(Byte) /\ Len(o) = z /\ \A i \in 1..z : o[i] = 0
    <2> DEFINE B == Byte
    <2> HIDE DEF B
    <2>1. 0 \in B
      BY <1>0, Zenon DEF B
    <2>2. o \in Seq(B) /\ Len(o) = z /\ \A i \in 1..z : o[i] = 0
      BY <1>4, <2>1
    <2> QED BY <2>2, Zenon DEF B
  <1> HIDE DEF o
  <1>6. /\ o \o u \in Seq(Byte) /\ Len(o \o u) = z + Len(u)
        /\ \A i \in 1..z : (o \o u)[i] = 0
        /\ \A i \in 1..Len(u) : (o \o u)[z + i] = u[i]
    <2> DEFINE B == Byte
    <2>0. o \in Seq(B) /\ u \in Seq(B)
      BY <1>1, <1>5, Zenon
    <2> HIDE DEF B
    <2>1. /\ o \o u \in Seq(B) /\ Len(o \o u) = Len(o) + Len(u)
          /\ \A i \in 1..Len(o) : (o \o u)[i] = o[i]
          /\ \A i \in 1..Len(u) : (o \o u)[Len(o) + i] = u[i]
      BY <2>0
    <2> QED BY <1>5, <2>1, Zenon DEF B
  <1>7. z = 0 => o \o u = u
    <2> SUFFICES ASSUME z = 0 PROVE o \o u = u
      OBVIOUS
    <2>1. o = <<>>
      BY <1>5
    <2> QED BY <1>1, <2>1, Concat, Zenon
  <1> QED BY <1>1, <1>2, <1>3, <1>4, <1>6, <1>7, Zenon DEF u, z

\* Different numbers are padded differently.
LEMMA SamePadded ==
    ASSUME NEW x \in Nat, x < Power(WordLen), NEW y \in Nat, y < Power(WordLen),
           Padded(x) = Padded(y)
    PROVE  x = y
  <1> DEFINE u == uintToBytes(x)
             w == uintToBytes(y)
             p == Padded(x)
             a == WordLen - Len(u)
             c == WordLen - Len(w)
  <1>0. WordLen \in Nat
    BY CurveAssumption
  <1>1. /\ u \in Seq(Byte) /\ Len(u) \in Nat /\ a \in Nat
        /\ \A i \in 1..a : p[i] = 0
        /\ \A i \in 1..Len(u) : p[a + i] = u[i]
    BY PaddedIs, Zenon
  <1>2. /\ w \in Seq(Byte) /\ Len(w) \in Nat /\ c \in Nat
        /\ \A i \in 1..c : p[i] = 0
        /\ \A i \in 1..Len(w) : p[c + i] = w[i]
    BY PaddedIs, Zenon
  <1>3. Minimal(u) /\ Minimal(w) /\ Number(u) = x /\ Number(w) = y
    BY UintIs, Zenon
  <1> HIDE DEF u, w, p
  <1>4. ~(a < c)
    <2> SUFFICES ASSUME a < c PROVE FALSE
      OBVIOUS
    <2>1. a + 1 \in 1..c /\ 1 \in 1..Len(u)
      BY <1>0, <1>1, <1>2
    <2>2. p[a + 1] = 0 /\ p[a + 1] = u[1]
      BY <1>1, <1>2, <2>1, Zenon
    <2>3. u # <<>>
      BY <2>1
    <2> QED BY <1>3, <2>2, <2>3, Zenon DEF Minimal
  <1>5. ~(c < a)
    <2> SUFFICES ASSUME c < a PROVE FALSE
      OBVIOUS
    <2>1. c + 1 \in 1..a /\ 1 \in 1..Len(w)
      BY <1>0, <1>1, <1>2
    <2>2. p[c + 1] = 0 /\ p[c + 1] = w[1]
      BY <1>1, <1>2, <2>1, Zenon
    <2>3. w # <<>>
      BY <2>1
    <2> QED BY <1>3, <2>2, <2>3, Zenon DEF Minimal
  <1>6. a = c /\ Len(u) = Len(w)
    <2> DEFINE m == Len(u)
               n == Len(w)
    <2>1. m \in Nat /\ n \in Nat /\ a = WordLen - m /\ c = WordLen - n
      BY <1>1, <1>2, Zenon
    <2> HIDE DEF m, n
    <2>2. m = n
      BY <1>0, <1>4, <1>5, <2>1
    <2> QED BY <2>1, <2>2, Zenon DEF m, n
  <1> HIDE DEF a, c
  <1>7. \A i \in 1..Len(u) : u[i] = w[i]
    BY <1>1, <1>2, <1>6, Zenon
  <1>8. u = w
    BY <1>1, <1>2, <1>6, <1>7, SameSeq, Zenon
  <1> QED BY <1>3, <1>8, Zenon

\* Three sequences one after the other start like the first.
LEMMA Starts ==
    ASSUME NEW T, NEW a \in Seq(T), NEW b \in Seq(T), NEW c \in Seq(T), Len(a) >= 2
    PROVE  /\ (a \o b) \o c \in Seq(T)
           /\ ((a \o b) \o c)[1] = a[1] /\ ((a \o b) \o c)[2] = a[2]
  <1> DEFINE x == a \o b
  <1>1. x \in Seq(T) /\ Len(x) >= 2 /\ x[1] = a[1] /\ x[2] = a[2]
    OBVIOUS
  <1> HIDE DEF x
  <1>2. x \o c \in Seq(T) /\ (x \o c)[1] = x[1] /\ (x \o c)[2] = x[2]
    BY <1>1
  <1> QED BY <1>1, <1>2, Zenon DEF x

\* The digest of a message starts with Magic and a zero.
LEMMA PersonalDigest ==
    ASSUME NEW m \in Messages
    PROVE  /\ personalDigest(m) \in Seq(Nat)
           /\ personalDigest(m)[1] = Magic /\ personalDigest(m)[2] = 0
  <1> DEFINE u == uintToBytes(Len(m))
             p == <<Magic, 0>>
  <1>1. m \in Seq(Byte)
    BY DigestsAssumption, Zenon
  <1>2. Len(m) \in Nat /\ m \in Seq(Nat)
    BY <1>1, SeqIs, BytesAre, Zenon
  <1>3. u \in Seq(Nat)
    BY <1>2, UintIs, BytesAre, Zenon
  <1>4. p \in Seq(Nat) /\ Len(p) >= 2 /\ p[1] = Magic /\ p[2] = 0
    BY DEF Magic
  <1> HIDE DEF u, p
  <1>5. (p \o u) \o m \in Seq(Nat) /\ ((p \o u) \o m)[1] = p[1] /\ ((p \o u) \o m)[2] = p[2]
    BY <1>2, <1>3, <1>4, Starts, ZenonT(40)
  <1> QED BY <1>4, <1>5, Zenon DEF personalDigest, u, p

\* A valid domain is a number where a chain id is needed.
LEMMA DomainIs ==
    ASSUME NEW d \in Domains, DomainValid(d)
    PROVE  /\ d = [name |-> d.name, chainId |-> d.chainId, contract |-> d.contract]
           /\ d.name \in Nat /\ d.chainId \in Nat /\ d.contract \in Nat
           /\ d.chainId < Power(WordLen)
  <1>1. d \in [name : Nat, chainId : Int \cup {NilChain}, contract : Nat]
    BY DigestsAssumption, Zenon
  <1>2. /\ d = [name |-> d.name, chainId |-> d.chainId, contract |-> d.contract]
        /\ d.name \in Nat /\ d.chainId \in Int \cup {NilChain} /\ d.contract \in Nat
    BY <1>1
  <1>3. d.chainId # NilChain /\ d.chainId >= 0 /\ d.chainId < Power(WordLen)
    BY Zenon DEF DomainValid
  <1>4. d.chainId \in Int
    BY <1>2, <1>3, Zenon
  <1>5. d.chainId \in Nat
    BY <1>3, <1>4
  <1> QED BY <1>2, <1>3, <1>5, Zenon

\* The parts of the digest of typed data.
LEMMA TypedDigest ==
    ASSUME NEW d \in Domains, DomainValid(d), NEW h \in Structs
    PROVE  LET b == typedDigest(d, h)
               a == <<Magic, 1>> \o <<d.name>>
               p == Padded(d.chainId)
               c == <<d.contract, h>>
           IN  /\ b = (a \o p) \o c
               /\ a \in Seq(Nat) /\ p \in Seq(Nat) /\ c \in Seq(Nat) /\ b \in Seq(Nat)
               /\ a \o p \in Seq(Nat) /\ Len(a \o p) = 3 + WordLen /\ Len(a) = 3
               /\ a[3] = d.name /\ c[1] = d.contract /\ c[2] = h
               /\ b[1] = Magic /\ b[2] = 1
  <1> DEFINE b == typedDigest(d, h)
             a == <<Magic, 1>> \o <<d.name>>
             p == Padded(d.chainId)
             c == <<d.contract, h>>
  <1>1. d.name \in Nat /\ d.chainId \in Nat /\ d.contract \in Nat /\ d.chainId < Power(WordLen)
    BY DomainIs, Zenon
  <1>2. h \in Nat
    BY DigestsAssumption, Zenon
  <1>3. a \in Seq(Nat) /\ Len(a) = 3 /\ a[1] = Magic /\ a[2] = 1 /\ a[3] = d.name
    BY <1>1 DEF Magic
  <1>4. c \in Seq(Nat) /\ c[1] = d.contract /\ c[2] = h
    BY <1>1, <1>2
  <1>5. p \in Seq(Nat) /\ Len(p) = WordLen
    BY <1>1, PaddedIs, BytesAre, Zenon
  <1>6. b = (a \o p) \o c
    BY Zenon DEF typedDigest
  <1> HIDE DEF a, p, c, b
  <1>7. a \o p \in Seq(Nat) /\ Len(a \o p) = 3 + WordLen
    <2>1. a \o p \in Seq(Nat) /\ Len(a \o p) = Len(a) + Len(p)
      BY <1>3, <1>5, ConcatIs, Zenon
    <2> QED BY <1>3, <1>5, <2>1, Zenon
  <1>8. b \in Seq(Nat)
    BY <1>4, <1>6, <1>7, ConcatIs, Zenon
  <1>9. b[1] = a[1] /\ b[2] = a[2]
    <2>1. Len(a) >= 2
      BY <1>3
    <2>2. a \in Seq(Nat) /\ p \in Seq(Nat) /\ c \in Seq(Nat)
      BY <1>3, <1>4, <1>5, Zenon
    <2>3. ((a \o p) \o c)[1] = a[1] /\ ((a \o p) \o c)[2] = a[2]
      BY <2>1, <2>2, Starts
    <2> QED BY <1>6, <2>3, Zenon
  <1> QED BY <1>3, <1>4, <1>5, <1>6, <1>7, <1>8, <1>9, Zenon DEF a, p, c, b

\* A digest of typed data tells the domain and the struct.
LEMMA SameTyped ==
    ASSUME NEW d \in Domains, DomainValid(d), NEW h \in Structs,
           NEW f \in Domains, DomainValid(f), NEW k \in Structs,
           typedDigest(d, h) = typedDigest(f, k)
    PROVE  d = f /\ h = k
  <1> DEFINE a1 == <<Magic, 1>> \o <<d.name>>
             p1 == Padded(d.chainId)
             c1 == <<d.contract, h>>
             a2 == <<Magic, 1>> \o <<f.name>>
             p2 == Padded(f.chainId)
             c2 == <<f.contract, k>>
  <1>1. /\ typedDigest(d, h) = (a1 \o p1) \o c1
        /\ a1 \in Seq(Nat) /\ p1 \in Seq(Nat) /\ c1 \in Seq(Nat)
        /\ a1 \o p1 \in Seq(Nat) /\ Len(a1 \o p1) = 3 + WordLen /\ Len(a1) = 3
        /\ a1[3] = d.name /\ c1[1] = d.contract /\ c1[2] = h
    BY TypedDigest, Zenon
  <1>2. /\ typedDigest(f, k) = (a2 \o p2) \o c2
        /\ a2 \in Seq(Nat) /\ p2 \in Seq(Nat) /\ c2 \in Seq(Nat)
        /\ a2 \o p2 \in Seq(Nat) /\ Len(a2 \o p2) = 3 + WordLen /\ Len(a2) = 3
        /\ a2[3] = f.name /\ c2[1] = f.contract /\ c2[2] = k
    BY TypedDigest, Zenon
  <1> HIDE DEF a1, p1, c1, a2, p2, c2
  <1>3. a1 \o p1 = a2 \o p2 /\ c1 = c2
    <2> DEFINE x == a1 \o p1
               y == a2 \o p2
    <2>1. x \in Seq(Nat) /\ y \in Seq(Nat) /\ Len(x) = Len(y) /\ x \o c1 = y \o c2
      BY <1>1, <1>2, Zenon
    <2>2. c1 \in Seq(Nat) /\ c2 \in Seq(Nat)
      BY <1>1, <1>2, Zenon
    <2> HIDE DEF x, y
    <2>3. x = y /\ c1 = c2
      BY <2>1, <2>2, SameParts, Zenon
    <2> QED BY <2>3, Zenon DEF x, y
  <1>4. a1 = a2 /\ p1 = p2
    <2>1. /\ a1 \in Seq(Nat) /\ a2 \in Seq(Nat) /\ p1 \in Seq(Nat) /\ p2 \in Seq(Nat)
          /\ Len(a1) = Len(a2)
      BY <1>1, <1>2, Zenon
    <2> QED BY <1>3, <2>1, SameParts, Zenon
  <1>5. d.name = f.name /\ d.contract = f.contract /\ h = k
    BY <1>1, <1>2, <1>3, <1>4, Zenon
  <1>6. /\ d.chainId \in Nat /\ d.chainId < Power(WordLen)
        /\ f.chainId \in Nat /\ f.chainId < Power(WordLen)
    BY DomainIs, Zenon
  <1>7. d.chainId = f.chainId
    BY <1>4, <1>6, SamePadded, Zenon DEF p1, p2
  <1>8. /\ d = [name |-> d.name, chainId |-> d.chainId, contract |-> d.contract]
        /\ f = [name |-> f.name, chainId |-> f.chainId, contract |-> f.contract]
    BY DomainIs, Zenon
  <1> QED BY <1>5, <1>7, <1>8, Zenon

\* A signature whose digest is that of a transaction was made for it.
LEMMA SignedForTx ==
    ASSUME NEW g, MadeFor(g), NEW d, NEW chained \in BOOLEAN, TxFits(d, chained),
           g.digest = SigningPreimage(d, chained)
    PROVE  \E tx \in Txs : /\ MadeForTx(g, tx) /\ SameTx(tx, d) /\ tx.type = d.type
                           /\ d.type = 0 => chained
  <1> DEFINE b == SigningPreimage(d, chained)
             l == Preitems(d, chained)
             t == d.type
  <1>1. EnvelopeIs(t, l, b)
    <2>1. t \in {0, 1, 2}
      BY Zenon DEF TxFits
    <2>2. l \in Seq(Values(Inside)) /\ b = Envelope(t, l)
      BY Preimage, Zenon
    <2> QED BY <2>1, <2>2, EnvelopeHead, Zenon
  <1>2. b[1] # Magic
    <2>1. (t = 0 => b[1] >= ListShort) /\ (t # 0 => b[1] = t) /\ t \in {0, 1, 2} /\ b[1] \in Nat
      BY <1>1, Zenon DEF EnvelopeIs, TxFits
    <2> HIDE DEF b, t
    <2> QED BY <2>1, Layouts DEF Magic
  <1>3. CASE \E tx \in Txs : MadeForTx(g, tx)
    <2>1. PICK tx \in Txs : MadeForTx(g, tx)
      BY <1>3, Zenon
    <2>2. g.digest = SigningPreimage(tx, TRUE)
      BY <2>1, Zenon DEF MadeForTx
    <2>3. TxFits(tx, TRUE) /\ IsSlice(SigningPreimage(tx, TRUE))
      BY TxsAssumption, TypedFits, Zenon
    <2>4. SameTx(tx, d) /\ tx.type = d.type /\ (d.type = 0 => chained)
      BY <2>2, <2>3, SamePreimage, Zenon
    <2> QED BY <2>1, <2>4, Zenon
  <1>4. CASE \E m \in Messages : MadeForMessage(g, m)
    BY <1>2, <1>4, PersonalDigest, Zenon DEF MadeForMessage
  <1>5. CASE \E f \in Domains, h \in Structs : MadeForData(g, f, h)
    <2>1. PICK f \in Domains, h \in Structs : MadeForData(g, f, h)
      BY <1>5, Zenon
    <2>2. DomainValid(f) /\ g.digest = typedDigest(f, h)
      BY <2>1, Zenon DEF MadeForData
    <2>3. typedDigest(f, h)[1] = Magic
      BY <2>2, TypedDigest, Zenon
    <2> QED BY <1>2, <2>2, <2>3, Zenon
  <1> QED BY <1>3, <1>4, <1>5, Zenon DEF MadeFor

\* A signature whose digest is that of typed data was made for it.
LEMMA SignedForData ==
    ASSUME NEW g, MadeFor(g), NEW d \in Domains, DomainValid(d), NEW h \in Structs,
           g.digest = typedDigest(d, h)
    PROVE  g.of = [kind |-> "typed", domain |-> d, struct |-> h]
  <1> DEFINE b == typedDigest(d, h)
  <1>1. b[1] = Magic /\ b[2] = 1
    BY TypedDigest, Zenon
  <1>2. CASE \E tx \in Txs : MadeForTx(g, tx)
    <2>1. PICK tx \in Txs : MadeForTx(g, tx)
      BY <1>2, Zenon
    <2>2. TxFits(tx, TRUE) /\ TRUE \in BOOLEAN
      BY TxsAssumption, TypedFits, Zenon
    <2> DEFINE l == Preitems(tx, TRUE)
               t == tx.type
    <2>3. l \in Seq(Values(Inside)) /\ b = Envelope(t, l) /\ t \in {0, 1, 2}
      BY <2>1, <2>2, Preimage, Zenon DEF MadeForTx, TxFits
    <2> HIDE DEF b, t, l
    <2>4. EnvelopeIs(t, l, b)
      BY <2>3, EnvelopeHead, Zenon
    <2>5. (t = 0 => b[1] >= ListShort) /\ (t # 0 => b[1] = t)
      BY <2>4, Zenon DEF EnvelopeIs
    <2>6. FALSE
      BY <1>1, <2>3, <2>5, Layouts DEF Magic
    <2> QED BY <2>6, Zenon
  <1>3. CASE \E m \in Messages : MadeForMessage(g, m)
    <2>1. 0 # 1
      OBVIOUS
    <2> QED BY <1>1, <1>3, <2>1, PersonalDigest, Zenon DEF MadeForMessage
  <1>4. CASE \E f \in Domains, k \in Structs : MadeForData(g, f, k)
    <2>1. PICK f \in Domains, k \in Structs : MadeForData(g, f, k)
      BY <1>4, Zenon
    <2>2. DomainValid(f) /\ typedDigest(d, h) = typedDigest(f, k)
          /\ g.of = [kind |-> "typed", domain |-> f, struct |-> k]
      BY <2>1, Zenon DEF MadeForData
    <2>3. d = f /\ h = k
      BY <2>2, SameTyped, Zenon
    <2> QED BY <2>2, <2>3, Zenon
  <1> QED BY <1>2, <1>3, <1>4, Zenon DEF MadeFor

------------------------------------------------------------------------------
(* What DecodeTransaction accepts.                                         *)

\* The fields of a transaction come first, then v, r and s.
LEMMA Order ==
    ASSUME NEW t \in {0, 1, 2}
    PROVE  LET n == Len(Body(t))
               layout == Layout(t)
           IN  /\ n \in Nat /\ Len(layout) = n + 3 /\ DOMAIN layout = 1..(n + 3)
               /\ DOMAIN Body(t) = 1..n
               /\ \A i \in 1..n : layout[i] = Body(t)[i] /\ layout[i] \in Names
               /\ layout[n + 1] = "v" /\ layout[n + 2] = "r" /\ layout[n + 3] = "s"
  <1> DEFINE b == Body(t)
             n == Len(b)
             S == {"v", "r", "s"}
  <1>1. b \in Seq(Names)
    BY Bodies, Zenon
  <1>2. Layout(t) = b \o <<"v", "r", "s">>
    BY Zenon DEF Layout, Signature
  <1> HIDE DEF b
  <1> DEFINE T == Names \cup S
             c == <<"v", "r", "s">>
  <1>3. b \in Seq(T) /\ n \in Nat
    <2>1. Names \subseteq T
      BY Zenon
    <2> HIDE DEF T
    <2> QED BY <1>1, <2>1, SeqWithin, SeqIs, Zenon
  <1>4. c \in Seq(T) /\ Len(c) = 3 /\ c[1] = "v" /\ c[2] = "r" /\ c[3] = "s"
    OBVIOUS
  <1> HIDE DEF T, c
  <1>5. /\ Len(b \o c) = n + 3 /\ DOMAIN (b \o c) = 1..(n + 3) /\ DOMAIN b = 1..n
        /\ \A i \in 1..n : (b \o c)[i] = b[i]
        /\ (b \o c)[n + 1] = c[1] /\ (b \o c)[n + 2] = c[2] /\ (b \o c)[n + 3] = c[3]
    <2>0. b \in Seq(T) /\ c \in Seq(T)
      BY <1>3, <1>4, Zenon
    <2>1. /\ Len(b \o c) = Len(b) + Len(c) /\ b \o c \in Seq(T) /\ DOMAIN b = 1..Len(b)
          /\ \A i \in 1..Len(b) : (b \o c)[i] = b[i]
          /\ \A i \in 1..Len(c) : (b \o c)[Len(b) + i] = c[i]
      BY <2>0
    <2>2. 1 \in 1..3 /\ 2 \in 1..3 /\ 3 \in 1..3
      OBVIOUS
    <2>3. DOMAIN (b \o c) = 1..Len(b \o c)
      BY <2>1, SeqIs, Zenon
    <2> QED BY <1>4, <2>1, <2>2, <2>3, Zenon
  <1>6. \A i \in 1..n : b[i] \in Names
    BY <1>1, SeqIs, Zenon
  <1> QED BY <1>2, <1>3, <1>4, <1>5, <1>6, Zenon DEF b, c

\* No field has the name of a part of the signature.
LEMMA NamesAre ==
    /\ "v" \notin Names /\ "r" \notin Names /\ "s" \notin Names /\ "type" \notin Names
    /\ "v" \notin Numbers /\ "r" \notin Numbers /\ "s" \notin Numbers
    /\ "to" \notin Numbers /\ "data" \notin Numbers /\ "accessList" \notin Numbers
    /\ "chainId" \in BigFields
    /\ Uint64Fields \cap BigFields = {}
  BY DEF Names, Numbers, Uint64Fields, BigFields

\* The chain id is no field of a legacy transaction.
LEMMA LegacyChain == "chainId" \notin Range(Body(0))
  <1>1. Body(0) = LegacyBody
    BY DEF Body
  <1>2. DOMAIN LegacyBody = 1..6
    BY DEF LegacyBody
  <1>3. \A i \in 1..6 : LegacyBody[i] # "chainId"
    BY DEF LegacyBody
  <1> QED BY <1>1, <1>2, <1>3, Zenon DEF Range

\* Where a field lies.
LEMMA Places ==
    ASSUME NEW t \in {0, 1, 2}
    PROVE  /\ \A f \in Range(Layout(t)) : /\ Place(Layout(t), f) \in DOMAIN Layout(t)
                                          /\ Layout(t)[Place(Layout(t), f)] = f
           /\ Range(Layout(t)) = Range(Body(t)) \cup {"v", "r", "s"}
           /\ Range(Body(t)) \subseteq Names
           /\ Place(Layout(t), "v") = Len(Body(t)) + 1
           /\ Place(Layout(t), "r") = Len(Body(t)) + 2
           /\ Place(Layout(t), "s") = Len(Body(t)) + 3
  <1> DEFINE b == Body(t)
             n == Len(b)
             layout == Layout(t)
  <1>1. /\ n \in Nat /\ DOMAIN layout = 1..(n + 3) /\ DOMAIN b = 1..n
        /\ \A i \in 1..n : layout[i] = b[i] /\ layout[i] \in Names
        /\ layout[n + 1] = "v" /\ layout[n + 2] = "r" /\ layout[n + 3] = "s"
    BY Order, Zenon
  <1> HIDE DEF b, layout
  <1>2. /\ n + 1 \in DOMAIN layout /\ n + 2 \in DOMAIN layout /\ n + 3 \in DOMAIN layout
        /\ 1..n \subseteq DOMAIN layout
        /\ \A i \in DOMAIN layout : i \in 1..n \/ i = n + 1 \/ i = n + 2 \/ i = n + 3
    BY <1>1
  <1>3. \A f \in Range(layout) : Place(layout, f) \in DOMAIN layout /\ layout[Place(layout, f)] = f
    BY Zenon DEF Range, Place
  <1> DEFINE x == n + 1
             y == n + 2
             z == n + 3
             I == 1..n
             J == DOMAIN layout
  <1>a. /\ DOMAIN b = I /\ I \subseteq J /\ x \in J /\ y \in J /\ z \in J
        /\ \A i \in J : i \in I \/ i = x \/ i = y \/ i = z
        /\ \A i \in I : layout[i] = b[i] /\ layout[i] \in Names
        /\ layout[x] = "v" /\ layout[y] = "r" /\ layout[z] = "s"
    BY <1>1, <1>2, Zenon
  <1> HIDE DEF n, x, y, z, I, J
  <1>4. Range(layout) = Range(b) \cup {"v", "r", "s"}
    <2>0. /\ \A f : f \in Range(layout) <=> \E i \in J : f = layout[i]
          /\ \A f : f \in Range(b) <=> \E i \in I : f = b[i]
      BY <1>a, Zenon DEF Range, J
    <2>1. ASSUME NEW f \in Range(layout) PROVE f \in Range(b) \cup {"v", "r", "s"}
      <3>1. PICK i \in J : f = layout[i]
        BY <2>0, Zenon
      <3> QED BY <1>a, <2>0, <3>1, Zenon
    <2>2. ASSUME NEW f \in Range(b) PROVE f \in Range(layout)
      <3>1. PICK i \in I : f = b[i]
        BY <2>0, Zenon
      <3>2. i \in J /\ f = layout[i]
        BY <1>a, <3>1, Zenon
      <3> QED BY <2>0, <3>2, Zenon
    <2>3. "v" \in Range(layout) /\ "r" \in Range(layout) /\ "s" \in Range(layout)
      BY <1>a, <2>0, Zenon
    <2> QED BY <2>1, <2>2, <2>3, Zenon
  <1>5. Range(b) \subseteq Names
    BY <1>a, Zenon DEF Range
  <1>6. "v" # "r" /\ "v" # "s" /\ "r" # "s"
    OBVIOUS
  <1>7. Place(layout, "v") = x
    <2> DEFINE k == Place(layout, "v")
    <2>1. k \in J /\ layout[k] = "v"
      BY <1>3, <1>4, Zenon DEF J
    <2> HIDE DEF k
    <2>2. k = x
      BY <1>a, <1>6, <2>1, NamesAre, Zenon
    <2> QED BY <2>2, Zenon DEF k
  <1>8. Place(layout, "r") = y
    <2> DEFINE k == Place(layout, "r")
    <2>1. k \in J /\ layout[k] = "r"
      BY <1>3, <1>4, Zenon DEF J
    <2> HIDE DEF k
    <2>2. k = y
      BY <1>a, <1>6, <2>1, NamesAre, Zenon
    <2> QED BY <2>2, Zenon DEF k
  <1>9. Place(layout, "s") = z
    <2> DEFINE k == Place(layout, "s")
    <2>1. k \in J /\ layout[k] = "s"
      BY <1>3, <1>4, Zenon DEF J
    <2> HIDE DEF k
    <2>2. k = z
      BY <1>a, <1>6, <2>1, NamesAre, Zenon
    <2> QED BY <2>2, Zenon DEF k
  <1> QED BY <1>3, <1>4, <1>5, <1>7, <1>8, <1>9, Zenon DEF b, n, layout, x, y, z

\* Items in the order of a layout, each fit for its field.
ItemsOk(t, items) ==
    /\ items \in Seq(Values(Inside)) /\ Len(items) = Len(Layout(t))
    /\ \A i \in DOMAIN Layout(t) : FieldOk(t, Layout(t)[i], items[i])

FieldsRead(t, items) == [f \in Range(Layout(t)) |-> FieldValue(f, items[Place(Layout(t), f)])]

\* The body of an accepted transaction is the encoding of such items.
LEMMA BodyRead ==
    ASSUME NEW t, NEW b \in Seq(Byte), DecodeBody(t, b).err = "ok"
    PROVE  \E items : /\ ItemsOk(t, items) /\ b = Encode(MaxNestingDepth, List(items))
                      /\ DecodeBody(t, b).fields = FieldsRead(t, items)
  <1> DEFINE d == Decode(b)
             r == DecodeBody(t, b)
             items == d.val.l
  <1>0. \A e : Err(e).err = e
    BY Zenon DEF Err
  <1>1. r = ReadBody(t, d)
    BY Zenon DEF DecodeBody
  <1>2. d.err = "ok" => d.val \in Values(MaxNestingDepth) /\ b = Encode(MaxNestingDepth, d.val)
    BY Decoded, Zenon
  <1> HIDE DEF d, r
  <1>3. r.err = "ok"
    BY Zenon DEF r
  <1>4. "panic" # "ok" /\ "ErrDecodeFailed" # "ok" /\ "ErrInvalidField" # "ok"
    OBVIOUS
  <1>5. d.err = "ok" /\ d.val.t = "list" /\ r = ReadItems(t, Layout(t), items)
    BY <1>0, <1>1, <1>3, <1>4, Zenon DEF ReadBody
  <1>6. d.val = List(items) /\ items \in Seq(Values(Inside))
    <2>1. MaxNestingDepth \in Nat /\ MaxNestingDepth - 1 = Inside
      BY InsideIs, Zenon DEF Inside
    <2> QED BY <1>2, <1>5, <2>1, Shapes, Zenon
  <1> HIDE DEF items
  <1>7. /\ ~(Len(items) # Len(Layout(t)) \/ \E i \in DOMAIN Layout(t) : ~FieldOk(t, Layout(t)[i], items[i]))
        /\ r = [err |-> "ok", fields |-> FieldsRead(t, items)]
    BY <1>0, <1>3, <1>4, <1>5, Zenon DEF ReadItems, FieldsRead
  <1>8. r.fields = FieldsRead(t, items)
    BY <1>7
  <1> QED BY <1>2, <1>5, <1>6, <1>7, <1>8, Zenon DEF ItemsOk, r

\* How the chain id and the recovery id were read.
HowRead(t, fields, chainId, recID, chained) ==
    LET v == Number(fields.v)
    IN  \/ /\ t = 0 /\ v \in {27, 28}
           /\ chainId = NilChain /\ recID = v - 27 /\ chained = FALSE
        \/ /\ t = 0 /\ v \notin {27, 28} /\ ~(v < 35)
           /\ chainId = (v - 35) \div 2 /\ recID = (v - 35) % 2 /\ chained = TRUE
        \/ /\ t # 0 /\ yParity(fields.v) # 2
           /\ chainId = fields.chainId /\ recID = yParity(fields.v) /\ chained = FALSE

\* How an accepted transaction was read.
TxRead(made, b, d, t, items, chainId, recID, chained) ==
    /\ t \in {0, 1, 2} /\ ItemsOk(t, items) /\ b = Envelope(t, items)
    /\ HowRead(t, FieldsRead(t, items), chainId, recID, chained)
    /\ d.tx = Typed(FieldsRead(t, items), t, chainId)
    /\ d.sender = Recover(made, Number(d.tx.r), Number(d.tx.s), recID, SigningPreimage(d.tx, chained))

\* What is reported of an accepted transaction.
LEMMA SentOk ==
    ASSUME NEW tx, NEW who, Sent(tx, who).err = "ok"
    PROVE  Sent(tx, who).tx = tx /\ Sent(tx, who).sender = who
  <1>1. Err("ErrRecoverFailed").err = "ErrRecoverFailed"
    BY DEF Err
  <1>2. who # "ErrRecoverFailed"
    <2>1. ASSUME who = "ErrRecoverFailed" PROVE Sent(tx, who) = Err("ErrRecoverFailed")
      BY <2>1, Zenon DEF Sent
    <2> QED BY <1>1, <2>1
  <1>3. Sent(tx, who) = [err |-> "ok", tx |-> tx, sender |-> who]
    BY <1>2, Zenon DEF Sent
  <1> QED BY <1>3

\* An accepted transaction is an envelope of items that were read.
LEMMA TxDecoded ==
    ASSUME NEW made, NEW b \in Seq(Byte), NEW d,
           d = DecodeTransaction(made, b), d.err = "ok"
    PROVE  \E t, items, chainId, recID, chained : TxRead(made, b, d, t, items, chainId, recID, chained)
  <1>0. /\ \A e : Err(e).err = e
        /\ "ErrEmptyInput" # "ok" /\ "ErrInvalidType" # "ok" /\ "ErrInvalidField" # "ok"
    BY DEF Err
  <1>1. b # <<>>
    BY <1>0, Zenon DEF DecodeTransaction
  <1>2. CASE b[1] >= ListShort
    <2> DEFINE r == DecodeBody(0, b)
               v == Number(r.fields.v)
    <2>1. d = decodeLegacy(made, b)
      BY <1>1, <1>2, Zenon DEF DecodeTransaction
    <2>2. r.err = "ok" /\ d = LegacyOf(made, r.fields, v)
      BY <2>1, Zenon DEF decodeLegacy
    <2>3. PICK items : /\ ItemsOk(0, items) /\ b = Encode(MaxNestingDepth, List(items))
                       /\ r.fields = FieldsRead(0, items)
      BY <2>2, BodyRead, Zenon
    <2> HIDE DEF r
    <2>4. b = Envelope(0, items)
      <3>1. <<>> \o b = b
        BY Concat, Zenon
      <3>2. TypePrefix(0) = <<>>
        BY Zenon DEF TypePrefix
      <3> QED BY <2>3, <3>1, <3>2, Zenon DEF Envelope
    <2> DEFINE fields == FieldsRead(0, items)
    <2> HIDE DEF fields, v
    <2>5. CASE v \in {27, 28}
      <3> DEFINE tx == Typed(fields, 0, NilChain)
      <3>1. d = WithSender(made, tx, v - 27, FALSE)
        BY <2>2, <2>3, <2>5, Zenon DEF LegacyOf, fields
      <3> HIDE DEF tx
      <3>2. d.tx = tx /\ d.sender = Recover(made, Number(tx.r), Number(tx.s), v - 27, SigningPreimage(tx, FALSE))
        <4> DEFINE who == Recover(made, Number(tx.r), Number(tx.s), v - 27, SigningPreimage(tx, FALSE))
        <4>1. d = Sent(tx, who)
          BY <3>1, Zenon DEF WithSender
        <4> HIDE DEF who
        <4>2. Sent(tx, who).err = "ok"
          BY <4>1, Zenon
        <4>3. Sent(tx, who).tx = tx /\ Sent(tx, who).sender = who
          BY <4>2, SentOk, Zenon
        <4> QED BY <4>1, <4>3, Zenon DEF who
      <3>3. HowRead(0, fields, NilChain, v - 27, FALSE)
        BY <2>3, <2>5, Zenon DEF HowRead, v, fields
      <3>4. TxRead(made, b, d, 0, items, NilChain, v - 27, FALSE)
        BY <2>3, <2>4, <3>2, <3>3, Zenon DEF TxRead, tx, fields
      <3> QED BY <3>4, Zenon
    <2>6. CASE v \notin {27, 28} /\ v < 35
      BY <1>0, <2>2, <2>6, Zenon DEF LegacyOf
    <2>7. CASE v \notin {27, 28} /\ ~(v < 35)
      <3> DEFINE c == (v - 35) \div 2
                 k == (v - 35) % 2
                 tx == Typed(fields, 0, c)
      <3>1. d = WithSender(made, tx, k, TRUE)
        BY <2>2, <2>3, <2>7, Zenon DEF LegacyOf, fields
      <3>2. HowRead(0, fields, c, k, TRUE)
        BY <2>3, <2>7, Zenon DEF HowRead, v, fields
      <3> HIDE DEF tx, c, k
      <3>3. d.tx = tx /\ d.sender = Recover(made, Number(tx.r), Number(tx.s), k, SigningPreimage(tx, TRUE))
        <4> DEFINE who == Recover(made, Number(tx.r), Number(tx.s), k, SigningPreimage(tx, TRUE))
        <4>1. d = Sent(tx, who)
          BY <3>1, Zenon DEF WithSender
        <4> HIDE DEF who
        <4>2. Sent(tx, who).err = "ok"
          BY <4>1, Zenon
        <4>3. Sent(tx, who).tx = tx /\ Sent(tx, who).sender = who
          BY <4>2, SentOk, Zenon
        <4> QED BY <4>1, <4>3, Zenon DEF who
      <3>4. TxRead(made, b, d, 0, items, c, k, TRUE)
        BY <2>3, <2>4, <3>2, <3>3, Zenon DEF TxRead, tx, fields
      <3> QED BY <3>4, Zenon
    <2> QED BY <2>5, <2>6, <2>7, Zenon
  <1>3. CASE ~(b[1] >= ListShort)
    <2> DEFINE t == b[1]
               body == Tail(b)
               r == DecodeBody(t, body)
               k == yParity(r.fields.v)
    <2>1. t \in {1, 2} /\ d = decodeTyped(made, t, body)
      BY <1>0, <1>1, <1>3, Zenon DEF DecodeTransaction
    <2>2. r.err = "ok" /\ d = TypedOf(made, t, r.fields, k)
      BY <2>1, Zenon DEF decodeTyped
    <2>3. body \in Seq(Byte) /\ b = <<t>> \o body /\ t # 0
      BY <1>1, <2>1
    <2>4. PICK items : /\ ItemsOk(t, items) /\ body = Encode(MaxNestingDepth, List(items))
                       /\ r.fields = FieldsRead(t, items)
      BY <2>2, <2>3, BodyRead, Zenon
    <2> DEFINE fields == FieldsRead(t, items)
               c == fields.chainId
               tx == Typed(fields, t, c)
    <2>5. b = Envelope(t, items)
      BY <2>3, <2>4, Zenon DEF Envelope, TypePrefix
    <2>6. k # 2 /\ d = WithSender(made, tx, k, FALSE)
      BY <1>0, <2>2, <2>4, Zenon DEF TypedOf
    <2>7. HowRead(t, fields, c, k, FALSE)
      BY <2>3, <2>4, <2>6, Zenon DEF HowRead
    <2> HIDE DEF tx, fields, k, t
    <2>8. d.tx = tx /\ d.sender = Recover(made, Number(tx.r), Number(tx.s), k, SigningPreimage(tx, FALSE))
      <3> DEFINE who == Recover(made, Number(tx.r), Number(tx.s), k, SigningPreimage(tx, FALSE))
      <3>1. d = Sent(tx, who)
        BY <2>6, Zenon DEF WithSender
      <3> HIDE DEF who
      <3>2. Sent(tx, who).err = "ok"
        BY <3>1, Zenon
      <3>3. Sent(tx, who).tx = tx /\ Sent(tx, who).sender = who
        BY <3>2, SentOk, Zenon
      <3> QED BY <3>1, <3>3, Zenon DEF who
    <2>9. TxRead(made, b, d, t, items, c, k, FALSE)
      BY <2>1, <2>4, <2>5, <2>7, <2>8, Zenon DEF TxRead, tx, fields
    <2> QED BY <2>9, Zenon
  <1> QED BY <1>2, <1>3, Zenon

\* No field comes twice.
LEMMA Distinct ==
    ASSUME NEW t \in {0, 1, 2}
    PROVE  \A i \in 1..Len(Body(t)) : /\ Place(Layout(t), Body(t)[i]) = i
                                      /\ Body(t)[i] \in Range(Body(t)) /\ Body(t)[i] \in Names
  <1> DEFINE b == Body(t)
             n == Len(b)
             layout == Layout(t)
  <1>1. \A i, j \in DOMAIN b : b[i] = b[j] => i = j
    <2>1. \A i, j \in DOMAIN LegacyBody : LegacyBody[i] = LegacyBody[j] => i = j
      BY DEF LegacyBody
    <2>2. \A i, j \in DOMAIN AccessBody : AccessBody[i] = AccessBody[j] => i = j
      BY DEF AccessBody
    <2>3. \A i, j \in DOMAIN FeeBody : FeeBody[i] = FeeBody[j] => i = j
      BY DEF FeeBody
    <2>4. b = LegacyBody \/ b = AccessBody \/ b = FeeBody
      BY Zenon DEF Body
    <2> HIDE DEF b
    <2> QED BY <2>1, <2>2, <2>3, <2>4, Zenon
  <1>2. /\ n \in Nat /\ DOMAIN layout = 1..(n + 3) /\ DOMAIN b = 1..n
        /\ \A i \in 1..n : layout[i] = b[i] /\ layout[i] \in Names
        /\ layout[n + 1] = "v" /\ layout[n + 2] = "r" /\ layout[n + 3] = "s"
    BY Order, Zenon
  <1>3. \A f \in Range(layout) : Place(layout, f) \in DOMAIN layout /\ layout[Place(layout, f)] = f
    BY Places, Zenon
  <1>4. Range(b) \subseteq Range(layout)
    BY Places, Zenon
  <1> HIDE DEF b, layout
  <1> SUFFICES ASSUME NEW i \in 1..n
               PROVE  Place(layout, b[i]) = i /\ b[i] \in Range(b) /\ b[i] \in Names
    BY Zenon DEF b, layout
  <1> DEFINE k == Place(layout, b[i])
  <1>5. b[i] \in Names /\ b[i] \in Range(b)
    BY <1>2, Zenon DEF Range
  <1>6. k \in DOMAIN layout /\ layout[k] = b[i]
    BY <1>3, <1>4, <1>5, Zenon
  <1> HIDE DEF k
  <1>7. k \in 1..n
    <2>1. k \in 1..n \/ k = n + 1 \/ k = n + 2 \/ k = n + 3
      BY <1>2, <1>6
    <2>2. k # n + 1 /\ k # n + 2 /\ k # n + 3
      BY <1>2, <1>5, <1>6, NamesAre, Zenon
    <2> QED BY <2>1, <2>2, Zenon
  <1>8. k = i
    BY <1>1, <1>2, <1>6, <1>7, Zenon
  <1> QED BY <1>5, <1>8, Zenon DEF k

\* The fields of a transaction that was read, and its signature, beside the items.
ReadOf(t, items, tx) ==
    LET n == Len(Body(t))
    IN  /\ \A i \in 1..n : LET f == Body(t)[i]
                           IN  FieldFits(f, tx[f]) /\ FieldItem(f, tx[f]) = items[i]
        /\ tx.v \in Seq(Byte) /\ items[n + 1] = Bytes(tx.v)
        /\ t = 0 => checkIntegerField(tx.v)
        /\ tx.r \in Seq(Byte) /\ items[n + 2] = Bytes(tx.r) /\ asScalar(items[n + 2])
        /\ tx.s \in Seq(Byte) /\ items[n + 3] = Bytes(tx.s) /\ asScalar(items[n + 3])

\* The chain id of a transaction that was read.
ChainRead(t, items, chainId) == t # 0 => chainId = FieldsRead(t, items).chainId

\* The parts of a transaction that was read.
LEMMA ReadParts ==
    ASSUME NEW t \in {0, 1, 2}, NEW items, ItemsOk(t, items), NEW chainId, ChainRead(t, items, chainId)
    PROVE  LET tx == Typed(FieldsRead(t, items), t, chainId)
               n == Len(Body(t))
           IN  /\ tx.type = t /\ tx.chainId = chainId
               /\ \A i \in 1..n : tx[Body(t)[i]] = FieldValue(Body(t)[i], items[i])
               /\ tx.v = items[n + 1].b /\ tx.r = items[n + 2].b /\ tx.s = items[n + 3].b
  <1> DEFINE fields == FieldsRead(t, items)
             tx == Typed(fields, t, chainId)
             b == Body(t)
             n == Len(b)
             fs == Range(Layout(t))
  <1>1. fields = [f \in fs |-> FieldValue(f, items[Place(Layout(t), f)])]
    BY Zenon DEF FieldsRead
  <1>2. /\ \A i \in 1..n : Place(Layout(t), b[i]) = i /\ b[i] \in Range(b) /\ b[i] \in Names
        /\ fs = Range(b) \cup {"v", "r", "s"}
    BY Distinct, Places, Zenon
  <1>3. /\ Place(Layout(t), "v") = n + 1 /\ Place(Layout(t), "r") = n + 2
        /\ Place(Layout(t), "s") = n + 3
    BY Places, Zenon
  <1> HIDE DEF fs, b
  <1>4. tx = [f \in fs \cup {"type", "chainId"} |->
                IF f = "type" THEN t ELSE IF f = "chainId" THEN chainId ELSE fields[f]]
    BY <1>1, Zenon DEF Typed
  <1>5. /\ \A f \in fs : fields[f] = FieldValue(f, items[Place(Layout(t), f)])
    BY <1>1, Zenon
  <1> HIDE DEF fields, tx
  <1>6. /\ tx["type"] = t /\ tx["chainId"] = chainId
        /\ \A f \in fs : f # "type" /\ f # "chainId" => tx[f] = fields[f]
    <2>1. "chainId" # "type"
      OBVIOUS
    <2> QED BY <1>4, <2>1, Zenon
  <1>7. ASSUME NEW i \in 1..n PROVE tx[b[i]] = FieldValue(b[i], items[i])
    <2>1. b[i] \in fs /\ b[i] # "type" /\ fields[b[i]] = FieldValue(b[i], items[i])
      BY <1>2, <1>5, NamesAre, Zenon
    <2>2. CASE b[i] = "chainId"
      <3>1. t # 0
        BY <1>2, <2>2, LegacyChain, Zenon DEF b
      <3>2. chainId = fields["chainId"]
        BY <3>1, Zenon DEF ChainRead, fields
      <3> QED BY <1>6, <2>1, <2>2, <3>2, Zenon
    <2>3. CASE b[i] # "chainId"
      BY <1>6, <2>1, <2>3, Zenon
    <2> QED BY <2>2, <2>3, Zenon
  <1>8. /\ "v" # "type" /\ "v" # "chainId" /\ "r" # "type" /\ "r" # "chainId" 
        /\ "s" # "type" /\ "s" # "chainId"
    OBVIOUS
  <1>9. \A x : \A f \in {"v", "r", "s"} : FieldValue(f, x) = x.b
    <2>1. /\ \A f \in {"v", "r", "s"} : f \notin Numbers /\ f # "accessList"
      BY NamesAre DEF Names
    <2> QED BY <2>1, Zenon DEF FieldValue, Numbers
  <1>10. tx["v"] = items[n + 1].b /\ tx["r"] = items[n + 2].b /\ tx["s"] = items[n + 3].b
    <2>1. \A f \in {"v", "r", "s"} : f \in fs /\ tx[f] = fields[f]
      BY <1>2, <1>6, <1>8, Zenon
    <2> QED BY <1>3, <1>5, <1>9, <2>1, Zenon
  <1> QED BY <1>6, <1>7, <1>10, Zenon DEF tx, fields, b

\* They are the values of the items, and the items are theirs.
LEMMA ReadFields ==
    ASSUME NEW t \in {0, 1, 2}, NEW items, ItemsOk(t, items), NEW chainId, ChainRead(t, items, chainId)
    PROVE  LET tx == Typed(FieldsRead(t, items), t, chainId)
           IN  tx.type = t /\ tx.chainId = chainId /\ ReadOf(t, items, tx)
  <1> DEFINE tx == Typed(FieldsRead(t, items), t, chainId)
             b == Body(t)
             n == Len(b)
             layout == Layout(t)
  <1>1. /\ tx.type = t /\ tx.chainId = chainId
        /\ \A i \in 1..n : tx[b[i]] = FieldValue(b[i], items[i])
        /\ tx.v = items[n + 1].b /\ tx.r = items[n + 2].b /\ tx.s = items[n + 3].b
    BY ReadParts
  <1> HIDE DEF tx
  <1>2. /\ n \in Nat /\ Len(layout) = n + 3 /\ DOMAIN layout = 1..(n + 3)
        /\ \A i \in 1..n : layout[i] = b[i] /\ layout[i] \in Names
        /\ layout[n + 1] = "v" /\ layout[n + 2] = "r" /\ layout[n + 3] = "s"
    BY Order, Zenon
  <1>3. /\ items \in Seq(Values(Inside)) /\ Len(items) = Len(layout)
        /\ \A i \in DOMAIN layout : FieldOk(t, layout[i], items[i])
    BY Zenon DEF ItemsOk
  <1> HIDE DEF b, layout
  <1>4. /\ \A i \in 1..n : i \in 1..(n + 3)
        /\ n + 1 \in 1..(n + 3) /\ n + 2 \in 1..(n + 3) /\ n + 3 \in 1..(n + 3)
    BY <1>2
  <1>5. \A i \in 1..(n + 3) : items[i] \in Values(Inside)
    BY <1>2, <1>3, SeqIs, Zenon
  <1>6. ASSUME NEW i \in 1..n
        PROVE  FieldFits(b[i], tx[b[i]]) /\ FieldItem(b[i], tx[b[i]]) = items[i]
    <2>1. /\ b[i] \in Names /\ items[i] \in Values(Inside) /\ FieldOk(t, b[i], items[i])
          /\ tx[b[i]] = FieldValue(b[i], items[i])
      BY <1>1, <1>2, <1>3, <1>4, <1>5, Zenon
    <2> HIDE DEF n
    <2> QED BY <2>1, FieldRead, Zenon
  <1> DEFINE x == items[n + 1]
             y == items[n + 2]
             z == items[n + 3]
  <1>7. /\ x \in Values(Inside) /\ y \in Values(Inside) /\ z \in Values(Inside)
        /\ FieldOk(t, "v", x) /\ FieldOk(t, "r", y) /\ FieldOk(t, "s", z)
        /\ tx.v = x.b /\ tx.r = y.b /\ tx.s = z.b
    BY <1>1, <1>2, <1>3, <1>4, <1>5, Zenon
  <1> HIDE DEF x, y, z, n
  <1>8. /\ IsBytes(x) /\ (t = 0 => checkIntegerField(x.b)) /\ asScalar(y) /\ asScalar(z)
    <2>1. /\ \A f \in {"v", "r", "s"} : f \notin Uint64Fields /\ f \notin BigFields /\ f # "to" /\ f # "data" /\ f # "accessList"
          /\ "r" # "v" /\ "s" # "v"
      BY DEF Uint64Fields, BigFields
    <2>2. FieldOk(t, "v", x) <=> IsBytes(x) /\ (t = 0 => checkIntegerField(x.b))
      BY <2>1, Zenon DEF FieldOk
    <2>3. FieldOk(t, "r", y) <=> asScalar(y)
      BY <2>1, Zenon DEF FieldOk
    <2>4. FieldOk(t, "s", z) <=> asScalar(z)
      BY <2>1, Zenon DEF FieldOk
    <2> QED BY <1>7, <2>2, <2>3, <2>4, Zenon
  <1>9. /\ x = Bytes(tx.v) /\ tx.v \in Seq(Byte)
        /\ y = Bytes(tx.r) /\ tx.r \in Seq(Byte)
        /\ z = Bytes(tx.s) /\ tx.s \in Seq(Byte)
    <2>1. x.t = "bytes" /\ y.t = "bytes" /\ z.t = "bytes"
      BY <1>8, Zenon DEF IsBytes, asScalar
    <2>2. Inside \in Nat
      BY InsideIs, Zenon
    <2> QED BY <1>7, <2>1, <2>2, Shapes, ZenonT(40)
  <1>10. t = 0 => checkIntegerField(tx.v)
    BY <1>7, <1>8, Zenon
  <1>11. ReadOf(t, items, tx)
    BY <1>6, <1>8, <1>9, <1>10, Zenon DEF ReadOf, x, y, z, n, b
  <1> QED BY <1>1, <1>11, Zenon DEF tx

\* What is known of an accepted transaction.
LEMMA ReadIs ==
    ASSUME NEW made, NEW b, NEW d, NEW t, NEW items, NEW chainId, NEW recID, NEW chained,
           TxRead(made, b, d, t, items, chainId, recID, chained)
    PROVE  /\ chained \in BOOLEAN /\ recID \in {0, 1}
           /\ d.tx.type = t /\ d.tx.chainId = chainId /\ ReadOf(t, items, d.tx)
           /\ HowRead(t, d.tx, chainId, recID, chained)
           /\ TxFits(d.tx, chained)
  <1> DEFINE fields == FieldsRead(t, items)
             tx == Typed(fields, t, chainId)
  <1>1. /\ t \in {0, 1, 2} /\ ItemsOk(t, items) /\ HowRead(t, fields, chainId, recID, chained)
        /\ d.tx = tx
    BY Zenon DEF TxRead
  <1>2. t # 0 => chainId = fields.chainId
    BY <1>1, Zenon DEF HowRead
  <1>3. tx.type = t /\ tx.chainId = chainId /\ ReadOf(t, items, tx)
    BY <1>1, <1>2, ReadFields, Zenon DEF ChainRead
  <1>4. tx.v = fields.v
    <2>1. "v" \in Range(Layout(t))
      BY <1>1, Places, Zenon
    <2>2. "v" # "type" /\ "v" # "chainId"
      OBVIOUS
    <2>3. DOMAIN fields = Range(Layout(t))
      BY Zenon DEF FieldsRead
    <2> HIDE DEF fields
    <2> QED BY <2>1, <2>2, <2>3, Zenon DEF Typed
  <1>5. tx.v \in Seq(Byte)
    BY <1>3, Zenon DEF ReadOf
  <1> DEFINE v == Number(tx.v)
  <1>6. v \in Nat
    BY <1>5, NumberBound, Zenon
  <1>7. yParity(tx.v) # 2 => yParity(tx.v) \in {0, 1}
    BY Zenon DEF yParity
  <1> HIDE DEF v
  <1>8. /\ v \in {27, 28} => v - 27 \in {0, 1}
        /\ ~(v < 35) => (v - 35) \div 2 \in Nat /\ (v - 35) % 2 \in {0, 1}
    <2>1. ~(v < 35) => v - 35 \in Nat
      BY <1>6
    <2>2. \A m \in Nat : m \div 2 \in Nat /\ m % 2 \in {0, 1}
      OBVIOUS
    <2> QED BY <1>6, <2>1, <2>2
  <1> HIDE DEF fields, tx
  <1>9. \/ /\ t = 0 /\ v \in {27, 28}
           /\ chainId = NilChain /\ recID = v - 27 /\ chained = FALSE
        \/ /\ t = 0 /\ v \notin {27, 28} /\ ~(v < 35)
           /\ chainId = (v - 35) \div 2 /\ recID = (v - 35) % 2 /\ chained = TRUE
        \/ /\ t # 0 /\ yParity(tx.v) # 2
           /\ chainId = tx.chainId /\ recID = yParity(tx.v) /\ chained = FALSE
    BY <1>1, <1>3, <1>4, Zenon DEF HowRead, v
  <1>10. HowRead(t, tx, chainId, recID, chained)
    BY <1>9, Zenon DEF HowRead, v
  <1>11. recID \in {0, 1} /\ chained \in BOOLEAN /\ (t = 0 /\ chained => chainId \in Nat)
    BY <1>7, <1>8, <1>9, Zenon
  <1>12. Fits(Body(t), tx)
    <2>1. DOMAIN Body(t) = 1..Len(Body(t))
      BY <1>1, Order, Zenon
    <2> QED BY <1>3, <2>1, Zenon DEF ReadOf, Fits
  <1>13. TxFits(tx, chained)
    BY <1>1, <1>3, <1>11, <1>12, Zenon DEF TxFits
  <1> QED BY <1>1, <1>3, <1>10, <1>11, <1>13, Zenon

==============================================================================
