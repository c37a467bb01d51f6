--------------------------- MODULE MerkleTree_proofs ---------------------------
(***************************************************************************)
(* What the Merkle tree code and the leaf order of commitments compute,    *)
(* for trees and lists of every size.                                      *)
(***************************************************************************)
EXTENDS Commitments, WellFoundedInduction, TLAPS

------------------------------------------------------------------------------
(* Induction over sets of natural numbers.                                 *)

\* A non-empty set of natural numbers has a least element.
LEMMA Least ==
    ASSUME NEW S, S \subseteq Nat, S # {}
    PROVE  \E i \in S : \A j \in S : i <= j
  <1>1. PICK i \in S : \A j \in S : ~(<<j, i>> \in OpToRel(<, Nat))
    BY WFMin, NatLessThanWellFounded, Zenon
  <1>2. \A j \in Nat, k \in Nat : j < k => <<j, k>> \in OpToRel(<, Nat)
    BY Zenon DEF OpToRel
  <1>3. \A j \in S : ~(j < i)
    BY <1>1, <1>2, Zenon
  <1>4. \A j \in S : i <= j
    BY <1>3
  <1> QED BY <1>4, Zenon

\* A set of natural numbers that holds n whenever it holds all numbers below n
\* holds every natural number.
LEMMA Induction ==
    ASSUME NEW S, S \subseteq Nat,
           \A n \in Nat : (\A i \in 0..(n - 1) : i \in S) => n \in S
    PROVE  \A n \in Nat : n \in S
  <1> DEFINE C == {n \in Nat : n \notin S}
  <1> SUFFICES ASSUME C # {} PROVE FALSE
    OBVIOUS
  <1>1. PICK n \in C : \A j \in C : n <= j
    <2>1. C \subseteq Nat
      OBVIOUS
    <2> QED BY <2>1, Least, Zenon
  <1>2. n \in Nat /\ \A i \in 0..(n - 1) : i \in S
    BY <1>1
  <1> QED BY <1>2, Zenon

\* So does one that holds 0 and with every number the next.
LEMMA InductionNext ==
    ASSUME NEW S, S \subseteq Nat, 0 \in S, \A n \in Nat : n \in S => n + 1 \in S
    PROVE  \A n \in Nat : n \in S
  <1>1. ASSUME NEW n \in Nat, \A i \in 0..(n - 1) : i \in S PROVE n \in S
    <2>1. CASE n = 0
      BY <2>1, Zenon
    <2>2. CASE n # 0
      <3>1. n - 1 \in Nat /\ n - 1 \in 0..(n - 1) /\ (n - 1) + 1 = n
        BY <2>2
      <3> QED BY <1>1, <3>1, Zenon
    <2> QED BY <2>1, <2>2, Zenon
  <1> QED BY <1>1, Induction, Zenon

------------------------------------------------------------------------------
(* The recursive definitions of the model are of functions on the natural  *)
(* numbers.  These exist: they are put together from the functions that    *)
(* satisfy the equation up to n.                                           *)

\* One step of each definition: the value for n, in terms of x.arg and of the values
\* below n.
Step(x, n, prev) ==
    IF x.of = "TwoTo" THEN TwoToDef(n, prev)
    ELSE IF x.of = "Level" THEN LevelDef(x.arg, n, prev)
    ELSE IF x.of = "Path" THEN PathDef(x.arg, n, prev)
    ELSE IF x.of = "Folded" THEN FoldDef(x.arg, n, prev)
    ELSE IF x.of = "Side" THEN SideDef(x.arg, n, prev)
    ELSE IF x.of = "Descend" THEN DescendDef(x.arg, n, prev)
    ELSE IF x.of = "Subproof" THEN SubproofDef(x.arg, n, prev)
    ELSE IF x.of = "Verify" THEN VerifyDef(x.arg, n, prev)
    ELSE IF x.of = "Sort" THEN SortDef(x.arg, n, prev)
    ELSE IF x.of = "Search" THEN SearchDef(x.arg, n, prev)
    ELSE MTHDef(x.arg, n, prev)

Prior(g, k) == [i \in 0..(k - 1) |-> g[i]]
Upto(x, g, n) == g = [k \in 0..n |-> Step(x, k, Prior(g, k))]

\* Two functions that satisfy the equation agree where both are defined.
LEMMA AgreeBelow ==
    ASSUME NEW x, NEW m \in Nat, NEW n \in Nat, NEW g, NEW h, Upto(x, g, m), Upto(x, h, n)
    PROVE  \A k \in Nat : k <= m /\ k <= n => g[k] = h[k]
  <1> DEFINE S == {k \in Nat : k <= m /\ k <= n /\ g[k] # h[k]}
  <1> SUFFICES ASSUME S # {} PROVE FALSE
    OBVIOUS
  <1>1. PICK k \in S : \A j \in S : k <= j
    <2>1. S \subseteq Nat
       OBVIOUS
    <2> QED BY <2>1, Least, Zenon
  <1>2. \A i \in 0..(k-1) : g[i] = h[i]
    BY <1>1
  <1>3. Prior(g, k) = Prior(h, k)
    BY <1>2, Zenon DEF Prior
  <1>4. k \in 0..m /\ k \in 0..n
    BY <1>1
  <1>5. g[k] = Step(x, k, Prior(g, k)) /\ h[k] = Step(x, k, Prior(h, k))
    BY <1>4, Zenon DEF Upto
  <1> QED BY <1>1, <1>3, <1>5, Zenon

\* For every n some function satisfies the equation up to n.
LEMMA Exists ==
    ASSUME NEW x
    PROVE  \A n \in Nat : \E g : Upto(x, g, n)
  <1> DEFINE S == {n \in Nat : ~\E g : Upto(x, g, n)}
  <1> SUFFICES ASSUME S # {} PROVE FALSE
    OBVIOUS
  <1>1. PICK n \in S : \A j \in S : n <= j
    <2>1. S \subseteq Nat
       OBVIOUS
    <2> QED BY <2>1, Least, Zenon
  <1>2. n \in Nat
    OBVIOUS
  <1>3. CASE n = 0
    <2> DEFINE g == [k \in 0..0 |-> Step(x, 0, <<>>)]
    <2>1. Prior(g, 0) = <<>>
        BY DEF Prior
    <2>2. Upto(x, g, 0)
        BY <2>1 DEF Upto
    <2> QED BY <1>1, <1>3, <2>2, Zenon
  <1>4. CASE n # 0
    <2>1. n - 1 \in Nat /\ n - 1 \notin S
        BY <1>1, <1>2, <1>4
    <2>2. PICK h : Upto(x, h, n - 1)
        BY <2>1, Zenon
    <2> DEFINE g == [k \in 0..n |-> IF k = n THEN Step(x, n, Prior(h, n)) ELSE h[k]]
    <2>3. ASSUME NEW k \in 0..n PROVE Prior(g, k) = Prior(h, k)
        <3>1. \A i \in 0..(k-1) : i \in 0..n /\ i # n
            BY <1>2, <2>3
        <3> QED BY <3>1, Zenon DEF Prior
    <2>4. ASSUME NEW k \in 0..n, k # n PROVE h[k] = Step(x, k, Prior(h, k))
        BY <1>2, <2>2, <2>4 DEF Upto
    <2>5. \A k \in 0..n : g[k] = Step(x, k, Prior(g, k))
        BY <2>3, <2>4, Zenon
    <2>6. Upto(x, g, n)
        BY <2>5, Zenon DEF Upto
    <2> QED BY <1>1, <2>6, Zenon
  <1> QED BY <1>3, <1>4, Zenon

\* Some function has for every n the value that Step gives it.
LEMMA Recursive ==
    \A x : \E f : f = [n \in Nat |-> Step(x, n, [i \in 0..(n - 1) |-> f[i]])]
  <1> TAKE x
  <1> DEFINE G(n) == CHOOSE g : Upto(x, g, n)
             F == [n \in Nat |-> G(n)[n]]
  <1>1. \A n \in Nat : Upto(x, G(n), n)
    BY Exists, Zenon
  <1>2. ASSUME NEW n \in Nat PROVE F[n] = Step(x, n, [i \in 0..(n - 1) |-> F[i]])
    <2>1. ASSUME NEW i \in 0..(n - 1) PROVE G(n)[i] = F[i]
      <3>0. i \in Nat /\ i <= n /\ i <= i
        OBVIOUS
      <3>1. Upto(x, G(n), n) /\ Upto(x, G(i), i)
        BY <1>1, <3>0, Zenon
      <3> HIDE DEF G
      <3>2. G(n)[i] = G(i)[i]
        BY <3>0, <3>1, AgreeBelow
      <3> QED BY <3>0, <3>2, Zenon
    <2>2. G(n)[n] = Step(x, n, Prior(G(n), n))
      <3> HIDE DEF G
      <3> QED BY <1>1 DEF Upto
    <2>3. Prior(G(n), n) = [i \in 0..(n - 1) |-> F[i]]
      <3> HIDE DEF G, F
      <3> QED BY <2>1, Zenon DEF Prior
    <2>4. F[n] = G(n)[n]
      OBVIOUS
    <2> HIDE DEF F, G
    <2> QED BY <2>2, <2>3, <2>4, Zenon
  <1>3. F = [n \in Nat |-> Step(x, n, [i \in 0..(n - 1) |-> F[i]])]
    <2>1. F = [n \in Nat |-> F[n]]
      OBVIOUS
    <2> HIDE DEF F
    <2> QED BY <1>2, <2>1, Zenon
  <1> HIDE DEF F
  <1> QED BY <1>3, Zenon

------------------------------------------------------------------------------
(* Leaves in order.                                                        *)

\* Sequences with the same elements at the same places are equal.
LEMMA SameElements ==
    ASSUME NEW s \in Seq(Int), NEW t \in Seq(Int), Len(s) = Len(t),
           \A i \in 1..Len(s) : s[i] = t[i]
    PROVE  s = t
  OBVIOUS

\* The elements of a sequence.
LEMMA RangeIs ==
    ASSUME NEW T, NEW s \in Seq(T)
    PROVE  \A x : x \in Range(s) <=> \E i \in 1..Len(s) : x = s[i]
  <1>1. DOMAIN s = 1..Len(s)
    OBVIOUS
  <1> QED BY <1>1, Zenon DEF Range

\* In an ascending sequence every later element is larger.
LEMMA AscendingAll ==
    ASSUME NEW s \in Seq(Int), Ascending(s)
    PROVE  \A i \in 1..Len(s), j \in 1..Len(s) : i < j => s[i] < s[j]
  <1> DEFINE P(j) == j \in 1..Len(s) => \A i \in 1..Len(s) : i < j => s[i] < s[j]
             S == {j \in Nat : P(j)}
  <1>1. ASSUME NEW n \in Nat, n \in S PROVE n + 1 \in S
    <2> SUFFICES ASSUME n + 1 \in 1..Len(s), NEW i \in 1..Len(s), i < n + 1
                 PROVE  s[i] < s[n + 1]
      OBVIOUS
    <2>1. n \in 1..(Len(s) - 1) /\ n \in 1..Len(s)
      OBVIOUS
    <2>2. s[n] < s[n + 1]
      BY <2>1, Zenon DEF Ascending
    <2>3. s[i] \in Int /\ s[n] \in Int /\ s[n + 1] \in Int
      BY <2>1
    <2>4. i = n \/ (i < n /\ s[i] < s[n])
      BY <1>1, <2>1
    <2> QED BY <2>2, <2>3, <2>4
  <1>2. 0 \in S /\ S \subseteq Nat
    OBVIOUS
  <1> HIDE DEF S
  <1>3. \A j \in Nat : j \in S
    BY <1>1, <1>2, InductionNext, Zenon
  <1> QED BY <1>3 DEF S

\* Two ascending sequences with the same elements are one sequence,
LEMMA AscendingSame ==
    ASSUME NEW s \in Seq(Int), NEW t \in Seq(Int), Ascending(s), Ascending(t),
           Range(s) = Range(t)
    PROVE  s = t
  <1>1. /\ \A i \in 1..Len(s), j \in 1..Len(s) : i < j => s[i] < s[j]
        /\ \A i \in 1..Len(t), j \in 1..Len(t) : i < j => t[i] < t[j]
    BY AscendingAll, Zenon
  <1>2. /\ \A i \in 1..Len(s) : s[i] \in Int
        /\ \A i \in 1..Len(t) : t[i] \in Int
        /\ Len(s) \in Nat /\ Len(t) \in Nat
    OBVIOUS
  <1>3. /\ \A i \in 1..Len(s) : \E j \in 1..Len(t) : s[i] = t[j]
        /\ \A i \in 1..Len(t) : \E j \in 1..Len(s) : t[i] = s[j]
    <2>1. /\ \A i \in 1..Len(s) : s[i] \in Range(t)
          /\ \A i \in 1..Len(t) : t[i] \in Range(s)
      BY RangeIs, Zenon
    <2> QED BY <2>1, RangeIs, Zenon
  <1> DEFINE D == {i \in Nat : i \in 1..Len(s) /\ i \in 1..Len(t) /\ s[i] # t[i]}
  <1>4. D = {}
    <2> SUFFICES ASSUME D # {} PROVE FALSE
      OBVIOUS
    <2>1. PICK i \in D : \A j \in D : i <= j
      <3>1. D \subseteq Nat
        OBVIOUS
      <3> HIDE DEF D
      <3> QED BY <3>1, Least, Zenon
    <2>2. i \in 1..Len(s) /\ i \in 1..Len(t) /\ s[i] # t[i] /\ s[i] \in Int /\ t[i] \in Int
      BY <1>2, Zenon
    <2>3. ASSUME NEW j \in 1..Len(s), j \in 1..Len(t), j < i PROVE s[j] = t[j]
      <3>1. j \notin D
        BY <2>1, <2>2, <2>3
      <3> QED BY <2>3, <3>1
    <2>4. CASE s[i] < t[i]
      <3>1. PICK j \in 1..Len(t) : s[i] = t[j]
        BY <1>3, <2>2, Zenon
      <3>2. j < i
        <4>1. j > i => t[i] < t[j]
          BY <1>1, <2>2, Zenon
        <4> QED BY <2>2, <2>4, <3>1, <4>1
      <3>3. j \in 1..Len(s) /\ s[j] = t[j]
        BY <2>2, <2>3, <3>2, SMTT(30)
      <3>4. s[j] < s[i] /\ s[j] = s[i] /\ s[i] \in Int
        BY <1>1, <2>2, <3>1, <3>2, <3>3, Zenon
      <3> QED BY <3>4, SMTT(30)
    <2>5. CASE t[i] < s[i]
      <3>1. PICK j \in 1..Len(s) : t[i] = s[j]
        BY <1>3, <2>2, Zenon
      <3>2. j < i
        <4>1. j > i => s[i] < s[j]
          BY <1>1, <2>2, Zenon
        <4> QED BY <2>2, <2>5, <3>1, <4>1
      <3>3. j \in 1..Len(t) /\ s[j] = t[j]
        BY <2>2, <2>3, <3>2, SMTT(30)
      <3>4. t[j] < t[i] /\ t[j] = t[i] /\ t[i] \in Int
        BY <1>1, <2>2, <3>1, <3>2, <3>3, Zenon
      <3> QED BY <3>4
    <2> QED BY <2>2, <2>4, <2>5
  <1>5. \A i \in 1..Len(s) : i \in 1..Len(t) => s[i] = t[i]
    BY <1>4, SMTT(30)
  <1>6. ~(Len(s) < Len(t))
    <2> SUFFICES ASSUME Len(s) < Len(t) PROVE FALSE
      OBVIOUS
    <2> DEFINE i == Len(s) + 1
    <2>1. i \in 1..Len(t)
      BY <1>2
    <2>2. PICK j \in 1..Len(s) : t[i] = s[j]
      BY <1>3, <2>1, Zenon
    <2>3. j \in 1..Len(t) /\ j < i
      BY <1>2
    <2>4. t[j] < t[i] /\ s[j] = t[j]
      BY <1>1, <1>5, <2>1, <2>3, Zenon
    <2> QED BY <1>2, <2>1, <2>2, <2>4
  <1>7. ~(Len(t) < Len(s))
    <2> SUFFICES ASSUME Len(t) < Len(s) PROVE FALSE
      OBVIOUS
    <2> DEFINE i == Len(t) + 1
    <2>1. i \in 1..Len(s)
      BY <1>2
    <2>2. PICK j \in 1..Len(t) : s[i] = t[j]
      BY <1>3, <2>1, Zenon
    <2>3. j \in 1..Len(s) /\ j < i
      BY <1>2
    <2>4. s[j] < s[i] /\ s[j] = t[j]
      BY <1>1, <1>5, <2>1, <2>3, Zenon
    <2> QED BY <1>2, <2>1, <2>2, <2>4
  <1>8. Len(s) = Len(t)
    BY <1>2, <1>6, <1>7
  <1>9. \A i \in 1..Len(s) : s[i] = t[i]
    BY <1>5, <1>8, Zenon
  <1> QED BY <1>8, <1>9, SameElements, Zenon

\* and one whose elements the other has, below all it has besides, is its start.
LEMMA AscendingPrefix ==
    ASSUME NEW s \in Seq(Int), NEW t \in Seq(Int), Ascending(s), Ascending(t),
           Range(s) \subseteq Range(t), Range(s) # Range(t),
           \A x \in Range(s), y \in Range(t) \ Range(s) : x < y
    PROVE  Len(s) < Len(t) /\ \A i \in 1..Len(s) : s[i] = t[i]
  <1>1. /\ \A i \in 1..Len(s), j \in 1..Len(s) : i < j => s[i] < s[j]
        /\ \A i \in 1..Len(t), j \in 1..Len(t) : i < j => t[i] < t[j]
    BY AscendingAll, Zenon
  <1>2. /\ \A i \in 1..Len(s) : s[i] \in Int
        /\ \A i \in 1..Len(t) : t[i] \in Int
        /\ Len(s) \in Nat /\ Len(t) \in Nat
    OBVIOUS
  <1>3. \A i \in 1..Len(s) : \E j \in 1..Len(t) : s[i] = t[j]
    <2>1. \A i \in 1..Len(s) : s[i] \in Range(t)
      BY RangeIs, Zenon
    <2> QED BY <2>1, RangeIs, Zenon
  <1>4. \A i \in 1..Len(s), j \in 1..Len(t) : t[j] <= s[i] => \E k \in 1..Len(s) : t[j] = s[k]
    <2> SUFFICES ASSUME NEW i \in 1..Len(s), NEW j \in 1..Len(t), t[j] <= s[i], t[j] \notin Range(s)
                 PROVE  FALSE
      BY RangeIs, Zenon
    <2>1. s[i] \in Range(s) /\ t[j] \in Range(t)
      BY RangeIs, Zenon
    <2>2. s[i] < t[j]
      BY <2>1, Zenon
    <2> QED BY <1>2, <2>2
  <1> DEFINE D == {i \in Nat : i \in 1..Len(s) /\ (i \in 1..Len(t) => s[i] # t[i])}
  <1>5. D = {}
    <2> SUFFICES ASSUME D # {} PROVE FALSE
      OBVIOUS
    <2>1. PICK i \in D : \A j \in D : i <= j
      <3>1. D \subseteq Nat
        OBVIOUS
      <3> HIDE DEF D
      <3> QED BY <3>1, Least, Zenon
    <2>2. i \in 1..Len(s) /\ (i \in 1..Len(t) => s[i] # t[i]) /\ s[i] \in Int
      BY <1>2, Zenon
    <2>3. ASSUME NEW j \in 1..Len(s), j < i PROVE j \in 1..Len(t) /\ s[j] = t[j]
      <3>1. j \notin D
        BY <2>1, <2>2, <2>3
      <3> QED BY <2>3, <3>1
    <2>4. PICK j \in 1..Len(t) : s[i] = t[j]
      BY <1>3, <2>2, Zenon
    <2>5. ~(j < i)
      <3> SUFFICES ASSUME j < i PROVE FALSE
        OBVIOUS
      <3>1. j \in 1..Len(s)
        BY <2>2
      <3>2. s[j] = t[j] /\ s[j] < s[i]
        BY <1>1, <2>2, <2>3, <3>1, Zenon
      <3> QED BY <2>2, <2>4, <3>2
    <2>6. i \in 1..Len(t) /\ j # i
      BY <2>2, <2>4, <2>5
    <2>7. t[i] < t[j] /\ t[i] \in Int
      <3>1. i < j
        BY <2>2, <2>5, <2>6
      <3> QED BY <1>1, <1>2, <2>6, <3>1, Zenon
    <2>8. PICK k \in 1..Len(s) : t[i] = s[k]
      <3>1. t[i] <= s[i]
        BY <2>2, <2>4, <2>7
      <3> QED BY <1>4, <2>2, <2>6, <3>1, Zenon
    <2>9. k < i
      <3>1. i < k => s[i] < s[k]
        BY <1>1, <2>2, Zenon
      <3> QED BY <2>2, <2>4, <2>7, <2>8, <3>1
    <2>10. k \in 1..Len(t) /\ s[k] = t[k]
      BY <2>3, <2>9, Zenon
    <2>11. t[k] < t[i]
      BY <1>1, <2>6, <2>9, <2>10, Zenon
    <2> QED BY <2>7, <2>8, <2>10, <2>11
  <1>6. \A i \in 1..Len(s) : i \in 1..Len(t) /\ s[i] = t[i]
    BY <1>5, SMTT(30)
  <1>7. Len(s) <= Len(t)
    <2>1. CASE Len(s) = 0
      BY <1>2, <2>1
    <2>2. CASE Len(s) # 0
      <3>1. Len(s) \in 1..Len(s)
        BY <1>2, <2>2
      <3> QED BY <1>2, <1>6, <3>1
    <2> QED BY <2>1, <2>2, Zenon
  <1>8. Len(s) # Len(t)
    <2> SUFFICES ASSUME Len(s) = Len(t) PROVE FALSE
      OBVIOUS
    <2>1. s = t
      BY <1>6
    <2> QED BY <2>1, Zenon
  <1> QED BY <1>2, <1>6, <1>7, <1>8

------------------------------------------------------------------------------
(* sortLeaves.                                                             *)

InOrder(s) == \A i \in 1..(Len(s) - 1) : s[i] <= s[i + 1]

\* In a sequence in order no later element is smaller.
LEMMA InOrderAll ==
    ASSUME NEW s \in Seq(Int), InOrder(s)
    PROVE  \A i \in 1..Len(s), j \in 1..Len(s) : i <= j => s[i] <= s[j]
  <1> DEFINE P(j) == j \in 1..Len(s) => \A i \in 1..Len(s) : i <= j => s[i] <= s[j]
             S == {j \in Nat : P(j)}
  <1>1. ASSUME NEW n \in Nat, n \in S PROVE n + 1 \in S
    <2> SUFFICES ASSUME n + 1 \in 1..Len(s), NEW i \in 1..Len(s), i <= n + 1
                 PROVE  s[i] <= s[n + 1]
      OBVIOUS
    <2>1. CASE i = n + 1
      BY <2>1
    <2>2. CASE i # n + 1
      <3>1. n \in 1..(Len(s) - 1) /\ n \in 1..Len(s) /\ i <= n
        BY <2>2
      <3>2. s[n] <= s[n + 1]
        BY <3>1, Zenon DEF InOrder
      <3>3. s[i] \in Int /\ s[n] \in Int /\ s[n + 1] \in Int /\ s[i] <= s[n]
        BY <1>1, <3>1
      <3> QED BY <3>2, <3>3
    <2> QED BY <2>1, <2>2, Zenon
  <1>2. 0 \in S /\ S \subseteq Nat
    OBVIOUS
  <1> HIDE DEF S
  <1>3. \A j \in Nat : j \in S
    BY <1>1, <1>2, InductionNext, Zenon
  <1> QED BY <1>3 DEF S

InsertedAt(s, x, k, t) ==
    /\ k \in 0..Len(s)
    /\ \A i \in 1..k : s[i] <= x
    /\ \A i \in (k + 1)..Len(s) : x < s[i]
    /\ t = [i \in 1..(Len(s) + 1) |-> IF i <= k THEN s[i] ELSE IF i = k + 1 THEN x ELSE s[i - 1]]

\* There is a place for every element in a sequence in order.
LEMMA InsertedIs ==
    ASSUME NEW s \in Seq(Int), InOrder(s), NEW x \in Int
    PROVE  \E k : InsertedAt(s, x, k, Inserted(s, x))
  <1> DEFINE At(k) == /\ \A i \in 1..k : s[i] <= x
                      /\ \A i \in (k + 1)..Len(s) : x < s[i]
             D == {i \in Nat : i \in 1..Len(s) /\ x < s[i]}
  <1>1. Len(s) \in Nat /\ \A i \in 1..Len(s) : s[i] \in Int
    OBVIOUS
  <1>2. \E k \in 0..Len(s) : At(k)
    <2>1. CASE D = {}
      <3>1. Len(s) \in 0..Len(s) /\ \A i \in 1..Len(s) : s[i] <= x
        BY <1>1, <2>1
      <3>2. At(Len(s))
        BY <1>1, <3>1
      <3> QED BY <3>1, <3>2, Zenon
    <2>2. CASE D # {}
      <3>1. PICK i \in D : \A j \in D : i <= j
        <4>1. D \subseteq Nat
          OBVIOUS
        <4> HIDE DEF D
        <4> QED BY <2>2, <4>1, Least, Zenon
      <3>2. i \in 1..Len(s) /\ x < s[i] /\ i - 1 \in 0..Len(s)
        BY <1>1
      <3>3. ASSUME NEW j \in 1..(i - 1) PROVE s[j] <= x
        <4>1. j \in 1..Len(s) /\ j \notin D
          BY <1>1, <3>1, <3>2
        <4> QED BY <1>1, <4>1
      <3>4. ASSUME NEW j \in i..Len(s) PROVE x < s[j]
        <4>1. j \in 1..Len(s) /\ i <= j
          BY <3>2
        <4>2. s[i] <= s[j]
          BY <3>2, <4>1, InOrderAll, Zenon
        <4> QED BY <1>1, <3>2, <4>1, <4>2
      <3>5. At(i - 1)
        BY <3>2, <3>3, <3>4
      <3> QED BY <3>2, <3>5, Zenon
    <2> QED BY <2>1, <2>2, Zenon
  <1> DEFINE k == CHOOSE k \in 0..Len(s) : At(k)
  <1>3. k \in 0..Len(s) /\ At(k)
    BY <1>2, Zenon
  <1>4. Inserted(s, x) = [i \in 1..(Len(s) + 1) |-> IF i <= k THEN s[i] ELSE IF i = k + 1 THEN x ELSE s[i - 1]]
    BY Zenon DEF Inserted
  <1> HIDE DEF k
  <1>5. InsertedAt(s, x, k, Inserted(s, x))
    BY <1>3, <1>4, Zenon DEF InsertedAt
  <1> QED BY <1>5, Zenon

\* What insertion does to a sequence in order.
Inserts(s, x, t) ==
    /\ t \in Seq(Int) /\ Len(t) = Len(s) + 1 /\ InOrder(t)
    /\ \A y : (\E i \in 1..Len(t) : y = t[i]) <=> (y = x \/ \E i \in 1..Len(s) : y = s[i])
    /\ (\A i \in 1..Len(s) : s[i] <= x) =>
         t[Len(s) + 1] = x /\ \A i \in 1..Len(s) : t[i] = s[i]

\* It adds the element and keeps the order.
LEMMA InsertedKeeps ==
    ASSUME NEW s \in Seq(Int), InOrder(s), NEW x \in Int
    PROVE  Inserts(s, x, Inserted(s, x))
  <1> DEFINE t == Inserted(s, x)
             n == Len(s)
  <1>1. PICK k : InsertedAt(s, x, k, t)
    BY InsertedIs, Zenon
  <1>2. n \in Nat /\ k \in 0..n /\ \A i \in 1..n : s[i] \in Int
    BY <1>1 DEF InsertedAt
  <1>3. /\ \A i \in 1..k : s[i] <= x
        /\ \A i \in (k + 1)..n : x < s[i]
    BY <1>1, Zenon DEF InsertedAt
  <1>4. t = [i \in 1..(n + 1) |-> IF i <= k THEN s[i] ELSE IF i = k + 1 THEN x ELSE s[i - 1]]
    BY <1>1, Zenon DEF InsertedAt
  <1> HIDE DEF t, n
  <1>5. \A i \in 1..(n + 1) : t[i] = IF i <= k THEN s[i] ELSE IF i = k + 1 THEN x ELSE s[i - 1]
    BY <1>4, Zenon
  <1>6. \A i \in 1..(n + 1) : t[i] \in Int
    <2> SUFFICES ASSUME NEW i \in 1..(n + 1) PROVE t[i] \in Int
      OBVIOUS
    <2>1. i <= k => i \in 1..n
      BY <1>2
    <2>2. i > k + 1 => i - 1 \in 1..n
      BY <1>2
    <2> QED BY <1>2, <1>5, <2>1, <2>2
  <1>7. t \in Seq(Int) /\ Len(t) = n + 1
    <2>1. t \in [1..(n + 1) -> Int]
      BY <1>4, <1>6, Zenon
    <2> QED BY <1>2, <2>1
  <1>8. InOrder(t)
    <2> SUFFICES ASSUME NEW i \in 1..n PROVE t[i] <= t[i + 1]
      BY <1>2, <1>7 DEF InOrder
    <2>1. i \in 1..(n + 1) /\ i + 1 \in 1..(n + 1)
      BY <1>2
    <2>2. CASE i + 1 <= k
      <3>1. t[i] = s[i] /\ t[i + 1] = s[i + 1] /\ i \in 1..(n - 1)
        BY <1>2, <1>5, <2>1, <2>2
      <3> QED BY <3>1, Zenon DEF InOrder, n
    <2>3. CASE i = k
      <3>1. t[i] = s[i] /\ t[i + 1] = x /\ i \in 1..k
        BY <1>2, <1>5, <2>1, <2>3
      <3> QED BY <1>3, <3>1, Zenon
    <2>4. CASE i = k + 1
      <3>1. t[i] = x /\ t[i + 1] = s[i] /\ i \in (k + 1)..n
        BY <1>2, <1>5, <2>1, <2>4
      <3>2. x < s[i] /\ s[i] \in Int
        BY <1>2, <1>3, <3>1, Zenon
      <3> QED BY <3>1, <3>2
    <2>5. CASE i > k + 1
      <3>1. t[i] = s[i - 1] /\ t[i + 1] = s[(i - 1) + 1] /\ i - 1 \in 1..(n - 1)
        BY <1>2, <1>5, <2>1, <2>5
      <3> QED BY <3>1, Zenon DEF InOrder, n
    <2> QED BY <1>2, <2>2, <2>3, <2>4, <2>5
  <1>9. ASSUME NEW y PROVE (\E i \in 1..(n + 1) : y = t[i]) <=> (y = x \/ \E i \in 1..n : y = s[i])
    <2>1. ASSUME NEW i \in 1..(n + 1), y = t[i] PROVE y = x \/ \E j \in 1..n : y = s[j]
      <3>1. i <= k => i \in 1..n
        BY <1>2
      <3>2. i > k + 1 => i - 1 \in 1..n
        BY <1>2
      <3> QED BY <1>2, <1>5, <2>1, <3>1, <3>2
    <2>2. ASSUME y = x PROVE \E i \in 1..(n + 1) : y = t[i]
      <3>1. k + 1 \in 1..(n + 1) /\ t[k + 1] = x
        BY <1>2, <1>5
      <3> QED BY <2>2, <3>1, Zenon
    <2>3. ASSUME NEW j \in 1..n, y = s[j] PROVE \E i \in 1..(n + 1) : y = t[i]
      <3>1. j \in 1..(n + 1) /\ j + 1 \in 1..(n + 1)
        BY <1>2
      <3>2. j <= k => t[j] = s[j]
        BY <1>5, <3>1, Zenon
      <3>3. j > k => t[j + 1] = s[j]
        <4>1. j > k => ~(j + 1 <= k) /\ j + 1 # k + 1 /\ (j + 1) - 1 = j
          BY <1>2
        <4> QED BY <1>5, <3>1, <4>1
      <3>4. j <= k \/ j > k
        BY <1>2
      <3> QED BY <2>3, <3>1, <3>2, <3>3, <3>4, Zenon
    <2> QED BY <2>1, <2>2, <2>3, Zenon
  <1>10. ASSUME \A i \in 1..n : s[i] <= x PROVE t[n + 1] = x /\ \A i \in 1..n : t[i] = s[i]
    <2>1. k = n
      <3> SUFFICES ASSUME k # n PROVE FALSE
        OBVIOUS
      <3>1. k + 1 \in 1..n /\ k + 1 \in (k + 1)..n
        BY <1>2
      <3>2. x < s[k + 1] /\ s[k + 1] <= x /\ s[k + 1] \in Int
        BY <1>2, <1>3, <1>10, <3>1, Zenon
      <3> QED BY <3>2
    <2>2. n + 1 \in 1..(n + 1) /\ \A i \in 1..n : i \in 1..(n + 1) /\ i <= n
      BY <1>2
    <2> QED BY <1>2, <1>5, <2>1, <2>2
  <1>11. Inserts(s, x, t)
    BY <1>7, <1>8, <1>9, <1>10, Zenon DEF Inserts, n
  <1> QED BY <1>11, Zenon DEF t

\* sortLeaves is the last value of the function SortDef describes.
SortIs(f, s) == f = [n \in Nat |-> SortDef(s, n, f)] /\ sortLeaves(s) = f[Len(s)]

\* There is one.
LEMMA SortFunction == \A s : \E f : SortIs(f, s)
  <1> TAKE s
  <1> DEFINE x == [of |-> "Sort", arg |-> s]
             below(g, n) == [i \in 0..(n - 1) |-> g[i]]
             IsF(f) == f = [n \in Nat |-> SortDef(s, n, f)]
  <1>1. PICK g : g = [n \in Nat |-> Step(x, n, below(g, n))]
    BY Recursive, Zenon
  <1>2. ASSUME NEW n \in Nat PROVE Step(x, n, below(g, n)) = SortDef(s, n, g)
    <2>1. Step(x, n, below(g, n)) = SortDef(s, n, below(g, n))
      BY Zenon DEF Step
    <2>2. SortDef(s, n, below(g, n)) = SortDef(s, n, g)
      <3>1. CASE n = 0
        BY <3>1, Zenon DEF SortDef
      <3>2. CASE n # 0
        <4>1. n - 1 \in 0..(n - 1)
          BY <3>2
        <4>2. below(g, n)[n - 1] = g[n - 1]
          BY <4>1, Zenon
        <4> HIDE DEF below
        <4> QED BY <4>2, Zenon DEF SortDef
      <3> QED BY <3>1, <3>2, Zenon
    <2> QED BY <2>1, <2>2, Zenon
  <1>3. IsF(g)
    BY <1>1, <1>2, Zenon
  <1> DEFINE F == CHOOSE f : IsF(f)
  <1>4. IsF(F)
    BY <1>3, Zenon
  <1>5. sortLeaves(s) = F[Len(s)]
    BY Zenon DEF sortLeaves
  <1> HIDE DEF F
  <1>6. SortIs(F, s)
    BY <1>4, <1>5, Zenon DEF SortIs
  <1> QED BY <1>6, Zenon

\* t holds the first n elements of s in order; it is them if they are in order.
SortedTo(s, n, t) ==
    /\ t \in Seq(Int) /\ Len(t) = n /\ InOrder(t)
    /\ \A y : (\E i \in 1..n : y = t[i]) <=> (\E i \in 1..n : y = s[i])
    /\ InOrder(s) => \A i \in 1..n : t[i] = s[i]

\* sortLeaves puts the leaves in order, keeps them all, and changes nothing that
\* is in order.
LEMMA SortSorts ==
    ASSUME NEW s \in Seq(Int)
    PROVE  SortedTo(s, Len(s), sortLeaves(s))
  <1>1. PICK f : SortIs(f, s)
    BY SortFunction, Zenon
  <1> DEFINE N == Len(s)
             P(n) == n <= N => SortedTo(s, n, f[n])
             S == {n \in Nat : P(n)}
  <1>2. \A n \in Nat : f[n] = SortDef(s, n, f)
    <2>1. f = [n \in Nat |-> SortDef(s, n, f)]
      BY <1>1, Zenon DEF SortIs
    <2> QED BY <2>1, Zenon
  <1>3. N \in Nat /\ \A i \in 1..N : s[i] \in Int
    OBVIOUS
  <1>4. P(0)
    <2>1. f[0] = <<>>
      BY <1>2, Zenon DEF SortDef
    <2>2. <<>> \in Seq(Int) /\ Len(<<>>) = 0
      OBVIOUS
    <2>3. SortedTo(s, 0, <<>>)
      BY <2>2 DEF SortedTo, InOrder
    <2> QED BY <2>1, <2>3, Zenon
  <1>5. ASSUME NEW n \in Nat, P(n) PROVE P(n + 1)
    <2> SUFFICES ASSUME n + 1 <= N PROVE SortedTo(s, n + 1, f[n + 1])
      OBVIOUS
    <2> DEFINE u == f[n]
               x == s[n + 1]
               t == Inserted(u, x)
    <2>1. SortedTo(s, n, u)
      BY <1>3, <1>5
    <2>2. f[n + 1] = t
      <3>1. n + 1 \in Nat /\ n + 1 # 0 /\ (n + 1) - 1 = n
        OBVIOUS
      <3>2. SortDef(s, n + 1, f) = Inserted(f[(n + 1) - 1], s[n + 1])
        BY <3>1, Zenon DEF SortDef
      <3> QED BY <1>2, <3>1, <3>2, Zenon
    <2> HIDE DEF u
    <2>3. u \in Seq(Int) /\ Len(u) = n /\ InOrder(u)
      BY <2>1, Zenon DEF SortedTo
    <2>4. n + 1 \in 1..N /\ x \in Int
      BY <1>3
    <2> HIDE DEF x
    <2>5. Inserts(u, x, t)
      BY <2>3, <2>4, InsertedKeeps, Zenon
    <2> HIDE DEF t
    <2>6. t \in Seq(Int) /\ Len(t) = n + 1 /\ InOrder(t)
      BY <2>3, <2>5, Zenon DEF Inserts
    <2>7. ASSUME NEW y PROVE (\E i \in 1..(n + 1) : y = t[i]) <=> (\E i \in 1..(n + 1) : y = s[i])
      <3>1. (\E i \in 1..(n + 1) : y = t[i]) <=> (y = x \/ \E i \in 1..n : y = u[i])
        BY <2>3, <2>5, <2>6 DEF Inserts
      <3>2. (\E i \in 1..n : y = u[i]) <=> (\E i \in 1..n : y = s[i])
        BY <2>1, Zenon DEF SortedTo
      <3>3. (\E i \in 1..(n + 1) : y = s[i]) <=> (y = x \/ \E i \in 1..n : y = s[i])
        <4>1. \A i \in 1..(n + 1) : i = n + 1 \/ i \in 1..n
          OBVIOUS
        <4>2. n + 1 \in 1..(n + 1) /\ \A i \in 1..n : i \in 1..(n + 1)
          OBVIOUS
        <4> QED BY <4>1, <4>2, Zenon DEF x
      <3> QED BY <3>1, <3>2, <3>3, Zenon
    <2>8. ASSUME InOrder(s) PROVE \A i \in 1..(n + 1) : t[i] = s[i]
      <3>1. \A i \in 1..n : u[i] = s[i]
        BY <2>1, <2>8, Zenon DEF SortedTo
      <3>2. \A i \in 1..n : s[i] <= x
        <4>1. \A i \in 1..n : i \in 1..N /\ i <= n + 1
          BY <1>3, <2>4
        <4> QED BY <2>4, <2>8, <4>1, InOrderAll, Zenon DEF x
      <3>3. \A i \in 1..Len(u) : u[i] <= x
        BY <2>3, <3>1, <3>2, Zenon
      <3>4. t[n + 1] = x /\ \A i \in 1..n : t[i] = u[i]
        BY <2>3, <2>5, <3>3, Zenon DEF Inserts
      <3>5. \A i \in 1..(n + 1) : i = n + 1 \/ i \in 1..n
        OBVIOUS
      <3> QED BY <3>1, <3>4, <3>5, Zenon DEF x
    <2>9. SortedTo(s, n + 1, t)
      BY <2>6, <2>7, <2>8, Zenon DEF SortedTo
    <2> QED BY <2>2, <2>9, Zenon
  <1> HIDE DEF P
  <1>6. \A n \in Nat : n \in S
    <2>1. S \subseteq Nat /\ 0 \in S /\ \A n \in Nat : n \in S => n + 1 \in S
      BY <1>4, <1>5
    <2> HIDE DEF S
    <2> QED BY <2>1, InductionNext, Zenon
  <1>7. P(N)
    BY <1>3, <1>6, Zenon
  <1>8. SortedTo(s, N, f[N])
    BY <1>3, <1>7 DEF P
  <1>9. sortLeaves(s) = f[N]
    BY <1>1, Zenon DEF SortIs
  <1> QED BY <1>8, <1>9, Zenon

\* What is in order without duplicates is ascending, and the other way round.
LEMMA OrderedApart ==
    ASSUME NEW s \in Seq(Int)
    PROVE  Ascending(s) <=> InOrder(s) /\ ~HasDuplicate(s)
  <1>1. Len(s) \in Nat /\ \A i \in 1..Len(s) : s[i] \in Int
    OBVIOUS
  <1>2. HasDuplicate(s) <=> \E i \in 1..(Len(s) - 1) : s[i] = s[i + 1]
    <2>1. \A i \in 2..Len(s) : i - 1 \in 1..(Len(s) - 1) /\ (i - 1) + 1 = i
      BY <1>1
    <2>2. \A i \in 1..(Len(s) - 1) : i + 1 \in 2..Len(s) /\ (i + 1) - 1 = i
      BY <1>1
    <2> QED BY <2>1, <2>2, Zenon DEF HasDuplicate
  <1>3. \A i \in 1..(Len(s) - 1) : s[i] \in Int /\ s[i + 1] \in Int
    BY <1>1
  <1> QED BY <1>2, <1>3 DEF Ascending, InOrder

\* An ascending list is left as it is.
LEMMA SortKeeps ==
    ASSUME NEW s \in Seq(Int), Ascending(s)
    PROVE  sortLeaves(s) = s
  <1> DEFINE t == sortLeaves(s)
  <1>1. SortedTo(s, Len(s), t)
    BY SortSorts, Zenon
  <1> HIDE DEF t
  <1>2. InOrder(s)
    BY OrderedApart, Zenon
  <1>3. t \in Seq(Int) /\ Len(t) = Len(s) /\ \A i \in 1..Len(s) : t[i] = s[i]
    BY <1>1, <1>2, Zenon DEF SortedTo
  <1>4. t = s
    BY <1>3, SameElements, Zenon
  <1> QED BY <1>4, Zenon DEF t

------------------------------------------------------------------------------
(* sort.Search.                                                            *)

\* Search is the function SearchDef describes.
SearchIs(f, s, x) ==
    /\ f = [n \in Nat |-> SearchDef([leaves |-> s, x |-> x], n, f)]
    /\ \A lo, hi : Search(s, x, lo, hi) = f[hi - lo][lo]

\* There is one.
LEMMA SearchFunction == \A s, x : \E f : SearchIs(f, s, x)
  <1> TAKE s, x
  <1> DEFINE q == [leaves |-> s, x |-> x]
             y == [of |-> "Search", arg |-> q]
             below(g, n) == [i \in 0..(n - 1) |-> g[i]]
             IsF(f) == f = [n \in Nat |-> SearchDef(q, n, f)]
  <1>1. PICK g : g = [n \in Nat |-> Step(y, n, below(g, n))]
    BY Recursive, Zenon
  <1>2. ASSUME NEW n \in Nat PROVE Step(y, n, below(g, n)) = SearchDef(q, n, g)
    <2>1. Step(y, n, below(g, n)) = SearchDef(q, n, below(g, n))
      BY Zenon DEF Step
    <2>2. SearchDef(q, n, below(g, n)) = SearchDef(q, n, g)
      <3> HIDE DEF q
      <3>1. CASE n = 0
        BY <3>1, Zenon DEF SearchDef
      <3>2. CASE n # 0
        <4>1. n \div 2 \in 0..(n - 1) /\ n - n \div 2 - 1 \in 0..(n - 1)
          BY <3>2
        <4>2. /\ below(g, n)[n \div 2] = g[n \div 2]
              /\ below(g, n)[n - n \div 2 - 1] = g[n - n \div 2 - 1]
          BY <4>1, Zenon
        <4> HIDE DEF below
        <4> QED BY <4>2, Zenon DEF SearchDef
      <3> QED BY <3>1, <3>2, Zenon
    <2> QED BY <2>1, <2>2, Zenon
  <1>3. IsF(g)
    BY <1>1, <1>2, Zenon
  <1> DEFINE F == CHOOSE f : IsF(f)
  <1>4. IsF(F)
    BY <1>3, Zenon
  <1>5. \A lo, hi : Search(s, x, lo, hi) = F[hi - lo][lo]
    BY Zenon DEF Search
  <1> HIDE DEF F
  <1>6. SearchIs(F, s, x)
    BY <1>4, <1>5, Zenon DEF SearchIs
  <1> QED BY <1>6, Zenon

\* r leaves of the range are below x and the next one is not.
Found(s, x, lo, n, r) ==
    /\ r \in Nat /\ lo <= r /\ r <= lo + n
    /\ \A i \in (lo + 1)..r : s[i] < x
    /\ r < lo + n => s[r + 1] >= x

\* One step of the search looks at the element in the middle.
Halves(q, f, n, lo) ==
    f[n][lo] = IF q.leaves[lo + n \div 2 + 1] >= q.x THEN f[n \div 2][lo]
               ELSE f[n - n \div 2 - 1][lo + n \div 2 + 1]

\* It does so as long as there is one.
LEMMA SearchStep ==
    ASSUME NEW q, NEW f, NEW n \in Nat, n # 0, f[n] = SearchDef(q, n, f), NEW lo \in Nat
    PROVE  Halves(q, f, n, lo)
  BY Zenon DEF SearchDef, Halves

\* Halving finds that place when the leaves ascend.
LEMMA SearchFinds ==
    ASSUME NEW s \in Seq(Int), Ascending(s), NEW x \in Int
    PROVE  Found(s, x, 0, Len(s), Search(s, x, 0, Len(s)))
  <1>1. PICK f : SearchIs(f, s, x)
    BY SearchFunction, Zenon
  <1> DEFINE q == [leaves |-> s, x |-> x]
             N == Len(s)
             P(n) == \A lo \in Nat : lo + n <= N => Found(s, x, lo, n, f[n][lo])
             S == {n \in Nat : P(n)}
  <1>2. \A n \in Nat : f[n] = SearchDef(q, n, f)
    <2>1. f = [n \in Nat |-> SearchDef(q, n, f)]
      BY <1>1, Zenon DEF SearchIs
    <2> HIDE DEF q
    <2> QED BY <2>1, Zenon
  <1>3. N \in Nat /\ \A i \in 1..N : s[i] \in Int
    OBVIOUS
  <1>4. \A i \in 1..N, j \in 1..N : i < j => s[i] < s[j]
    BY AscendingAll, Zenon
  <1>5. ASSUME NEW n \in Nat, \A i \in 0..(n - 1) : i \in S PROVE P(n)
    <2> SUFFICES ASSUME NEW lo \in Nat, lo + n <= N PROVE Found(s, x, lo, n, f[n][lo])
      OBVIOUS
    <2>1. CASE n = 0
      <3>1. f[n][lo] = lo
        BY <1>2, <2>1, Zenon DEF SearchDef
      <3>2. Found(s, x, lo, n, lo)
        BY <2>1 DEF Found
      <3> QED BY <3>1, <3>2, Zenon
    <2>2. CASE n # 0
      <3> DEFINE m == n \div 2
                 h == lo + m
      <3>1. m \in Nat /\ m < n /\ n - m - 1 \in Nat /\ n - m - 1 < n
        BY <2>2
      <3>2. f[n][lo] = IF s[h + 1] >= x THEN f[m][lo] ELSE f[n - m - 1][h + 1]
        <4>1. f[n] = SearchDef(q, n, f) /\ q.leaves = s /\ q.x = x
          BY <1>2, Zenon
        <4> HIDE DEF q
        <4>2. Halves(q, f, n, lo)
          BY <2>2, <4>1, SearchStep, Zenon
        <4> QED BY <4>1, <4>2, Zenon DEF Halves
      <3> HIDE DEF m
      <3>3. P(m) /\ P(n - m - 1)
        <4>1. m \in 0..(n - 1) /\ n - m - 1 \in 0..(n - 1)
          BY <3>1
        <4> HIDE DEF P
        <4> QED BY <1>5, <4>1, Zenon
      <3>4. h \in Nat /\ h + 1 \in 1..N /\ h + 1 \in Nat /\ lo + m <= N /\ (h + 1) + (n - m - 1) = lo + n
        BY <1>3, <3>1
      <3>5. CASE s[h + 1] >= x
        <4> DEFINE r == f[m][lo]
        <4>1. Found(s, x, lo, m, r)
          BY <3>3, <3>4, Zenon
        <4> HIDE DEF r
        <4>2. r \in Nat /\ lo <= r /\ r <= lo + m /\ \A i \in (lo + 1)..r : s[i] < x
          BY <4>1, Zenon DEF Found
        <4>3. r < lo + n => s[r + 1] >= x
          <5>1. r < lo + m => s[r + 1] >= x
            BY <4>1, Zenon DEF Found
          <5>2. r = lo + m \/ r < lo + m
            BY <3>1, <4>2
          <5> QED BY <3>5, <5>1, <5>2, Zenon
        <4>4. Found(s, x, lo, n, r)
          BY <3>1, <4>2, <4>3 DEF Found
        <4> QED BY <3>2, <3>5, <4>4, Zenon DEF r
      <3>6. CASE ~(s[h + 1] >= x)
        <4> DEFINE r == f[n - m - 1][h + 1]
        <4>1. Found(s, x, h + 1, n - m - 1, r)
          BY <3>1, <3>3, <3>4, Zenon
        <4> HIDE DEF r, h
        <4>2. /\ r \in Nat /\ h + 1 <= r /\ r <= lo + n
              /\ \A i \in ((h + 1) + 1)..r : s[i] < x
              /\ r < lo + n => s[r + 1] >= x
          BY <3>4, <4>1, Zenon DEF Found
        <4>3. s[h + 1] < x
          BY <1>3, <3>4, <3>6
        <4>4. ASSUME NEW i \in (lo + 1)..r PROVE s[i] < x
          <5>1. i \in 1..N /\ s[i] \in Int /\ s[h + 1] \in Int
            BY <1>3, <3>4, <4>2
          <5>2. i > h + 1 => i \in ((h + 1) + 1)..r
            BY <3>4, <4>2
          <5>3. i < h + 1 => s[i] < s[h + 1]
            BY <1>4, <3>4, <5>1, Zenon
          <5> QED BY <3>4, <4>2, <4>3, <5>1, <5>2, <5>3
        <4>5. lo <= r
          BY <3>1, <3>4, <4>2 DEF h
        <4>6. Found(s, x, lo, n, r)
          BY <4>2, <4>4, <4>5, Zenon DEF Found
        <4> QED BY <3>2, <3>6, <4>6, Zenon DEF r, h
      <3> QED BY <3>5, <3>6, Zenon
    <2> QED BY <2>1, <2>2, Zenon
  <1> HIDE DEF P
  <1>6. \A n \in Nat : n \in S
    <2>1. S \subseteq Nat /\ \A n \in Nat : (\A i \in 0..(n - 1) : i \in S) => n \in S
      BY <1>5, Zenon
    <2> HIDE DEF S
    <2> QED BY <2>1, Induction, Zenon
  <1>7. P(N)
    BY <1>3, <1>6, Zenon
  <1>8. Found(s, x, 0, N, f[N][0])
    BY <1>3, <1>7 DEF P
  <1>9. Search(s, x, 0, N) = f[N][0]
    <2>1. Search(s, x, 0, N) = f[N - 0][0]
      BY <1>1, Zenon DEF SearchIs
    <2> QED BY <1>3, <2>1
  <1> QED BY <1>8, <1>9, Zenon

\* So an object is found in ascending leaves exactly when it is one of them.
LEMMA IndexFinds ==
    ASSUME NEW c, c.leaves \in Seq(Int), Ascending(c.leaves), NEW x \in Int
    PROVE  InclusionError(c, x) = "ok" <=> x \in Range(c.leaves)
  <1> DEFINE s == c.leaves
             r == IndexOf(c, x)
  <1>1. Found(s, x, 0, Len(s), r)
    BY SearchFinds, Zenon DEF IndexOf
  <1>2. x \in Range(s) <=> \E i \in 1..Len(s) : x = s[i]
    BY RangeIs, Zenon
  <1>3. InclusionError(c, x) = "ok" <=> ~(r >= Len(s)) /\ s[r + 1] = x
    BY Zenon DEF InclusionError
  <1> HIDE DEF s, r
  <1>4. s \in Seq(Int) /\ Ascending(s)
    BY Zenon DEF s
  <1>5. /\ Len(s) \in Nat /\ \A i \in 1..Len(s) : s[i] \in Int
        /\ \A i \in 1..Len(s), j \in 1..Len(s) : i < j => s[i] < s[j]
    BY <1>4, AscendingAll
  <1>6. r \in Nat /\ r <= Len(s) /\ (\A i \in 1..r : s[i] < x) /\ (r < Len(s) => s[r + 1] >= x)
    BY <1>1, <1>5 DEF Found
  <1>7. ASSUME NEW i \in 1..Len(s), x = s[i] PROVE ~(r >= Len(s)) /\ s[r + 1] = x
    <2>1. ~(i <= r)
      BY <1>5, <1>6, <1>7
    <2>2. r + 1 \in 1..Len(s) /\ r + 1 <= i /\ s[r + 1] \in Int
      BY <1>5, <1>6, <2>1
    <2>3. r + 1 < i => s[r + 1] < s[i]
      BY <1>5, <2>2, Zenon
    <2> QED BY <1>5, <1>6, <1>7, <2>2, <2>3
  <1>8. ASSUME ~(r >= Len(s)), s[r + 1] = x PROVE \E i \in 1..Len(s) : x = s[i]
    <2>1. r + 1 \in 1..Len(s)
      BY <1>5, <1>6, <1>8
    <2> QED BY <1>8, <2>1, Zenon
  <1> QED BY <1>2, <1>3, <1>7, <1>8, Zenon DEF s

\* Whatever the order of the leaves, the place is in the range.
Ranged(lo, n, r) == r \in Nat /\ lo <= r /\ r <= lo + n

\* Search never leaves the range it is given.
LEMMA SearchRanges ==
    ASSUME NEW s \in Seq(Int), NEW x \in Int
    PROVE  Ranged(0, Len(s), Search(s, x, 0, Len(s)))
  <1>1. PICK f : SearchIs(f, s, x)
    BY SearchFunction, Zenon
  <1> DEFINE q == [leaves |-> s, x |-> x]
             N == Len(s)
             P(n) == \A lo \in Nat : Ranged(lo, n, f[n][lo])
             S == {n \in Nat : P(n)}
  <1>2. \A n \in Nat : f[n] = SearchDef(q, n, f)
    <2>1. f = [n \in Nat |-> SearchDef(q, n, f)]
      BY <1>1, Zenon DEF SearchIs
    <2> HIDE DEF q
    <2> QED BY <2>1, Zenon
  <1>3. ASSUME NEW n \in Nat, \A i \in 0..(n - 1) : i \in S PROVE P(n)
    <2> SUFFICES ASSUME NEW lo \in Nat PROVE Ranged(lo, n, f[n][lo])
      OBVIOUS
    <2>1. CASE n = 0
      <3>1. f[n][lo] = lo
        BY <1>2, <2>1, Zenon DEF SearchDef
      <3> QED BY <2>1, <3>1 DEF Ranged
    <2>2. CASE n # 0
      <3> DEFINE m == n \div 2
                 h == lo + m
      <3>1. m \in Nat /\ m < n /\ n - m - 1 \in Nat /\ n - m - 1 < n /\ h + 1 \in Nat
        BY <2>2
      <3>2. f[n][lo] = IF s[h + 1] >= x THEN f[m][lo] ELSE f[n - m - 1][h + 1]
        <4>1. f[n] = SearchDef(q, n, f) /\ q.leaves = s /\ q.x = x
          BY <1>2, Zenon
        <4> HIDE DEF q
        <4>2. Halves(q, f, n, lo)
          BY <2>2, <4>1, SearchStep, Zenon
        <4> QED BY <4>1, <4>2, Zenon DEF Halves
      <3> HIDE DEF m
      <3>3. P(m) /\ P(n - m - 1)
        <4>1. m \in 0..(n - 1) /\ n - m - 1 \in 0..(n - 1)
          BY <3>1
        <4> HIDE DEF P
        <4> QED BY <1>3, <4>1, Zenon
      <3>4. Ranged(lo, m, f[m][lo]) /\ Ranged(h + 1, n - m - 1, f[n - m - 1][h + 1])
        BY <3>1, <3>3, Zenon
      <3>5. \A r : Ranged(lo, m, r) \/ Ranged(h + 1, n - m - 1, r) => Ranged(lo, n, r)
        BY <3>1 DEF Ranged
      <3> QED BY <3>2, <3>4, <3>5, Zenon
    <2> QED BY <2>1, <2>2, Zenon
  <1> HIDE DEF P
  <1>4. \A n \in Nat : n \in S
    <2>1. S \subseteq Nat /\ \A n \in Nat : (\A i \in 0..(n - 1) : i \in S) => n \in S
      BY <1>3, Zenon
    <2> HIDE DEF S
    <2> QED BY <2>1, Induction, Zenon
  <1>5. N \in Nat
    OBVIOUS
  <1>6. Ranged(0, N, f[N][0])
    BY <1>4, <1>5, Zenon DEF P
  <1>7. Search(s, x, 0, N) = f[N][0]
    <2>1. Search(s, x, 0, N) = f[N - 0][0]
      BY <1>1, Zenon DEF SearchIs
    <2> QED BY <1>5, <2>1
  <1> QED BY <1>6, <1>7, Zenon

\* A place that was found is one of a leaf, and the leaf is the object.
LEMMA IndexIn ==
    ASSUME NEW c, c.leaves \in Seq(Int), NEW x \in Int, InclusionError(c, x) = "ok"
    PROVE  IndexOf(c, x) \in Nat /\ IndexOf(c, x) < Len(c.leaves) /\ c.leaves[IndexOf(c, x) + 1] = x
  <1> DEFINE s == c.leaves
             r == IndexOf(c, x)
  <1>1. Ranged(0, Len(s), r)
    BY SearchRanges, Zenon DEF IndexOf
  <1>2. ~(r >= Len(s)) /\ s[r + 1] = x
    BY Zenon DEF InclusionError
  <1> HIDE DEF r
  <1>3. Len(s) \in Nat
    OBVIOUS
  <1>4. r \in Nat /\ r < Len(s) /\ s[r + 1] = x
    BY <1>1, <1>2, <1>3 DEF Ranged
  <1> QED BY <1>4, Zenon DEF r

------------------------------------------------------------------------------
(* The recursive definitions of the tree have the values they say.         *)

\* The powers of two are the function TwoToDef describes.
LEMMA TwoToUnfold == \A n \in Nat : TwoTo(n) = TwoToDef(n, [i \in Nat |-> TwoTo(i)])
  <1> DEFINE x == [of |-> "TwoTo", arg |-> 0]
             below(g, n) == [i \in 0..(n - 1) |-> g[i]]
             IsF(f) == f = [n \in Nat |-> TwoToDef(n, f)]
  <1>1. PICK g : g = [n \in Nat |-> Step(x, n, below(g, n))]
    BY Recursive, Zenon
  <1>2. ASSUME NEW n \in Nat PROVE Step(x, n, below(g, n)) = TwoToDef(n, g)
    <2>1. Step(x, n, below(g, n)) = TwoToDef(n, below(g, n))
      BY Zenon DEF Step
    <2>2. TwoToDef(n, below(g, n)) = TwoToDef(n, g)
      <3>1. n # 0 => n - 1 \in 0..(n - 1) /\ n - 1 \in Nat
        OBVIOUS
      <3> QED BY <3>1, Zenon DEF TwoToDef
    <2> QED BY <2>1, <2>2, Zenon
  <1>3. IsF(g)
    BY <1>1, <1>2, Zenon
  <1> DEFINE F == CHOOSE f : IsF(f)
  <1>4. IsF(F)
    BY <1>3, Zenon
  <1>5. \A n : TwoTo(n) = F[n]
    BY Zenon DEF TwoTo
  <1> HIDE DEF F
  <1>6. F = [n \in Nat |-> TwoTo(n)]
    BY <1>4, <1>5, Zenon
  <1> QED BY <1>4, <1>5, <1>6, Zenon

\* The levels of a tree are the function LevelDef describes.
LEMMA LevelUnfold == \A d : \A n \in Nat :
    Level(d, n) = LevelDef(d, n, [i \in Nat |-> Level(d, i)])
  <1> TAKE d
  <1> DEFINE x == [of |-> "Level", arg |-> d]
             below(g, n) == [i \in 0..(n - 1) |-> g[i]]
             IsF(f) == f = [n \in Nat |-> LevelDef(d, n, f)]
  <1>1. PICK g : g = [n \in Nat |-> Step(x, n, below(g, n))]
    BY Recursive, Zenon
  <1>2. ASSUME NEW n \in Nat PROVE Step(x, n, below(g, n)) = LevelDef(d, n, g)
    <2>1. Step(x, n, below(g, n)) = LevelDef(d, n, below(g, n))
      BY Zenon DEF Step
    <2>2. LevelDef(d, n, below(g, n)) = LevelDef(d, n, g)
      <3>1. n # 0 => n - 1 \in 0..(n - 1) /\ n - 1 \in Nat
        OBVIOUS
      <3> QED BY <3>1, Zenon DEF LevelDef
    <2> QED BY <2>1, <2>2, Zenon
  <1>3. IsF(g)
    BY <1>1, <1>2, Zenon
  <1> DEFINE F == CHOOSE f : IsF(f)
  <1>4. IsF(F)
    BY <1>3, Zenon
  <1>5. \A n : Level(d, n) = F[n]
    BY Zenon DEF Level
  <1> HIDE DEF F
  <1>6. F = [n \in Nat |-> Level(d, n)]
    BY <1>4, <1>5, Zenon
  <1> QED BY <1>4, <1>5, <1>6, Zenon

\* So is the loop of Tree.Proof,
LEMMA PathUnfold == \A levels, index : \A n \in Nat :
    Path(levels, index, n) = PathDef([levels |-> levels, index |-> index], n, [i \in Nat |-> Path(levels, index, i)])
  <1> TAKE levels, index
  <1> DEFINE x == [of |-> "Path", arg |-> [levels |-> levels, index |-> index]]
             below(g, n) == [i \in 0..(n - 1) |-> g[i]]
             IsF(f) == f = [n \in Nat |-> PathDef([levels |-> levels, index |-> index], n, f)]
  <1>1. PICK g : g = [n \in Nat |-> Step(x, n, below(g, n))]
    BY Recursive, Zenon
  <1>2. ASSUME NEW n \in Nat PROVE Step(x, n, below(g, n)) = PathDef([levels |-> levels, index |-> index], n, g)
    <2>1. Step(x, n, below(g, n)) = PathDef([levels |-> levels, index |-> index], n, below(g, n))
      BY Zenon DEF Step
    <2>2. PathDef([levels |-> levels, index |-> index], n, below(g, n)) = PathDef([levels |-> levels, index |-> index], n, g)
      <3>1. n # 0 => n - 1 \in 0..(n - 1) /\ n - 1 \in Nat
        OBVIOUS
      <3> QED BY <3>1, Zenon DEF PathDef
    <2> QED BY <2>1, <2>2, Zenon
  <1>3. IsF(g)
    BY <1>1, <1>2, Zenon
  <1> DEFINE F == CHOOSE f : IsF(f)
  <1>4. IsF(F)
    BY <1>3, Zenon
  <1>5. \A n : Path(levels, index, n) = F[n]
    BY Zenon DEF Path
  <1> HIDE DEF F
  <1>6. F = [n \in Nat |-> Path(levels, index, n)]
    BY <1>4, <1>5, Zenon
  <1> QED BY <1>4, <1>5, <1>6, Zenon

\* the loop of Verify,
LEMMA FoldedUnfold == \A leaf, steps : \A n \in Nat :
    Folded(leaf, steps, n) = FoldDef([leaf |-> leaf, steps |-> steps], n, [i \in Nat |-> Folded(leaf, steps, i)])
  <1> TAKE leaf, steps
  <1> DEFINE x == [of |-> "Folded", arg |-> [leaf |-> leaf, steps |-> steps]]
             below(g, n) == [i \in 0..(n - 1) |-> g[i]]
             IsF(f) == f = [n \in Nat |-> FoldDef([leaf |-> leaf, steps |-> steps], n, f)]
  <1>1. PICK g : g = [n \in Nat |-> Step(x, n, below(g, n))]
    BY Recursive, Zenon
  <1>2. ASSUME NEW n \in Nat PROVE Step(x, n, below(g, n)) = FoldDef([leaf |-> leaf, steps |-> steps], n, g)
    <2>1. Step(x, n, below(g, n)) = FoldDef([leaf |-> leaf, steps |-> steps], n, below(g, n))
      BY Zenon DEF Step
    <2>2. FoldDef([leaf |-> leaf, steps |-> steps], n, below(g, n)) = FoldDef([leaf |-> leaf, steps |-> steps], n, g)
      <3>1. n # 0 => n - 1 \in 0..(n - 1) /\ n - 1 \in Nat
        OBVIOUS
      <3> QED BY <3>1, Zenon DEF FoldDef
    <2> QED BY <2>1, <2>2, Zenon
  <1>3. IsF(g)
    BY <1>1, <1>2, Zenon
  <1> DEFINE F == CHOOSE f : IsF(f)
  <1>4. IsF(F)
    BY <1>3, Zenon
  <1>5. \A n : Folded(leaf, steps, n) = F[n]
    BY Zenon DEF Folded
  <1> HIDE DEF F
  <1>6. F = [n \in Nat |-> Folded(leaf, steps, n)]
    BY <1>4, <1>5, Zenon
  <1> QED BY <1>4, <1>5, <1>6, Zenon

\* and the loop of proofSideSequence.
LEMMA SideUnfold == \A index, size : \A n \in Nat :
    Side(index, size, n) = SideDef([index |-> index, size |-> size], n, [i \in Nat |-> Side(index, size, i)])
  <1> TAKE index, size
  <1> DEFINE x == [of |-> "Side", arg |-> [index |-> index, size |-> size]]
             below(g, n) == [i \in 0..(n - 1) |-> g[i]]
             IsF(f) == f = [n \in Nat |-> SideDef([index |-> index, size |-> size], n, f)]
  <1>1. PICK g : g = [n \in Nat |-> Step(x, n, below(g, n))]
    BY Recursive, Zenon
  <1>2. ASSUME NEW n \in Nat PROVE Step(x, n, below(g, n)) = SideDef([index |-> index, size |-> size], n, g)
    <2>1. Step(x, n, below(g, n)) = SideDef([index |-> index, size |-> size], n, below(g, n))
      BY Zenon DEF Step
    <2>2. SideDef([index |-> index, size |-> size], n, below(g, n)) = SideDef([index |-> index, size |-> size], n, g)
      <3>1. n # 0 => n - 1 \in 0..(n - 1) /\ n - 1 \in Nat
        OBVIOUS
      <3> QED BY <3>1, Zenon DEF SideDef
    <2> QED BY <2>1, <2>2, Zenon
  <1>3. IsF(g)
    BY <1>1, <1>2, Zenon
  <1> DEFINE F == CHOOSE f : IsF(f)
  <1>4. IsF(F)
    BY <1>3, Zenon
  <1>5. \A n : Side(index, size, n) = F[n]
    BY Zenon DEF Side
  <1> HIDE DEF F
  <1>6. F = [n \in Nat |-> Side(index, size, n)]
    BY <1>4, <1>5, Zenon
  <1> QED BY <1>4, <1>5, <1>6, Zenon

------------------------------------------------------------------------------
(* Numbers.                                                                *)

\* The powers of two.
LEMMA TwoToZero == TwoTo(0) = 1
  BY TwoToUnfold, Zenon DEF TwoToDef

\* Each power doubles the one before.
LEMMA TwoToSucc == \A n \in Nat : TwoTo(n + 1) = 2 * TwoTo(n)
  <1> TAKE n \in Nat
  <1>1. n + 1 \in Nat /\ n + 1 # 0 /\ (n + 1) - 1 = n
    OBVIOUS
  <1> QED BY <1>1, TwoToUnfold, Zenon DEF TwoToDef

\* They are natural numbers and grow beyond every bound.
LEMMA TwoToType == \A n \in Nat : TwoTo(n) \in Nat /\ n < TwoTo(n)
  <1> DEFINE S == {n \in Nat : TwoTo(n) \in Nat /\ n < TwoTo(n)}
  <1>1. 0 \in S
    BY TwoToZero
  <1>2. ASSUME NEW n \in Nat, n \in S PROVE n + 1 \in S
    BY <1>2, TwoToSucc
  <1> HIDE DEF S
  <1>3. \A n \in Nat : n \in S
    <2>1. S \subseteq Nat
      BY Zenon DEF S
    <2> QED BY <1>1, <1>2, <2>1, InductionNext, Zenon
  <1> QED BY <1>3, Zenon DEF S

\* In short.
LEMMA TwoToPositive ==
    \A n \in Nat : TwoTo(n) \in Nat /\ 1 <= TwoTo(n) /\ TwoTo(n + 1) = 2 * TwoTo(n)
  BY TwoToType, TwoToSucc

\* A larger exponent at least doubles the power.
LEMMA TwoToMonotone == \A m \in Nat : \A n \in Nat : m < n => 2 * TwoTo(m) <= TwoTo(n)
  <1> TAKE m \in Nat
  <1> DEFINE S == {n \in Nat : m < n => 2 * TwoTo(m) <= TwoTo(n)}
  <1>1. 0 \in S
    OBVIOUS
  <1>2. ASSUME NEW n \in Nat, n \in S PROVE n + 1 \in S
    <2>1. TwoTo(n + 1) = 2 * TwoTo(n) /\ TwoTo(n) \in Nat /\ TwoTo(m) \in Nat
      BY TwoToSucc, TwoToType, Zenon
    <2> QED BY <1>2, <2>1
  <1> HIDE DEF S
  <1>3. \A n \in Nat : n \in S
    <2>1. S \subseteq Nat
      BY Zenon DEF S
    <2> QED BY <1>1, <1>2, <2>1, InductionNext, Zenon
  <1> QED BY <1>3, Zenon DEF S

------------------------------------------------------------------------------
(* The split of a range.                                                   *)

\* k is the power of two at which RFC 6962 splits n leaves.
IsSplit(k, n) == (\E e \in Nat : k = TwoTo(e)) /\ k < n /\ n <= 2 * k

\* Every range of two leaves or more has one split.
LEMMA SplitUnique ==
    ASSUME NEW n \in Nat, NEW k, NEW l, IsSplit(k, n), IsSplit(l, n)
    PROVE  k = l
  <1>1. PICK d \in Nat : k = TwoTo(d)
    BY Zenon DEF IsSplit
  <1>2. PICK e \in Nat : l = TwoTo(e)
    BY Zenon DEF IsSplit
  <1>3. k \in Nat /\ l \in Nat /\ k < n /\ n <= 2 * k /\ l < n /\ n <= 2 * l
    BY <1>1, <1>2, TwoToType, Zenon DEF IsSplit
  <1>4. CASE d < e
    <2>1. 2 * k <= l
      BY <1>1, <1>2, <1>4, TwoToMonotone, Zenon
    <2> QED BY <1>3, <2>1
  <1>5. CASE e < d
    <2>1. 2 * l <= k
      BY <1>1, <1>2, <1>5, TwoToMonotone, Zenon
    <2> QED BY <1>3, <2>1
  <1> QED BY <1>1, <1>2, <1>4, <1>5

\* Split finds it.
LEMMA SplitIs ==
    ASSUME NEW n \in Nat, n >= 2
    PROVE  IsSplit(Split(n), n) /\ Split(n) \in Nat /\ 1 <= Split(n)
  <1> DEFINE S == {e \in Nat : n <= TwoTo(e + 1)}
  <1>1. n \in S
    <2>1. n + 1 \in Nat /\ n + 1 < TwoTo(n + 1) /\ TwoTo(n + 1) \in Nat
      BY TwoToType
    <2> QED BY <2>1
  <1>2. PICK e \in S : \A j \in S : e <= j
    <2>1. S \subseteq Nat /\ S # {}
      BY <1>1, Zenon
    <2> QED BY <2>1, Least, Zenon
  <1>3. TwoTo(e) \in Nat /\ 1 <= TwoTo(e) /\ n <= 2 * TwoTo(e) /\ e \in 0..n
    BY <1>1, <1>2, TwoToType, TwoToSucc
  <1>4. TwoTo(e) < n
    <2>1. CASE e = 0
      BY <2>1, TwoToZero
    <2>2. CASE e # 0
      <3>1. e - 1 \in Nat /\ (e - 1) + 1 = e /\ e - 1 \notin S
        BY <1>2, <2>2
      <3> QED BY <1>3, <3>1
    <2> QED BY <2>1, <2>2, Zenon
  <1>5. \E k \in {TwoTo(f) : f \in 0..n} : k < n /\ n <= 2 * k
    BY <1>3, <1>4, Zenon
  <1>6. /\ Split(n) \in {TwoTo(f) : f \in 0..n}
        /\ Split(n) < n /\ n <= 2 * Split(n)
    BY <1>5, Zenon DEF Split
  <1>7. PICK f \in 0..n : Split(n) = TwoTo(f)
    BY <1>6, Zenon
  <1>8. f \in Nat /\ TwoTo(f) \in Nat /\ 1 <= TwoTo(f)
    BY TwoToType
  <1> QED BY <1>6, <1>7, <1>8, Zenon DEF IsSplit

------------------------------------------------------------------------------
(* The reference hash of a range.                                          *)

\* The hash of a range is the function MTHDef describes.
LEMMA RangeHashFunction == \A d : \E f :
    /\ f = [n \in Nat |-> MTHDef(d, n, f)]
    /\ \A lo, n : RangeHash(d, lo, n) = f[n][lo]
  <1> TAKE d
  <1> DEFINE x == [of |-> "MTH", arg |-> d]
             below(g, n) == [i \in 0..(n - 1) |-> g[i]]
             IsF(f) == f = [n \in Nat |-> MTHDef(d, n, f)]
  <1>1. PICK g : g = [n \in Nat |-> Step(x, n, below(g, n))]
    BY Recursive, Zenon
  <1>2. ASSUME NEW n \in Nat PROVE Step(x, n, below(g, n)) = MTHDef(d, n, g)
    <2>1. Step(x, n, below(g, n)) = MTHDef(d, n, below(g, n))
      BY Zenon DEF Step
    <2>2. MTHDef(d, n, below(g, n)) = MTHDef(d, n, g)
      <3>1. CASE n <= 1
        BY <3>1, Zenon DEF MTHDef
      <3>2. CASE n > 1
        <4>1. Split(n) \in 0..(n - 1) /\ n - Split(n) \in 0..(n - 1)
          BY <3>2, SplitIs DEF IsSplit
        <4> QED BY <3>2, <4>1, Zenon DEF MTHDef
      <3> QED BY <3>1, <3>2
    <2> QED BY <2>1, <2>2, Zenon
  <1>3. IsF(g)
    BY <1>1, <1>2, Zenon
  <1> DEFINE F == CHOOSE f : IsF(f)
  <1>4. IsF(F)
    BY <1>3
  <1>5. \A lo, n : RangeHash(d, lo, n) = F[n][lo]
    BY Zenon DEF RangeHash
  <1> HIDE DEF F
  <1> QED BY <1>4, <1>5, Zenon

\* One leaf is hashed as a leaf.
LEMMA RangeHashLeaf ==
    ASSUME NEW d, NEW lo \in Nat
    PROVE  RangeHash(d, lo, 1) = leafHash(d[lo + 1])
  <1>1. PICK f : /\ f = [n \in Nat |-> MTHDef(d, n, f)]
                 /\ \A l, n : RangeHash(d, l, n) = f[n][l]
    BY RangeHashFunction
  <1>2. f[1] = MTHDef(d, 1, f)
    BY <1>1, Zenon
  <1>3. MTHDef(d, 1, f)[lo] = leafHash(d[lo + 1])
    BY DEF MTHDef
  <1>4. RangeHash(d, lo, 1) = f[1][lo]
    BY <1>1, Zenon
  <1> QED BY <1>2, <1>3, <1>4, Zenon

\* More leaves are split and hashed as a node.
LEMMA RangeHashNode ==
    ASSUME NEW d, NEW lo \in Nat, NEW n \in Nat, n >= 2
    PROVE  RangeHash(d, lo, n) = nodeHash(RangeHash(d, lo, Split(n)),
                                          RangeHash(d, lo + Split(n), n - Split(n)))
  <1>1. PICK f : /\ f = [i \in Nat |-> MTHDef(d, i, f)]
                 /\ \A l, i : RangeHash(d, l, i) = f[i][l]
    BY RangeHashFunction
  <1>2. f[n] = MTHDef(d, n, f)
    BY <1>1, Zenon
  <1>3. MTHDef(d, n, f)[lo] = nodeHash(f[Split(n)][lo], f[n - Split(n)][lo + Split(n)])
    BY DEF MTHDef
  <1>4. \A l, i : RangeHash(d, l, i) = f[i][l]
    BY <1>1, Zenon
  <1> QED BY <1>2, <1>3, <1>4, Zenon

\* The n leaves of d from lo on are the m leaves of e from l on.
SameLeaves(d, lo, n, e, l, m) == n = m /\ \A i \in 1..n : d[lo + i] = e[l + i]

\* Two ranges have one hash only if they hold the same leaves: the split of a
\* range can be read off its hash.
LEMMA RangeHashInjective ==
    \A n \in Nat : \A d, e : \A lo \in Nat, l \in Nat, m \in Nat :
        n >= 1 /\ m >= 1 /\ RangeHash(d, lo, n) = RangeHash(e, l, m) =>
            SameLeaves(d, lo, n, e, l, m)
  <1> DEFINE Same(n, d, e, lo, l, m) ==
                n >= 1 /\ m >= 1 /\ RangeHash(d, lo, n) = RangeHash(e, l, m) =>
                    SameLeaves(d, lo, n, e, l, m)
             P(n) == \A d, e : \A lo \in Nat, l \in Nat, m \in Nat : Same(n, d, e, lo, l, m)
             S == {n \in Nat : P(n)}
  <1>1. ASSUME NEW n \in Nat, \A i \in 0..(n - 1) : i \in S PROVE P(n)
    <2> HIDE DEF Same
    <2> SUFFICES ASSUME NEW d, NEW e, NEW lo \in Nat, NEW l \in Nat, NEW m \in Nat
                 PROVE  Same(n, d, e, lo, l, m)
      OBVIOUS
    <2> SUFFICES ASSUME n >= 1, m >= 1, RangeHash(d, lo, n) = RangeHash(e, l, m)
                 PROVE  n = m /\ \A i \in 1..n : d[lo + i] = e[l + i]
      BY Zenon DEF Same, SameLeaves
    <2>1. n = 1 => RangeHash(d, lo, n) = leafHash(d[lo + 1])
      BY RangeHashLeaf, Zenon
    <2>2. m = 1 => RangeHash(e, l, m) = leafHash(e[l + 1])
      BY RangeHashLeaf, Zenon
    <2>3. n # 1 => RangeHash(d, lo, n) = nodeHash(RangeHash(d, lo, Split(n)),
                                             RangeHash(d, lo + Split(n), n - Split(n)))
      BY RangeHashNode
    <2>4. m # 1 => RangeHash(e, l, m) = nodeHash(RangeHash(e, l, Split(m)),
                                             RangeHash(e, l + Split(m), m - Split(m)))
      BY RangeHashNode
    <2>5. CASE n = 1 /\ m = 1
      BY <2>1, <2>2, <2>5 DEF leafHash
    <2>6. CASE n = 1 /\ m # 1
      BY <2>1, <2>4, <2>6 DEF leafHash, nodeHash
    <2>7. CASE n # 1 /\ m = 1
      BY <2>2, <2>3, <2>7 DEF leafHash, nodeHash
    <2>8. CASE n # 1 /\ m # 1
      <3> DEFINE k == Split(n)
                 j == Split(m)
      <3>1. k \in Nat /\ 1 <= k /\ k < n /\ j \in Nat /\ 1 <= j /\ j < m
        BY <2>8, SplitIs DEF IsSplit
      <3>2. /\ RangeHash(d, lo, k) = RangeHash(e, l, j)
            /\ RangeHash(d, lo + k, n - k) = RangeHash(e, l + j, m - j)
        BY <2>3, <2>4, <2>8 DEF nodeHash
      <3> HIDE DEF k, j
      <3>3. P(k) /\ P(n - k)
        <4>1. k \in 0..(n - 1) /\ n - k \in 0..(n - 1)
          BY <3>1
        <4> HIDE DEF P
        <4> QED BY <1>1, <4>1, Zenon
      <3>4. k = j /\ \A i \in 1..k : d[lo + i] = e[l + i]
        <4>1. Same(k, d, e, lo, l, j)
          BY <3>1, <3>3, Zenon
        <4> QED BY <3>1, <3>2, <4>1, Zenon DEF Same, SameLeaves
      <3>5. n - k = m - j /\ \A i \in 1..(n - k) : d[(lo + k) + i] = e[(l + j) + i]
        <4>1. lo + k \in Nat /\ l + j \in Nat /\ m - j \in Nat /\ n - k >= 1 /\ m - j >= 1
          BY <3>1
        <4>2. Same(n - k, d, e, lo + k, l + j, m - j)
          BY <3>3, <4>1, Zenon
        <4> QED BY <3>2, <4>1, <4>2, Zenon DEF Same, SameLeaves
      <3>6. n = m
        BY <3>1, <3>4, <3>5
      <3>7. ASSUME NEW i \in 1..n PROVE d[lo + i] = e[l + i]
        <4>1. CASE i <= k
          BY <3>1, <3>4, <4>1
        <4>2. CASE ~(i <= k)
          <5>1. i - k \in 1..(n - k) /\ (lo + k) + (i - k) = lo + i /\ (l + j) + (i - k) = l + i
            BY <3>1, <3>4, <4>2
          <5> QED BY <3>5, <5>1, Zenon
        <4> QED BY <4>1, <4>2, Zenon
      <3> QED BY <3>6, <3>7, Zenon
    <2> QED BY <2>5, <2>6, <2>7, <2>8, Zenon
  <1> HIDE DEF P
  <1>2. \A n \in Nat : n \in S
    BY <1>1, Induction, Zenon
  <1> QED BY <1>2, Zenon DEF P

\* Ranges with one hash have the same leaves.
LEMMA SameHash ==
    ASSUME NEW d, NEW e, NEW lo \in Nat, NEW l \in Nat, NEW n \in Nat, NEW m \in Nat,
           n >= 1, m >= 1, RangeHash(d, lo, n) = RangeHash(e, l, m)
    PROVE  SameLeaves(d, lo, n, e, l, m)
  BY RangeHashInjective, Zenon

------------------------------------------------------------------------------
(* The levels of a tree.                                                   *)

\* The lowest level holds the leaf hashes, each higher one pairs the one below.
LEMMA LevelEquations ==
    ASSUME NEW T, NEW d \in Seq(T)
    PROVE  /\ Level(d, 0) = [i \in 1..Len(d) |-> leafHash(d[i])]
           /\ \A j \in Nat : Level(d, j + 1) = Paired(Level(d, j))
  <1>1. Level(d, 0) = LevelDef(d, 0, [i \in Nat |-> Level(d, i)])
    BY LevelUnfold, Zenon
  <1>2. DOMAIN d = 1..Len(d)
    OBVIOUS
  <1>3. Level(d, 0) = [i \in 1..Len(d) |-> leafHash(d[i])]
    BY <1>1, <1>2, Zenon DEF LevelDef
  <1>4. ASSUME NEW j \in Nat PROVE Level(d, j + 1) = Paired(Level(d, j))
    <2>1. j + 1 \in Nat /\ j + 1 # 0 /\ (j + 1) - 1 = j
      OBVIOUS
    <2>2. Level(d, j + 1) = LevelDef(d, j + 1, [i \in Nat |-> Level(d, i)])
      BY <2>1, LevelUnfold, Zenon
    <2> QED BY <2>1, <2>2, Zenon DEF LevelDef
  <1> QED BY <1>3, <1>4, Zenon

\* Pairing halves the number of nodes, rounding up.
LEMMA LevelSize ==
    ASSUME NEW T, NEW d \in Seq(T)
    PROVE  /\ Len(Level(d, 0)) = Len(d)
           /\ \A j \in Nat : /\ Len(Level(d, j)) \in Nat
                             /\ Len(Level(d, j + 1)) = (Len(Level(d, j)) + 1) \div 2
  <1> DEFINE S == {j \in Nat : Len(Level(d, j)) \in Nat}
  <1>1. Len(d) \in Nat
    OBVIOUS
  <1>2. Len(Level(d, 0)) = Len(d)
    BY <1>1, LevelEquations
  <1>3. ASSUME NEW j \in Nat, Len(Level(d, j)) \in Nat
        PROVE  Len(Level(d, j + 1)) = (Len(Level(d, j)) + 1) \div 2
    <2>1. (Len(Level(d, j)) + 1) \div 2 \in Nat
      BY <1>3
    <2>2. Level(d, j + 1) = Paired(Level(d, j))
      BY LevelEquations, Zenon
    <2> QED BY <2>1, <2>2 DEF Paired
  <1>4. ASSUME NEW j \in Nat, j \in S PROVE j + 1 \in S
    <2>1. Len(Level(d, j)) \in Nat
      BY <1>4, Zenon
    <2>2. (Len(Level(d, j)) + 1) \div 2 \in Nat
      BY <2>1
    <2> QED BY <1>3, <2>1, <2>2
  <1>5. 0 \in S
    BY <1>1, <1>2, Zenon
  <1> HIDE DEF S
  <1>6. \A j \in Nat : j \in S
    <2>1. S \subseteq Nat
      BY Zenon DEF S
    <2> QED BY <1>4, <1>5, <2>1, InductionNext, Zenon
  <1> QED BY <1>2, <1>3, <1>6, Zenon DEF S

\* Node p of level j covers the leaves from p * 2^j on, 2^j of them or as many as
\* there are.
Width(n, j, p) == AtMost(TwoTo(j), n - p * TwoTo(j))

\* Every natural number is even or odd.
LEMMA EvenOrOdd == \A c \in Nat : \E q \in Nat : c = 2 * q \/ c = 2 * q + 1
  <1> TAKE c \in Nat
  <1>1. c \div 2 \in Nat /\ (c = 2 * (c \div 2) \/ c = 2 * (c \div 2) + 1)
    OBVIOUS
  <1> QED BY <1>1, Zenon

\* Products with a power of two.
LEMMA Doubling ==
    ASSUME NEW w \in Nat, NEW q \in Int
    PROVE  /\ (2 * q) * w = q * (2 * w)
           /\ (2 * q + 1) * w = q * (2 * w) + w
           /\ q * w \in Int /\ (q + 1) * w = q * w + w
           /\ (q >= 0 => q * w \in Nat)
  OBVIOUS

\* A product with a natural number keeps the order.
LEMMA TimesMonotone ==
    ASSUME NEW w \in Nat, NEW a \in Int, NEW b \in Int, a <= b
    PROVE  a * w <= b * w
  OBVIOUS

\* The last node of each level reaches the end of the leaves, and no further.
LEMMA LevelCovers ==
    ASSUME NEW T, NEW d \in Seq(T), Len(d) >= 1
    PROVE  \A j \in Nat : /\ Len(Level(d, j)) >= 1
                          /\ (Len(Level(d, j)) - 1) * TwoTo(j) < Len(d)
                          /\ Len(d) <= Len(Level(d, j)) * TwoTo(j)
  <1> DEFINE L(j) == Len(Level(d, j))
             S == {j \in Nat : L(j) >= 1 /\ (L(j) - 1) * TwoTo(j) < Len(d)
                                /\ Len(d) <= L(j) * TwoTo(j)}
  <1>1. Len(d) \in Nat /\ L(0) = Len(d)
    BY LevelSize, Zenon
  <1>2. \A j \in Nat : L(j) \in Nat /\ L(j + 1) = (L(j) + 1) \div 2
    BY LevelSize, Zenon
  <1> HIDE DEF L
  <1>3. 0 \in S
    BY <1>1, TwoToZero
  <1>4. ASSUME NEW j \in Nat, j \in S PROVE j + 1 \in S
    <2> DEFINE w == TwoTo(j)
               c == L(j)
    <2>1. w \in Nat /\ 1 <= w /\ TwoTo(j + 1) = 2 * w
      BY TwoToPositive, Zenon
    <2>2. c \in Nat /\ c >= 1 /\ (c - 1) * w < Len(d) /\ Len(d) <= c * w
      BY <1>2, <1>4, Zenon
    <2>3. L(j + 1) = (c + 1) \div 2
      BY <1>2, Zenon
    <2> HIDE DEF w, c
    <2>4. PICK q \in Nat : c = 2 * q \/ c = 2 * q + 1
      BY <2>2, EvenOrOdd, Zenon
    <2>5. CASE c = 2 * q
      <3>1. L(j + 1) = q /\ q >= 1
        BY <2>2, <2>3, <2>5
      <3>2. c * w = q * (2 * w) /\ (c - 1) * w = (q - 1) * (2 * w) + w
        <4>1. c - 1 = 2 * (q - 1) + 1 /\ q - 1 \in Int
          BY <2>5
        <4> QED BY <2>1, <2>5, <4>1, Doubling
      <3>3. (q - 1) * (2 * w) \in Int /\ q * (2 * w) \in Int
        BY <2>1, Doubling
      <3> QED BY <1>1, <2>1, <2>2, <3>1, <3>2, <3>3
    <2>6. CASE c = 2 * q + 1
      <3>1. L(j + 1) = q + 1
        BY <2>2, <2>3, <2>6
      <3>2. c * w = q * (2 * w) + w /\ (c - 1) * w = q * (2 * w)
        <4>1. c - 1 = 2 * q
          BY <2>6
        <4> QED BY <2>1, <2>6, <4>1, Doubling
      <3>3. q * (2 * w) \in Int /\ (q + 1) * (2 * w) = q * (2 * w) + 2 * w
        BY <2>1, Doubling
      <3> QED BY <1>1, <2>1, <2>2, <3>1, <3>2, <3>3
    <2> QED BY <2>4, <2>5, <2>6, Zenon
  <1> HIDE DEF S
  <1>5. \A j \in Nat : j \in S
    <2>1. S \subseteq Nat
      BY Zenon DEF S
    <2> QED BY <1>3, <1>4, <2>1, InductionNext, Zenon
  <1> QED BY <1>5, Zenon DEF S, L

\* The widths of a node and of the one or two nodes it is made of.
LEMMA WidthStep ==
    ASSUME NEW n \in Nat, NEW j \in Nat, NEW c \in Nat, NEW q \in Nat,
           (c - 1) * TwoTo(j) < n, n <= c * TwoTo(j), q < (c + 1) \div 2
    PROVE  /\ q * TwoTo(j + 1) = (2 * q) * TwoTo(j)
           /\ (2 * q + 1) * TwoTo(j) = q * TwoTo(j + 1) + TwoTo(j)
           /\ Width(n, j, 2 * q) \in Nat /\ 1 <= Width(n, j, 2 * q)
           /\ 2 * q + 1 < c =>
                /\ Width(n, j, 2 * q) = TwoTo(j)
                /\ Width(n, j, 2 * q + 1) \in Nat /\ 1 <= Width(n, j, 2 * q + 1)
                /\ Width(n, j + 1, q) = TwoTo(j) + Width(n, j, 2 * q + 1)
                /\ IsSplit(TwoTo(j), Width(n, j + 1, q))
           /\ 2 * q + 1 >= c => Width(n, j + 1, q) = Width(n, j, 2 * q)
  <1> DEFINE w == TwoTo(j)
             v == q * (2 * w)
  <1>1. w \in Nat /\ 1 <= w /\ TwoTo(j + 1) = 2 * w
    BY TwoToPositive, Zenon
  <1>2. v \in Nat /\ (2 * q) * w = v /\ (2 * q + 1) * w = v + w /\ q * TwoTo(j + 1) = v
    <2> HIDE DEF w
    <2> QED BY <1>1, Doubling
  <1>3. 2 * q < c
    OBVIOUS
  <1>4. v < n
    <2>1. (2 * q) * w <= (c - 1) * w
      <3> HIDE DEF w
      <3> QED BY <1>1, <1>3, TimesMonotone
    <2> QED BY <1>1, <1>2, <2>1
  <1>5. 2 * q + 1 < c => v + w < n
    <2> SUFFICES ASSUME 2 * q + 1 < c PROVE v + w < n
      OBVIOUS
    <2>1. (2 * q + 1) * w <= (c - 1) * w
      <3> HIDE DEF w
      <3> QED BY <1>1, TimesMonotone
    <2> QED BY <1>1, <1>2, <2>1
  <1>6. 2 * q + 1 >= c => n <= v + w
    <2> SUFFICES ASSUME 2 * q + 1 >= c PROVE n <= v + w
      OBVIOUS
    <2>1. c = 2 * q + 1
      BY <1>3
    <2> QED BY <1>1, <1>2, <2>1, Zenon
  <1>7. /\ Width(n, j, 2 * q) = AtMost(w, n - v)
        /\ Width(n, j, 2 * q + 1) = AtMost(w, n - (v + w))
        /\ Width(n, j + 1, q) = AtMost(2 * w, n - v)
    BY <1>1, <1>2, Zenon DEF Width
  <1>8. \E e \in Nat : TwoTo(j) = TwoTo(e)
    OBVIOUS
  <1> HIDE DEF v
  <1> QED BY <1>1, <1>2, <1>4, <1>5, <1>6, <1>7, <1>8 DEF AtMost, IsSplit

\* Node p of level j is the reference hash of the leaves it covers.
LEMMA LevelNode ==
    ASSUME NEW T, NEW d \in Seq(T), Len(d) >= 1
    PROVE  \A j \in Nat : \A p \in Nat : p < Len(Level(d, j)) =>
               Level(d, j)[p + 1] = RangeHash(d, p * TwoTo(j), Width(Len(d), j, p))
  <1> DEFINE n == Len(d)
             L(j) == Len(Level(d, j))
             S == {j \in Nat : \A p \in Nat : p < L(j) =>
                      Level(d, j)[p + 1] = RangeHash(d, p * TwoTo(j), Width(n, j, p))}
  <1>1. n \in Nat /\ L(0) = n
    BY LevelSize, Zenon
  <1>2. \A j \in Nat : L(j) \in Nat /\ L(j + 1) = (L(j) + 1) \div 2
    BY LevelSize, SMTT(30)
  <1>3. \A j \in Nat : (L(j) - 1) * TwoTo(j) < n /\ n <= L(j) * TwoTo(j)
    BY LevelCovers, Zenon
  <1> HIDE DEF L
  <1>4. 0 \in S
    <2> SUFFICES ASSUME NEW p \in Nat, p < n
                 PROVE  Level(d, 0)[p + 1] = RangeHash(d, p * TwoTo(0), Width(n, 0, p))
      BY <1>1, Zenon
    <2>1. p * TwoTo(0) = p /\ Width(n, 0, p) = 1
      BY <1>1, TwoToZero DEF Width, AtMost
    <2>2. Level(d, 0)[p + 1] = leafHash(d[p + 1])
      <3>1. Level(d, 0) = [i \in 1..Len(d) |-> leafHash(d[i])]
        BY LevelEquations, Zenon
      <3> QED BY <1>1, <3>1
    <2> QED BY <2>1, <2>2, RangeHashLeaf, Zenon
  <1>5. ASSUME NEW j \in Nat, j \in S PROVE j + 1 \in S
    <2> SUFFICES ASSUME NEW q \in Nat, q < L(j + 1)
                 PROVE  Level(d, j + 1)[q + 1]
                          = RangeHash(d, q * TwoTo(j + 1), Width(n, j + 1, q))
      OBVIOUS
    <2> DEFINE c == L(j)
               w == TwoTo(j)
               lo == q * TwoTo(j + 1)
    <2>0. w \in Nat /\ 1 <= w /\ TwoTo(j + 1) = 2 * w /\ TwoTo(j + 1) \in Nat
      <3>1. w \in Nat /\ 1 <= w /\ TwoTo(j + 1) = 2 * w
        BY TwoToPositive, Zenon
      <3> HIDE DEF S, w
      <3> QED BY <3>1
    <2>1. c \in Nat /\ q < (c + 1) \div 2 /\ (c - 1) * w < n /\ n <= c * w
      <3> HIDE DEF S
      <3> QED BY <1>2, <1>3, Zenon
    <2>2. q + 1 \in 1..((c + 1) \div 2)
      BY <2>1
    <2>3. Level(d, j + 1) = Paired(Level(d, j))
      BY LevelEquations, Zenon
    <2>4. Level(d, j + 1)[q + 1]
            = IF 2 * q + 1 < c THEN nodeHash(Level(d, j)[2 * q + 1], Level(d, j)[2 * q + 2])
              ELSE Level(d, j)[2 * q + 1]
      <3>1. /\ 2 * (q + 1) - 1 = 2 * q + 1 /\ 2 * (q + 1) = 2 * q + 2
            /\ (2 * q + 2 <= c) = (2 * q + 1 < c)
        BY <2>1
      <3> HIDE DEF S
      <3> QED BY <2>2, <2>3, <3>1 DEF Paired, L
    <2>5. Level(d, j)[2 * q + 1] = RangeHash(d, lo, Width(n, j, 2 * q))
      <3>1. 2 * q \in Nat /\ 2 * q < c
        BY <2>1
      <3>2. (2 * q) * w = lo
        BY <1>1, <2>1, WidthStep
      <3> QED BY <1>5, <3>1, <3>2, Zenon
    <2>6. lo \in Nat
      BY <2>0, Doubling
    <2>7. CASE 2 * q + 1 < c
      <3>1. /\ Width(n, j, 2 * q) = w /\ (2 * q + 1) * w = lo + w
            /\ Width(n, j, 2 * q + 1) \in Nat /\ 1 <= Width(n, j, 2 * q + 1)
            /\ Width(n, j + 1, q) = w + Width(n, j, 2 * q + 1)
            /\ IsSplit(w, Width(n, j + 1, q))
        BY <1>1, <2>1, <2>7, WidthStep
      <3>2. Level(d, j)[(2 * q + 1) + 1] = RangeHash(d, lo + w, Width(n, j, 2 * q + 1))
        BY <1>5, <2>7, <3>1
      <3>3. 2 * q + 2 = (2 * q + 1) + 1
        OBVIOUS
      <3> DEFINE total == Width(n, j + 1, q)
      <3>4. total \in Nat /\ total >= 2 /\ total - w = Width(n, j, 2 * q + 1)
        BY <2>0, <3>1
      <3> HIDE DEF total
      <3>5. Split(total) = w
        <4>1. IsSplit(Split(total), total)
          BY <3>4, SplitIs, Zenon
        <4>2. IsSplit(w, total)
          BY <3>1, Zenon DEF total
        <4> QED BY <3>4, <4>1, <4>2, SplitUnique, Zenon
      <3>6. RangeHash(d, lo, total)
              = nodeHash(RangeHash(d, lo, w), RangeHash(d, lo + w, total - w))
        BY <2>6, <3>4, <3>5, RangeHashNode
      <3> QED BY <2>4, <2>5, <2>7, <3>1, <3>2, <3>3, <3>4, <3>6, Zenon DEF total
    <2>8. CASE ~(2 * q + 1 < c)
      <3>1. Width(n, j + 1, q) = Width(n, j, 2 * q)
        BY <1>1, <2>1, <2>8, WidthStep
      <3> QED BY <2>4, <2>5, <2>8, <3>1, Zenon
    <2> QED BY <2>7, <2>8, Zenon
  <1> HIDE DEF S
  <1>6. \A j \in Nat : j \in S
    <2>1. S \subseteq Nat
      BY Zenon DEF S
    <2> QED BY <1>4, <1>5, <2>1, InductionNext
  <1> QED BY <1>6, Zenon DEF S, L

\* The loop of merkle.New ends at the first level of one node.
LEMMA HeightIs ==
    ASSUME NEW T, NEW d \in Seq(T), Len(d) >= 1
    PROVE  /\ Height(d) \in Nat
           /\ Len(Level(d, Height(d))) = 1
           /\ \A j \in 0..(Height(d) - 1) : Len(Level(d, j)) > 1
  <1> DEFINE n == Len(d)
             S == {j \in Nat : Len(Level(d, j)) <= 1}
  <1>1. n \in Nat /\ \A j \in Nat : Len(Level(d, j)) \in Nat
    BY LevelSize, Zenon
  <1>2. n \in S
    <2> DEFINE c == Len(Level(d, n)) - 1
               w == TwoTo(n)
    <2>1. c \in Int /\ w \in Nat /\ n < w /\ c * w < n
      BY <1>1, TwoToType, LevelCovers
    <2>2. CASE c >= 1
      <3> DEFINE v == c * w
      <3> HIDE DEF w, c
      <3>1. w <= v /\ v \in Int
        BY <2>1, <2>2, TimesMonotone, Doubling
      <3>2. v < n
        BY <2>1, Zenon
      <3> HIDE DEF v
      <3>3. FALSE
        BY <1>1, <2>1, <3>1, <3>2
      <3> QED BY <3>3, Zenon
    <2>3. CASE c < 1
      BY <1>1, <2>3
    <2> QED BY <2>1, <2>2, <2>3
  <1>3. PICK h \in S : \A j \in S : h <= j
    <2>1. S \subseteq Nat
      OBVIOUS
    <2> QED BY <1>2, <2>1, Least, Zenon
  <1>4. h \in 0..n
    BY <1>1, <1>2, <1>3
  <1>5. ASSUME NEW j \in 0..(h - 1) PROVE Len(Level(d, j)) > 1
    <2>1. j \in Nat /\ j \notin S
      BY <1>3
    <2> QED BY <1>1, <2>1
  <1>6. /\ Height(d) \in 0..n
        /\ Len(Level(d, Height(d))) <= 1
        /\ \A j \in 0..(Height(d) - 1) : Len(Level(d, j)) > 1
    BY <1>3, <1>4, <1>5, Zenon DEF Height
  <1>7. Height(d) \in Nat
    BY <1>6
  <1>8. Len(Level(d, Height(d))) >= 1 /\ Len(Level(d, Height(d))) \in Nat
    BY <1>1, <1>7, LevelCovers, Zenon
  <1>9. Len(Level(d, Height(d))) = 1
    <2> DEFINE c == Len(Level(d, Height(d)))
    <2>1. c <= 1 /\ c >= 1 /\ c \in Nat
      BY <1>6, <1>8, Zenon
    <2> HIDE DEF c
    <2>2. c = 1
      BY <2>1
    <2> QED BY <2>2, Zenon DEF c
  <1> QED BY <1>6, <1>7, <1>9, Zenon

\* The tree merkle.New returns.
LEMMA NewIs ==
    ASSUME NEW T, NEW d \in Seq(T), Len(d) >= 1
    PROVE  /\ Len(New(d)) = Height(d) + 1
           /\ \A j \in 0..Height(d) : New(d)[j + 1] = Level(d, j)
           /\ Size(New(d)) = Len(d)
           /\ Root(New(d)) = Level(d, Height(d))[1]
  <1>1. Height(d) \in Nat
    BY HeightIs, Zenon
  <1>2. Len(New(d)) = Height(d) + 1
    BY <1>1 DEF New
  <1>3. ASSUME NEW j \in 0..Height(d) PROVE New(d)[j + 1] = Level(d, j)
    BY <1>1 DEF New
  <1>4. Size(New(d)) = Len(d)
    <2>1. New(d)[0 + 1] = Level(d, 0)
      BY <1>1, <1>3
    <2> QED BY <2>1, LevelSize, SMTT(30) DEF Size
  <1> QED BY <1>1, <1>2, <1>3, <1>4 DEF Root

\* merkle.New pairs level by level and promotes odd nodes; for every list of
\* leaves its root is the recursive hash of RFC 6962.
THEOREM RootIsReference ==
    ASSUME NEW T, NEW d \in Seq(T), Len(d) >= 1
    PROVE  Root(New(d)) = MTH(d)
  <1> DEFINE n == Len(d)
             h == Height(d)
  <1>1. h \in Nat /\ Len(Level(d, h)) = 1 /\ n \in Nat
    BY HeightIs
  <1>2. n <= 1 * TwoTo(h) /\ TwoTo(h) \in Nat
    BY <1>1, LevelCovers, TwoToPositive, Zenon
  <1>3. Width(n, h, 0) = n /\ 0 * TwoTo(h) = 0
    BY <1>1, <1>2 DEF Width, AtMost
  <1>4. Level(d, h)[0 + 1] = RangeHash(d, 0 * TwoTo(h), Width(n, h, 0))
    BY <1>1, LevelNode
  <1> QED BY <1>3, <1>4, NewIs DEF MTH

\* Trees with the same root have the same leaves.
THEOREM RootInjective ==
    ASSUME NEW T, NEW d \in Seq(T), NEW e \in Seq(T), Len(d) >= 1, Len(e) >= 1,
           Root(New(d)) = Root(New(e))
    PROVE  d = e
  <1>1. RangeHash(d, 0, Len(d)) = RangeHash(e, 0, Len(e))
    BY RootIsReference, Zenon DEF MTH
  <1>2. Len(d) = Len(e) /\ \A i \in 1..Len(d) : d[0 + i] = e[0 + i]
    <2>1. Len(d) \in Nat /\ Len(e) \in Nat /\ 0 \in Nat
      OBVIOUS
    <2>2. SameLeaves(d, 0, Len(d), e, 0, Len(e))
      BY <1>1, <2>1, SameHash, Zenon
    <2> QED BY <2>2, Zenon DEF SameLeaves
  <1>3. \A i \in 1..Len(d) : d[i] = e[i]
    BY <1>2
  <1> QED BY <1>2, <1>3

------------------------------------------------------------------------------
(* Audit paths: what Verify accepts is committed.                          *)

\* The hash before the first step and after each step.
LEMMA FoldedEquations ==
    ASSUME NEW leaf, NEW steps
    PROVE  /\ Folded(leaf, steps, 0) = leafHash(leaf)
           /\ \A n \in Nat : Folded(leaf, steps, n + 1)
                               = Fold(Folded(leaf, steps, n), steps[n + 1])
  <1> DEFINE x == [leaf |-> leaf, steps |-> steps]
             f == [i \in Nat |-> Folded(leaf, steps, i)]
  <1>1. Folded(leaf, steps, 0) = FoldDef(x, 0, f)
    BY FoldedUnfold, Zenon
  <1>2. ASSUME NEW n \in Nat
        PROVE  Folded(leaf, steps, n + 1) = Fold(Folded(leaf, steps, n), steps[n + 1])
    <2>1. n + 1 \in Nat /\ n + 1 # 0 /\ (n + 1) - 1 = n
      OBVIOUS
    <2>2. Folded(leaf, steps, n + 1) = FoldDef(x, n + 1, f)
      BY <2>1, FoldedUnfold, Zenon
    <2> QED BY <2>1, <2>2, Zenon DEF FoldDef
  <1> QED BY <1>1, <1>2, Zenon DEF FoldDef

\* h is the hash of some of the leaves of d.
InTree(h, d) == \E lo \in Nat, w \in Nat : w >= 1 /\ lo + w <= Len(d) /\ h = RangeHash(d, lo, w)

\* Both halves of a node of the tree are in the tree.
LEMMA InTreeHalves ==
    ASSUME NEW T, NEW d \in Seq(T), NEW a, NEW b, InTree(nodeHash(a, b), d)
    PROVE  InTree(a, d) /\ InTree(b, d)
  <1>1. PICK lo \in Nat, w \in Nat :
            w >= 1 /\ lo + w <= Len(d) /\ nodeHash(a, b) = RangeHash(d, lo, w)
    BY Zenon DEF InTree
  <1>2. w >= 2
    <2>1. w = 1 => nodeHash(a, b) = leafHash(d[lo + 1])
      BY <1>1, RangeHashLeaf, Zenon
    <2>2. nodeHash(a, b) # leafHash(d[lo + 1])
      BY Zenon DEF nodeHash, leafHash
    <2> QED BY <1>1, <2>1, <2>2
  <1> DEFINE k == Split(w)
  <1>3. k \in Nat /\ 1 <= k /\ k < w
    BY <1>2, SplitIs, Zenon DEF IsSplit
  <1>4. a = RangeHash(d, lo, k) /\ b = RangeHash(d, lo + k, w - k)
    BY <1>1, <1>2, RangeHashNode DEF nodeHash
  <1> HIDE DEF k
  <1>5. Len(d) \in Nat /\ lo + k \in Nat /\ w - k \in Nat /\ w - k >= 1
        /\ lo + k <= Len(d) /\ (lo + k) + (w - k) <= Len(d)
    BY <1>1, <1>3
  <1> QED BY <1>3, <1>4, <1>5, Zenon DEF InTree

\* Whatever the steps, a leaf from which Verify recomputes the root is a leaf of
\* the tree.
THEOREM VerifiedIsCommitted ==
    ASSUME NEW T, NEW d \in Seq(T), Len(d) >= 1, NEW leaf, NEW steps, Len(steps) \in Nat,
           Verify(Root(New(d)), leaf, steps)
    PROVE  \E i \in 1..Len(d) : d[i] = leaf
  <1> DEFINE n == Len(steps)
             F(i) == Folded(leaf, steps, i)
             S == {k \in Nat : k <= n => InTree(F(n - k), d)}
  <1>1. F(n) = RangeHash(d, 0, Len(d)) /\ Len(d) \in Nat
    BY RootIsReference DEF Verify, MTH
  <1>2. 0 \in S
    <2>1. 0 \in Nat /\ 0 + Len(d) <= Len(d) /\ n - 0 = n
      BY <1>1
    <2> QED BY <1>1, <2>1, Zenon DEF InTree
  <1>3. ASSUME NEW k \in Nat, k \in S PROVE k + 1 \in S
    <2> SUFFICES ASSUME k + 1 <= n PROVE InTree(F(n - (k + 1)), d)
      OBVIOUS
    <2> DEFINE i == n - (k + 1)
    <2>1. i \in Nat /\ i + 1 = n - k /\ k <= n
      OBVIOUS
    <2>2. InTree(F(i + 1), d)
      BY <1>3, <2>1, Zenon
    <2>3. F(i + 1) = Fold(F(i), steps[i + 1])
      BY <2>1, FoldedEquations, Zenon
    <2> HIDE DEF i, F
    <2>4. \/ F(i + 1) = nodeHash(F(i), steps[i + 1].hash)
          \/ F(i + 1) = nodeHash(steps[i + 1].hash, F(i))
      BY <2>3, Zenon DEF Fold
    <2>5. InTree(F(i), d)
      BY <2>2, <2>4, InTreeHalves, Zenon
    <2> QED BY <2>5, Zenon DEF i
  <1> HIDE DEF S
  <1>4. n \in S
    <2>1. S \subseteq Nat
      BY Zenon DEF S
    <2> QED BY <1>2, <1>3, <2>1, InductionNext, Zenon
  <1>5. InTree(F(0), d)
    <2>1. n <= n /\ n - n = 0
      OBVIOUS
    <2> QED BY <1>4, <2>1, Zenon DEF S
  <1>6. PICK lo \in Nat, w \in Nat :
            w >= 1 /\ lo + w <= Len(d) /\ F(0) = RangeHash(d, lo, w)
    BY <1>5, Zenon DEF InTree
  <1>7. F(0) = leafHash(leaf)
    BY FoldedEquations, Zenon
  <1>8. w = 1
    <2>1. w # 1 => F(0) = nodeHash(RangeHash(d, lo, Split(w)),
                                   RangeHash(d, lo + Split(w), w - Split(w)))
      BY <1>6, RangeHashNode
    <2> HIDE DEF F
    <2> QED BY <1>7, <2>1 DEF leafHash, nodeHash
  <1>9. leafHash(leaf) = leafHash(d[lo + 1])
    BY <1>6, <1>7, <1>8, RangeHashLeaf, Zenon
  <1>10. lo + 1 \in 1..Len(d) /\ d[lo + 1] = leaf
    <2>1. d[lo + 1] = leaf
      BY <1>9, Zenon DEF leafHash
    <2> QED BY <1>1, <1>6, <1>8, <2>1
  <1> QED BY <1>10, Zenon

------------------------------------------------------------------------------
(* Audit paths: the index.                                                 *)

\* No level has more nodes than there are leaves.
LEMMA LevelAtMost ==
    ASSUME NEW T, NEW d \in Seq(T), Len(d) >= 1
    PROVE  \A j \in Nat : Len(Level(d, j)) <= Len(d)
  <1> TAKE j \in Nat
  <1> DEFINE c == Len(Level(d, j)) - 1
             w == TwoTo(j)
             v == c * w
  <1>1. c \in Nat /\ w \in Nat /\ 1 <= w /\ v < Len(d) /\ Len(d) \in Nat
    <2>1. w \in Nat /\ 1 <= w
      BY TwoToPositive, Zenon
    <2>2. Len(Level(d, j)) \in Nat
      BY LevelSize, Zenon
    <2>3. Len(Level(d, j)) >= 1 /\ v < Len(d)
      BY LevelCovers, Zenon
    <2> HIDE DEF w, v
    <2> QED BY <2>1, <2>2, <2>3
  <1>2. 1 * c <= w * c /\ v = w * c /\ v \in Int
    <2> HIDE DEF c, w
    <2> QED BY <1>1, TimesMonotone, Doubling
  <1>3. c <= v
    <2> HIDE DEF c, w
    <2> QED BY <1>1, <1>2
  <1>4. c < Len(d)
    <2> HIDE DEF c, v
    <2> QED BY <1>1, <1>2, <1>3
  <1> QED BY <1>1, <1>4

\* A tree whose size is an int has no more levels than the int has bits.
LEMMA HeightBound ==
    ASSUME NEW T, NEW d \in Seq(T), Len(d) >= 1, Len(d) < Modulus
    PROVE  Height(d) <= IntBits
  <1> SUFFICES ASSUME Height(d) > IntBits PROVE FALSE
    BY IntBitsAssumption, HeightIs
  <1>1. IntBits \in 0..(Height(d) - 1) /\ IntBits \in Nat
    BY IntBitsAssumption, HeightIs
  <1> DEFINE c == Len(Level(d, IntBits)) - 1
             w == TwoTo(IntBits)
             v == c * w
  <1>2. c \in Nat /\ c >= 1 /\ w \in Nat /\ v < Len(d) /\ Len(d) \in Nat /\ Len(d) < w
    <2>1. w \in Nat
      BY <1>1, TwoToPositive, Zenon
    <2>2. Len(Level(d, IntBits)) \in Nat
      BY <1>1, LevelSize, Zenon
    <2>3. v < Len(d)
      BY <1>1, LevelCovers, Zenon
    <2>4. Len(Level(d, IntBits)) > 1
      BY <1>1, HeightIs, Zenon
    <2>5. Len(d) < w
      BY Zenon DEF Modulus
    <2> HIDE DEF w, v
    <2> QED BY <2>1, <2>2, <2>3, <2>4, <2>5
  <1>3. w <= v /\ v \in Int
    <2> HIDE DEF c, w
    <2>1. 1 * w <= c * w
      BY <1>2, TimesMonotone
    <2> QED BY <1>2, <2>1, Doubling
  <1> HIDE DEF c, w, v
  <1> QED BY <1>2, <1>3

\* A number that fits is kept.
LEMMA AsUintFits == \A x \in Nat : x < Modulus => AsUint(x) = x
  <1>1. Modulus \in Nat
    BY IntBitsAssumption, TwoToPositive, Zenon DEF Modulus
  <1> QED BY <1>1 DEF AsUint

\* A node and the one or two nodes it is made of.
Parent(d, j, p) ==
    /\ p \div 2 \in Nat /\ p \div 2 < Len(Level(d, j + 1))
    /\ p % 2 = 1 => Level(d, j + 1)[p \div 2 + 1]
                      = nodeHash(Level(d, j)[p], Level(d, j)[p + 1])
    /\ p % 2 = 0 /\ p + 1 < Len(Level(d, j)) =>
          Level(d, j + 1)[p \div 2 + 1] = nodeHash(Level(d, j)[p + 1], Level(d, j)[p + 2])
    /\ p % 2 = 0 /\ ~(p + 1 < Len(Level(d, j))) =>
          Level(d, j + 1)[p \div 2 + 1] = Level(d, j)[p + 1]

\* Pairing makes the parents.
LEMMA ParentIs ==
    ASSUME NEW T, NEW d \in Seq(T), NEW j \in Nat, NEW p \in Nat, p < Len(Level(d, j))
    PROVE  Parent(d, j, p)
  <1> DEFINE c == Len(Level(d, j))
             q == p \div 2
  <1>1. c \in Nat /\ Len(Level(d, j + 1)) = (c + 1) \div 2
    BY LevelSize, Zenon
  <1>2. Level(d, j + 1) = Paired(Level(d, j))
    BY LevelEquations, Zenon
  <1>3. q \in Nat /\ q + 1 \in 1..((c + 1) \div 2) /\ q < (c + 1) \div 2
    BY <1>1
  <1>4. Level(d, j + 1)[q + 1]
          = IF 2 * (q + 1) <= c
            THEN nodeHash(Level(d, j)[2 * (q + 1) - 1], Level(d, j)[2 * (q + 1)])
            ELSE Level(d, j)[2 * (q + 1) - 1]
    <2> HIDE DEF q
    <2> QED BY <1>2, <1>3, Zenon DEF Paired
  <1>5. p % 2 = 1 => 2 * (q + 1) - 1 = p /\ 2 * (q + 1) = p + 1 /\ 2 * (q + 1) <= c
    BY <1>1
  <1>6. p % 2 = 0 => 2 * (q + 1) - 1 = p + 1 /\ 2 * (q + 1) = p + 2
    BY <1>1
  <1>7. p % 2 = 0 => (2 * (q + 1) <= c <=> p + 1 < c)
    BY <1>1, <1>6
  <1> QED BY <1>1, <1>3, <1>4, <1>5, <1>6, <1>7, Zenon DEF Parent

\* The rounds of proofSideSequence.
LEMMA SideEquations ==
    ASSUME NEW index, NEW size
    PROVE  /\ Side(index, size, 0) = [idx |-> index, count |-> size, sides |-> <<>>]
           /\ \A n \in Nat : Side(index, size, n + 1) = SideUp(Side(index, size, n))
  <1> DEFINE x == [index |-> index, size |-> size]
             f == [i \in Nat |-> Side(index, size, i)]
  <1>1. Side(index, size, 0) = SideDef(x, 0, f)
    BY SideUnfold, Zenon
  <1>2. ASSUME NEW n \in Nat
        PROVE  Side(index, size, n + 1) = SideUp(Side(index, size, n))
    <2>1. n + 1 \in Nat /\ n + 1 # 0 /\ (n + 1) - 1 = n
      OBVIOUS
    <2>2. Side(index, size, n + 1) = SideDef(x, n + 1, f)
      BY <2>1, SideUnfold, Zenon
    <2> QED BY <2>1, <2>2, Zenon DEF SideDef
  <1> QED BY <1>1, <1>2, Zenon DEF SideDef

\* The marker a level adds for node p of c.
Marks(p, c) == IF p % 2 = 1 \/ p + 1 < c THEN <<p % 2 = 0>> ELSE <<>>

\* It is one marker, whether p is even, or none.
LEMMA MarksAre ==
    ASSUME NEW p, NEW c
    PROVE  /\ Marks(p, c) \in Seq(BOOLEAN)
           /\ p % 2 = 1 \/ p + 1 < c => Marks(p, c) = <<p % 2 = 0>>
           /\ ~(p % 2 = 1 \/ p + 1 < c) => Marks(p, c) = <<>>
  <1> DEFINE b == p % 2 = 0
  <1>1. b \in BOOLEAN
    OBVIOUS
  <1> HIDE DEF b
  <1>2. <<b>> \in Seq(BOOLEAN) /\ <<>> \in Seq(BOOLEAN)
    BY <1>1
  <1>3. Marks(p, c) = IF p % 2 = 1 \/ p + 1 < c THEN <<b>> ELSE <<>>
    BY Zenon DEF Marks, b
  <1> QED BY <1>2, <1>3, Zenon DEF b

\* With the right size the rounds follow the levels of the tree: the count is
\* that of the level and the index stays in it.
SideOk(d, index, j) ==
    LET s == Side(index, Len(d), j)
    IN  /\ s.count = Len(Level(d, j))
        /\ s.idx \in Nat /\ s.idx < Len(Level(d, j))
        /\ s.sides \in Seq(BOOLEAN)

SideStep(d, index, j) ==
    LET s == Side(index, Len(d), j)
        t == Side(index, Len(d), j + 1)
    IN  /\ t.idx = s.idx \div 2
        /\ t.sides = s.sides \o Marks(s.idx, Len(Level(d, j)))

\* proofSideSequence walks the levels of the tree of that size.
LEMMA SideFollows ==
    ASSUME NEW T, NEW d \in Seq(T), Len(d) >= 1, 2 * Len(d) < Modulus,
           NEW index \in Nat, index < Len(d)
    PROVE  /\ \A j \in Nat : j <= Height(d) => SideOk(d, index, j)
           /\ \A j \in Nat : j < Height(d) => SideStep(d, index, j)
  <1> DEFINE n == Len(d)
             s(j) == Side(index, n, j)
             L(j) == Len(Level(d, j))
             Ok(j) == /\ s(j).count = L(j)
                      /\ s(j).idx \in Nat /\ s(j).idx < L(j)
                      /\ s(j).sides \in Seq(BOOLEAN)
             Up(j) == /\ s(j + 1).idx = s(j).idx \div 2
                      /\ s(j + 1).count = (L(j) + 1) \div 2
                      /\ s(j + 1).sides = s(j).sides \o Marks(s(j).idx, L(j))
             S == {j \in Nat : j <= Height(d) => Ok(j)}
  <1>1. n \in Nat /\ Height(d) \in Nat /\ Modulus \in Nat
    BY HeightIs, IntBitsAssumption, TwoToPositive DEF Modulus
  <1>2. \A j \in Nat : L(j) \in Nat /\ L(j + 1) = (L(j) + 1) \div 2 /\ L(j) <= n
    BY LevelSize, LevelAtMost, Zenon
  <1>3. \A j \in Nat : j < Height(d) => L(j) > 1
    BY <1>1, HeightIs
  <1>4. ASSUME NEW j \in Nat, j < Height(d), Ok(j) PROVE Up(j)
    <2> DEFINE c == L(j)
               p == s(j).idx
    <2>1. s(j + 1) = SideUp(s(j))
      BY SideEquations, Zenon
    <2>2. c \in Nat /\ c > 1 /\ c <= n /\ p \in Nat /\ p < c /\ s(j).count = c
      BY <1>2, <1>3, <1>4, Zenon
    <2>3. AsUint(p + 1) = p + 1 /\ AsUint(c + 1) = c + 1
      <3>1. p + 1 \in Nat /\ p + 1 < Modulus /\ c + 1 \in Nat /\ c + 1 < Modulus
        <4>1. 2 * n < Modulus
          OBVIOUS
        <4> HIDE DEF p, c, n
        <4> QED BY <1>1, <2>2, <4>1
      <3> HIDE DEF p, c
      <3> QED BY <3>1, AsUintFits, Zenon
    <2>4. SideAt(p, c) = Marks(p, c)
      BY <2>3, Zenon DEF SideAt, Marks
    <2> HIDE DEF L, s
    <2>5. ~(s(j).count <= 1)
      BY <2>2
    <2>6. SideUp(s(j)) = [idx |-> p \div 2, count |-> AsUint(c + 1) \div 2,
                          sides |-> s(j).sides \o SideAt(p, c)]
      BY <2>2, <2>5, Zenon DEF SideUp
    <2> DEFINE r == s(j).sides \o Marks(p, c)
    <2>7. s(j + 1) = [idx |-> p \div 2, count |-> (c + 1) \div 2, sides |-> r]
      BY <2>1, <2>3, <2>4, <2>6, Zenon
    <2> HIDE DEF r
    <2>8. s(j + 1).idx = p \div 2
      BY <2>7
    <2>9. s(j + 1).count = (c + 1) \div 2
      BY <2>7
    <2>10. s(j + 1).sides = r
      BY <2>7
    <2> QED BY <2>8, <2>9, <2>10, Zenon DEF r
  <1>5. 0 \in S
    <2>1. s(0) = [idx |-> index, count |-> n, sides |-> <<>>]
      BY SideEquations, Zenon
    <2>2. L(0) = n
      BY LevelSize, Zenon
    <2>3. <<>> \in Seq(BOOLEAN)
      OBVIOUS
    <2> HIDE DEF s, L
    <2>4. Ok(0)
      <3>1. s(0).idx = index
        BY <2>1
      <3>2. s(0).count = n
        BY <2>1
      <3>3. s(0).sides = <<>>
        BY <2>1
      <3> QED BY <2>2, <2>3, <3>1, <3>2, <3>3, Zenon
    <2> QED BY <2>4, Zenon
  <1>6. ASSUME NEW j \in Nat, j \in S PROVE j + 1 \in S
    <2> SUFFICES ASSUME j + 1 <= Height(d) PROVE Ok(j + 1)
      OBVIOUS
    <2>1. j < Height(d) /\ Ok(j)
      BY <1>1, <1>6
    <2>2. Up(j)
      BY <1>4, <2>1, Zenon
    <2>3. s(j).idx \div 2 \in Nat /\ s(j).idx \div 2 < L(j + 1)
      <3>1. Parent(d, j, s(j).idx)
        BY <2>1, ParentIs, Zenon
      <3> QED BY <3>1, Zenon DEF Parent
    <2>4. Marks(s(j).idx, L(j)) \in Seq(BOOLEAN)
      BY MarksAre, Zenon
    <2> HIDE DEF L, s
    <2>5. s(j).sides \in Seq(BOOLEAN)
      BY <2>1, Zenon
    <2>6. s(j).sides \o Marks(s(j).idx, L(j)) \in Seq(BOOLEAN)
      BY <2>4, <2>5
    <2>7. L(j + 1) = (L(j) + 1) \div 2
      BY <1>2, Zenon
    <2> QED BY <2>2, <2>3, <2>6, <2>7, Zenon
  <1> HIDE DEF S
  <1>7. \A j \in Nat : j \in S
    <2>1. S \subseteq Nat
      BY Zenon DEF S
    <2> QED BY <1>5, <1>6, <2>1, InductionNext, Zenon
  <1>8. \A j \in Nat : j <= Height(d) => Ok(j)
    BY <1>7, Zenon DEF S
  <1>9. ASSUME NEW j \in Nat, j < Height(d) PROVE Up(j)
    <2>1. Ok(j)
      BY <1>1, <1>8, <1>9
    <2> HIDE DEF Ok, Up
    <2> QED BY <1>4, <1>9, <2>1, Zenon
  <1> QED BY <1>8, <1>9, Zenon DEF SideOk, SideStep

\* The rounds after the last level change nothing.
LEMMA SidesFinal ==
    ASSUME NEW T, NEW d \in Seq(T), Len(d) >= 1, 2 * Len(d) < Modulus,
           NEW index \in Nat, index < Len(d)
    PROVE  proofSideSequence(index, Len(d)) = Side(index, Len(d), Height(d)).sides
  <1> DEFINE s(j) == Side(index, Len(d), j)
             h == Height(d)
             S == {k \in Nat : s(h + k) = s(h)}
  <1>1. h \in Nat /\ s(h).count = 1
    <2>1. h \in Nat /\ Len(Level(d, h)) = 1
      BY HeightIs, Zenon
    <2>2. h <= h
      BY <2>1
    <2>3. SideOk(d, index, h)
      BY <2>1, <2>2, SideFollows, Zenon
    <2> QED BY <2>1, <2>3, Zenon DEF SideOk
  <1>2. 0 \in S
    BY <1>1
  <1>3. ASSUME NEW k \in Nat, k \in S PROVE k + 1 \in S
    <2>1. h + k \in Nat /\ (h + k) + 1 = h + (k + 1)
      BY <1>1
    <2>2. s(h + (k + 1)) = SideUp(s(h + k))
      BY <2>1, SideEquations, Zenon
    <2>3. s(h + k) = s(h)
      BY <1>3, Zenon
    <2>4. SideUp(s(h)) = s(h)
      BY <1>1 DEF SideUp
    <2> HIDE DEF s
    <2> QED BY <2>2, <2>3, <2>4
  <1> HIDE DEF S
  <1>4. \A k \in Nat : k \in S
    <2>1. S \subseteq Nat
      BY Zenon DEF S
    <2> QED BY <1>2, <1>3, <2>1, InductionNext
  <1>5. IntBits - h \in Nat /\ h + (IntBits - h) = IntBits
    <2>1. Len(d) \in Nat /\ Modulus \in Nat
      BY IntBitsAssumption, TwoToPositive DEF Modulus
    <2>2. Len(d) < Modulus
      BY <2>1
    <2>3. h <= IntBits
      BY <2>2, HeightBound, Zenon
    <2> HIDE DEF h
    <2> QED BY <1>1, <2>3, IntBitsAssumption
  <1>6. s(IntBits) = s(h)
    BY <1>4, <1>5 DEF S
  <1> QED BY <1>6, Zenon DEF proofSideSequence

Prefix(a, b) == Len(a) <= Len(b) /\ \A i \in 1..Len(a) : a[i] = b[i]

Extends(a, m, b) ==
    /\ Prefix(a, b)
    /\ Len(a \o m) = Len(a) + Len(m)
    /\ Len(m) = 1 => Len(a) + 1 <= Len(b) /\ b[Len(a) + 1] = m[1]

\* A sequence that grows by m at its end.
LEMMA PrefixOfConcat ==
    ASSUME NEW U, NEW a \in Seq(U), NEW m \in Seq(U), NEW b \in Seq(U), Prefix(a \o m, b)
    PROVE  Extends(a, m, b)
  <1>1. Len(a \o m) = Len(a) + Len(m) /\ Len(a) \in Nat /\ Len(m) \in Nat /\ Len(b) \in Nat
    OBVIOUS
  <1>2. \A i \in 1..Len(a) : (a \o m)[i] = a[i]
    OBVIOUS
  <1>3. Len(m) = 1 => (a \o m)[Len(a) + 1] = m[1]
    BY SMTT(30)
  <1>4. Len(a \o m) <= Len(b) /\ \A i \in 1..Len(a \o m) : (a \o m)[i] = b[i]
    BY Zenon DEF Prefix
  <1>5. Len(a) <= Len(b)
    BY <1>1, <1>4
  <1>6. ASSUME NEW i \in 1..Len(a) PROVE a[i] = b[i]
    <2>1. i \in 1..Len(a \o m)
      BY <1>1
    <2> QED BY <1>2, <1>4, <2>1, Zenon
  <1>7. ASSUME Len(m) = 1 PROVE Len(a) + 1 <= Len(b) /\ b[Len(a) + 1] = m[1]
    <2>1. Len(a) + 1 \in 1..Len(a \o m)
      BY <1>1, <1>7
    <2>2. (a \o m)[Len(a) + 1] = b[Len(a) + 1]
      BY <1>4, <2>1, Zenon
    <2>3. (a \o m)[Len(a) + 1] = m[1]
      BY <1>3, <1>7, Zenon
    <2>4. Len(a) + 1 <= Len(b)
      BY <1>1, <1>4, <1>7, Zenon
    <2> QED BY <2>2, <2>3, <2>4, Zenon
  <1> QED BY <1>1, <1>5, <1>6, <1>7, Zenon DEF Prefix, Extends

\* Seen from the hash of a node, the step of its level leads down to the child
\* the index names.
LEMMA StepDown ==
    ASSUME NEW T, NEW d \in Seq(T), NEW j \in Nat, NEW p \in Nat, p < Len(Level(d, j)),
           NEW h, NEW step,
           p % 2 = 1 \/ p + 1 < Len(Level(d, j)),
           p % 2 = 0 => step.isRight, p % 2 = 1 => ~step.isRight,
           Fold(h, step) = Level(d, j + 1)[p \div 2 + 1]
    PROVE  h = Level(d, j)[p + 1]
  <1>0. Parent(d, j, p)
    BY ParentIs, Zenon
  <1>1. CASE p % 2 = 1
    <2>1. Level(d, j + 1)[p \div 2 + 1] = nodeHash(Level(d, j)[p], Level(d, j)[p + 1])
      BY <1>0, <1>1, Zenon DEF Parent
    <2>2. ~step.isRight
      BY <1>1, Zenon
    <2>3. nodeHash(step.hash, h) = nodeHash(Level(d, j)[p], Level(d, j)[p + 1])
      BY <2>1, <2>2, Zenon DEF Fold
    <2> QED BY <2>3, Zenon DEF nodeHash
  <1>2. CASE p % 2 # 1
    <2>1. p % 2 = 0 /\ p + 1 < Len(Level(d, j))
      BY <1>2
    <2>2. Level(d, j + 1)[p \div 2 + 1] = nodeHash(Level(d, j)[p + 1], Level(d, j)[p + 2])
      BY <1>0, <2>1, Zenon DEF Parent
    <2>3. step.isRight
      BY <2>1, Zenon
    <2>4. nodeHash(h, step.hash) = nodeHash(Level(d, j)[p + 1], Level(d, j)[p + 2])
      BY <2>2, <2>3, Zenon DEF Fold
    <2> QED BY <2>4, Zenon DEF nodeHash
  <1> QED BY <1>1, <1>2, Zenon

\* merkle.VerifyInclusion with the tree's own size accepts a leaf only at its own
\* index, whatever the steps.
THEOREM VerifiedAtIndex ==
    ASSUME NEW T, NEW d \in Seq(T), Len(d) >= 1, 2 * Len(d) < Modulus, NEW index \in Nat,
           NEW leaf, NEW steps, Len(steps) \in Nat, DOMAIN steps = 1..Len(steps),
           VerifyInclusion(Root(New(d)), index, Len(d), leaf, steps) = "ok"
    PROVE  index < Len(d) /\ d[index + 1] = leaf
  <1> DEFINE n == Len(d)
             h == Height(d)
             idx(j) == Side(index, n, j).idx
             sides(j) == Side(index, n, j).sides
             L(j) == Len(Level(d, j))
             F(i) == Folded(leaf, steps, i)
             S == {k \in Nat : k <= h =>
                      /\ Prefix(sides(h - k), sides(h))
                      /\ F(Len(sides(h - k))) = Level(d, h - k)[idx(h - k) + 1]}
  <1>1. index < n /\ n \in Nat
    BY DEF VerifyInclusion
  <1>2. /\ [i \in DOMAIN steps |-> steps[i].isRight] = proofSideSequence(index, n)
        /\ Verify(Root(New(d)), leaf, steps)
    BY <1>1, Zenon DEF VerifyInclusion
  <1>3. h \in Nat /\ L(h) = 1
    BY HeightIs, Zenon
  <1>4. \A j \in Nat : j <= h =>
           idx(j) \in Nat /\ idx(j) < L(j) /\ sides(j) \in Seq(BOOLEAN)
    <2>1. \A j \in Nat : j <= h => SideOk(d, index, j)
      BY <1>1, SideFollows, Zenon
    <2> QED BY <2>1, Zenon DEF SideOk
  <1>5. \A j \in Nat : j < h =>
           /\ idx(j + 1) = idx(j) \div 2
           /\ sides(j + 1) = sides(j) \o Marks(idx(j), L(j))
    <2>1. \A j \in Nat : j < h => SideStep(d, index, j)
      BY <1>1, SideFollows, Zenon
    <2> QED BY <2>1, Zenon DEF SideStep
  <1>6. [i \in DOMAIN steps |-> steps[i].isRight] = sides(h)
    BY <1>1, <1>2, SidesFinal, Zenon
  <1>7. Len(steps) = Len(sides(h)) /\ \A i \in 1..Len(steps) : steps[i].isRight = sides(h)[i]
    <2> HIDE DEF sides
    <2>1. DOMAIN sides(h) = 1..Len(steps)
      BY <1>6, Zenon
    <2>2. Len(sides(h)) = Len(steps)
      <3>1. sides(h) \in Seq(BOOLEAN)
        BY <1>3, <1>4
      <3> QED BY <2>1, <3>1
    <2> QED BY <1>6, <2>2, Zenon
  <1>8. F(Len(steps)) = Level(d, h)[1]
    BY <1>2, NewIs, Zenon DEF Verify
  <1> HIDE DEF idx, sides, L, F
  <1>9. 0 \in S
    <2>1. h - 0 = h /\ idx(h) = 0
      <3>1. idx(h) \in Nat /\ idx(h) < 1
        BY <1>3, <1>4
      <3> QED BY <1>3, <3>1
    <2>2. Prefix(sides(h), sides(h))
      BY <1>3, <1>4 DEF Prefix
    <2> QED BY <1>7, <1>8, <2>1, <2>2
  <1>10. ASSUME NEW k \in Nat, k \in S PROVE k + 1 \in S
    <2> SUFFICES ASSUME k + 1 <= h
                 PROVE  /\ Prefix(sides(h - (k + 1)), sides(h))
                        /\ F(Len(sides(h - (k + 1))))
                             = Level(d, h - (k + 1))[idx(h - (k + 1)) + 1]
      OBVIOUS
    <2> DEFINE j == h - (k + 1)
               p == idx(j)
               m == Marks(p, L(j))
               l == Len(sides(j))
    <2>1. j \in Nat /\ j < h /\ j + 1 = h - k /\ k <= h /\ j <= h /\ h <= h
      BY <1>3
    <2>2. Prefix(sides(j + 1), sides(h)) /\ F(Len(sides(j + 1))) = Level(d, j + 1)[idx(j + 1) + 1]
      BY <1>10, <2>1, Zenon
    <2> HIDE DEF j
    <2>3. /\ p \in Nat /\ p < L(j) /\ sides(j) \in Seq(BOOLEAN)
          /\ sides(h) \in Seq(BOOLEAN) /\ idx(j + 1) = p \div 2 /\ sides(j + 1) = sides(j) \o m
      BY <1>3, <1>4, <1>5, <2>1, Zenon
    <2>4. m \in Seq(BOOLEAN)
      BY MarksAre, Zenon
    <2>5. /\ Prefix(sides(j), sides(h)) /\ Len(sides(j + 1)) = l + Len(m)
          /\ Len(m) = 1 => l + 1 <= Len(sides(h)) /\ sides(h)[l + 1] = m[1]
      <3> HIDE DEF m
      <3>1. Prefix(sides(j) \o m, sides(h))
        BY <2>2, <2>3, Zenon
      <3>2. Extends(sides(j), m, sides(h))
        BY <2>3, <2>4, <3>1, PrefixOfConcat, Zenon
      <3> QED BY <2>3, <3>2, Zenon DEF Extends
    <2>6. l \in Nat
      BY <2>3
    <2>7. CASE p % 2 = 1 \/ p + 1 < L(j)
      <3> DEFINE b == p % 2 = 0
      <3>1. m = <<b>>
        BY <2>7, MarksAre, Zenon
      <3> HIDE DEF m, b
      <3>2. Len(m) = 1 /\ m[1] = b
        BY <3>1, Zenon
      <3>3. l + 1 \in 1..Len(steps) /\ Len(sides(j + 1)) = l + 1
        BY <1>7, <2>5, <2>6, <3>2
      <3>4. steps[l + 1].isRight = b
        BY <1>7, <2>5, <3>2, <3>3, Zenon
      <3>5. F(l + 1) = Fold(F(l), steps[l + 1])
        BY <2>6, FoldedEquations, Zenon DEF F
      <3>6. Fold(F(l), steps[l + 1]) = Level(d, j + 1)[p \div 2 + 1]
        BY <2>2, <2>3, <3>3, <3>5, Zenon
      <3>7. F(l) = Level(d, j)[p + 1]
        <4>1. (b => steps[l + 1].isRight) /\ (~b => ~steps[l + 1].isRight)
          BY <3>4, Zenon
        <4>2. (p % 2 = 0 => b) /\ (p % 2 = 1 => ~b)
          BY DEF b
        <4>3. p \in Nat /\ p < Len(Level(d, j)) /\ (p % 2 = 1 \/ p + 1 < Len(Level(d, j)))
          BY <2>3, <2>7, Zenon DEF L
        <4>4. (p % 2 = 0 => steps[l + 1].isRight) /\ (p % 2 = 1 => ~steps[l + 1].isRight)
          BY <4>1, <4>2, Zenon
        <4> HIDE DEF p, l
        <4> QED BY <2>1, <3>6, <4>3, <4>4, StepDown, Zenon
      <3> QED BY <2>5, <3>7, Zenon DEF j
    <2>8. CASE ~(p % 2 = 1 \/ p + 1 < L(j))
      <3>1. m = <<>>
        BY <2>8, MarksAre, Zenon
      <3>2. Len(sides(j + 1)) = l
        BY <2>5, <2>6, <3>1
      <3>3. p % 2 = 0
        BY <2>3, <2>8
      <3>4. Level(d, j + 1)[p \div 2 + 1] = Level(d, j)[p + 1]
        <4>1. p \in Nat /\ p < Len(Level(d, j)) /\ ~(p + 1 < Len(Level(d, j))) /\ p % 2 = 0
          BY <2>3, <2>8, <3>3, Zenon DEF L
        <4> HIDE DEF p
        <4>2. Parent(d, j, p)
          BY <2>1, <4>1, ParentIs, Zenon
        <4> QED BY <4>1, <4>2, Zenon DEF Parent
      <3>5. F(l) = Level(d, j)[p + 1]
        BY <2>2, <2>3, <3>2, <3>4, Zenon
      <3> QED BY <2>5, <3>5, Zenon DEF j
    <2> QED BY <2>7, <2>8, Zenon
  <1> HIDE DEF S
  <1>11. h \in S
    <2>1. S \subseteq Nat
      BY Zenon DEF S
    <2> QED BY <1>3, <1>9, <1>10, <2>1, InductionNext, Zenon
  <1>12. Side(index, n, 0) = [idx |-> index, count |-> n, sides |-> <<>>]
    BY SideEquations, Zenon
  <1>13. idx(0) = index /\ sides(0) = <<>>
    BY <1>12 DEF idx, sides
  <1>14. F(0) = Level(d, 0)[index + 1]
    <2>1. h <= h /\ h - h = 0 /\ Len(<<>>) = 0
      BY <1>3
    <2> QED BY <1>11, <1>13, <2>1, Zenon DEF S
  <1>15. Level(d, 0)[index + 1] = leafHash(d[index + 1])
    <2>1. Level(d, 0) = [i \in 1..n |-> leafHash(d[i])]
      BY LevelEquations, Zenon
    <2> QED BY <1>1, <2>1
  <1>16. F(0) = leafHash(leaf)
    BY FoldedEquations, Zenon DEF F
  <1> QED BY <1>1, <1>14, <1>15, <1>16 DEF leafHash

------------------------------------------------------------------------------
(* Audit paths: the path Tree.Proof makes is accepted.                     *)

\* The rounds of Tree.Proof.
LEMMA PathEquations ==
    ASSUME NEW levels, NEW index
    PROVE  /\ Path(levels, index, 0) = [idx |-> index, steps |-> <<>>]
           /\ \A n \in Nat : Path(levels, index, n + 1)
                               = PathUp(levels[n + 1], Path(levels, index, n))
  <1> DEFINE x == [levels |-> levels, index |-> index]
             f == [i \in Nat |-> Path(levels, index, i)]
  <1>1. Path(levels, index, 0) = PathDef(x, 0, f)
    BY PathUnfold, Zenon
  <1>2. ASSUME NEW n \in Nat
        PROVE  Path(levels, index, n + 1) = PathUp(levels[n + 1], Path(levels, index, n))
    <2>1. n + 1 \in Nat /\ n + 1 # 0 /\ (n + 1) - 1 = n
      OBVIOUS
    <2>2. Path(levels, index, n + 1) = PathDef(x, n + 1, f)
      BY <2>1, PathUnfold, Zenon
    <2> QED BY <2>1, <2>2, Zenon DEF PathDef
  <1> QED BY <1>1, <1>2, Zenon DEF PathDef

\* The hash after n steps depends on those steps only.
LEMMA FoldedPrefix ==
    ASSUME NEW leaf, NEW a, NEW b, NEW n \in Nat, \A i \in 1..n : a[i] = b[i]
    PROVE  Folded(leaf, a, n) = Folded(leaf, b, n)
  <1> DEFINE S == {k \in Nat : k <= n => Folded(leaf, a, k) = Folded(leaf, b, k)}
  <1>1. 0 \in S
    BY FoldedEquations, Zenon
  <1>2. ASSUME NEW k \in Nat, k \in S PROVE k + 1 \in S
    <2> SUFFICES ASSUME k + 1 <= n PROVE Folded(leaf, a, k + 1) = Folded(leaf, b, k + 1)
      OBVIOUS
    <2>1. Folded(leaf, a, k) = Folded(leaf, b, k) /\ a[k + 1] = b[k + 1]
      BY <1>2
    <2>2. /\ Folded(leaf, a, k + 1) = Fold(Folded(leaf, a, k), a[k + 1])
          /\ Folded(leaf, b, k + 1) = Fold(Folded(leaf, b, k), b[k + 1])
      BY FoldedEquations, Zenon
    <2> HIDE DEF S
    <2> QED BY <2>1, <2>2, Zenon
  <1> HIDE DEF S
  <1>3. \A k \in Nat : k \in S
    <2>1. S \subseteq Nat
      BY Zenon DEF S
    <2> QED BY <1>1, <1>2, <2>1, InductionNext, Zenon
  <1>4. n <= n
    OBVIOUS
  <1> QED BY <1>3, <1>4, Zenon DEF S

\* The step a level contributes leads from a node to its parent.
LEMMA StepUp ==
    ASSUME NEW T, NEW d \in Seq(T), NEW j \in Nat, NEW p \in Nat, p < Len(Level(d, j)),
           p % 2 = 1 \/ p + 1 < Len(Level(d, j)), NEW b \in BOOLEAN, b <=> p % 2 = 0
    PROVE  Fold(Level(d, j)[p + 1], [hash |-> Level(d, j)[Sibling(p) + 1], isRight |-> b])
             = Level(d, j + 1)[p \div 2 + 1]
  <1>0. Parent(d, j, p)
    BY ParentIs, Zenon
  <1> DEFINE step == [hash |-> Level(d, j)[Sibling(p) + 1], isRight |-> b]
  <1>1. step.isRight = b /\ step.hash = Level(d, j)[Sibling(p) + 1]
    OBVIOUS
  <1> HIDE DEF step
  <1>2. CASE p % 2 = 1
    <2>1. ~b /\ Sibling(p) + 1 = p
      BY <1>2 DEF Sibling
    <2>2. Level(d, j + 1)[p \div 2 + 1] = nodeHash(Level(d, j)[p], Level(d, j)[p + 1])
      BY <1>0, <1>2, Zenon DEF Parent
    <2>3. Fold(Level(d, j)[p + 1], step) = nodeHash(step.hash, Level(d, j)[p + 1])
      BY <1>1, <2>1, Zenon DEF Fold
    <2> QED BY <1>1, <2>1, <2>2, <2>3, Zenon DEF step
  <1>3. CASE p % 2 # 1
    <2>1. p % 2 = 0 /\ p + 1 < Len(Level(d, j))
      BY <1>3
    <2>2. b /\ Sibling(p) + 1 = p + 2
      BY <2>1 DEF Sibling
    <2>3. Level(d, j + 1)[p \div 2 + 1] = nodeHash(Level(d, j)[p + 1], Level(d, j)[p + 2])
      BY <1>0, <2>1, Zenon DEF Parent
    <2>4. Fold(Level(d, j)[p + 1], step) = nodeHash(Level(d, j)[p + 1], step.hash)
      BY <1>1, <2>2, Zenon DEF Fold
    <2> QED BY <1>1, <2>2, <2>3, <2>4, Zenon DEF step
  <1> QED BY <1>2, <1>3, Zenon

\* The steps a proof from the tree of d may have.
StepsOf(d) == {[hash |-> Level(d, j)[i], isRight |-> b] : j \in Nat, i \in Int, b \in BOOLEAN}

\* r is a with x at its end.
OneMore(a, x, r) ==
    Len(r) = Len(a) + 1 /\ r[Len(a) + 1] = x /\ \A i \in 1..Len(a) : r[i] = a[i]

\* One more element.
LEMMA ConcatOne ==
    ASSUME NEW U, NEW a \in Seq(U), NEW m \in Seq(U)
    PROVE  a \o m \in Seq(U) /\ (Len(m) = 1 => OneMore(a, m[1], a \o m))
  <1>1. a \o m \in Seq(U)
    OBVIOUS
  <1>2. Len(a \o m) = Len(a) + Len(m) /\ Len(a) \in Nat
    OBVIOUS
  <1>3. \A i \in 1..Len(a) : (a \o m)[i] = a[i]
    OBVIOUS
  <1>4. Len(m) = 1 => (a \o m)[Len(a) + 1] = m[1]
    OBVIOUS
  <1> QED BY <1>1, <1>2, <1>3, <1>4, Zenon DEF OneMore

\* After j rounds Tree.Proof is at the node that proofSideSequence is at, its
\* steps have the markers, and they lead from the leaf to that node.
PathOk(d, index, j) ==
    LET s == Side(index, Len(d), j)
        t == Path(New(d), index, j)
    IN  /\ t.idx = s.idx /\ t.steps \in Seq(StepsOf(d)) /\ Len(t.steps) = Len(s.sides)
        /\ \A i \in 1..Len(t.steps) : t.steps[i].isRight = s.sides[i]
        /\ Folded(d[index + 1], t.steps, Len(t.steps)) = Level(d, j)[s.idx + 1]

\* The first round starts at the leaf.
LEMMA PathStarts ==
    ASSUME NEW T, NEW d \in Seq(T), Len(d) >= 1, NEW index \in Nat, index < Len(d)
    PROVE  PathOk(d, index, 0)
  <1> DEFINE s == Side(index, Len(d), 0)
             t == Path(New(d), index, 0)
  <1>1. t = [idx |-> index, steps |-> <<>>]
    BY PathEquations, Zenon
  <1>2. s = [idx |-> index, count |-> Len(d), sides |-> <<>>]
    BY SideEquations, Zenon
  <1>3. Level(d, 0)[index + 1] = leafHash(d[index + 1])
    <2>1. Level(d, 0) = [i \in 1..Len(d) |-> leafHash(d[i])]
      BY LevelEquations, Zenon
    <2>2. index + 1 \in 1..Len(d)
      OBVIOUS
    <2> QED BY <2>1, <2>2, Zenon
  <1>4. Folded(d[index + 1], <<>>, 0) = leafHash(d[index + 1])
    BY FoldedEquations, Zenon
  <1> HIDE DEF s, t
  <1>5. t.idx = index /\ s.idx = index
    BY <1>1, <1>2, Zenon
  <1>6. t.steps = <<>> /\ s.sides = <<>>
    BY <1>1, <1>2, Zenon
  <1>7. <<>> \in Seq(StepsOf(d)) /\ Len(<<>>) = 0
    OBVIOUS
  <1>8. \A i \in 1..Len(t.steps) : t.steps[i].isRight = s.sides[i]
    BY <1>6, <1>7
  <1>9. /\ t.steps \in Seq(StepsOf(d)) /\ Len(t.steps) = Len(s.sides)
        /\ Folded(d[index + 1], t.steps, Len(t.steps)) = Level(d, 0)[s.idx + 1]
    BY <1>3, <1>4, <1>5, <1>6, <1>7, Zenon
  <1> QED BY <1>5, <1>8, <1>9, Zenon DEF PathOk, s, t

\* Every round keeps it so.
LEMMA PathGoesOn ==
    ASSUME NEW T, NEW d \in Seq(T), Len(d) >= 1, NEW index \in Nat, NEW j \in Nat,
           j < Height(d), SideOk(d, index, j), SideStep(d, index, j), PathOk(d, index, j)
    PROVE  PathOk(d, index, j + 1)
  <1> DEFINE s == Side(index, Len(d), j)
             s1 == Side(index, Len(d), j + 1)
             t == Path(New(d), index, j)
             t1 == Path(New(d), index, j + 1)
             p == s.idx
             a == t.steps
             leaf == d[index + 1]
             c == Len(Level(d, j))
             h == Level(d, j)[Sibling(p) + 1]
  <1>1. t1 = PathUp(Level(d, j), t)
    <2>1. j \in 0..Height(d)
      BY HeightIs
    <2>2. New(d)[j + 1] = Level(d, j)
      BY <2>1, NewIs, Zenon
    <2> QED BY <2>2, PathEquations, Zenon
  <1>2. /\ t.idx = p /\ a \in Seq(StepsOf(d)) /\ Len(a) = Len(s.sides)
        /\ \A i \in 1..Len(a) : a[i].isRight = s.sides[i]
        /\ Folded(leaf, a, Len(a)) = Level(d, j)[p + 1]
    BY Zenon DEF PathOk
  <1>3. p \in Nat /\ p < c /\ s.sides \in Seq(BOOLEAN)
    BY Zenon DEF SideOk
  <1>4. s1.idx = p \div 2 /\ s1.sides = s.sides \o Marks(p, c)
    BY Zenon DEF SideStep
  <1>5. Parent(d, j, p)
    BY <1>3, ParentIs, Zenon
  <1> DEFINE q == a \o StepAt(Level(d, j), p)
  <1>6. t1 = [idx |-> p \div 2, steps |-> q]
    BY <1>1, <1>2, Zenon DEF PathUp
  <1> HIDE DEF s, s1, t, t1, p, a, leaf, c, h, q
  <1>7. t1.idx = p \div 2
    BY <1>6, Zenon
  <1>8. t1.steps = q
    BY <1>6, Zenon
  <1>9. Len(a) \in Nat
    BY <1>2
  <1>10. CASE p % 2 = 1 \/ p + 1 < c
    <2> DEFINE b == p % 2 = 0
               x == [hash |-> h, isRight |-> b]
    <2>1. b \in BOOLEAN /\ (b <=> p % 2 = 0)
      OBVIOUS
    <2>2. StepAt(Level(d, j), p) = <<x>>
      BY <1>10, Zenon DEF StepAt, c, h
    <2>3. Marks(p, c) = <<b>>
      BY <1>10, MarksAre, Zenon
    <2> HIDE DEF b
    <2>4. x \in StepsOf(d)
      <3>1. Sibling(p) + 1 \in Int
        BY <1>3 DEF Sibling
      <3> QED BY <2>1, <3>1 DEF StepsOf, h
    <2>5. x.isRight = b
      OBVIOUS
    <2>6. Fold(Level(d, j)[p + 1], x) = Level(d, j + 1)[p \div 2 + 1]
      BY <1>3, <1>10, <2>1, StepUp, Zenon DEF c, h
    <2> HIDE DEF x
    <2>7. q \in Seq(StepsOf(d)) /\ OneMore(a, x, q)
      <3>1. <<x>> \in Seq(StepsOf(d)) /\ Len(<<x>>) = 1 /\ <<x>>[1] = x
        BY <2>4
      <3> QED BY <1>2, <2>2, <3>1, ConcatOne, Zenon DEF q
    <2>8. OneMore(s.sides, b, s1.sides)
      <3>1. <<b>> \in Seq(BOOLEAN) /\ Len(<<b>>) = 1 /\ <<b>>[1] = b
        BY <2>1
      <3> QED BY <1>3, <1>4, <2>3, <3>1, ConcatOne, Zenon
    <2>9. Len(q) = Len(a) + 1 /\ q[Len(a) + 1] = x /\ \A i \in 1..Len(a) : q[i] = a[i]
      BY <2>7, Zenon DEF OneMore
    <2>10. /\ Len(s1.sides) = Len(a) + 1 /\ s1.sides[Len(a) + 1] = b
           /\ \A i \in 1..Len(a) : s1.sides[i] = s.sides[i]
      BY <1>2, <2>8, Zenon DEF OneMore
    <2>11. ASSUME NEW i \in 1..(Len(a) + 1) PROVE q[i].isRight = s1.sides[i]
      <3>1. CASE i = Len(a) + 1
        BY <2>5, <2>9, <2>10, <3>1, Zenon
      <3>2. CASE i # Len(a) + 1
        <4>1. i \in 1..Len(a)
          BY <1>9, <3>2
        <4> QED BY <1>2, <2>9, <2>10, <4>1, Zenon
      <3> QED BY <3>1, <3>2, Zenon
    <2>12. Folded(leaf, q, Len(a) + 1) = Fold(Folded(leaf, q, Len(a)), q[Len(a) + 1])
      BY <1>9, FoldedEquations, Zenon
    <2>13. Folded(leaf, q, Len(a)) = Folded(leaf, a, Len(a))
      BY <1>9, <2>9, FoldedPrefix, Zenon
    <2>14. Folded(leaf, q, Len(q)) = Level(d, j + 1)[s1.idx + 1]
      BY <1>2, <1>4, <2>6, <2>9, <2>12, <2>13, Zenon
    <2>15. t1.idx = s1.idx /\ Len(q) = Len(s1.sides)
      BY <1>4, <1>7, <2>9, <2>10, Zenon
    <2>16. \A i \in 1..Len(q) : q[i].isRight = s1.sides[i]
      BY <2>9, <2>11, Zenon
    <2> QED BY <1>8, <2>7, <2>14, <2>15, <2>16, Zenon DEF PathOk, s1, t1, leaf
  <1>11. CASE ~(p % 2 = 1 \/ p + 1 < c)
    <2>1. StepAt(Level(d, j), p) = <<>> /\ Marks(p, c) = <<>>
      BY <1>11, MarksAre, Zenon DEF StepAt, c
    <2>2. q = a /\ s1.sides = s.sides
      BY <1>2, <1>3, <1>4, <2>1 DEF q
    <2>3. p % 2 = 0 /\ ~(p + 1 < c)
      BY <1>3, <1>11
    <2>4. Level(d, j + 1)[p \div 2 + 1] = Level(d, j)[p + 1]
      BY <1>5, <2>3, Zenon DEF Parent, c
    <2>5. t1.idx = s1.idx /\ Folded(leaf, q, Len(q)) = Level(d, j + 1)[s1.idx + 1]
      BY <1>2, <1>4, <1>7, <2>2, <2>4, Zenon
    <2> QED BY <1>2, <1>8, <2>2, <2>5, Zenon DEF PathOk, s1, t1, leaf
  <1> QED BY <1>10, <1>11, Zenon

\* So the last round is as it should be.
LEMMA PathEnds ==
    ASSUME NEW T, NEW d \in Seq(T), Len(d) >= 1, 2 * Len(d) < Modulus,
           NEW index \in Nat, index < Len(d)
    PROVE  PathOk(d, index, Height(d)) /\ Proof(New(d), index) = Path(New(d), index, Height(d)).steps
  <1> DEFINE h == Height(d)
             S == {j \in Nat : j <= h => PathOk(d, index, j)}
  <1>1. h \in Nat /\ Len(Level(d, h)) = 1 /\ Len(d) \in Nat
    BY HeightIs
  <1>2. 0 \in S
    BY PathStarts, Zenon
  <1>3. ASSUME NEW j \in Nat, j \in S PROVE j + 1 \in S
    <2> SUFFICES ASSUME j + 1 <= h PROVE PathOk(d, index, j + 1)
      OBVIOUS
    <2>1. j < h /\ j <= h /\ PathOk(d, index, j)
      BY <1>1, <1>3
    <2>2. SideOk(d, index, j) /\ SideStep(d, index, j)
      BY <2>1, SideFollows, Zenon
    <2> QED BY <2>1, <2>2, PathGoesOn, Zenon
  <1> HIDE DEF S
  <1>4. \A j \in Nat : j \in S
    <2>1. S \subseteq Nat
      BY Zenon DEF S
    <2> QED BY <1>2, <1>3, <2>1, InductionNext
  <1>5. h <= h
    BY <1>1
  <1>6. PathOk(d, index, h)
    BY <1>1, <1>4, <1>5, Zenon DEF S
  <1>7. Proof(New(d), index) = Path(New(d), index, h).steps
    BY <1>1, NewIs DEF Proof
  <1> QED BY <1>6, <1>7, Zenon

\* Tree.Proof makes a sequence of steps.
LEMMA ProofIsSequence ==
    ASSUME NEW T, NEW d \in Seq(T), Len(d) >= 1, 2 * Len(d) < Modulus,
           NEW index \in Nat, index < Len(d)
    PROVE  Proof(New(d), index) \in Seq(StepsOf(d))
  <1>1. PathOk(d, index, Height(d)) /\ Proof(New(d), index) = Path(New(d), index, Height(d)).steps
    BY PathEnds, Zenon
  <1> QED BY <1>1, Zenon DEF PathOk

\* merkle.VerifyInclusion accepts the path Tree.Proof makes, for every leaf of
\* every tree whose size an int can double.
THEOREM ProofVerifies ==
    ASSUME NEW T, NEW d \in Seq(T), Len(d) >= 1, 2 * Len(d) < Modulus,
           NEW index \in Nat, index < Len(d)
    PROVE  VerifyInclusion(Root(New(d)), index, Len(d), d[index + 1], Proof(New(d), index)) = "ok"
  <1> DEFINE h == Height(d)
  <1>1. h \in Nat /\ Len(Level(d, h)) = 1 /\ Len(d) \in Nat
    BY HeightIs
  <1>2. h <= h
    BY <1>1
  <1>3. PathOk(d, index, h)
    BY PathEnds, Zenon
  <1>4. SideOk(d, index, h)
    BY <1>1, <1>2, SideFollows, Zenon
  <1> DEFINE steps == Proof(New(d), index)
             sides == Side(index, Len(d), h).sides
             p == Side(index, Len(d), h).idx
  <1>5. steps = Path(New(d), index, h).steps
    BY PathEnds, Zenon
  <1>6. /\ steps \in Seq(StepsOf(d)) /\ Len(steps) = Len(sides)
        /\ \A i \in 1..Len(steps) : steps[i].isRight = sides[i]
        /\ Folded(d[index + 1], steps, Len(steps)) = Level(d, h)[p + 1]
    BY <1>3, <1>5, Zenon DEF PathOk
  <1>7. p = 0 /\ sides \in Seq(BOOLEAN)
    BY <1>1, <1>4 DEF SideOk
  <1> HIDE DEF steps, sides, p
  <1>8. Verify(Root(New(d)), d[index + 1], steps)
    BY <1>6, <1>7, NewIs DEF Verify
  <1>9. [i \in DOMAIN steps |-> steps[i].isRight] = sides
    <2>1. DOMAIN steps = 1..Len(steps) /\ Len(steps) \in Nat
      BY <1>6
    <2>2. sides = [i \in 1..Len(sides) |-> sides[i]]
      BY <1>7
    <2> QED BY <1>6, <2>1, <2>2, Zenon
  <1>10. sides = proofSideSequence(index, Len(d))
    BY SidesFinal, Zenon DEF sides
  <1>11. ~(index >= Len(d))
    BY <1>1
  <1> QED BY <1>8, <1>9, <1>10, <1>11, Zenon DEF VerifyInclusion, steps

------------------------------------------------------------------------------
(* The split the code computes.                                            *)

\* A quarter of the range of the integers.
Quarter == TwoTo(IntBits - 2)

\* The range is four times that.
LEMMA FourQuarters ==
    /\ IntBits - 2 \in Nat /\ Quarter \in Nat /\ 1 <= Quarter /\ Modulus = 4 * Quarter
    /\ TwoTo(IntBits - 1) = 2 * Quarter
  <1>1. IntBits - 2 \in Nat /\ (IntBits - 2) + 1 = IntBits - 1 /\ IntBits - 1 \in Nat
        /\ (IntBits - 1) + 1 = IntBits
    BY IntBitsAssumption
  <1>2. Quarter \in Nat /\ 1 <= Quarter /\ TwoTo((IntBits - 2) + 1) = 2 * Quarter
    BY <1>1, TwoToPositive, Zenon DEF Quarter
  <1>3. TwoTo((IntBits - 1) + 1) = 2 * TwoTo(IntBits - 1)
    BY <1>1, TwoToPositive, Zenon
  <1> QED BY <1>1, <1>2, <1>3 DEF Modulus

\* What an int makes of a number below half the range, of half the range, and of
\* both its ends.
LEMMA AsIntValues ==
    /\ \A x \in Nat : x < 2 * Quarter => AsInt(x) = x
    /\ AsInt(2 * Quarter) = -(2 * Quarter)
    /\ AsInt(4 * Quarter) = 0
    /\ AsInt(-(4 * Quarter)) = 0
  <1> DEFINE M == 4 * Quarter
  <1>1. Quarter \in Nat /\ 1 <= Quarter /\ M \in Nat /\ M > 0 /\ Modulus = M
    BY FourQuarters
  <1>2. ASSUME NEW x \in Nat, x < 2 * Quarter PROVE AsInt(x) = x
    <2>1. x < M /\ 2 * x < M
      BY <1>1, <1>2
    <2> HIDE DEF M
    <2>2. x % M = x
      BY <1>1, <2>1
    <2> QED BY <1>1, <2>1, <2>2, Zenon DEF AsInt
  <1>3. AsInt(2 * Quarter) = -(2 * Quarter)
    <2>1. (2 * Quarter) % M = 2 * Quarter
      <3> DEFINE x == 2 * Quarter
      <3>1. x \in Nat /\ x < M
        BY <1>1
      <3> HIDE DEF M, x
      <3>2. x % M = x
        BY <1>1, <3>1
      <3> QED BY <3>2, Zenon DEF x
    <2> QED BY <1>1, <2>1 DEF AsInt
  <1>4. M % M = 0 /\ (-M) % M = 0
    <2> HIDE DEF M
    <2> QED BY <1>1
  <1>5. AsInt(M) = 0 /\ AsInt(-M) = 0
    <2> HIDE DEF M
    <2> QED BY <1>1, <1>4 DEF AsInt
  <1> QED BY <1>2, <1>3, <1>5, Zenon

\* The loop doubles as long as the result is at most a quarter of the range; then
\* it wraps and stays at or below zero.
LEMMA DoubledOnce ==
    ASSUME NEW i \in 0..IntBits
    PROVE  /\ i <= IntBits - 3 => /\ Doubled[i] = TwoTo(i)
                                  /\ AsInt(2 * Doubled[i]) = 2 * TwoTo(i)
                                  /\ 2 * TwoTo(i) <= Quarter
           /\ i > IntBits - 3 => AsInt(2 * Doubled[i]) <= 0
  <1>1. IntBits \in Nat /\ i \in Nat /\ TwoTo(i) \in Nat /\ Doubled[i] = AsInt(TwoTo(i))
    BY IntBitsAssumption, TwoToPositive DEF Doubled
  <1>2. Quarter \in Nat /\ 1 <= Quarter /\ TwoTo(IntBits - 1) = 2 * Quarter
        /\ TwoTo(IntBits - 2) = Quarter /\ TwoTo(IntBits) = 4 * Quarter /\ IntBits - 2 \in Nat
    BY FourQuarters, Zenon DEF Quarter, Modulus
  <1>3. CASE i <= IntBits - 3
    <2>1. i < IntBits - 2
      BY <1>1, <1>3
    <2>2. 2 * TwoTo(i) <= Quarter
      BY <1>1, <1>2, <2>1, TwoToMonotone, Zenon
    <2>3. TwoTo(i) < 2 * Quarter /\ 2 * TwoTo(i) < 2 * Quarter /\ 2 * TwoTo(i) \in Nat
      BY <1>1, <1>2, <2>2
    <2>4. Doubled[i] = TwoTo(i) /\ AsInt(2 * TwoTo(i)) = 2 * TwoTo(i)
      BY <1>1, <2>3, AsIntValues, Zenon
    <2> QED BY <1>1, <1>3, <2>2, <2>4
  <1>4. CASE i = IntBits - 2
    <2>1. Doubled[i] = Quarter
      BY <1>1, <1>2, <1>4, AsIntValues
    <2>2. AsInt(2 * Doubled[i]) = -(2 * Quarter)
      BY <2>1, AsIntValues, Zenon
    <2> QED BY <1>1, <1>2, <1>4, <2>2
  <1>5. CASE i = IntBits - 1
    <2>1. Doubled[i] = -(2 * Quarter)
      BY <1>1, <1>2, <1>5, AsIntValues, Zenon
    <2>2. 2 * Doubled[i] = -(4 * Quarter)
      BY <1>2, <2>1
    <2>3. AsInt(2 * Doubled[i]) = 0
      BY <2>2, AsIntValues, Zenon
    <2> QED BY <1>1, <1>5, <2>3
  <1>6. CASE i = IntBits
    <2>1. Doubled[i] = 0
      BY <1>1, <1>2, <1>6, AsIntValues, Zenon
    <2>2. AsInt(2 * 0) = 0
      <3>1. 0 < 2 * Quarter /\ 2 * 0 = 0
        BY <1>2
      <3> QED BY <3>1, AsIntValues, Zenon
    <2> QED BY <1>1, <1>6, <2>1, <2>2
  <1> QED BY <1>1, <1>3, <1>4, <1>5, <1>6

\* For every size of two leaves or more up to a quarter of the range
\* largestPow2LessThan returns the split of RFC 6962; above, it does not return.
LEMMA LoopIs ==
    ASSUME NEW n \in Int, n >= 2
    PROVE  /\ n <= Quarter => largestPow2LessThan(n) = Split(n)
           /\ n > Quarter => largestPow2LessThan(n) = Never
  <1> DEFINE ends == {i \in 0..IntBits : AsInt(2 * Doubled[i]) >= n}
  <1>1. IntBits \in Nat /\ Quarter \in Nat
    BY IntBitsAssumption, FourQuarters, Zenon
  <1>2. ASSUME NEW i \in ends PROVE i <= IntBits - 3 /\ 2 * TwoTo(i) >= n
    <2>1. i \in 0..IntBits /\ i \in Nat /\ AsInt(2 * Doubled[i]) >= n
      BY <1>1
    <2>2. ~(i > IntBits - 3)
      <3>1. i > IntBits - 3 => AsInt(2 * Doubled[i]) <= 0
        BY <2>1, DoubledOnce, Zenon
      <3> DEFINE v == AsInt(2 * Doubled[i])
      <3>2. v >= n /\ (i > IntBits - 3 => v <= 0)
        BY <2>1, <3>1, Zenon
      <3>3. v \in Int
        <4>1. Modulus \in Nat /\ Modulus > 0
          BY FourQuarters
        <4>2. Doubled[i] = AsInt(TwoTo(i)) /\ TwoTo(i) \in Int
          BY <2>1, TwoToPositive DEF Doubled
        <4>3. Doubled[i] \in Int
          BY <4>1, <4>2 DEF AsInt
        <4> QED BY <4>1, <4>3 DEF AsInt
      <3> HIDE DEF v
      <3> QED BY <3>2, <3>3
    <2>3. i <= IntBits - 3
      BY <1>1, <2>1, <2>2
    <2> QED BY <2>1, <2>3, DoubledOnce, Zenon
  <1>3. ASSUME NEW i \in 0..IntBits, i <= IntBits - 3, 2 * TwoTo(i) >= n PROVE i \in ends
    BY <1>3, DoubledOnce, Zenon
  <1>4. CASE n > Quarter
    <2>1. ends = {}
      <3> SUFFICES ASSUME NEW i \in ends PROVE FALSE
        OBVIOUS
      <3>1. 2 * TwoTo(i) <= Quarter /\ 2 * TwoTo(i) >= n /\ TwoTo(i) \in Nat
        BY <1>2, DoubledOnce, TwoToPositive
      <3> HIDE DEF ends
      <3> QED BY <1>1, <1>4, <3>1
    <2> QED BY <1>1, <1>4, <2>1 DEF largestPow2LessThan, AtEnd
  <1>5. CASE n <= Quarter
    <2>1. ends # {}
      <3>1. IntBits - 3 \in 0..IntBits
        <4>1. IntBits # 2
          BY <1>5, TwoToZero DEF Quarter
        <4> QED BY <4>1, IntBitsAssumption
      <3>2. TwoTo((IntBits - 3) + 1) = 2 * TwoTo(IntBits - 3) /\ (IntBits - 3) + 1 = IntBits - 2
        <4>1. IntBits - 3 \in Nat /\ (IntBits - 3) + 1 = IntBits - 2
          BY <1>1, <3>1
        <4> QED BY <4>1, TwoToPositive, Zenon
      <3>3. 2 * TwoTo(IntBits - 3) >= n
        BY <1>1, <1>5, <3>2, Zenon DEF Quarter
      <3>4. IntBits - 3 <= IntBits - 3
        BY <1>1
      <3>5. IntBits - 3 \in ends
        BY <1>3, <3>1, <3>3, <3>4, Zenon
      <3> QED BY <3>5, Zenon
    <2> DEFINE i == CHOOSE i \in ends : \A j \in ends : i <= j
    <2>2. i \in ends /\ \A j \in ends : i <= j
      <3>1. ends \subseteq Nat
        BY <1>1
      <3> HIDE DEF ends
      <3>2. \E k \in ends : \A j \in ends : k <= j
        BY <2>1, <3>1, Least, Zenon
      <3> QED BY <3>2, Zenon
    <2>3. largestPow2LessThan(n) = Doubled[i]
      BY <2>1, Zenon DEF largestPow2LessThan, AtEnd
    <2> HIDE DEF i
    <2>4. i \in 0..IntBits /\ i \in Nat /\ i <= IntBits - 3 /\ 2 * TwoTo(i) >= n /\ TwoTo(i) \in Nat
      <3>1. i \in 0..IntBits /\ i \in Nat
        BY <1>1, <2>2
      <3> QED BY <1>2, <2>2, <3>1, TwoToPositive, Zenon
    <2>5. Doubled[i] = TwoTo(i)
      BY <2>4, DoubledOnce, Zenon
    <2>6. TwoTo(i) < n
      <3>1. CASE i = 0
        BY <3>1, TwoToZero
      <3>2. CASE i # 0
        <4>1. i - 1 \in 0..IntBits /\ i - 1 <= IntBits - 3 /\ (i - 1) + 1 = i /\ i - 1 \in Nat
          BY <1>1, <2>4, <3>2
        <4>2. TwoTo(i) = 2 * TwoTo(i - 1) /\ TwoTo(i - 1) \in Nat
          BY <4>1, TwoToPositive, Zenon
        <4>3. i - 1 \notin ends
          <5> HIDE DEF ends
          <5> QED BY <2>2, <2>4, <4>1
        <4>4. ~(2 * TwoTo(i - 1) >= n)
          <5> HIDE DEF ends
          <5> QED BY <1>3, <4>1, <4>3, Zenon
        <4> QED BY <4>2, <4>4
      <3> QED BY <3>1, <3>2, Zenon
    <2>7. IsSplit(TwoTo(i), n) /\ n \in Nat
      BY <2>4, <2>6 DEF IsSplit
    <2>8. IsSplit(Split(n), n)
      BY <2>7, SplitIs, Zenon
    <2>9. TwoTo(i) = Split(n)
      BY <2>7, <2>8, SplitUnique, Zenon
    <2> QED BY <1>1, <1>5, <2>3, <2>5, <2>9
  <1> QED BY <1>1, <1>4, <1>5, Zenon

\* merkle.VerifyConsistency does not return exactly when the claimed sizes pass
\* its range check and the new one is above a quarter of the range.
THEOREM LoopsAbove ==
    \A m \in Int, n \in Int : Loops(m, n) <=> m > 0 /\ m < n /\ n > TwoTo(IntBits - 2)
  <1> TAKE m \in Int, n \in Int
  <1>1. CASE m > 0 /\ m < n
    <2>1. n >= 2
      BY <1>1
    <2>2. Split(n) # Never
      BY <2>1, SplitIs DEF Never
    <2>3. Quarter \in Nat
      BY FourQuarters, Zenon
    <2>4. n <= Quarter => largestPow2LessThan(n) = Split(n)
      BY <2>1, LoopIs, Zenon
    <2>5. n > Quarter => largestPow2LessThan(n) = Never
      BY <2>1, LoopIs, Zenon
    <2> QED BY <1>1, <2>2, <2>3, <2>4, <2>5 DEF Loops, Quarter
  <1>2. CASE ~(m > 0 /\ m < n)
    BY <1>2, Zenon DEF Loops
  <1> QED BY <1>1, <1>2, Zenon

------------------------------------------------------------------------------
(* Consistency proofs: what VerifyConsistency accepts is a prefix.         *)

\* verifySubproof is the function VerifyDef describes.
VerifyIs(f, old, steps) ==
    /\ f = [n \in Nat |-> VerifyDef([old |-> old, steps |-> steps], n, [i \in 0..(n - 1) |-> f[i]])]
    /\ \A m, n, b : verifySubproof(m, n, b, old, steps) = f[n][m][b]

\* There is one.
LEMMA VerifyFunction == \A old, steps : \E f : VerifyIs(f, old, steps)
  <1> TAKE old, steps
  <1> DEFINE x == [old |-> old, steps |-> steps]
             y == [of |-> "Verify", arg |-> x]
             below(g, n) == [i \in 0..(n - 1) |-> g[i]]
             IsF(f) == f = [n \in Nat |-> VerifyDef(x, n, below(f, n))]
  <1>1. PICK g : g = [n \in Nat |-> Step(y, n, below(g, n))]
    BY Recursive, Zenon
  <1>2. ASSUME NEW n \in Nat PROVE Step(y, n, below(g, n)) = VerifyDef(x, n, below(g, n))
    BY Zenon DEF Step
  <1>3. IsF(g)
    BY <1>1, <1>2, Zenon
  <1> DEFINE F == CHOOSE f : IsF(f)
  <1>4. IsF(F)
    BY <1>3, Zenon
  <1>5. \A m, n, b : verifySubproof(m, n, b, old, steps) = F[n][m][b]
    BY Zenon DEF verifySubproof
  <1> HIDE DEF F
  <1>6. VerifyIs(F, old, steps)
    BY <1>4, <1>5, Zenon DEF VerifyIs
  <1> QED BY <1>6, Zenon

\* What verifySubproof makes of the result for a part.
LeftOf(sub) == IF ~sub.ok THEN Fails ELSE OnLeft(sub, Take(sub.rest))
RightOf(sub) == IF ~sub.ok THEN Fails ELSE OnRight(sub, Take(sub.rest))

\* The whole range,
LEMMA VerifyWhole ==
    ASSUME NEW old, NEW steps, NEW n \in Nat, NEW b \in BOOLEAN
    PROVE  verifySubproof(n, n, b, old, steps)
             = IF b THEN [ok |-> TRUE, new |-> old, old |-> old, rest |-> steps]
               ELSE Whole(steps, Take(steps))
  <1> DEFINE x == [old |-> old, steps |-> steps]
  <1>1. PICK f : VerifyIs(f, old, steps)
    BY VerifyFunction, Zenon
  <1> DEFINE g == [j \in 0..(n - 1) |-> f[j]]
  <1>2. f[n] = VerifyDef(x, n, g)
    BY <1>1, Zenon DEF VerifyIs
  <1>3. x.old = old /\ x.steps = steps
    OBVIOUS
  <1> HIDE DEF g, x
  <1>4. VerifyDef(x, n, g)[n][b]
          = IF b THEN [ok |-> TRUE, new |-> x.old, old |-> x.old, rest |-> x.steps]
            ELSE Whole(x.steps, Take(x.steps))
    BY Zenon DEF VerifyDef
  <1>5. verifySubproof(n, n, b, old, steps) = f[n][n][b]
    BY <1>1, Zenon DEF VerifyIs
  <1> QED BY <1>2, <1>3, <1>4, <1>5, Zenon

\* and its parts.
Parts(m, n, b, old, steps) ==
    LET k == largestPow2LessThan(n)
    IN  /\ m <= k => verifySubproof(m, n, b, old, steps)
                       = LeftOf(verifySubproof(m, k, b, old, steps))
        /\ m > k => verifySubproof(m, n, b, old, steps)
                      = RightOf(verifySubproof(m - k, n - k, FALSE, old, steps))

\* The recursion goes on with one of the parts.
LEMMA VerifyParts ==
    ASSUME NEW old, NEW steps, NEW m \in Nat, NEW n \in Nat, NEW b \in BOOLEAN, m # n,
           largestPow2LessThan(n) \in Nat, 1 <= largestPow2LessThan(n), largestPow2LessThan(n) < n
    PROVE  Parts(m, n, b, old, steps)
  <1> DEFINE x == [old |-> old, steps |-> steps]
             k == largestPow2LessThan(n)
             no == FALSE
  <1>1. PICK f : VerifyIs(f, old, steps)
    BY VerifyFunction, Zenon
  <1> DEFINE g == [j \in 0..(n - 1) |-> f[j]]
  <1>2. f[n] = VerifyDef(x, n, g)
    BY <1>1, Zenon DEF VerifyIs
  <1>3. k \in 0..(n - 1) /\ n - k \in 0..(n - 1)
    OBVIOUS
  <1>4. g[k] = f[k] /\ g[n - k] = f[n - k]
    BY <1>3, Zenon
  <1> HIDE DEF g, x
  <1>5. m <= k => VerifyDef(x, n, g)[m][b] = LeftOf(g[k][m][b])
    BY Zenon DEF VerifyDef, LeftOf
  <1>6. ASSUME m > k PROVE VerifyDef(x, n, g)[m][b] = RightOf(g[n - k][m - k][no])
    <2>1. ~(m <= k)
      BY <1>6
    <2> QED BY <2>1, Zenon DEF VerifyDef, RightOf
  <1>7. \A l, i, c : verifySubproof(l, i, c, old, steps) = f[i][l][c]
    BY <1>1, Zenon DEF VerifyIs
  <1> HIDE DEF k, no
  <1>8. m <= k => verifySubproof(m, n, b, old, steps)
                    = LeftOf(verifySubproof(m, k, b, old, steps))
    BY <1>2, <1>4, <1>5, <1>7
  <1>9. ASSUME m > k
        PROVE  verifySubproof(m, n, b, old, steps)
                 = RightOf(verifySubproof(m - k, n - k, no, old, steps))
    <2>1. VerifyDef(x, n, g)[m][b] = RightOf(g[n - k][m - k][no])
      BY <1>6, <1>9, Zenon
    <2>2. verifySubproof(m, n, b, old, steps) = RightOf(g[n - k][m - k][no])
      BY <1>2, <1>7, <2>1
    <2>3. verifySubproof(m - k, n - k, no, old, steps) = f[n - k][m - k][no]
      BY <1>7, Zenon
    <2> QED BY <1>4, <2>2, <2>3, Zenon
  <1> QED BY <1>8, <1>9, Zenon DEF k, no, Parts

\* The leaves of e from l on, m of them, are the first of the n leaves of d from
\* lo on.
PrefixLeaves(e, l, m, d, lo, n) == m <= n /\ \A i \in 1..m : d[lo + i] = e[l + i]

\* The claimed sizes for which the code returns.
Returns(m, n) == m >= 1 /\ m <= n /\ (m = n \/ n <= Quarter)

\* A result of verifySubproof says that the old range is a prefix of the new one.
Tells(v, e, l, M, d, lo, N) ==
    v.ok /\ M >= 1 /\ N >= 1 /\ v.new = RangeHash(d, lo, N) /\ v.old = RangeHash(e, l, M) =>
        PrefixLeaves(e, l, M, d, lo, N)

\* It does when both hashes are one,
LEMMA TellsWhole ==
    ASSUME NEW v, NEW e, NEW l \in Nat, NEW M \in Nat, NEW d, NEW lo \in Nat, NEW N \in Nat,
           v.ok => v.new = v.old
    PROVE  Tells(v, e, l, M, d, lo, N)
  <1> SUFFICES ASSUME v.ok, M >= 1, N >= 1, v.new = RangeHash(d, lo, N), v.old = RangeHash(e, l, M)
               PROVE  PrefixLeaves(e, l, M, d, lo, N)
    BY Zenon DEF Tells
  <1>1. RangeHash(d, lo, N) = RangeHash(e, l, M)
    OBVIOUS
  <1>2. SameLeaves(d, lo, N, e, l, M)
    BY <1>1, SameHash, Zenon
  <1> QED BY <1>2 DEF SameLeaves, PrefixLeaves

\* when the result for the left part does,
LEMMA TellsLeft ==
    ASSUME NEW sub, NEW e, NEW l \in Nat, NEW M \in Nat, NEW d, NEW lo \in Nat, NEW N \in Nat,
           \A n \in Nat : Tells(sub, e, l, M, d, lo, n)
    PROVE  Tells(LeftOf(sub), e, l, M, d, lo, N)
  <1> DEFINE v == LeftOf(sub)
             h == Take(sub.rest).h
  <1> SUFFICES ASSUME v.ok, M >= 1, N >= 1, v.new = RangeHash(d, lo, N), v.old = RangeHash(e, l, M)
               PROVE  PrefixLeaves(e, l, M, d, lo, N)
    BY Zenon DEF Tells
  <1>1. sub.ok /\ v.new = nodeHash(sub.new, h) /\ v.old = sub.old
    BY Zenon DEF LeftOf, OnLeft, Fails
  <1> HIDE DEF v, h
  <1>2. N >= 2
    <2>1. N = 1 => v.new = leafHash(d[lo + 1])
      BY RangeHashLeaf, Zenon
    <2>2. nodeHash(sub.new, h) # leafHash(d[lo + 1])
      BY Zenon DEF nodeHash, leafHash
    <2> QED BY <1>1, <2>1, <2>2
  <1> DEFINE k == Split(N)
  <1>3. k \in Nat /\ 1 <= k /\ k < N
    BY <1>2, SplitIs, Zenon DEF IsSplit
  <1>4. RangeHash(d, lo, N) = nodeHash(RangeHash(d, lo, k), RangeHash(d, lo + k, N - k))
    BY <1>2, RangeHashNode, Zenon
  <1> HIDE DEF k
  <1>5. sub.new = RangeHash(d, lo, k)
    <2>1. nodeHash(sub.new, h) = nodeHash(RangeHash(d, lo, k), RangeHash(d, lo + k, N - k))
      BY <1>1, <1>4, Zenon
    <2> QED BY <2>1, Zenon DEF nodeHash
  <1>6. PrefixLeaves(e, l, M, d, lo, k)
    BY <1>1, <1>3, <1>5, Zenon DEF Tells
  <1> QED BY <1>3, <1>6 DEF PrefixLeaves

\* and when the result for the right part does, the left parts being one.
LEMMA TellsRight ==
    ASSUME NEW sub, NEW e, NEW l \in Nat, NEW M \in Nat, NEW d, NEW lo \in Nat, NEW N \in Nat,
           \A a, r, i, n \in Nat : Tells(sub, e, a, i, d, r, n)
    PROVE  Tells(RightOf(sub), e, l, M, d, lo, N)
  <1> DEFINE v == RightOf(sub)
             h == Take(sub.rest).h
  <1> SUFFICES ASSUME v.ok, M >= 1, N >= 1, v.new = RangeHash(d, lo, N), v.old = RangeHash(e, l, M)
               PROVE  PrefixLeaves(e, l, M, d, lo, N)
    BY Zenon DEF Tells
  <1>1. sub.ok /\ v.new = nodeHash(h, sub.new) /\ v.old = nodeHash(h, sub.old)
    BY Zenon DEF RightOf, OnRight, Fails
  <1> HIDE DEF v, h
  <1>2. N >= 2 /\ M >= 2
    <2>1. N = 1 => v.new = leafHash(d[lo + 1])
      BY RangeHashLeaf, Zenon
    <2>2. M = 1 => v.old = leafHash(e[l + 1])
      BY RangeHashLeaf, Zenon
    <2>3. nodeHash(h, sub.new) # leafHash(d[lo + 1]) /\ nodeHash(h, sub.old) # leafHash(e[l + 1])
      BY Zenon DEF nodeHash, leafHash
    <2> QED BY <1>1, <2>1, <2>2, <2>3
  <1> DEFINE k == Split(N)
             j == Split(M)
  <1>3. k \in Nat /\ 1 <= k /\ k < N /\ j \in Nat /\ 1 <= j /\ j < M
    BY <1>2, SplitIs, Zenon DEF IsSplit
  <1>4. /\ RangeHash(d, lo, N) = nodeHash(RangeHash(d, lo, k), RangeHash(d, lo + k, N - k))
        /\ RangeHash(e, l, M) = nodeHash(RangeHash(e, l, j), RangeHash(e, l + j, M - j))
    BY <1>2, RangeHashNode, Zenon
  <1> HIDE DEF k, j
  <1>5. /\ h = RangeHash(d, lo, k) /\ sub.new = RangeHash(d, lo + k, N - k)
        /\ h = RangeHash(e, l, j) /\ sub.old = RangeHash(e, l + j, M - j)
    <2>1. nodeHash(h, sub.new) = nodeHash(RangeHash(d, lo, k), RangeHash(d, lo + k, N - k))
      BY <1>1, <1>4, Zenon
    <2>2. nodeHash(h, sub.old) = nodeHash(RangeHash(e, l, j), RangeHash(e, l + j, M - j))
      BY <1>1, <1>4, Zenon
    <2>3. h = RangeHash(d, lo, k) /\ sub.new = RangeHash(d, lo + k, N - k)
      BY <2>1, Zenon DEF nodeHash
    <2>4. h = RangeHash(e, l, j) /\ sub.old = RangeHash(e, l + j, M - j)
      BY <2>2, Zenon DEF nodeHash
    <2> QED BY <2>3, <2>4, Zenon
  <1>6. k = j /\ \A i \in 1..k : d[lo + i] = e[l + i]
    <2>1. SameLeaves(d, lo, k, e, l, j)
      BY <1>3, <1>5, SameHash, Zenon
    <2> QED BY <2>1, Zenon DEF SameLeaves
  <1>7. M - j <= N - k /\ \A i \in 1..(M - j) : d[(lo + k) + i] = e[(l + j) + i]
    <2>1. lo + k \in Nat /\ l + j \in Nat /\ M - j \in Nat /\ N - k \in Nat /\ M - j >= 1 /\ N - k >= 1
      BY <1>3
    <2>2. Tells(sub, e, l + j, M - j, d, lo + k, N - k)
      BY <2>1, Zenon
    <2>3. PrefixLeaves(e, l + j, M - j, d, lo + k, N - k)
      BY <1>1, <1>5, <2>1, <2>2, Zenon DEF Tells
    <2> QED BY <2>3, Zenon DEF PrefixLeaves
  <1>8. ASSUME NEW i \in 1..M PROVE d[lo + i] = e[l + i]
    <2>1. CASE i <= k
      BY <1>3, <1>6, <2>1
    <2>2. CASE ~(i <= k)
      <3>1. i - k \in 1..(M - j) /\ (lo + k) + (i - k) = lo + i /\ (l + j) + (i - k) = l + i
        BY <1>3, <1>6, <2>2
      <3> QED BY <1>7, <3>1, Zenon
    <2> QED BY <2>1, <2>2, Zenon
  <1> QED BY <1>3, <1>6, <1>7, <1>8 DEF PrefixLeaves

\* A result that tells so for every pair of ranges.
AlwaysTells(v, e, d) == \A l, M, lo, N \in Nat : Tells(v, e, l, M, d, lo, N)

\* Every result of verifySubproof does, whatever the sizes and the nodes.
LEMMA VerifyTells ==
    ASSUME NEW d, NEW e, NEW old, NEW steps
    PROVE  \A n \in Nat : \A m \in Nat, b \in BOOLEAN :
               Returns(m, n) => AlwaysTells(verifySubproof(m, n, b, old, steps), e, d)
  <1> DEFINE V(m, n, b) == verifySubproof(m, n, b, old, steps)
             P(n) == \A m \in Nat, b \in BOOLEAN : Returns(m, n) => AlwaysTells(V(m, n, b), e, d)
             S == {n \in Nat : P(n)}
  <1>1. ASSUME NEW n \in Nat, \A i \in 0..(n - 1) : i \in S PROVE P(n)
    <2> HIDE DEF V
    <2> SUFFICES ASSUME NEW m \in Nat, NEW b \in BOOLEAN, Returns(m, n)
                 PROVE  AlwaysTells(V(m, n, b), e, d)
      OBVIOUS
    <2>1. CASE m = n
      <3>1. V(m, n, b) = IF b THEN [ok |-> TRUE, new |-> old, old |-> old, rest |-> steps]
                         ELSE Whole(steps, Take(steps))
        BY <2>1, VerifyWhole DEF V
      <3>2. V(m, n, b).ok => V(m, n, b).new = V(m, n, b).old
        BY <3>1 DEF Whole, Fails
      <3> QED BY <3>2, TellsWhole, Zenon DEF AlwaysTells
    <2>2. CASE m # n
      <3> DEFINE k == largestPow2LessThan(n)
      <3>1. n >= 2 /\ n <= Quarter /\ m >= 1 /\ m < n /\ Quarter \in Nat
        BY <2>2, FourQuarters DEF Returns
      <3>2. k = Split(n)
        BY <3>1, LoopIs
      <3>3. k \in Nat /\ 1 <= k /\ k < n
        BY <3>1, <3>2, SplitIs, Zenon DEF IsSplit
      <3>4. Parts(m, n, b, old, steps)
        BY <2>2, <3>3, VerifyParts, Zenon
      <3>5. /\ m <= k => V(m, n, b) = LeftOf(V(m, k, b))
            /\ m > k => V(m, n, b) = RightOf(V(m - k, n - k, FALSE))
        BY <3>4, Zenon DEF Parts, V
      <3> HIDE DEF k
      <3>6. P(k) /\ P(n - k)
        <4>1. k \in 0..(n - 1) /\ n - k \in 0..(n - 1)
          BY <3>3
        <4> HIDE DEF P
        <4> QED BY <1>1, <4>1, Zenon
      <3>7. CASE m <= k
        <4>1. Returns(m, k)
          BY <3>1, <3>3, <3>7 DEF Returns
        <4>2. AlwaysTells(V(m, k, b), e, d)
          BY <3>6, <4>1, Zenon
        <4> DEFINE sub == V(m, k, b)
        <4> HIDE DEF sub
        <4>3. AlwaysTells(LeftOf(sub), e, d)
          BY <4>2, TellsLeft, Zenon DEF AlwaysTells, sub
        <4> QED BY <3>5, <3>7, <4>3, Zenon DEF sub
      <3>8. CASE ~(m <= k)
        <4>1. m - k \in Nat /\ n - k \in Nat /\ Returns(m - k, n - k) /\ m > k
          BY <3>1, <3>3, <3>8 DEF Returns
        <4> DEFINE sub == V(m - k, n - k, FALSE)
        <4>2. AlwaysTells(sub, e, d)
          BY <3>6, <4>1, Zenon
        <4> HIDE DEF sub
        <4>3. AlwaysTells(RightOf(sub), e, d)
          BY <4>2, TellsRight, Zenon DEF AlwaysTells
        <4> QED BY <3>5, <4>1, <4>3, Zenon DEF sub
      <3> QED BY <3>7, <3>8, Zenon
    <2> QED BY <2>1, <2>2, Zenon
  <1> HIDE DEF P
  <1>2. \A n \in Nat : n \in S
    <2>1. \A n \in Nat : (\A i \in 0..(n - 1) : i \in S) => n \in S
      BY <1>1, Zenon
    <2>2. S \subseteq Nat
      OBVIOUS
    <2> HIDE DEF S
    <2> QED BY <2>1, <2>2, Induction, Zenon
  <1> QED BY <1>2, Zenon DEF P, V

\* When merkle.VerifyConsistency returns and accepts, the leaves under the old
\* root are the first leaves under the new root, whatever sizes were claimed and
\* whatever nodes the proof has.
THEOREM AcceptedIsPrefix ==
    ASSUME NEW T, NEW d \in Seq(T), NEW e \in Seq(T), Len(d) >= 1, Len(e) >= 1,
           NEW m \in Int, NEW n \in Int, NEW steps, ~Loops(m, n),
           VerifyConsistency(Root(New(e)), Root(New(d)), m, n, steps)
    PROVE  Len(e) <= Len(d) /\ \A i \in 1..Len(e) : d[i] = e[i]
  <1>1. CASE m = n
    <2>1. Root(New(e)) = Root(New(d))
      BY <1>1, Zenon DEF VerifyConsistency
    <2>2. d = e
      BY <2>1, RootInjective, Zenon
    <2> QED BY <2>2
  <1>2. CASE m # n
    <2> DEFINE v == verifySubproof(m, n, TRUE, Root(New(e)), steps)
    <2>1. m > 0 /\ m < n /\ v.ok /\ v.old = Root(New(e)) /\ v.new = Root(New(d))
      BY <1>2, Zenon DEF VerifyConsistency
    <2>2. n <= Quarter
      BY <2>1, LoopsAbove, FourQuarters DEF Quarter
    <2>3. m \in Nat /\ n \in Nat /\ Returns(m, n)
      BY <2>1, <2>2 DEF Returns
    <2>4. AlwaysTells(v, e, d)
      BY <2>3, VerifyTells, Zenon
    <2>5. v.old = RangeHash(e, 0, Len(e)) /\ v.new = RangeHash(d, 0, Len(d))
      BY <2>1, RootIsReference, Zenon DEF MTH
    <2> HIDE DEF v
    <2>6. PrefixLeaves(e, 0, Len(e), d, 0, Len(d))
      BY <2>1, <2>4, <2>5 DEF AlwaysTells, Tells
    <2>7. Len(e) <= Len(d) /\ \A i \in 1..Len(e) : d[0 + i] = e[0 + i]
      BY <2>6, Zenon DEF PrefixLeaves
    <2> QED BY <2>7
  <1> QED BY <1>1, <1>2, Zenon

------------------------------------------------------------------------------
(* Consistency proofs: every range the code looks up has a node.           *)

\* A smaller power of two divides a larger one.
LEMMA TwoToDivides ==
    ASSUME NEW e \in Nat
    PROVE  \A f \in Nat : e <= f => \E r \in Nat : TwoTo(f) = r * TwoTo(e)
  <1> DEFINE S == {f \in Nat : e <= f => \E r \in Nat : TwoTo(f) = r * TwoTo(e)}
  <1>1. 0 \in S
    <2> SUFFICES ASSUME e <= 0 PROVE TwoTo(0) = 1 * TwoTo(e)
      OBVIOUS
    <2> QED BY TwoToZero
  <1>2. ASSUME NEW f \in Nat, f \in S PROVE f + 1 \in S
    <2> SUFFICES ASSUME e <= f + 1 PROVE \E r \in Nat : TwoTo(f + 1) = r * TwoTo(e)
      OBVIOUS
    <2>1. CASE e = f + 1
      <3>1. TwoTo(f + 1) = 1 * TwoTo(e) /\ 1 \in Nat
        BY <2>1, TwoToPositive
      <3> QED BY <3>1, Zenon
    <2>2. CASE e # f + 1
      <3>1. PICK r \in Nat : TwoTo(f) = r * TwoTo(e)
        BY <1>2, <2>2
      <3> DEFINE w == TwoTo(e)
      <3>2. w \in Nat /\ TwoTo(f + 1) = 2 * TwoTo(f)
        BY TwoToPositive, Zenon
      <3> HIDE DEF w
      <3>3. 2 * (r * w) = (2 * r) * w /\ 2 * r \in Nat
        BY <3>2
      <3>4. TwoTo(f + 1) = (2 * r) * w
        BY <3>1, <3>2, <3>3, Zenon DEF w
      <3> QED BY <3>3, <3>4, Zenon DEF w
    <2> QED BY <2>1, <2>2, Zenon
  <1> HIDE DEF S
  <1>3. \A f \in Nat : f \in S
    <2>1. S \subseteq Nat
      BY Zenon DEF S
    <2> QED BY <1>1, <1>2, <2>1, InductionNext
  <1> QED BY <1>3, Zenon DEF S

\* The w leaves from lo on are what some node of a tree of N leaves covers: 2^e
\* of them from a multiple of 2^e on, or those that are left.
AlignedAt(N, lo, w, e, q) ==
    /\ lo = q * TwoTo(e) /\ 1 <= w /\ w <= TwoTo(e) /\ lo + w <= N
    /\ w = TwoTo(e) \/ lo + w = N

Aligned(N, lo, w) == \E e \in Nat, q \in Nat : AlignedAt(N, lo, w, e, q)

\* They lie below node p of level j.
Within(N, lo, w, j, p) ==
    p * TwoTo(j) <= lo /\ lo + w <= AtMost(p * TwoTo(j) + TwoTo(j), N)

Covers(N, lo, w, j, p) ==
    p * TwoTo(j) = lo /\ AtMost(p * TwoTo(j) + TwoTo(j), N) = lo + w

\* Multiples of a number are apart by at least that number.
LEMMA TimesApart ==
    ASSUME NEW w \in Nat, w >= 1, NEW a \in Int, NEW b \in Int
    PROVE  /\ a * w \in Int /\ b * w \in Int
           /\ a < b => a * w + w <= b * w
           /\ a >= b => a * w >= b * w
           /\ a * w < b * w + w /\ b * w <= a * w => a = b
  <1>1. a * w \in Int /\ b * w \in Int /\ (a + 1) * w = a * w + w /\ (b + 1) * w = b * w + w
    BY Doubling, Zenon
  <1>2. a < b => (a + 1) * w <= b * w
    BY TimesMonotone
  <1>3. b < a => (b + 1) * w <= a * w
    BY TimesMonotone
  <1>4. a >= b => a * w >= b * w
    BY TimesMonotone, Zenon
  <1> DEFINE x == a * w
             y == b * w
  <1>5. /\ x \in Int /\ y \in Int /\ (a < b => x + w <= y) /\ (b < a => y + w <= x)
        /\ (a >= b => x >= y)
    BY <1>1, <1>2, <1>3, <1>4, Zenon
  <1> HIDE DEF x, y
  <1>6. x < y + w /\ y <= x => a = b
    BY <1>5
  <1> QED BY <1>5, <1>6, Zenon DEF x, y

\* Below a node lies the range the node covers, or one within a half of it.
LEMMA AlignedHalf ==
    ASSUME NEW N \in Nat, NEW lo \in Nat, NEW w \in Nat, NEW j \in Nat, NEW p \in Nat,
           Aligned(N, lo, w), Within(N, lo, w, j, p)
    PROVE  \/ Covers(N, lo, w, j, p)
           \/ /\ j >= 1
              /\ \/ lo + w <= p * TwoTo(j) + TwoTo(j - 1)
                 \/ lo >= p * TwoTo(j) + TwoTo(j - 1)
  <1>1. PICK e \in Nat, q \in Nat : AlignedAt(N, lo, w, e, q)
    BY Zenon DEF Aligned
  <1> DEFINE E == TwoTo(e)
             W == TwoTo(j)
  <1>2. lo = q * E /\ 1 <= w /\ w <= E /\ lo + w <= N /\ (w = E \/ lo + w = N)
    BY <1>1, Zenon DEF AlignedAt
  <1>3. E \in Nat /\ 1 <= E /\ W \in Nat /\ 1 <= W
    BY TwoToPositive, Zenon
  <1>4. p * W <= lo /\ lo + w <= AtMost(p * W + W, N)
    BY Zenon DEF Within
  <1>5. p * W \in Nat
    <2> HIDE DEF W
    <2> QED BY <1>3, Doubling
  <1> DEFINE v == p * W
  <1>6. v \in Nat /\ v <= lo /\ lo + w <= v + W
    <2> HIDE DEF v, W
    <2>1. v \in Nat /\ v <= lo /\ lo + w <= AtMost(v + W, N)
      BY <1>4, <1>5, Zenon DEF v
    <2> QED BY <1>3, <2>1 DEF AtMost
  <1>7. CASE j <= e
    <2>1. PICK r \in Nat : E = r * W
      BY <1>7, TwoToDivides, Zenon
    <2> DEFINE c == q * r
    <2>2. c \in Nat /\ lo = c * W
      <3> HIDE DEF E, W
      <3>1. q * (r * W) = (q * r) * W /\ q * r \in Nat
        BY <1>3
      <3> QED BY <1>2, <2>1, <3>1, Zenon
    <2> HIDE DEF E, W, v, c
    <2>3. c = p
      <3>1. c * W < p * W + W /\ p * W <= c * W
        BY <1>2, <1>3, <1>6, <2>2 DEF v
      <3> QED BY <1>3, <2>2, <3>1, TimesApart
    <2>4. v = lo
      BY <2>2, <2>3, Zenon DEF v
    <2>5. W <= E
      <3>1. CASE j = e
        BY <1>3, <3>1 DEF E, W
      <3>2. CASE j # e
        <4>1. j < e
          BY <1>7, <3>2
        <4>2. 2 * W <= E
          BY <4>1, TwoToMonotone, Zenon DEF E, W
        <4> QED BY <1>3, <4>2
      <3> QED BY <3>1, <3>2, Zenon
    <2>6. AtMost(v + W, N) = lo + w
      BY <1>2, <1>3, <1>6, <2>4, <2>5 DEF AtMost
    <2> QED BY <2>4, <2>6, Zenon DEF Covers, v, W
  <1>8. CASE ~(j <= e)
    <2> DEFINE H == TwoTo(j - 1)
    <2>1. j - 1 \in Nat /\ e <= j - 1 /\ j >= 1 /\ (j - 1) + 1 = j
      BY <1>8
    <2>2. PICK r \in Nat : H = r * E
      BY <2>1, TwoToDivides, Zenon
    <2>3. H \in Nat /\ W = 2 * H
      BY <2>1, TwoToPositive, Zenon
    <2> DEFINE c == (2 * p + 1) * r
    <2>4. c \in Nat /\ v + H = c * E
      <3> HIDE DEF E, H, W
      <3>1. p * (2 * H) + H = (2 * p + 1) * H
        BY <2>3
      <3>2. (2 * p + 1) * (r * E) = ((2 * p + 1) * r) * E /\ (2 * p + 1) * r \in Nat
        BY <1>3
      <3> QED BY <2>2, <2>3, <3>1, <3>2, Zenon
    <2> HIDE DEF E, W, H, v, c
    <2>5. q < c => q * E + E <= c * E
      BY <1>3, <2>4, TimesApart
    <2>6. q >= c => q * E >= c * E
      BY <1>3, <2>4, TimesApart
    <2>7. q < c => lo + w <= v + H
      <3> DEFINE x == q * E
      <3>1. lo = x
        BY <1>2, Zenon
      <3> HIDE DEF x
      <3>2. q < c => x + E <= v + H
        BY <2>4, <2>5, Zenon DEF x
      <3> QED BY <1>2, <1>3, <1>6, <2>3, <3>1, <3>2
    <2>8. q >= c => lo >= v + H
      BY <1>2, <2>4, <2>6, Zenon
    <2>9. lo + w <= v + H \/ lo >= v + H
      BY <2>4, <2>7, <2>8
    <2> QED BY <2>1, <2>9, Zenon DEF v, W, H
  <1> QED BY <1>7, <1>8, Zenon

\* Both parts of such a range are such ranges.
LEMMA AlignedSplit ==
    ASSUME NEW N \in Nat, NEW lo \in Nat, NEW n \in Nat, n >= 2, Aligned(N, lo, n)
    PROVE  Aligned(N, lo, Split(n)) /\ Aligned(N, lo + Split(n), n - Split(n))
  <1> DEFINE k == Split(n)
  <1>1. IsSplit(k, n)
    BY SplitIs, Zenon
  <1>2. PICK f \in Nat : k = TwoTo(f)
    BY <1>1, Zenon DEF IsSplit
  <1>3. k \in Nat /\ 1 <= k /\ k < n /\ n <= 2 * k
    BY <1>1, SplitIs, Zenon DEF IsSplit
  <1>4. PICK e \in Nat, q \in Nat : AlignedAt(N, lo, n, e, q)
    BY Zenon DEF Aligned
  <1> DEFINE E == TwoTo(e)
  <1>5. lo = q * E /\ n <= E /\ lo + n <= N /\ (n = E \/ lo + n = N) /\ E \in Nat
    BY <1>4, TwoToPositive, Zenon DEF AlignedAt
  <1> HIDE DEF k
  <1>6. f < e
    <2>1. CASE e < f
      <3>1. 2 * E <= k
        BY <1>2, <2>1, TwoToMonotone, Zenon
      <3> HIDE DEF E
      <3> QED BY <1>3, <1>5, <3>1
    <2>2. CASE e = f
      BY <1>2, <1>3, <1>5, <2>2
    <2> QED BY <2>1, <2>2
  <1>7. 2 * k <= E
    BY <1>2, <1>6, TwoToMonotone, Zenon
  <1>8. PICK r \in Nat : E = r * k
    BY <1>2, <1>6, TwoToDivides
  <1> DEFINE c == q * r
  <1>9. c \in Nat /\ lo = c * k /\ lo + k = (c + 1) * k /\ c + 1 \in Nat
    <2> HIDE DEF E
    <2>1. q * (r * k) = (q * r) * k /\ q * r \in Nat /\ (q * r + 1) * k = (q * r) * k + k
      BY <1>3
    <2> QED BY <1>5, <1>8, <2>1
  <1> HIDE DEF E, c
  <1>10. AlignedAt(N, lo, k, f, c)
    <2>1. lo + k <= N
      BY <1>3, <1>5
    <2> QED BY <1>2, <1>3, <1>9, <2>1 DEF AlignedAt
  <1>11. AlignedAt(N, lo + k, n - k, f, c + 1)
    <2>1. /\ 1 <= n - k /\ n - k <= k /\ (lo + k) + (n - k) = lo + n
          /\ (n - k = k \/ lo + n = N)
      BY <1>3, <1>5, <1>7
    <2> QED BY <1>2, <1>5, <1>9, <2>1, Zenon DEF AlignedAt
  <1> QED BY <1>9, <1>10, <1>11, Zenon DEF Aligned, k

\* Descend is the function DescendDef describes.
DescendIs(f, levels, lo, hi) ==
    /\ f = [j \in Nat |-> DescendDef([levels |-> levels, lo |-> lo, hi |-> hi], j, f)]
    /\ \A j, p : Descend(levels, lo, hi, j, p) = f[j][p]

\* There is one.
LEMMA DescendFunction == \A levels, lo, hi : \E f : DescendIs(f, levels, lo, hi)
  <1> TAKE levels, lo, hi
  <1> DEFINE x == [levels |-> levels, lo |-> lo, hi |-> hi]
             y == [of |-> "Descend", arg |-> x]
             below(g, n) == [i \in 0..(n - 1) |-> g[i]]
             IsF(f) == f = [n \in Nat |-> DescendDef(x, n, f)]
  <1>1. PICK g : g = [n \in Nat |-> Step(y, n, below(g, n))]
    BY Recursive, Zenon
  <1>2. ASSUME NEW n \in Nat PROVE Step(y, n, below(g, n)) = DescendDef(x, n, g)
    <2>1. Step(y, n, below(g, n)) = DescendDef(x, n, below(g, n))
      BY Zenon DEF Step
    <2>2. DescendDef(x, n, below(g, n)) = DescendDef(x, n, g)
      <3> HIDE DEF x
      <3>1. CASE n = 0
        BY <3>1, Zenon DEF DescendDef
      <3>2. CASE n # 0
        <4>1. n - 1 \in 0..(n - 1)
          BY <3>2
        <4>2. below(g, n)[n - 1] = g[n - 1]
          BY <4>1, Zenon
        <4> HIDE DEF below
        <4> QED BY <4>2, Zenon DEF DescendDef
      <3> QED BY <3>1, <3>2, Zenon
    <2> QED BY <2>1, <2>2, Zenon
  <1>3. IsF(g)
    BY <1>1, <1>2, Zenon
  <1> DEFINE F == CHOOSE f : IsF(f)
  <1>4. IsF(F)
    BY <1>3, Zenon
  <1>5. \A n, p : Descend(levels, lo, hi, n, p) = F[n][p]
    BY Zenon DEF Descend
  <1> HIDE DEF F
  <1>6. DescendIs(F, levels, lo, hi)
    BY <1>4, <1>5, Zenon DEF DescendIs
  <1> QED BY <1>6, Zenon

\* Node p of level j covers the range.
CoverAt(levels, lo, hi, j, p) ==
    p * TwoTo(j) = lo /\ AtMost(p * TwoTo(j) + TwoTo(j), Size(levels)) = hi

\* subtree returns a node that covers the range.
LEMMA DescendHit ==
    ASSUME NEW levels, NEW lo, NEW hi, NEW j \in Nat, NEW p \in Nat, CoverAt(levels, lo, hi, j, p)
    PROVE  Descend(levels, lo, hi, j, p) = levels[j + 1][p + 1]
  <1> DEFINE x == [levels |-> levels, lo |-> lo, hi |-> hi]
  <1>1. PICK f : DescendIs(f, levels, lo, hi)
    BY DescendFunction, Zenon
  <1>2. f[j] = DescendDef(x, j, f) /\ Descend(levels, lo, hi, j, p) = f[j][p]
    BY <1>1, Zenon DEF DescendIs
  <1>3. x.levels = levels /\ x.lo = lo /\ x.hi = hi
    OBVIOUS
  <1> HIDE DEF x
  <1>4. DescendDef(x, j, f)[p] = x.levels[j + 1][p + 1]
    BY <1>3, Zenon DEF DescendDef, CoverAt
  <1> QED BY <1>2, <1>3, <1>4, Zenon

\* One of its children is next otherwise.
DescendTo(levels, lo, hi, j, p) ==
    LET mid == p * TwoTo(j + 1) + TwoTo(j)
    IN  /\ 2 * p + 1 >= Len(levels[j + 1]) \/ hi <= mid =>
             Descend(levels, lo, hi, j + 1, p) = Descend(levels, lo, hi, j, 2 * p)
        /\ ~(2 * p + 1 >= Len(levels[j + 1]) \/ hi <= mid) /\ ~(lo < mid) =>
             Descend(levels, lo, hi, j + 1, p) = Descend(levels, lo, hi, j, 2 * p + 1)

\* The left one, or the right one.
LEMMA DescendMiss ==
    ASSUME NEW levels, NEW lo, NEW hi, NEW j \in Nat, NEW p \in Nat,
           ~CoverAt(levels, lo, hi, j + 1, p)
    PROVE  DescendTo(levels, lo, hi, j, p)
  <1> DEFINE x == [levels |-> levels, lo |-> lo, hi |-> hi]
             i == j + 1
  <1>1. PICK f : DescendIs(f, levels, lo, hi)
    BY DescendFunction, Zenon
  <1>2. i \in Nat /\ i # 0 /\ i - 1 = j /\ 2 * p \in Nat /\ 2 * p + 1 \in Nat
    OBVIOUS
  <1>3. f[i] = DescendDef(x, i, f)
    BY <1>1, <1>2, Zenon DEF DescendIs
  <1>4. \A n, c : Descend(levels, lo, hi, n, c) = f[n][c]
    BY <1>1, Zenon DEF DescendIs
  <1>5. x.levels = levels /\ x.lo = lo /\ x.hi = hi
    OBVIOUS
  <1>6. ~(p * TwoTo(i) = x.lo /\ AtMost(p * TwoTo(i) + TwoTo(i), Size(x.levels)) = x.hi)
    BY Zenon DEF CoverAt
  <1> DEFINE mid == p * TwoTo(i) + TwoTo(j)
             left == 2 * p + 1 >= Len(levels[i]) \/ hi <= mid
  <1> HIDE DEF x, i
  <1>7. DescendDef(x, i, f)[p]
          = IF 2 * p + 1 >= Len(x.levels[i]) \/ x.hi <= p * TwoTo(i) + TwoTo(i - 1)
            THEN f[i - 1][2 * p]
            ELSE IF x.lo < p * TwoTo(i) + TwoTo(i - 1) THEN None ELSE f[i - 1][2 * p + 1]
    BY <1>2, <1>6, Zenon DEF DescendDef
  <1>8. left => f[i][p] = f[j][2 * p]
    BY <1>2, <1>3, <1>5, <1>7, Zenon
  <1>9. ~left /\ ~(lo < mid) => f[i][p] = f[j][2 * p + 1]
    BY <1>2, <1>3, <1>5, <1>7, Zenon
  <1>10. left => Descend(levels, lo, hi, i, p) = Descend(levels, lo, hi, j, 2 * p)
    BY <1>4, <1>8, Zenon
  <1>11. ~left /\ ~(lo < mid) =>
            Descend(levels, lo, hi, i, p) = Descend(levels, lo, hi, j, 2 * p + 1)
    BY <1>4, <1>9, Zenon
  <1> QED BY <1>10, <1>11, Zenon DEF DescendTo, i

\* The node at which the descent stops has the hash of the range.
LEMMA CoverHash ==
    ASSUME NEW T, NEW d \in Seq(T), Len(d) >= 1, NEW lo \in Nat, NEW w \in Nat, NEW j \in Nat,
           NEW p \in Nat, p < Len(Level(d, j)), j <= Height(d), Covers(Len(d), lo, w, j, p)
    PROVE  Descend(New(d), lo, lo + w, j, p) = RangeHash(d, lo, w)
  <1> DEFINE W == TwoTo(j)
             v == p * W
             N == Len(d)
  <1>1. v = lo /\ AtMost(v + W, N) = lo + w /\ W \in Nat /\ N \in Nat
    BY TwoToPositive DEF Covers
  <1>2. Size(New(d)) = N /\ New(d)[j + 1] = Level(d, j)
    <2>1. j \in 0..Height(d)
      BY HeightIs
    <2> QED BY <2>1, NewIs, Zenon
  <1>3. CoverAt(New(d), lo, lo + w, j, p)
    BY <1>1, <1>2, Zenon DEF CoverAt
  <1>4. Descend(New(d), lo, lo + w, j, p) = Level(d, j)[p + 1]
    <2> DEFINE hi == lo + w
    <2> HIDE DEF hi
    <2>1. CoverAt(New(d), lo, hi, j, p)
      BY <1>3, Zenon DEF hi
    <2>2. Descend(New(d), lo, hi, j, p) = New(d)[j + 1][p + 1]
      BY <2>1, DescendHit
    <2> QED BY <1>2, <2>2, Zenon DEF hi
  <1>5. Level(d, j)[p + 1] = RangeHash(d, v, Width(N, j, p))
    BY LevelNode, Zenon
  <1>6. Width(N, j, p) = w
    <2>1. Width(N, j, p) = AtMost(W, N - v)
      BY Zenon DEF Width
    <2> HIDE DEF v, W, N
    <2> QED BY <1>1, <2>1 DEF AtMost
  <1> QED BY <1>1, <1>4, <1>5, <1>6, Zenon

\* subtree's descent finds every range that a node covers.
LEMMA DescendFinds ==
    ASSUME NEW T, NEW d \in Seq(T), Len(d) >= 1, NEW lo \in Nat, NEW w \in Nat,
           Aligned(Len(d), lo, w)
    PROVE  \A j \in Nat : \A p \in Nat :
               j <= Height(d) /\ p < Len(Level(d, j)) /\ Within(Len(d), lo, w, j, p) =>
                   Descend(New(d), lo, lo + w, j, p) = RangeHash(d, lo, w)
  <1> DEFINE N == Len(d)
             L(j) == Len(Level(d, j))
             D(j, p) == Descend(New(d), lo, lo + w, j, p)
             Good(j, p) == j <= Height(d) /\ p < L(j) /\ Within(N, lo, w, j, p)
             S == {j \in Nat : \A p \in Nat : Good(j, p) => D(j, p) = RangeHash(d, lo, w)}
  <1>1. N \in Nat /\ Height(d) \in Nat
    BY HeightIs
  <1>2. \A j \in Nat : L(j) \in Nat /\ L(j + 1) = (L(j) + 1) \div 2
    BY LevelSize, Zenon
  <1>3. \A j \in Nat : N <= L(j) * TwoTo(j)
    BY LevelCovers, Zenon
  <1>4. 0 \in S
    <2> SUFFICES ASSUME NEW p \in Nat, Good(0, p) PROVE D(0, p) = RangeHash(d, lo, w)
      OBVIOUS
    <2>1. Covers(N, lo, w, 0, p)
      BY <1>1, AlignedHalf
    <2> QED BY <2>1, CoverHash
  <1>5. ASSUME NEW j \in Nat, j \in S PROVE j + 1 \in S
    <2> SUFFICES ASSUME NEW p \in Nat, Good(j + 1, p) PROVE D(j + 1, p) = RangeHash(d, lo, w)
      OBVIOUS
    <2> HIDE DEF S
    <2>1. CASE Covers(N, lo, w, j + 1, p)
      BY <2>1, CoverHash
    <2>2. CASE ~Covers(N, lo, w, j + 1, p)
      <3> DEFINE W == TwoTo(j)
                 v == p * TwoTo(j + 1)
                 mid == v + W
                 c == L(j)
      <3>1. W \in Nat /\ TwoTo(j + 1) = 2 * W
        BY TwoToPositive, Zenon
      <3>2. v \in Nat /\ (2 * p) * W = v /\ (2 * p + 1) * W = mid
        <4> HIDE DEF W
        <4> QED BY <3>1, Doubling
      <3>3. v <= lo /\ lo + w <= AtMost(v + 2 * W, N)
        BY <3>1, Zenon DEF Within
      <3>4. lo + w <= mid \/ lo >= mid
        <4>1. (j + 1) - 1 = j /\ j + 1 \in Nat
          OBVIOUS
        <4> QED BY <1>1, <2>2, <4>1, AlignedHalf, Zenon
      <3>5. c \in Nat /\ 2 * p < c /\ j < Height(d) /\ j <= Height(d)
        <4>1. c \in Nat /\ p < (c + 1) \div 2
          BY <1>2, Zenon
        <4> HIDE DEF c
        <4> QED BY <1>1, <4>1
      <3>6. New(d)[j + 1] = Level(d, j) /\ Size(New(d)) = N
        <4>1. j \in 0..Height(d)
          BY <1>1, <3>5
        <4> QED BY <4>1, NewIs, Zenon
      <3>7. ~CoverAt(New(d), lo, lo + w, j + 1, p)
        BY <2>2, <3>6, Zenon DEF CoverAt, Covers
      <3>8. DescendTo(New(d), lo, lo + w, j, p)
        <4> DEFINE hi == lo + w
        <4>1. ~CoverAt(New(d), lo, hi, j + 1, p)
          BY <3>7, Zenon
        <4> HIDE DEF hi
        <4>2. DescendTo(New(d), lo, hi, j, p)
          BY <4>1, DescendMiss, Zenon
        <4> QED BY <4>2, Zenon DEF hi
      <3>9. /\ 2 * p + 1 >= c \/ lo + w <= mid => D(j + 1, p) = D(j, 2 * p)
            /\ ~(2 * p + 1 >= c \/ lo + w <= mid) /\ ~(lo < mid) => D(j + 1, p) = D(j, 2 * p + 1)
        BY <3>6, <3>8, Zenon DEF DescendTo
      <3>10. \A i \in Nat : Good(j, i) => D(j, i) = RangeHash(d, lo, w)
        BY <1>5, Zenon DEF S
      <3>11. N <= c * W
        BY <1>3, Zenon
      <3> HIDE DEF W, v, c, D
      <3>12. mid \in Nat /\ lo + w <= N /\ lo + w <= mid + W
        BY <1>1, <3>1, <3>2, <3>3 DEF AtMost
      <3>13. CASE 2 * p + 1 >= c \/ lo + w <= mid
        <4>1. lo + w <= mid
          <5>1. CASE 2 * p + 1 >= c
            <6>1. c = 2 * p + 1
              BY <3>5, <5>1
            <6>2. N <= mid
              BY <3>2, <3>11, <6>1, Zenon
            <6> QED BY <1>1, <3>12, <6>2
          <5> QED BY <3>13, <5>1, Zenon
        <4>2. (2 * p) * W + W = mid
          BY <3>2, Zenon
        <4>3. Within(N, lo, w, j, 2 * p)
          <5>1. lo + w <= AtMost(mid, N)
            BY <1>1, <3>12, <4>1, Zenon DEF AtMost
          <5> HIDE DEF mid
          <5> QED BY <3>2, <3>3, <4>2, <5>1, Zenon DEF Within, W
        <4>4. 2 * p \in Nat /\ Good(j, 2 * p)
          BY <3>5, <4>3 DEF c
        <4>5. D(j, 2 * p) = RangeHash(d, lo, w)
          BY <3>10, <4>4, Zenon
        <4> QED BY <3>9, <3>13, <4>5, Zenon
      <3>14. CASE ~(2 * p + 1 >= c \/ lo + w <= mid)
        <4>1. ~(lo < mid) /\ mid <= lo /\ 2 * p + 1 < c
          BY <3>4, <3>5, <3>12, <3>14
        <4>2. Within(N, lo, w, j, 2 * p + 1)
          <5>1. lo + w <= AtMost(mid + W, N)
            BY <1>1, <3>1, <3>12, Zenon DEF AtMost
          <5> HIDE DEF mid
          <5> QED BY <3>2, <4>1, <5>1, Zenon DEF Within, W
        <4>3. 2 * p + 1 \in Nat /\ Good(j, 2 * p + 1)
          BY <3>5, <4>1, <4>2 DEF c
        <4>4. D(j, 2 * p + 1) = RangeHash(d, lo, w)
          BY <3>10, <4>3, Zenon
        <4> QED BY <3>9, <3>14, <4>1, <4>4
      <3> QED BY <3>13, <3>14, Zenon
    <2> QED BY <2>1, <2>2, Zenon
  <1> HIDE DEF S
  <1>6. \A j \in Nat : j \in S
    <2>1. S \subseteq Nat
      BY Zenon DEF S
    <2> QED BY <1>4, <1>5, <2>1, InductionNext, Zenon
  <1> QED BY <1>6, Zenon DEF S

\* So the lookup of such a range never fails, and gives its hash.
LEMMA SubtreeFinds ==
    ASSUME NEW T, NEW d \in Seq(T), Len(d) >= 1, NEW lo \in Nat, NEW w \in Nat,
           Aligned(Len(d), lo, w)
    PROVE  subtree(New(d), lo, lo + w) = RangeHash(d, lo, w)
  <1> DEFINE N == Len(d)
             h == Height(d)
             W == TwoTo(h)
  <1>1. h \in Nat /\ Len(Level(d, h)) = 1 /\ N \in Nat
    BY HeightIs
  <1>2. 1 <= w /\ lo + w <= N
    BY Zenon DEF Aligned, AlignedAt
  <1>3. N <= 1 * W /\ W \in Nat
    BY <1>1, LevelCovers, TwoToPositive, Zenon
  <1>4. Within(N, lo, w, h, 0)
    <2>1. 0 * W = 0 /\ 0 + W = W
      BY <1>3
    <2>2. lo + w <= AtMost(W, N)
      BY <1>1, <1>2, <1>3 DEF AtMost
    <2> QED BY <2>1, <2>2 DEF Within
  <1>5. Descend(New(d), lo, lo + w, h, 0) = RangeHash(d, lo, w)
    <2>1. \A j \in Nat : \A p \in Nat :
             j <= Height(d) /\ p < Len(Level(d, j)) /\ Within(Len(d), lo, w, j, p) =>
                 Descend(New(d), lo, lo + w, j, p) = RangeHash(d, lo, w)
      BY DescendFinds, Zenon
    <2>2. h <= h /\ 0 < 1
      BY <1>1
    <2> QED BY <1>1, <1>4, <2>1, <2>2, Zenon
  <1>6. Size(New(d)) = N /\ Len(New(d)) - 1 = h
    BY <1>1, NewIs
  <1>7. ~(lo < 0 \/ lo + w > N \/ lo >= lo + w)
    BY <1>1, <1>2
  <1> QED BY <1>5, <1>6, <1>7, Zenon DEF subtree

------------------------------------------------------------------------------
(* Consistency proofs: the proof ConsistencyProof makes is accepted.       *)

\* The nodes for m of the n leaves from lo on.
Emitted(levels, m, lo, n, b) == consistencySubproof(levels, m, lo, lo + n, b)

\* consistencySubproof is the function SubproofDef describes.
SubproofIs(f, levels) ==
    /\ f = [n \in Nat |-> SubproofDef(levels, n, [i \in 0..(n - 1) |-> f[i]])]
    /\ \A m, lo, n, b : Emitted(levels, m, lo, n, b) = f[(lo + n) - lo][m][lo][b]

\* There is one.
LEMMA SubproofFunction == \A levels : \E f : SubproofIs(f, levels)
  <1> TAKE levels
  <1> DEFINE y == [of |-> "Subproof", arg |-> levels]
             below(g, n) == [i \in 0..(n - 1) |-> g[i]]
             IsF(f) == f = [n \in Nat |-> SubproofDef(levels, n, below(f, n))]
  <1>1. PICK g : g = [n \in Nat |-> Step(y, n, below(g, n))]
    BY Recursive, Zenon
  <1>2. ASSUME NEW n \in Nat PROVE Step(y, n, below(g, n)) = SubproofDef(levels, n, below(g, n))
    BY Zenon DEF Step
  <1>3. IsF(g)
    BY <1>1, <1>2, Zenon
  <1> DEFINE F == CHOOSE f : IsF(f)
  <1>4. IsF(F)
    BY <1>3, Zenon
  <1>5. \A m, lo, n, b : Emitted(levels, m, lo, n, b) = F[(lo + n) - lo][m][lo][b]
    BY Zenon DEF consistencySubproof, Emitted
  <1> HIDE DEF F
  <1>6. SubproofIs(F, levels)
    BY <1>4, <1>5, Zenon DEF SubproofIs
  <1> QED BY <1>6, Zenon

\* For the whole range,
LEMMA EmittedWhole ==
    ASSUME NEW levels, NEW n \in Nat, NEW lo \in Nat, NEW b \in BOOLEAN
    PROVE  Emitted(levels, n, lo, n, b)
             = IF b THEN <<>> ELSE <<Node(subtree(levels, lo, lo + n), FALSE)>>
  <1>1. PICK f : SubproofIs(f, levels)
    BY SubproofFunction, Zenon
  <1> DEFINE g == [j \in 0..(n - 1) |-> f[j]]
             hi == lo + n
  <1>2. f[n] = SubproofDef(levels, n, g)
    BY <1>1, Zenon DEF SubproofIs
  <1>3. hi - lo = n
    OBVIOUS
  <1>4. Emitted(levels, n, lo, n, b) = f[hi - lo][n][lo][b]
    <2>1. \A l, r, i, c : Emitted(levels, l, r, i, c) = f[(r + i) - r][l][r][c]
      BY <1>1, Zenon DEF SubproofIs
    <2> QED BY <2>1
  <1> HIDE DEF g
  <1>5. SubproofDef(levels, n, g)[n][lo][b]
          = IF b THEN <<>> ELSE <<Node(subtree(levels, lo, hi), FALSE)>>
    BY Zenon DEF SubproofDef
  <1> QED BY <1>2, <1>3, <1>4, <1>5, Zenon

EmittedFrom(levels, m, lo, n, b) ==
    LET k == largestPow2LessThan(n)
    IN  /\ m <= k => Emitted(levels, m, lo, n, b)
                       = Append(Emitted(levels, m, lo, k, b),
                                Node(subtree(levels, lo + k, lo + n), TRUE))
        /\ m > k => Emitted(levels, m, lo, n, b)
                      = Append(Emitted(levels, m - k, lo + k, n - k, FALSE),
                               Node(subtree(levels, lo, lo + k), FALSE))

\* and for a part of it.
LEMMA EmittedParts ==
    ASSUME NEW levels, NEW m \in Nat, NEW n \in Nat, NEW lo \in Nat, NEW b \in BOOLEAN, m # n,
           largestPow2LessThan(n) \in Nat, 1 <= largestPow2LessThan(n), largestPow2LessThan(n) < n
    PROVE  EmittedFrom(levels, m, lo, n, b)
  <1> DEFINE k == largestPow2LessThan(n)
             no == FALSE
             x == Node(subtree(levels, lo + k, lo + n), TRUE)
             y == Node(subtree(levels, lo, lo + k), FALSE)
  <1>1. PICK f : SubproofIs(f, levels)
    BY SubproofFunction, Zenon
  <1> DEFINE g == [j \in 0..(n - 1) |-> f[j]]
  <1>2. f[n] = SubproofDef(levels, n, g)
    BY <1>1, Zenon DEF SubproofIs
  <1>3. k \in 0..(n - 1) /\ n - k \in 0..(n - 1) /\ lo + k \in Nat
    OBVIOUS
  <1>4. g[k] = f[k] /\ g[n - k] = f[n - k]
    BY <1>3, Zenon
  <1>5. \A l, r, i, c : Emitted(levels, l, r, i, c) = f[(r + i) - r][l][r][c]
    BY <1>1, Zenon DEF SubproofIs
  <1>6. /\ (lo + n) - lo = n /\ (lo + k) - lo = k
        /\ ((lo + k) + (n - k)) - (lo + k) = n - k
    BY <1>3
  <1> HIDE DEF g
  <1>7. ASSUME m <= k PROVE SubproofDef(levels, n, g)[m][lo][b] = Append(g[k][m][lo][b], x)
    BY <1>7, Zenon DEF SubproofDef
  <1>8. ASSUME m > k
        PROVE  SubproofDef(levels, n, g)[m][lo][b] = Append(g[n - k][m - k][lo + k][no], y)
    <2>1. ~(m <= k)
      BY <1>8
    <2> QED BY <2>1, Zenon DEF SubproofDef
  <1> HIDE DEF k, no, x, y
  <1>9. Emitted(levels, m, lo, n, b) = f[n][m][lo][b]
    BY <1>5, <1>6
  <1>10. ASSUME m <= k
         PROVE  Emitted(levels, m, lo, n, b) = Append(Emitted(levels, m, lo, k, b), x)
    <2>1. Emitted(levels, m, lo, k, b) = f[k][m][lo][b]
      BY <1>5, <1>6
    <2>2. f[n][m][lo][b] = Append(g[k][m][lo][b], x)
      BY <1>2, <1>7, <1>10, Zenon
    <2> QED BY <1>4, <1>9, <2>1, <2>2, Zenon
  <1>11. ASSUME m > k
         PROVE  Emitted(levels, m, lo, n, b)
                  = Append(Emitted(levels, m - k, lo + k, n - k, no), y)
    <2>1. Emitted(levels, m - k, lo + k, n - k, no) = f[n - k][m - k][lo + k][no]
      BY <1>5, <1>6
    <2>2. f[n][m][lo][b] = Append(g[n - k][m - k][lo + k][no], y)
      BY <1>2, <1>8, <1>11, Zenon
    <2> QED BY <1>4, <1>9, <2>1, <2>2, Zenon
  <1> QED BY <1>10, <1>11, Zenon DEF EmittedFrom, k, no, x, y

\* A sequence that starts with x.
LEMMA FirstOf ==
    ASSUME NEW U, NEW x \in U, NEW s \in Seq(U)
    PROVE  /\ <<x>> \o s \in Seq(U) /\ <<x>> \o s # <<>>
           /\ Head(<<x>> \o s) = x /\ Tail(<<x>> \o s) = s
  OBVIOUS

\* Appending before concatenating.
LEMMA AppendThen ==
    ASSUME NEW U, NEW c \in Seq(U), NEW x \in U, NEW s \in Seq(U)
    PROVE  Append(c, x) \in Seq(U) /\ Append(c, x) \o s = c \o (<<x>> \o s)
  OBVIOUS

\* The nodes of consistency proofs from the tree of d.
Nodes(d) == {Node(RangeHash(d, lo, w), b) : lo \in Nat, w \in Nat \ {0}, b \in BOOLEAN}

\* The node of a range is one of them.
LEMMA NodeIn ==
    ASSUME NEW d, NEW lo \in Nat, NEW w \in Nat, w >= 1, NEW b \in BOOLEAN
    PROVE  /\ Node(RangeHash(d, lo, w), b) \in Nodes(d)
           /\ Node(RangeHash(d, lo, w), b).hash = RangeHash(d, lo, w)
  <1>1. w \in Nat \ {0}
    OBVIOUS
  <1>2. Node(RangeHash(d, lo, w), b) \in Nodes(d)
    BY <1>1 DEF Nodes
  <1>3. Node(RangeHash(d, lo, w), b).hash = RangeHash(d, lo, w)
    BY Zenon DEF Node
  <1> QED BY <1>2, <1>3, Zenon

\* Their hashes are hashes, not failed lookups.
LEMMA NodesAreHashes ==
    ASSUME NEW d, NEW x \in Nodes(d)
    PROVE  x.hash # None
  <1>1. PICK lo \in Nat, w \in Nat \ {0}, b \in BOOLEAN : x = Node(RangeHash(d, lo, w), b)
    BY DEF Nodes
  <1>2. x.hash = RangeHash(d, lo, w)
    BY <1>1, Zenon DEF Node
  <1>3. CASE w = 1
    <2>1. RangeHash(d, lo, w) = leafHash(d[lo + 1])
      BY <1>3, RangeHashLeaf, Zenon
    <2> QED BY <1>2, <2>1 DEF leafHash, None
  <1>4. CASE w # 1
    <2>1. RangeHash(d, lo, w) = nodeHash(RangeHash(d, lo, Split(w)),
                                         RangeHash(d, lo + Split(w), w - Split(w)))
      BY <1>4, RangeHashNode
    <2> QED BY <1>2, <2>1 DEF nodeHash, None
  <1> QED BY <1>3, <1>4, Zenon

\* What verifySubproof returns for a good proof of m of the n leaves of d from lo
\* on, with the nodes in rest left over.
Verified(d, m, lo, n, rest) ==
    [ok |-> TRUE, new |-> RangeHash(d, lo, n), old |-> RangeHash(d, lo, m), rest |-> rest]

\* The next node completes a left part,
LEMMA LeftCompletes ==
    ASSUME NEW d, NEW m \in Nat, NEW lo \in Nat, NEW n \in Nat, n >= 2,
           NEW s \in Seq(Nodes(d)), NEW x \in Nodes(d),
           x.hash = RangeHash(d, lo + Split(n), n - Split(n))
    PROVE  LeftOf(Verified(d, m, lo, Split(n), <<x>> \o s)) = Verified(d, m, lo, n, s)
  <1> DEFINE k == Split(n)
             h == RangeHash(d, lo + k, n - k)
             r == <<x>> \o s
             sub == Verified(d, m, lo, k, r)
  <1>1. x \in Nodes(d) /\ x.hash = h
    OBVIOUS
  <1>2. r # <<>> /\ Head(r) = x /\ Tail(r) = s
    BY <1>1, FirstOf, Zenon
  <1> HIDE DEF r
  <1>3. Take(r) = [ok |-> TRUE, h |-> h]
    BY <1>1, <1>2, Zenon DEF Take
  <1>4. /\ sub.ok = TRUE /\ sub.new = RangeHash(d, lo, k) /\ sub.old = RangeHash(d, lo, m)
        /\ sub.rest = r
    BY Zenon DEF Verified
  <1> HIDE DEF sub, h
  <1>5. LeftOf(sub) = OnLeft(sub, [ok |-> TRUE, h |-> h])
    BY <1>3, <1>4, Zenon DEF LeftOf
  <1>6. OnLeft(sub, [ok |-> TRUE, h |-> h])
          = [ok |-> TRUE, new |-> nodeHash(sub.new, h), old |-> sub.old, rest |-> Tail(sub.rest)]
    BY Zenon DEF OnLeft
  <1>7. nodeHash(sub.new, h) = RangeHash(d, lo, n)
    BY <1>4, RangeHashNode DEF h
  <1>8. LeftOf(sub) = Verified(d, m, lo, n, s)
    BY <1>2, <1>4, <1>5, <1>6, <1>7, Zenon DEF Verified
  <1> QED BY <1>8, Zenon DEF sub, r

\* and it completes a right part of both ranges when they split at one place.
LEMMA RightCompletes ==
    ASSUME NEW d, NEW m \in Nat, NEW lo \in Nat, NEW n \in Nat, n >= 2, m >= 2,
           Split(m) = Split(n), NEW s \in Seq(Nodes(d)), NEW x \in Nodes(d),
           x.hash = RangeHash(d, lo, Split(n))
    PROVE  RightOf(Verified(d, m - Split(n), lo + Split(n), n - Split(n), <<x>> \o s))
             = Verified(d, m, lo, n, s)
  <1> DEFINE k == Split(n)
             h == RangeHash(d, lo, k)
             r == <<x>> \o s
             sub == Verified(d, m - k, lo + k, n - k, r)
  <1>1. x \in Nodes(d) /\ x.hash = h
    OBVIOUS
  <1>2. r # <<>> /\ Head(r) = x /\ Tail(r) = s
    BY <1>1, FirstOf, Zenon
  <1> HIDE DEF r
  <1>3. Take(r) = [ok |-> TRUE, h |-> h]
    BY <1>1, <1>2, Zenon DEF Take
  <1>4. /\ sub.ok = TRUE /\ sub.new = RangeHash(d, lo + k, n - k)
        /\ sub.old = RangeHash(d, lo + k, m - k) /\ sub.rest = r
    BY Zenon DEF Verified
  <1> HIDE DEF sub, h
  <1>5. RightOf(sub) = OnRight(sub, [ok |-> TRUE, h |-> h])
    BY <1>3, <1>4, Zenon DEF RightOf
  <1>6. OnRight(sub, [ok |-> TRUE, h |-> h])
          = [ok |-> TRUE, new |-> nodeHash(h, sub.new), old |-> nodeHash(h, sub.old),
             rest |-> Tail(sub.rest)]
    BY Zenon DEF OnRight
  <1>7. nodeHash(h, sub.new) = RangeHash(d, lo, n) /\ nodeHash(h, sub.old) = RangeHash(d, lo, m)
    BY <1>4, RangeHashNode DEF h
  <1>8. RightOf(sub) = Verified(d, m, lo, n, s)
    BY <1>2, <1>4, <1>5, <1>6, <1>7, Zenon DEF Verified
  <1> QED BY <1>8, Zenon DEF sub, r

\* The nodes in c are what verifySubproof takes for m of the n leaves from lo on,
\* whatever follows them.
Consumed(d, c, m, lo, n, b, old) ==
    /\ c \in Seq(Nodes(d))
    /\ \A s \in Seq(Nodes(d)) :
           verifySubproof(m, n, b, old, c \o s) = Verified(d, m, lo, n, s)

\* A range that is there as a whole,
LEMMA ConsumedWhole ==
    ASSUME NEW T, NEW d \in Seq(T), Len(d) >= 1, NEW n \in Nat, NEW lo \in Nat,
           Aligned(Len(d), lo, n), NEW b \in BOOLEAN, NEW old, b => old = RangeHash(d, lo, n)
    PROVE  Consumed(d, Emitted(New(d), n, lo, n, b), n, lo, n, b, old)
  <1> DEFINE c == Emitted(New(d), n, lo, n, b)
             h == RangeHash(d, lo, n)
             x == Node(h, FALSE)
  <1>1. subtree(New(d), lo, lo + n) = h
    BY SubtreeFinds, Zenon
  <1>2. c = IF b THEN <<>> ELSE <<x>>
    BY <1>1, EmittedWhole, Zenon
  <1>3. x \in Nodes(d) /\ x.hash = h
    <2> DEFINE no == FALSE
    <2>1. n >= 1
      BY Zenon DEF Aligned, AlignedAt
    <2>2. no \in BOOLEAN
      OBVIOUS
    <2> HIDE DEF no
    <2>3. Node(h, no) \in Nodes(d) /\ Node(h, no).hash = h
      BY <2>1, <2>2, NodeIn, Zenon
    <2> QED BY <2>3, Zenon DEF no
  <1> HIDE DEF c, x
  <1>4. c \in Seq(Nodes(d))
    BY <1>2, <1>3
  <1>5. ASSUME NEW s \in Seq(Nodes(d))
        PROVE  verifySubproof(n, n, b, old, c \o s) = Verified(d, n, lo, n, s)
    <2> DEFINE r == c \o s
    <2>1. verifySubproof(n, n, b, old, r)
            = IF b THEN [ok |-> TRUE, new |-> old, old |-> old, rest |-> r]
              ELSE Whole(r, Take(r))
      <3> HIDE DEF r
      <3> QED BY VerifyWhole
    <2>2. CASE b
      <3>1. r = s
        BY <1>2, <2>2
      <3> HIDE DEF r
      <3> QED BY <2>1, <2>2, <3>1, Zenon DEF Verified, r
    <2>3. CASE ~b
      <3>1. r # <<>> /\ Head(r) = x /\ Tail(r) = s
        BY <1>2, <1>3, <2>3, FirstOf, Zenon
      <3> HIDE DEF r
      <3>2. Take(r) = [ok |-> TRUE, h |-> h]
        BY <1>3, <3>1, Zenon DEF Take
      <3> HIDE DEF h
      <3>3. Whole(r, [ok |-> TRUE, h |-> h])
              = [ok |-> TRUE, new |-> h, old |-> h, rest |-> Tail(r)]
        BY Zenon DEF Whole
      <3>4. verifySubproof(n, n, b, old, r) = [ok |-> TRUE, new |-> h, old |-> h, rest |-> s]
        BY <2>1, <2>3, <3>1, <3>2, <3>3
      <3> QED BY <3>4, Zenon DEF Verified, h, r
    <2> QED BY <2>2, <2>3, Zenon
  <1> QED BY <1>4, <1>5, Zenon DEF Consumed, c

\* one whose old leaves end in its left part,
LEMMA ConsumedLeft ==
    ASSUME NEW T, NEW d \in Seq(T), Len(d) >= 1, NEW m \in Nat, NEW n \in Nat, NEW lo \in Nat,
           n >= 2, n <= Quarter, m <= Split(n),
           Aligned(Len(d), lo, n), NEW b \in BOOLEAN, NEW old,
           Consumed(d, Emitted(New(d), m, lo, Split(n), b), m, lo, Split(n), b, old)
    PROVE  Consumed(d, Emitted(New(d), m, lo, n, b), m, lo, n, b, old)
  <1> DEFINE k == Split(n)
             c == Emitted(New(d), m, lo, k, b)
             x == Node(RangeHash(d, lo + k, n - k), TRUE)
  <1>1. k \in Nat /\ 1 <= k /\ k < n /\ largestPow2LessThan(n) = k
    BY SplitIs, LoopIs DEF IsSplit
  <1>2. m # n
    BY <1>1
  <1>3. Aligned(Len(d), lo + k, n - k)
    BY AlignedSplit
  <1>4. lo + k \in Nat /\ n - k \in Nat /\ n - k \in Nat \ {0} /\ (lo + k) + (n - k) = lo + n
    BY <1>1
  <1>5. subtree(New(d), lo + k, lo + n) = RangeHash(d, lo + k, n - k)
    <2>1. subtree(New(d), lo + k, (lo + k) + (n - k)) = RangeHash(d, lo + k, n - k)
      BY <1>3, <1>4, SubtreeFinds, Zenon
    <2> QED BY <1>4, <2>1, Zenon
  <1>6. EmittedFrom(New(d), m, lo, n, b) /\ \A s : Parts(m, n, b, old, s)
    BY <1>1, <1>2, EmittedParts, VerifyParts
  <1>7. Emitted(New(d), m, lo, n, b) = Append(c, x)
    BY <1>1, <1>5, <1>6, Zenon DEF EmittedFrom
  <1>8. x \in Nodes(d) /\ x.hash = RangeHash(d, lo + k, n - k)
    <2> DEFINE yes == TRUE
    <2>1. yes \in BOOLEAN /\ n - k >= 1
      BY <1>4
    <2> HIDE DEF yes, k
    <2>2. /\ Node(RangeHash(d, lo + k, n - k), yes) \in Nodes(d)
          /\ Node(RangeHash(d, lo + k, n - k), yes).hash = RangeHash(d, lo + k, n - k)
      BY <1>4, <2>1, NodeIn, SMTT(30)
    <2> QED BY <2>2, Zenon DEF yes
  <1>9. /\ c \in Seq(Nodes(d))
        /\ \A s \in Seq(Nodes(d)) :
               verifySubproof(m, k, b, old, c \o s) = Verified(d, m, lo, k, s)
    BY Zenon DEF Consumed
  <1> HIDE DEF c, x
  <1>10. Append(c, x) \in Seq(Nodes(d))
    BY <1>8, <1>9, AppendThen, Zenon
  <1>11. ASSUME NEW s \in Seq(Nodes(d))
         PROVE  verifySubproof(m, n, b, old, Append(c, x) \o s) = Verified(d, m, lo, n, s)
    <2> DEFINE r == <<x>> \o s
    <2>1. r \in Seq(Nodes(d)) /\ Append(c, x) \o s = c \o r
      BY <1>8, <1>9, FirstOf, AppendThen
    <2>2. LeftOf(Verified(d, m, lo, k, r)) = Verified(d, m, lo, n, s)
      BY <1>8, LeftCompletes
    <2> HIDE DEF r
    <2>3. verifySubproof(m, k, b, old, c \o r) = Verified(d, m, lo, k, r)
      BY <1>9, <2>1, Zenon
    <2>4. verifySubproof(m, n, b, old, c \o r) = LeftOf(verifySubproof(m, k, b, old, c \o r))
      <3>1. Parts(m, n, b, old, c \o r)
        BY <1>6, Zenon
      <3> QED BY <1>1, <3>1, Zenon DEF Parts
    <2> QED BY <2>1, <2>2, <2>3, <2>4, Zenon
  <1> QED BY <1>7, <1>10, <1>11, Zenon DEF Consumed

\* and one whose old leaves end in its right part.
LEMMA ConsumedRight ==
    ASSUME NEW T, NEW d \in Seq(T), Len(d) >= 1, NEW m \in Nat, NEW n \in Nat, NEW lo \in Nat,
           n >= 2, n <= Quarter, m > Split(n), m < n,
           Aligned(Len(d), lo, n), NEW b \in BOOLEAN, NEW old,
           LET k == Split(n)
           IN  Consumed(d, Emitted(New(d), m - k, lo + k, n - k, FALSE),
                        m - k, lo + k, n - k, FALSE, old)
    PROVE  Consumed(d, Emitted(New(d), m, lo, n, b), m, lo, n, b, old)
  <1> DEFINE k == Split(n)
             no == FALSE
             c == Emitted(New(d), m - k, lo + k, n - k, no)
             x == Node(RangeHash(d, lo, k), no)
  <1>1. k \in Nat /\ 1 <= k /\ k < n /\ largestPow2LessThan(n) = k
    BY SplitIs, LoopIs DEF IsSplit
  <1>2. m >= 2 /\ Split(m) = k
    <2>1. m >= 2
      BY <1>1
    <2>2. IsSplit(k, m)
      <3>1. IsSplit(k, n)
        BY SplitIs, Zenon
      <3>2. k < m /\ m < n
        OBVIOUS
      <3> HIDE DEF k
      <3> QED BY <1>1, <3>1, <3>2 DEF IsSplit
    <2>3. IsSplit(Split(m), m)
      BY <2>1, SplitIs, Zenon
    <2> QED BY <2>1, <2>2, <2>3, SplitUnique, Zenon
  <1>3. Aligned(Len(d), lo, k)
    BY AlignedSplit
  <1>4. subtree(New(d), lo, lo + k) = RangeHash(d, lo, k)
    BY <1>1, <1>3, SubtreeFinds, Zenon
  <1>5. EmittedFrom(New(d), m, lo, n, b) /\ \A s : Parts(m, n, b, old, s)
    BY <1>1, EmittedParts, VerifyParts
  <1>6. Emitted(New(d), m, lo, n, b) = Append(c, x)
    BY <1>1, <1>4, <1>5, Zenon DEF EmittedFrom
  <1>7. x \in Nodes(d) /\ x.hash = RangeHash(d, lo, k)
    <2>1. no \in BOOLEAN
      OBVIOUS
    <2> HIDE DEF no, k
    <2> QED BY <1>1, <2>1, NodeIn, Zenon
  <1>8. /\ c \in Seq(Nodes(d))
        /\ \A s \in Seq(Nodes(d)) :
               verifySubproof(m - k, n - k, no, old, c \o s)
                 = Verified(d, m - k, lo + k, n - k, s)
    BY Zenon DEF Consumed
  <1>9. \A s : verifySubproof(m, n, b, old, s)
                 = RightOf(verifySubproof(m - k, n - k, no, old, s))
    BY <1>1, <1>5, Zenon DEF Parts
  <1> HIDE DEF c, x, no
  <1>10. Append(c, x) \in Seq(Nodes(d))
    BY <1>7, <1>8, AppendThen
  <1>11. ASSUME NEW s \in Seq(Nodes(d))
         PROVE  verifySubproof(m, n, b, old, Append(c, x) \o s) = Verified(d, m, lo, n, s)
    <2> DEFINE r == <<x>> \o s
    <2>1. r \in Seq(Nodes(d)) /\ Append(c, x) \o s = c \o r
      BY <1>7, <1>8, FirstOf, AppendThen, SMTT(30)
    <2>2. RightOf(Verified(d, m - k, lo + k, n - k, r)) = Verified(d, m, lo, n, s)
      BY <1>2, <1>7, RightCompletes
    <2> HIDE DEF r
    <2>3. verifySubproof(m - k, n - k, no, old, c \o r) = Verified(d, m - k, lo + k, n - k, r)
      BY <1>8, <2>1, Zenon
    <2>4. verifySubproof(m, n, b, old, c \o r)
            = RightOf(verifySubproof(m - k, n - k, no, old, c \o r))
      BY <1>9, Zenon
    <2> QED BY <2>1, <2>2, <2>3, <2>4, Zenon
  <1> QED BY <1>6, <1>10, <1>11, Zenon DEF Consumed

\* Every proof consistencySubproof makes is consumed node by node.
LEMMA EmittedConsumed ==
    ASSUME NEW T, NEW d \in Seq(T), Len(d) >= 1, Len(d) <= Quarter, NEW old
    PROVE  \A n \in Nat : \A m \in Nat, lo \in Nat, b \in BOOLEAN :
               m >= 1 /\ m <= n /\ Aligned(Len(d), lo, n) /\ (b => old = RangeHash(d, lo, m)) =>
                   Consumed(d, Emitted(New(d), m, lo, n, b), m, lo, n, b, old)
  <1> DEFINE N == Len(d)
             Good(m, lo, n, b) ==
               m >= 1 /\ m <= n /\ Aligned(N, lo, n) /\ (b => old = RangeHash(d, lo, m))
             Does(m, lo, n, b) == Consumed(d, Emitted(New(d), m, lo, n, b), m, lo, n, b, old)
             P(n) == \A m \in Nat, lo \in Nat, b \in BOOLEAN : Good(m, lo, n, b) => Does(m, lo, n, b)
             S == {n \in Nat : P(n)}
  <1>1. N \in Nat /\ Quarter \in Nat
    BY FourQuarters
  <1>2. ASSUME NEW n \in Nat, \A i \in 0..(n - 1) : i \in S PROVE P(n)
    <2> HIDE DEF Does
    <2> SUFFICES ASSUME NEW m \in Nat, NEW lo \in Nat, NEW b \in BOOLEAN, Good(m, lo, n, b)
                 PROVE  Does(m, lo, n, b)
      OBVIOUS
    <2>1. CASE m = n
      BY <2>1, ConsumedWhole, Zenon DEF Does
    <2>2. CASE m # n
      <3> DEFINE k == Split(n)
      <3>1. n >= 2 /\ m < n /\ m >= 1
        BY <2>2
      <3>2. n <= Quarter
        <4>1. lo + n <= N
          BY Zenon DEF Aligned, AlignedAt
        <4> QED BY <1>1, <4>1
      <3>3. k \in Nat /\ 1 <= k /\ k < n
        BY <3>1, SplitIs, Zenon DEF IsSplit
      <3>4. Aligned(N, lo, k) /\ Aligned(N, lo + k, n - k)
        BY <1>1, <3>1, AlignedSplit, Zenon
      <3> HIDE DEF k
      <3>5. P(k) /\ P(n - k)
        <4>1. k \in 0..(n - 1) /\ n - k \in 0..(n - 1)
          BY <3>3
        <4> HIDE DEF P
        <4> QED BY <1>2, <4>1, Zenon
      <3>6. CASE m <= k
        <4>1. Good(m, lo, k, b)
          BY <3>1, <3>4, <3>6, Zenon
        <4>2. Does(m, lo, k, b)
          BY <3>5, <4>1, Zenon
        <4> QED BY <3>1, <3>2, <3>6, <4>2, ConsumedLeft, Zenon DEF Does, k
      <3>7. CASE ~(m <= k)
        <4>1. m - k \in Nat /\ lo + k \in Nat /\ Good(m - k, lo + k, n - k, FALSE) /\ m > k
          BY <3>1, <3>3, <3>4, <3>7
        <4>2. Does(m - k, lo + k, n - k, FALSE)
          BY <3>5, <4>1, Zenon
        <4> QED BY <3>1, <3>2, <4>1, <4>2, ConsumedRight DEF Does, k
      <3> QED BY <3>6, <3>7, Zenon
    <2> QED BY <2>1, <2>2, Zenon
  <1> HIDE DEF P
  <1>3. \A n \in Nat : n \in S
    <2>1. \A n \in Nat : (\A i \in 0..(n - 1) : i \in S) => n \in S
      BY <1>2, Zenon
    <2>2. S \subseteq Nat
      OBVIOUS
    <2> HIDE DEF S
    <2> QED BY <2>1, <2>2, Induction, Zenon
  <1> QED BY <1>3, Zenon DEF P

\* Tree.ConsistencyProof succeeds for every smaller size: no lookup fails, and
\* merkle.VerifyConsistency accepts the proof for the hash of the first leaves.
THEOREM ProofConsistent ==
    ASSUME NEW T, NEW d \in Seq(T), Len(d) <= TwoTo(IntBits - 2), NEW m \in Nat,
           1 <= m, m < Len(d)
    PROVE  /\ ConsistencyProof(New(d), m, Len(d)).err = "ok"
           /\ VerifyConsistency(RangeHash(d, 0, m), Root(New(d)), m, Len(d),
                                ConsistencyProof(New(d), m, Len(d)).steps)
  <1> DEFINE n == Len(d)
             old == RangeHash(d, 0, m)
             yes == TRUE
             c == Emitted(New(d), m, 0, n, yes)
  <1>1. n \in Nat /\ n >= 2 /\ n <= Quarter
    BY DEF Quarter
  <1>2. Aligned(n, 0, n)
    <2>1. n <= TwoTo(n) /\ TwoTo(n) \in Nat
      BY <1>1, TwoToType
    <2>2. AlignedAt(n, 0, n, n, 0)
      BY <1>1, <2>1 DEF AlignedAt
    <2> QED BY <1>1, <2>2, Zenon DEF Aligned
  <1>3. yes \in BOOLEAN
    OBVIOUS
  <1>4. Consumed(d, c, m, 0, n, yes, old)
    <2>1. n >= 1 /\ m <= n
      BY <1>1
    <2> HIDE DEF yes, old
    <2>2. yes => old = RangeHash(d, 0, m)
      BY Zenon DEF old
    <2>3. \A i \in Nat : \A l \in Nat, lo \in Nat, b \in BOOLEAN :
             l >= 1 /\ l <= i /\ Aligned(Len(d), lo, i) /\ (b => old = RangeHash(d, lo, l)) =>
                 Consumed(d, Emitted(New(d), l, lo, i, b), l, lo, i, b, old)
      BY <1>1, <2>1, EmittedConsumed, Zenon
    <2> QED BY <1>1, <1>2, <1>3, <2>1, <2>2, <2>3, Zenon
  <1>5. c \in Seq(Nodes(d))
    BY <1>4, Zenon DEF Consumed
  <1>6. verifySubproof(m, n, yes, old, c) = Verified(d, m, 0, n, <<>>)
    <2> HIDE DEF c
    <2>1. <<>> \in Seq(Nodes(d)) /\ c \o <<>> = c
      BY <1>5
    <2>2. verifySubproof(m, n, yes, old, c \o <<>>) = Verified(d, m, 0, n, <<>>)
      BY <1>4, <2>1, Zenon DEF Consumed
    <2> QED BY <2>1, <2>2, Zenon
  <1>7. c = consistencySubproof(New(d), m, 0, n, TRUE)
    BY <1>1 DEF Emitted
  <1>8. ~(\E i \in DOMAIN c : c[i].hash = None)
    <2> HIDE DEF c
    <2>1. \A i \in DOMAIN c : c[i] \in Nodes(d)
      BY <1>5
    <2> QED BY <2>1, NodesAreHashes, Zenon
  <1>9. Size(New(d)) = n /\ Root(New(d)) = RangeHash(d, 0, n)
    BY <1>1, NewIs, RootIsReference DEF MTH
  <1>10. ConsistencyProof(New(d), m, n) = [err |-> "ok", steps |-> c]
    <2>1. ~(m <= 0 \/ m >= n \/ n # Size(New(d)))
      BY <1>1, <1>9
    <2> HIDE DEF c
    <2> QED BY <1>7, <1>8, <2>1, Zenon DEF ConsistencyProof
  <1> HIDE DEF c
  <1>11. ConsistencyProof(New(d), m, n).steps = c /\ ConsistencyProof(New(d), m, n).err = "ok"
    BY <1>10
  <1> DEFINE v == verifySubproof(m, n, TRUE, old, c)
  <1>12. v.ok = TRUE /\ v.rest = <<>> /\ v.old = old /\ v.new = Root(New(d))
    <2>1. v = Verified(d, m, 0, n, <<>>)
      BY <1>6, Zenon
    <2> HIDE DEF v
    <2> QED BY <1>9, <2>1, Zenon DEF Verified
  <1> HIDE DEF v, old
  <1>13. VerifyConsistency(old, Root(New(d)), m, n, c)
    <2>1. m # n /\ m > 0 /\ m < n
      BY <1>1
    <2> QED BY <1>12, <2>1, Zenon DEF VerifyConsistency, v
  <1> QED BY <1>11, <1>13, Zenon DEF old

\* Two sequences of leaves with the same leaves in a range have one hash of it.
LEMMA RangeHashSame ==
    ASSUME NEW d, NEW e
    PROVE  \A n \in Nat : \A lo \in Nat :
               n >= 1 /\ (\A i \in 1..n : d[lo + i] = e[lo + i]) =>
                   RangeHash(d, lo, n) = RangeHash(e, lo, n)
  <1> DEFINE Agree(lo, n) == n >= 1 /\ \A i \in 1..n : d[lo + i] = e[lo + i]
             P(n) == \A lo \in Nat : Agree(lo, n) => RangeHash(d, lo, n) = RangeHash(e, lo, n)
             S == {n \in Nat : P(n)}
  <1>1. ASSUME NEW n \in Nat, \A i \in 0..(n - 1) : i \in S PROVE P(n)
    <2> SUFFICES ASSUME NEW lo \in Nat, Agree(lo, n)
                 PROVE  RangeHash(d, lo, n) = RangeHash(e, lo, n)
      OBVIOUS
    <2>1. CASE n = 1
      <3>1. RangeHash(d, lo, n) = leafHash(d[lo + 1]) /\ RangeHash(e, lo, n) = leafHash(e[lo + 1])
        BY <2>1, RangeHashLeaf, Zenon
      <3>2. d[lo + 1] = e[lo + 1]
        BY <2>1
      <3> QED BY <3>1, <3>2, Zenon
    <2>2. CASE n # 1
      <3> DEFINE k == Split(n)
      <3>1. k \in Nat /\ 1 <= k /\ k < n
        BY <2>2, SplitIs DEF IsSplit
      <3>2. /\ RangeHash(d, lo, n) = nodeHash(RangeHash(d, lo, k), RangeHash(d, lo + k, n - k))
            /\ RangeHash(e, lo, n) = nodeHash(RangeHash(e, lo, k), RangeHash(e, lo + k, n - k))
        BY <2>2, RangeHashNode
      <3> HIDE DEF k
      <3>3. P(k) /\ P(n - k)
        <4>1. k \in 0..(n - 1) /\ n - k \in 0..(n - 1)
          BY <3>1
        <4> HIDE DEF P
        <4> QED BY <1>1, <4>1, Zenon
      <3>4. Agree(lo, k)
        BY <3>1
      <3>5. Agree(lo + k, n - k)
        <4>1. ASSUME NEW i \in 1..(n - k) PROVE d[(lo + k) + i] = e[(lo + k) + i]
          <5>1. k + i \in 1..n /\ (lo + k) + i = lo + (k + i)
            BY <3>1
          <5> QED BY <5>1, Zenon
        <4> QED BY <3>1, <4>1
      <3> HIDE DEF Agree
      <3>6. RangeHash(d, lo, k) = RangeHash(e, lo, k)
        BY <3>3, <3>4, Zenon
      <3>7. RangeHash(d, lo + k, n - k) = RangeHash(e, lo + k, n - k)
        BY <3>1, <3>3, <3>5
      <3> QED BY <3>2, <3>6, <3>7, Zenon
    <2> QED BY <2>1, <2>2, Zenon
  <1> HIDE DEF P
  <1>2. \A n \in Nat : n \in S
    <2>1. \A n \in Nat : (\A i \in 0..(n - 1) : i \in S) => n \in S
      BY <1>1
    <2>2. S \subseteq Nat
      OBVIOUS
    <2> HIDE DEF S
    <2> QED BY <2>1, <2>2, Induction
  <1> QED BY <1>2, Zenon DEF P

\* Between a tree and one that adds leaves at its end the proof is accepted.
THEOREM PrefixVerifies ==
    ASSUME NEW T, NEW d \in Seq(T), NEW e \in Seq(T), Len(d) <= TwoTo(IntBits - 2),
           1 <= Len(e), Len(e) < Len(d), \A i \in 1..Len(e) : d[i] = e[i]
    PROVE  /\ ConsistencyProof(New(d), Len(e), Len(d)).err = "ok"
           /\ VerifyConsistency(Root(New(e)), Root(New(d)), Len(e), Len(d),
                                ConsistencyProof(New(d), Len(e), Len(d)).steps)
  <1>1. Len(e) \in Nat
    OBVIOUS
  <1>2. RangeHash(d, 0, Len(e)) = RangeHash(e, 0, Len(e))
    <2>1. \A i \in 1..Len(e) : d[0 + i] = e[0 + i]
      OBVIOUS
    <2>2. \A n \in Nat : \A lo \in Nat : n >= 1 /\ (\A i \in 1..n : d[lo + i] = e[lo + i]) =>
             RangeHash(d, lo, n) = RangeHash(e, lo, n)
      BY RangeHashSame, Zenon
    <2> QED BY <1>1, <2>1, <2>2, Zenon
  <1>3. Root(New(e)) = RangeHash(d, 0, Len(e))
    BY <1>2, RootIsReference, Zenon DEF MTH
  <1> QED BY <1>1, <1>3, ProofConsistent, Zenon

==============================================================================
