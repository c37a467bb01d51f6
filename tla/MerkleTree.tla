------------------------------ MODULE MerkleTree ------------------------------
(***************************************************************************)
(* Merkle hash trees with audit paths and consistency proofs (merkle/).    *)
(*                                                                         *)
(* A digest is the term that was hashed: SHA-256 with the leaf and node    *)
(* prefixes is collision free and domain separated, so two digests are     *)
(* equal exactly when the terms are.  Leaf indices count from 0, as in the *)
(* code; a TLA+ sequence counts from 1.  Go's int and uint64 are IntBits   *)
(* wide.                                                                   *)
(***************************************************************************)
EXTENDS Integers, Sequences

CONSTANT IntBits      \* width of int and of uint64

ASSUME IntBitsAssumption == IntBits \in Nat /\ IntBits >= 2

leafHash(x) == <<"leaf", x>>

nodeHash(l, r) == <<"node", l, r>>

\* The powers of two.
TwoToDef(n, prev) == IF n = 0 THEN 1 ELSE 2 * prev[n - 1]
TwoTo(n) == LET power[i \in Nat] == TwoToDef(i, power) IN power[n]

Modulus == TwoTo(IntBits)

\* Two's complement: what a machine word keeps of the integer x.
AsInt(x) == LET w == x % Modulus
            IN  IF 2 * w < Modulus THEN w ELSE w - Modulus

AsUint(x) == x % Modulus

\* The loop of largestPow2LessThan: k after i doublings.  It wraps to the most
\* negative int, then to 0, and 0 doubles to 0.
Doubled == [i \in 0..IntBits |-> AsInt(TwoTo(i))]

\* k where the loop first ends; a loop that has not ended when k is 0 never
\* does.
Never == 0

AtEnd(ends) == IF ends = {} THEN Never
               ELSE Doubled[CHOOSE i \in ends : \A j \in ends : i <= j]

\* Mutant of largestPow2LessThan: the loop ends one doubling early.
largestPow2LessThanLoose(n) == AtEnd({i \in 0..IntBits : AsInt(2 * Doubled[i]) >= n - 1})

largestPow2LessThan(n) == AtEnd({i \in 0..IntBits : AsInt(2 * Doubled[i]) >= n})

------------------------------------------------------------------------------
(* Construction.                                                           *)

\* Mutant of Paired: the odd node is hashed with itself instead of promoted.
PairedTwice(level) ==
    [i \in 1..((Len(level) + 1) \div 2) |->
        IF 2 * i <= Len(level) THEN nodeHash(level[2 * i - 1], level[2 * i])
        ELSE nodeHash(level[2 * i - 1], level[2 * i - 1])]

\* One level up: neighbours are hashed together, an odd last node is promoted.
Paired(level) ==
    [i \in 1..((Len(level) + 1) \div 2) |->
        IF 2 * i <= Len(level) THEN nodeHash(level[2 * i - 1], level[2 * i])
        ELSE level[2 * i - 1]]

\* Level j: the leaf hashes, paired j times.
LevelDef(data, j, prev) ==
    IF j = 0 THEN [i \in DOMAIN data |-> leafHash(data[i])] ELSE Paired(prev[j - 1])
Level(data, j) == LET level[i \in Nat] == LevelDef(data, i, level) IN level[j]

\* The loop pairs while a level has more than one node.
Height(data) ==
    CHOOSE h \in 0..Len(data) :
        Len(Level(data, h)) <= 1 /\ \A j \in 0..(h - 1) : Len(Level(data, j)) > 1

\* merkle.New: all levels, leaves first; the callers never pass an empty list
\* (NonEmpty is their guard, ErrEmptyTree the error).
New(data) == [j \in 1..(Height(data) + 1) |-> Level(data, j - 1)]

Root(levels) == levels[Len(levels)][1]

Size(levels) == Len(levels[1])

------------------------------------------------------------------------------
(* Audit paths.                                                            *)

\* A level has a step for node idx unless the node is promoted from it; the
\* sibling is idx^1.
Sibling(idx) == IF idx % 2 = 0 THEN idx + 1 ELSE idx - 1

StepAt(level, idx) ==
    IF idx % 2 = 1 \/ idx + 1 < Len(level)
    THEN <<[hash |-> level[Sibling(idx) + 1], isRight |-> idx % 2 = 0]>>
    ELSE <<>>

\* One round of the loop of Tree.Proof, and the loop after n rounds.
PathUp(level, s) == [idx |-> s.idx \div 2, steps |-> s.steps \o StepAt(level, s.idx)]

PathDef(x, n, prev) ==
    IF n = 0 THEN [idx |-> x.index, steps |-> <<>>] ELSE PathUp(x.levels[n], prev[n - 1])

Path(levels, index, n) ==
    LET path[i \in Nat] == PathDef([levels |-> levels, index |-> index], i, path) IN path[n]

\* Tree.Proof for an index the tree has.
Proof(levels, index) == Path(levels, index, Len(levels) - 1).steps

Fold(h, step) == IF step.isRight THEN nodeHash(h, step.hash)
                                 ELSE nodeHash(step.hash, h)

\* The hash after n steps from the leaf up.
FoldDef(x, n, prev) == IF n = 0 THEN leafHash(x.leaf) ELSE Fold(prev[n - 1], x.steps[n])
Folded(leaf, steps, n) ==
    LET hash[i \in Nat] == FoldDef([leaf |-> leaf, steps |-> steps], i, hash) IN hash[n]

\* The root recomputed from the leaf up is the expected one.
Verify(root, leaf, steps) == Folded(leaf, steps, Len(steps)) = root

\* One round of the loop of proofSideSequence; idx + 1 and count + 1 wrap at the
\* largest uint64.
SideAt(idx, count) ==
    IF idx % 2 = 1 \/ AsUint(idx + 1) < count THEN <<idx % 2 = 0>> ELSE <<>>

SideUp(s) ==
    IF s.count <= 1 THEN s
    ELSE [idx |-> s.idx \div 2, count |-> AsUint(s.count + 1) \div 2,
          sides |-> s.sides \o SideAt(s.idx, s.count)]

\* The loop after n rounds, or when it ended before.
SideDef(x, n, prev) ==
    IF n = 0 THEN [idx |-> x.index, count |-> x.size, sides |-> <<>>] ELSE SideUp(prev[n - 1])

Side(index, treeSize, n) ==
    LET side[i \in Nat] == SideDef([index |-> index, size |-> treeSize], i, side) IN side[n]

\* The side markers the audit path of (index, treeSize) carries; IntBits rounds
\* halve every count down to one.
proofSideSequence(index, treeSize) == Side(index, treeSize, IntBits).sides

\* Mutant of VerifyInclusion: only the number of side markers is compared.
VerifyInclusionByLength(root, index, treeSize, leaf, steps) ==
    IF index >= treeSize THEN "ErrIndexOutOfRange"
    ELSE IF /\ Len(steps) = Len(proofSideSequence(index, treeSize))
            /\ Verify(root, leaf, steps)
         THEN "ok" ELSE "ErrTamperedLeaf"

\* merkle.VerifyInclusion.  decodeProof never fails here: the caller encodes
\* the steps itself, one side byte and 32 bytes of hash each.
VerifyInclusion(root, index, treeSize, leaf, steps) ==
    IF index >= treeSize THEN "ErrIndexOutOfRange"
    ELSE IF /\ [i \in DOMAIN steps |-> steps[i].isRight]
                 = proofSideSequence(index, treeSize)
            /\ Verify(root, leaf, steps)
         THEN "ok" ELSE "ErrTamperedLeaf"

------------------------------------------------------------------------------
(* Consistency proofs.                                                     *)

None == <<>>

AtMost(a, b) == IF a < b THEN a ELSE b

\* subtree: descend from node p of level j to the node that covers [lo, hi);
\* None when no single node does.
DescendDef(x, j, prev) ==
    LET coverLo(p) == p * TwoTo(j)
        coverHi(p) == AtMost(coverLo(p) + TwoTo(j), Size(x.levels))
        leftHi(p)  == coverLo(p) + TwoTo(j - 1)
        leftOnly(p) == 2 * p + 1 >= Len(x.levels[j])   \* the left child was promoted
    IN  [p \in Nat |->
           IF coverLo(p) = x.lo /\ coverHi(p) = x.hi THEN x.levels[j + 1][p + 1]
           ELSE IF j = 0 THEN None
           ELSE IF leftOnly(p) \/ x.hi <= leftHi(p) THEN prev[j - 1][2 * p]
           ELSE IF x.lo < leftHi(p) THEN None
           ELSE prev[j - 1][2 * p + 1]]
Descend(levels, lo, hi, j, p) ==
    LET node[i \in Nat] == DescendDef([levels |-> levels, lo |-> lo, hi |-> hi], i, node)
    IN  node[j][p]

subtree(levels, lo, hi) ==
    IF lo < 0 \/ hi > Size(levels) \/ lo >= hi THEN None
    ELSE Descend(levels, lo, hi, Len(levels) - 1, 0)

Node(h, right) == [hash |-> h, isRight |-> right]

\* The nodes a proof emits for m leaves of the range [lo, lo + n), deepest
\* first; a None among them is a failed lookup.
SubproofDef(levels, n, prev) ==
    LET k == largestPow2LessThan(n)
    IN  [m \in Nat |-> [lo \in Nat |-> [b \in BOOLEAN |->
           IF m = n THEN IF b THEN <<>> ELSE <<Node(subtree(levels, lo, lo + n), FALSE)>>
           ELSE IF m <= k
           THEN Append(prev[k][m][lo][b], Node(subtree(levels, lo + k, lo + n), TRUE))
           ELSE Append(prev[n - k][m - k][lo + k][FALSE],
                       Node(subtree(levels, lo, lo + k), FALSE))]]]
consistencySubproof(levels, m, lo, hi, b) ==
    LET nodes[n \in Nat] == SubproofDef(levels, n, [i \in 0..(n - 1) |-> nodes[i]])
    IN  nodes[hi - lo][m][lo][b]

\* Tree.ConsistencyProof.
ConsistencyProof(levels, m, n) ==
    IF m <= 0 \/ m >= n \/ n # Size(levels) THEN [err |-> "ErrInvalidRange", steps |-> <<>>]
    ELSE LET steps == consistencySubproof(levels, m, 0, n, TRUE)
         IN  IF \E i \in DOMAIN steps : steps[i].hash = None
             THEN [err |-> "ErrTreeCorrupt", steps |-> <<>>]
             ELSE [err |-> "ok", steps |-> steps]

\* proofCursor.take: the hash of the next node, when there is one.
Take(rest) == IF rest = <<>> THEN [ok |-> FALSE] ELSE [ok |-> TRUE, h |-> Head(rest).hash]

Fails == [ok |-> FALSE]

\* The range was in the old tree as a whole: its node is next.
Whole(rest, taken) ==
    IF ~taken.ok THEN Fails
    ELSE [ok |-> TRUE, new |-> taken.h, old |-> taken.h, rest |-> Tail(rest)]

\* The old leaves end in the left part: the right one is the next node.
OnLeft(sub, taken) ==
    IF ~taken.ok THEN Fails
    ELSE [ok |-> TRUE, new |-> nodeHash(sub.new, taken.h), old |-> sub.old,
          rest |-> Tail(sub.rest)]

\* They end in the right part: the left one, in both trees, is the next node.
OnRight(sub, taken) ==
    IF ~taken.ok THEN Fails
    ELSE [ok |-> TRUE, new |-> nodeHash(taken.h, sub.new), old |-> nodeHash(taken.h, sub.old),
          rest |-> Tail(sub.rest)]

\* The hashes of the n-leaf and the m-leaf range and the unconsumed nodes.
VerifyDef(x, n, prev) ==
    LET k == largestPow2LessThan(n)
        left(sub) == IF ~sub.ok THEN Fails ELSE OnLeft(sub, Take(sub.rest))
        right(sub) == IF ~sub.ok THEN Fails ELSE OnRight(sub, Take(sub.rest))
    IN  [m \in Nat |-> [b \in BOOLEAN |->
           IF m = n
           THEN IF b THEN [ok |-> TRUE, new |-> x.old, old |-> x.old, rest |-> x.steps]
                ELSE Whole(x.steps, Take(x.steps))
           ELSE IF m <= k THEN left(prev[k][m][b])
           ELSE right(prev[n - k][m - k][FALSE])]]

verifySubproof(m, n, b, old, steps) ==
    LET x == [old |-> old, steps |-> steps]
        result[i \in Nat] == VerifyDef(x, i, [j \in 0..(i - 1) |-> result[j]])
    IN  result[n][m][b]

\* The first split of the verification never ends: largestPow2LessThan loops.
\* Every later split is of a smaller range.
Loops(m, n) == m > 0 /\ m < n /\ largestPow2LessThan(n) = Never

\* Mutant of VerifyConsistency: a proof may carry nodes it does not use.
VerifyConsistencyTrailing(oldRoot, newRoot, m, n, steps) ==
    IF m = n THEN steps = <<>> /\ oldRoot = newRoot
    ELSE /\ m > 0 /\ m < n
         /\ LET v == verifySubproof(m, n, TRUE, oldRoot, steps)
            IN  v.ok /\ v.new = newRoot

\* merkle.VerifyConsistency, for the (m, n) on which it returns.
VerifyConsistency(oldRoot, newRoot, m, n, steps) ==
    IF m = n THEN steps = <<>> /\ oldRoot = newRoot
    ELSE /\ m > 0 /\ m < n
         /\ LET v == verifySubproof(m, n, TRUE, oldRoot, steps)
            IN  v.ok /\ v.rest = <<>> /\ v.old = oldRoot /\ v.new = newRoot

------------------------------------------------------------------------------
(* The reference: RFC 6962 section 2.1.                                     *)

\* The largest power of two below n.
Split(n) == CHOOSE k \in {TwoTo(e) : e \in 0..n} : k < n /\ n <= 2 * k

\* The hash of the n leaves of d from lo on is the hash of the first k joined
\* with the hash of the others.
MTHDef(d, n, prev) ==
    LET split(k) == [lo \in Nat |-> nodeHash(prev[k][lo], prev[n - k][lo + k])]
    IN  IF n <= 1 THEN [lo \in Nat |-> leafHash(d[lo + 1])] ELSE split(Split(n))
RangeHash(d, lo, n) == LET hash[i \in Nat] == MTHDef(d, i, hash) IN hash[n][lo]
MTH(d) == RangeHash(d, 0, Len(d))

==============================================================================
