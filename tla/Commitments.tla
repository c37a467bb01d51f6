----------------------------- MODULE Commitments ------------------------------
(***************************************************************************)
(* Commitments over trust objects (commitment/): a publisher builds and    *)
(* publishes commitments, a holder makes inclusion and consistency proofs  *)
(* from a commitment it has (its own, or one decoded from the wire and not *)
(* yet verified), and a relying party checks what arrives against the      *)
(* roots that were published.                                              *)
(*                                                                         *)
(* An object is the number its canonical hash has in byte order.  A JSON   *)
(* document may differ from the one that was sent (Alter): the decoders    *)
(* accept every integer and every 32-byte hash.                            *)
(***************************************************************************)
EXTENDS MerkleTree, Functions

CONSTANTS
    Listings,     \* the object lists Build is called with, NilObject included
    NilObject,    \* a nil TrustObject
    Claims,       \* the integers an altered document may claim
    MaxLog        \* bound on the number of published commitments

\* Objects are listed by hash, and no list in memory is as long as a quarter of
\* the integer range; a claim is a Go int.
ASSUME ListingsAssumption ==
    /\ NilObject \notin Int
    /\ \A l \in Listings : l \in Seq(Int \cup {NilObject}) /\ Len(l) < TwoTo(IntBits - 2)

ASSUME ClaimsAssumption == \A n \in Claims : n \in Int /\ AsInt(n) = n

VARIABLES
    log,          \* the commitments published, oldest first
    wire,         \* the document under way
    outcome       \* result of the last call

vars == <<log, wire, outcome>>

Nothing == [kind |-> "nothing"]

Object == (UNION {Range(l) : l \in Listings}) \ {NilObject}

RFC6962 == "rfc6962-sha256"

Ascending(s) == \A i \in 1..(Len(s) - 1) : s[i] < s[i + 1]

------------------------------------------------------------------------------
(* Build and VerifyCommitment.                                             *)

\* s with x put before its first larger element; s is in order.
Inserted(s, x) ==
    LET k == CHOOSE k \in 0..Len(s) : /\ \A i \in 1..k : s[i] <= x
                                      /\ \A i \in (k + 1)..Len(s) : x < s[i]
    IN  [i \in 1..(Len(s) + 1) |-> IF i <= k THEN s[i] ELSE IF i = k + 1 THEN x ELSE s[i - 1]]

\* The first n of the leaves in order.
SortDef(leaves, n, prev) == IF n = 0 THEN <<>> ELSE Inserted(prev[n - 1], leaves[n])

\* Mutant of sortLeaves: the list as it came.
Unordered(leaves) == leaves

sortLeaves(leaves) ==
    LET sorted[n \in Nat] == SortDef(leaves, n, sorted) IN sorted[Len(leaves)]

HasDuplicate(s) == \E i \in 2..Len(s) : s[i - 1] = s[i]

rejectDuplicates(leaves) == HasDuplicate(leaves)

Committed(leaves) == [root |-> Root(New(leaves)), size |-> Len(leaves),
                      leaves |-> leaves, algorithm |-> RFC6962]

BuildError(list) ==
    IF list = <<>> THEN "ErrEmptyObjects"
    ELSE IF NilObject \in Range(list) THEN "ErrNilObject"
    ELSE IF rejectDuplicates(sortLeaves(list)) THEN "ErrDuplicateObject"
    ELSE "ok"

Build(list) == Committed(sortLeaves(list))

\* Mutant of VerifyCommitment: without the size comparison.
VerifyAnySize(c) ==
    IF c.algorithm # RFC6962 THEN "ErrAlgorithmMismatch"
    ELSE IF c.size = 0 \/ c.leaves = <<>> THEN "ErrEmptyCommitment"
    ELSE IF \E i \in 2..Len(c.leaves) : c.leaves[i - 1] > c.leaves[i] THEN "ErrUnsortedLeaves"
    ELSE IF HasDuplicate(c.leaves) THEN "ErrDuplicateLeaf"
    ELSE IF Root(New(c.leaves)) # c.root THEN "ErrRootMismatch"
    ELSE "ok"

VerifyCommitment(c) ==
    IF c.algorithm # RFC6962 THEN "ErrAlgorithmMismatch"
    ELSE IF c.size = 0 \/ c.leaves = <<>> THEN "ErrEmptyCommitment"
    ELSE IF c.size # Len(c.leaves) THEN "ErrSizeMismatch"
    ELSE IF \E i \in 2..Len(c.leaves) : c.leaves[i - 1] > c.leaves[i] THEN "ErrUnsortedLeaves"
    ELSE IF HasDuplicate(c.leaves) THEN "ErrDuplicateLeaf"
    ELSE IF Root(New(c.leaves)) # c.root THEN "ErrRootMismatch"
    ELSE "ok"

------------------------------------------------------------------------------
(* Proofs from a commitment.                                               *)

\* sort.Search: the least index of [lo, lo + n) whose leaf is not below x, found
\* by halving, which on unsorted leaves may miss it.
SearchDef(q, n, prev) ==
    LET h(lo) == lo + n \div 2
    IN  [lo \in Nat |->
           IF n = 0 THEN lo
           ELSE IF q.leaves[h(lo) + 1] >= q.x THEN prev[n \div 2][lo]
           ELSE prev[n - n \div 2 - 1][h(lo) + 1]]
Search(leaves, x, lo, hi) ==
    LET found[n \in Nat] == SearchDef([leaves |-> leaves, x |-> x], n, found)
    IN  found[hi - lo][lo]

\* Mutant of IndexOf: the first leaf above x.
IndexAfter(c, x) == Search(c.leaves, x + 1, 0, Len(c.leaves))

IndexOf(c, x) == Search(c.leaves, x, 0, Len(c.leaves))

InclusionError(c, x) ==
    LET i == IndexOf(c, x)
    IN  IF i >= Len(c.leaves) THEN "ErrObjectNotCommitted"
        ELSE IF c.leaves[i + 1] # x THEN "ErrObjectNotCommitted"
        ELSE "ok"

InclusionProof(c, x) ==
    [kind |-> "inclusion", index |-> IndexOf(c, x), size |-> c.size,
     steps |-> Proof(New(c.leaves), IndexOf(c, x)), of |-> c, object |-> x]

BetweenError(old, next) ==
    IF old.size <= 0 \/ old.size >= next.size THEN "ErrInvalidRange"
    ELSE IF Len(old.leaves) < old.size \/ Len(next.leaves) < old.size THEN "ErrNotPrefix"
    ELSE IF \E i \in 1..old.size : old.leaves[i] # next.leaves[i] THEN "ErrNotPrefix"
    ELSE ConsistencyProof(New(next.leaves), old.size, next.size).err

ConsistencyProofBetween(old, next) ==
    [kind |-> "consistency", old |-> old.size, new |-> next.size,
     steps |-> ConsistencyProof(New(next.leaves), old.size, next.size).steps,
     of |-> <<old, next>>]

VerifyProof(root, p, x) ==
    VerifyInclusion(root, AsUint(p.index), AsUint(p.size), x, p.steps)

------------------------------------------------------------------------------
(* Actions.                                                                *)

Init == log = <<>> /\ wire = Nothing /\ outcome = Nothing

Idle == wire = Nothing /\ outcome = Nothing

Did(call, result) == outcome' = [kind |-> call, result |-> result]

\* Build, and publish the root of what was built.
Publish(list) ==
    /\ Idle /\ Len(log) < MaxLog
    /\ Did("build", BuildError(list))
    /\ log' = IF BuildError(list) = "ok" THEN Append(log, Build(list)) ELSE log
    /\ UNCHANGED wire

SendCommitment(i) ==
    /\ Idle
    /\ wire' = [kind |-> "commitment", c |-> log[i], of |-> log[i]]
    /\ UNCHANGED <<log, outcome>>

\* The commitments a holder may work from.
Held == Range(log) \cup (IF wire.kind = "commitment" THEN {wire.c} ELSE {})

ProveInclusion(c, x) ==
    /\ outcome = Nothing /\ wire.kind \in {"nothing", "commitment"}
    /\ IF InclusionError(c, x) = "ok"
       THEN wire' = InclusionProof(c, x) /\ UNCHANGED outcome
       ELSE /\ outcome' = [kind |-> "inclusion", result |-> InclusionError(c, x),
                           c |-> c, object |-> x]
            /\ UNCHANGED wire
    /\ UNCHANGED log

ProveConsistency(old, next) ==
    /\ outcome = Nothing /\ wire.kind \in {"nothing", "commitment"}
    /\ IF BetweenError(old, next) = "ok"
       THEN wire' = ConsistencyProofBetween(old, next) /\ UNCHANGED outcome
       ELSE /\ outcome' = [kind |-> "consistency", result |-> BetweenError(old, next),
                           old |-> old, next |-> next]
            /\ UNCHANGED wire
    /\ UNCHANGED log

\* Text that is not the hex of 32 bytes.
Malformed == <<"malformed">>

\* What UnmarshalJSON, with decodeHash on every hash, lets through.
Decodes(d) ==
    IF d.kind = "commitment" THEN d.c.root # Malformed
    ELSE \A i \in DOMAIN d.steps : d.steps[i].hash # Malformed

\* Every document that differs from d in one field: a claimed integer, one
\* step's side or hash, the last step, the algorithm, the root, the leaves (with
\* or without the root that fits them).
Digests == UNION {UNION {Range(l) : l \in Range(New(c.leaves))} : c \in Range(log)}

Turned(steps) == {[steps EXCEPT ![i].isRight = ~steps[i].isRight] : i \in DOMAIN steps}

Rehashed(steps) ==
    {[steps EXCEPT ![i].hash = h] : i \in DOMAIN steps, h \in Digests \cup {Malformed}}

Shortened(steps) == {SubSeq(steps, 1, Len(steps) - 1) : i \in DOMAIN steps}

Extended(steps) == {Append(steps, [hash |-> h, isRight |-> TRUE]) : h \in Digests}

AlteredSteps(steps) == Turned(steps) \cup Rehashed(steps) \cup Shortened(steps) \cup Extended(steps)

\* In reverse, without the last, with the last twice, none.
AlteredLeaves(s) ==
    {[i \in DOMAIN s |-> s[Len(s) + 1 - i]], SubSeq(s, 1, Len(s) - 1), Append(s, s[Len(s)]), <<>>}

AlteredCommitment(d) ==
    {[d EXCEPT !.c.size = n] : n \in Claims}
      \cup {[d EXCEPT !.c.leaves = s] : s \in AlteredLeaves(d.c.leaves)}
      \cup {[d EXCEPT !.c = Committed(s)] : s \in AlteredLeaves(d.c.leaves) \ {<<>>}}
      \cup {[d EXCEPT !.c.root = h] : h \in {c.root : c \in Range(log)} \cup {Malformed}}
      \cup {[d EXCEPT !.c.algorithm = "other"]}

AlteredInclusion(d) ==
    {[d EXCEPT !.index = n] : n \in Claims}
      \cup {[d EXCEPT !.size = n] : n \in Claims}
      \cup {[d EXCEPT !.steps = s] : s \in AlteredSteps(d.steps)}

AlteredConsistency(d) ==
    {[d EXCEPT !.old = n] : n \in Claims}
      \cup {[d EXCEPT !.new = n] : n \in Claims}
      \cup {[d EXCEPT !.steps = s] : s \in AlteredSteps(d.steps)}

Altered(d) ==
    IF d.kind = "commitment" THEN AlteredCommitment(d)
    ELSE IF d.kind = "inclusion" THEN AlteredInclusion(d)
    ELSE IF d.kind = "consistency" THEN AlteredConsistency(d)
    ELSE {}

Fresh(d) ==
    \/ d.kind = "commitment" /\ d.c = d.of
    \/ d.kind = "inclusion" /\ d = InclusionProof(d.of, d.object)
    \/ d.kind = "consistency" /\ d = ConsistencyProofBetween(d.of[1], d.of[2])

\* The document stems from published commitments: one alteration at a time.
Genuine(d) == IF d.kind = "consistency" THEN Range(d.of) \subseteq Range(log)
              ELSE d.of \in Range(log)

Alter(d) ==
    /\ outcome = Nothing
    /\ IF Decodes(d) THEN wire' = d /\ UNCHANGED outcome
       ELSE wire' = Nothing /\ Did("decode", "error")
    /\ UNCHANGED log

\* VerifyCommitment of a commitment that arrived.
CheckCommitment ==
    /\ outcome = Nothing /\ wire.kind = "commitment"
    /\ Did("check", VerifyCommitment(wire.c))
    /\ UNCHANGED <<log, wire>>

\* VerifyInclusion of a proof that arrived, for object x, against a root.
CheckInclusion(i, x) ==
    /\ outcome = Nothing /\ wire.kind = "inclusion"
    /\ outcome' = [kind |-> "check", result |-> VerifyProof(log[i].root, wire, x),
                   against |-> i, object |-> x]
    /\ UNCHANGED <<log, wire>>

\* VerifyConsistency of a proof that arrived, between two roots.
CheckConsistency(i, j) ==
    /\ outcome = Nothing /\ wire.kind = "consistency"
    /\ outcome' =
         [kind |-> "check", old |-> i, new |-> j, result |->
            IF Loops(wire.old, wire.new) THEN "never"
            ELSE IF VerifyConsistency(log[i].root, log[j].root, wire.old, wire.new, wire.steps)
            THEN "ok" ELSE "ErrInclusionFailed"]
    /\ UNCHANGED <<log, wire>>

\* The caller is done with the document and the result.
Discard ==
    /\ ~Idle
    /\ wire' = Nothing /\ outcome' = Nothing
    /\ UNCHANGED log

Next ==
    \/ \E list \in Listings : Publish(list)
    \/ \E i \in DOMAIN log : SendCommitment(i)
    \/ \E c \in Held, x \in Object : ProveInclusion(c, x)
    \/ \E old, next \in Held : ProveConsistency(old, next)
    \/ Fresh(wire) /\ Genuine(wire) /\ \E d \in Altered(wire) : Alter(d)
    \/ CheckCommitment
    \/ \E i \in DOMAIN log, x \in Object : CheckInclusion(i, x)
    \/ \E i, j \in DOMAIN log : CheckConsistency(i, j)
    \/ Discard

Spec == Init /\ [][Next]_vars

------------------------------------------------------------------------------
(* Properties.                                                             *)

\* Build pairs level by level and promotes odd nodes; the root it publishes is
\* the recursive hash RFC 6962 defines over the sorted, duplicate-free leaves.
RootIsRFC6962 ==
    \A i \in DOMAIN log : Ascending(log[i].leaves) /\ log[i].root = MTH(log[i].leaves)

\* The order in which a caller lists the objects leaves no trace: two
\* commitments have one root exactly when they commit the same objects.
SameObjectsSameRoot ==
    \A i, j \in DOMAIN log :
        (log[i].root = log[j].root) <=> (Range(log[i].leaves) = Range(log[j].leaves))

\* VerifyCommitment accepts a decoded commitment exactly when Build would have
\* produced it from the objects it lists.
VerifiedIsBuilt ==
    outcome.kind = "check" /\ wire.kind = "commitment" =>
        (outcome.result = "ok" <=>
           BuildError(wire.c.leaves) = "ok" /\ wire.c = Build(wire.c.leaves))

\* A commitment that VerifyCommitment accepts gives an inclusion proof for each
\* object it lists and for no other, and that proof is accepted for its root.
InclusionComplete ==
    /\ outcome.kind = "inclusion" /\ VerifyCommitment(outcome.c) = "ok" =>
         outcome.object \notin Range(outcome.c.leaves)
    /\ outcome.kind = "check" /\ wire.kind = "inclusion" =>
         \/ outcome.result = "ok"
         \/ ~Fresh(wire)
         \/ <<log[outcome.against], outcome.object>> # <<wire.of, wire.object>>

\* Whatever arrives, VerifyInclusion accepts it for an object only if the root
\* commits that object; with the right tree size, only at its own index.
InclusionSound ==
    outcome.kind = "check" /\ wire.kind = "inclusion" /\ outcome.result = "ok" =>
        LET c == log[outcome.against]
        IN  /\ outcome.object \in Range(c.leaves)
            /\ wire.size = c.size => c.leaves[wire.index + 1] = outcome.object

StrictPrefix(s, t) == Len(s) < Len(t) /\ SubSeq(t, 1, Len(s)) = s

\* Between published commitments a consistency proof exists exactly when the
\* later one adds objects that all sort after the earlier one's; the proof is
\* accepted between their roots, and no node lookup ever fails.
ConsistencyComplete ==
    /\ outcome.kind = "consistency" => outcome.result # "ErrTreeCorrupt"
    /\ outcome.kind = "consistency" /\ {outcome.old, outcome.next} \subseteq Range(log) =>
         LET old == Range(outcome.old.leaves)
             new == Range(outcome.next.leaves)
         IN  ~(old \subseteq new /\ old # new /\ \A x \in old, y \in new \ old : x < y)
    /\ outcome.kind = "check" /\ wire.kind = "consistency" =>
         \/ outcome.result = "ok"
         \/ ~Fresh(wire)
         \/ <<log[outcome.old], log[outcome.new]>> # wire.of

\* Whatever arrives, VerifyConsistency accepts it between two roots only if the
\* leaves of the first are a prefix of the leaves of the second.
ConsistencySound ==
    outcome.kind = "check" /\ wire.kind = "consistency" /\ outcome.result = "ok" =>
        LET old == log[outcome.old].leaves
            new == log[outcome.new].leaves
        IN  old = new \/ StrictPrefix(old, new)

------------------------------------------------------------------------------
(* What a comment says, and the code does not do.                          *)

\* tree.go 319: VerifyConsistency "reports false for any malformed input".  It
\* returns, whatever sizes a document claims.
ConsistencyReturns == outcome.kind = "check" => outcome.result # "never"

==============================================================================
