-------------------------- MODULE Commitments_proofs --------------------------
(***************************************************************************)
(* What holds of commitments in every behaviour, for lists of any objects: *)
(* what Build publishes, what the verifiers accept and what the provers    *)
(* make.  The inductive invariant is applied with what MerkleTree_proofs   *)
(* says of the trees.                                                      *)
(***************************************************************************)
EXTENDS MerkleTree_proofs

------------------------------------------------------------------------------
(* What VerifyCommitment accepts.                                          *)

Record(c) == c = [root |-> c.root, size |-> c.size, leaves |-> c.leaves, algorithm |-> c.algorithm]

\* It accepts exactly a commitment that is what Build makes of ascending leaves.
LEMMA VerifiedMeans ==
    ASSUME NEW c, Record(c), c.leaves \in Seq(Int)
    PROVE  VerifyCommitment(c) = "ok" <=>
             c.leaves # <<>> /\ Ascending(c.leaves) /\ c = Committed(c.leaves)
  <1> DEFINE s == c.leaves
  <1>1. Len(s) \in Nat /\ (\A i \in 1..Len(s) : s[i] \in Int) /\ (s # <<>> <=> Len(s) # 0)
    OBVIOUS
  <1>2. (\E i \in 2..Len(s) : s[i - 1] > s[i]) <=> ~InOrder(s)
    <2>1. \A i \in 2..Len(s) : i - 1 \in 1..(Len(s) - 1) /\ (i - 1) + 1 = i /\ s[i - 1] \in Int /\ s[i] \in Int
      BY <1>1
    <2>2. \A i \in 1..(Len(s) - 1) : i + 1 \in 2..Len(s) /\ (i + 1) - 1 = i /\ s[i] \in Int /\ s[i + 1] \in Int
      BY <1>1
    <2> QED BY <2>1, <2>2 DEF InOrder
  <1>3. Ascending(s) <=> InOrder(s) /\ ~HasDuplicate(s)
    BY OrderedApart, Zenon
  <1>4. VerifyCommitment(c) = "ok" <=>
          /\ c.algorithm = RFC6962 /\ c.size # 0 /\ s # <<>> /\ c.size = Len(s)
          /\ InOrder(s) /\ ~HasDuplicate(s) /\ Root(New(s)) = c.root
    BY <1>2, Zenon DEF VerifyCommitment
  <1>5. c = Committed(s) <=> c.algorithm = RFC6962 /\ c.size = Len(s) /\ Root(New(s)) = c.root
    BY DEF Committed, Record
  <1> QED BY <1>1, <1>3, <1>4, <1>5, Zenon

\* Build makes a commitment to a list without a nil object exactly when the list
\* has objects and no object twice, and then to its objects in ascending order.
Built(list) ==
    /\ BuildError(list) = "ok"
    /\ list \in Seq(Int) /\ list # <<>>
    /\ sortLeaves(list) \in Seq(Int) /\ Ascending(sortLeaves(list))
    /\ Len(sortLeaves(list)) = Len(list) /\ Range(sortLeaves(list)) = Range(list)

\* What is known when Build succeeds.
LEMMA BuiltMeans ==
    ASSUME NEW list \in Seq(Int \cup {NilObject}), BuildError(list) = "ok"
    PROVE  Built(list)
  <1> DEFINE t == sortLeaves(list)
  <1>1. list # <<>> /\ NilObject \notin Range(list) /\ ~HasDuplicate(t)
    BY Zenon DEF BuildError, rejectDuplicates
  <1>2. list \in Seq(Int)
    <2>1. \A i \in 1..Len(list) : list[i] # NilObject
      BY <1>1, RangeIs, Zenon
    <2> QED BY <2>1
  <1>3. SortedTo(list, Len(list), t)
    BY <1>2, SortSorts, Zenon
  <1> HIDE DEF t
  <1>4. t \in Seq(Int) /\ Len(t) = Len(list) /\ InOrder(t)
    BY <1>3, Zenon DEF SortedTo
  <1>5. Ascending(t)
    BY <1>1, <1>4, OrderedApart, Zenon
  <1>6. Range(t) = Range(list)
    <2>1. \A y : y \in Range(t) <=> \E i \in 1..Len(t) : y = t[i]
      BY <1>4, RangeIs, Zenon
    <2>2. \A y : y \in Range(list) <=> \E i \in 1..Len(list) : y = list[i]
      BY <1>2, RangeIs, Zenon
    <2>3. \A y : (\E i \in 1..Len(list) : y = t[i]) <=> (\E i \in 1..Len(list) : y = list[i])
      BY <1>3, Zenon DEF SortedTo
    <2>4. \A y : y \in Range(t) <=> y \in Range(list)
      BY <1>4, <2>1, <2>2, <2>3, Zenon
    <2> QED BY <2>4, Zenon
  <1> QED BY <1>1, <1>2, <1>4, <1>5, <1>6, Zenon DEF Built, t

\* VerifyCommitment accepts what Build would have produced.
LEMMA VerifiedBuilt ==
    ASSUME NEW c, Record(c), c.leaves \in Seq(Int)
    PROVE  VerifyCommitment(c) = "ok" <=> BuildError(c.leaves) = "ok" /\ c = Build(c.leaves)
  <1> DEFINE s == c.leaves
  <1>1. ASSUME VerifyCommitment(c) = "ok" PROVE BuildError(s) = "ok" /\ c = Build(s)
    <2>1. s # <<>> /\ Ascending(s) /\ c = Committed(s)
      BY <1>1, VerifiedMeans, Zenon
    <2>2. sortLeaves(s) = s
      BY <2>1, SortKeeps, Zenon
    <2>3. ~HasDuplicate(s)
      BY <2>1, OrderedApart, Zenon
    <2>4. NilObject \notin Range(s)
      <3>1. \A i \in 1..Len(s) : s[i] \in Int
        OBVIOUS
      <3> QED BY <3>1, RangeIs, ListingsAssumption
    <2> QED BY <2>1, <2>2, <2>3, <2>4, Zenon DEF BuildError, Build, rejectDuplicates
  <1>2. ASSUME BuildError(s) = "ok", c = Build(s) PROVE VerifyCommitment(c) = "ok"
    <2>1. s \in Seq(Int \cup {NilObject})
      OBVIOUS
    <2>2. Built(s)
      BY <1>2, <2>1, BuiltMeans, Zenon
    <2>3. c = Committed(sortLeaves(s))
      BY <1>2, Zenon DEF Build
    <2>4. c.leaves = sortLeaves(s)
      BY <2>3 DEF Committed
    <2>5. s # <<>> /\ Ascending(s) /\ c = Committed(s)
      BY <2>2, <2>3, <2>4, Zenon DEF Built
    <2> QED BY <2>5, VerifiedMeans, Zenon
  <1> QED BY <1>1, <1>2, Zenon

------------------------------------------------------------------------------
(* The inductive invariant: what is known of the log, of the document      *)
(* under way and of the last result.                                       *)

\* No longer than a list and one leaf more.
Short(n) == \E l \in Listings : n <= Len(l) + 1

\* A number that is the value of a Go int.
Machine(n) == n \in Int /\ (AsInt(n) = n \/ (0 <= n /\ Short(n)))

Commitment(c) == Record(c) /\ c.leaves \in Seq(Int) /\ Short(Len(c.leaves)) /\ Machine(c.size)

PublishedAs(c, s) ==
    /\ s \in Seq(Int) /\ s # <<>> /\ Ascending(s)
    /\ \E l \in Listings : Len(s) = Len(l)
    /\ c = Committed(s)

Published(c) == \E s : PublishedAs(c, s)

IsSequence(s) == \E U : s \in Seq(U)

LogOk(l) == IsSequence(l) /\ \A i \in DOMAIN l : Published(l[i])

WireCommitment(w) ==
    w.kind = "commitment" /\ w = [kind |-> w.kind, c |-> w.c, of |-> w.of] /\ Commitment(w.c)

WireInclusion(w) ==
    /\ w.kind = "inclusion" /\ Machine(w.index) /\ Machine(w.size) /\ IsSequence(w.steps)
    /\ Commitment(w.of) /\ w.object \in Int /\ InclusionError(w.of, w.object) = "ok"

WireConsistency(w) ==
    /\ w.kind = "consistency" /\ w.old \in Int /\ w.new \in Int
    /\ w.of = <<w.of[1], w.of[2]>> /\ Commitment(w.of[1]) /\ Commitment(w.of[2])
    /\ BetweenError(w.of[1], w.of[2]) = "ok"

WireOk(w) == w = Nothing \/ WireCommitment(w) \/ WireInclusion(w) \/ WireConsistency(w)

CheckedCommitment(o, w) ==
    o.kind = "check" /\ w.kind = "commitment" /\ o.result = VerifyCommitment(w.c)

CheckedInclusion(o, w, l) ==
    /\ o.kind = "check" /\ w.kind = "inclusion" /\ o.against \in DOMAIN l /\ o.object \in Int
    /\ o.result = VerifyProof(l[o.against].root, w, o.object)

CheckedConsistency(o, w, l) ==
    /\ o.kind = "check" /\ w.kind = "consistency" /\ o.old \in DOMAIN l /\ o.new \in DOMAIN l
    /\ o.result = IF Loops(w.old, w.new) THEN "never"
                  ELSE IF VerifyConsistency(l[o.old].root, l[o.new].root, w.old, w.new, w.steps)
                  THEN "ok" ELSE "ErrInclusionFailed"

RefusedInclusion(o) ==
    /\ o.kind = "inclusion" /\ Commitment(o.c) /\ o.object \in Int
    /\ InclusionError(o.c, o.object) # "ok"

RefusedConsistency(o) ==
    /\ o.kind = "consistency" /\ Commitment(o.old) /\ Commitment(o.next)
    /\ o.result = BetweenError(o.old, o.next) /\ o.result # "ok"

OutcomeOk(o, w, l) ==
    \/ o.kind \in {"nothing", "build", "decode"}
    \/ CheckedCommitment(o, w)
    \/ CheckedInclusion(o, w, l)
    \/ CheckedConsistency(o, w, l)
    \/ RefusedInclusion(o)
    \/ RefusedConsistency(o)

Inv == LogOk(log) /\ WireOk(wire) /\ OutcomeOk(outcome, wire, log)

\* The audit paths Tree.Proof makes are sequences.
PathsAreSequences ==
    \A d \in Seq(Int), i \in Nat :
        Short(Len(d)) /\ i < Len(d) => IsSequence(Proof(New(d), i))

\* What was published is a commitment.
LEMMA PublishedCommitment ==
    ASSUME NEW c, Published(c)
    PROVE  Commitment(c)
  <1>1. PICK s : PublishedAs(c, s)
    BY Zenon DEF Published
  <1>2. s \in Seq(Int) /\ (\E l \in Listings : Len(s) = Len(l)) /\ c = Committed(s)
    BY <1>1, Zenon DEF PublishedAs
  <1>3. Record(c) /\ c.leaves = s /\ c.size = Len(s)
    BY <1>2, Zenon DEF Committed, Record
  <1>4. Short(Len(s)) /\ Len(s) \in Nat
    <2>1. Len(s) \in Nat
      BY <1>2
    <2>2. PICK l \in Listings : Len(s) = Len(l)
      BY <1>2, Zenon
    <2>3. Len(s) <= Len(l) + 1
      BY <2>1, <2>2
    <2> QED BY <2>1, <2>2, <2>3, Zenon DEF Short
  <1> QED BY <1>2, <1>3, <1>4 DEF Commitment, Machine

\* An object is a number.
LEMMA ObjectsAreNumbers == \A x \in Object : x \in Int
  <1> SUFFICES ASSUME NEW x \in Object PROVE x \in Int
    OBVIOUS
  <1>1. PICK l \in Listings : x \in Range(l) /\ x # NilObject
    <2>1. x \in UNION {Range(l) : l \in Listings} /\ x # NilObject
      BY Zenon DEF Object
    <2>2. \E l \in Listings : x \in Range(l)
      BY <2>1, Zenon
    <2> QED BY <2>1, <2>2, Zenon
  <1>2. l \in Seq(Int \cup {NilObject})
    BY ListingsAssumption, Zenon
  <1>3. PICK i \in 1..Len(l) : x = l[i]
    BY <1>1, <1>2, RangeIs, Zenon
  <1> QED BY <1>1, <1>2, <1>3

\* What a holder works from is a commitment.
LEMMA HeldCommitment ==
    ASSUME LogOk(log), WireOk(wire), NEW c \in Held
    PROVE  Commitment(c)
  <1>1. CASE c \in Range(log)
    <2>1. PICK i \in DOMAIN log : c = log[i]
      BY <1>1, Zenon DEF Range
    <2>2. Published(c)
      BY <2>1, Zenon DEF LogOk
    <2> QED BY <2>2, PublishedCommitment, Zenon
  <1>2. CASE c \notin Range(log)
    <2>1. wire.kind = "commitment" /\ c = wire.c
      BY <1>2, Zenon DEF Held
    <2> QED BY <2>1 DEF WireOk, WireCommitment, WireInclusion, WireConsistency, Nothing
  <1> QED BY <1>1, <1>2, Zenon

\* Nothing was published, nothing is under way.
LEMMA InitInv == Init => Inv
  <1> SUFFICES ASSUME Init PROVE Inv
    OBVIOUS
  <1>1. LogOk(log)
    <2>1. log \in Seq({}) /\ DOMAIN log = {}
      BY DEF Init
    <2> QED BY <2>1, Zenon DEF LogOk, IsSequence
  <1> QED BY <1>1, Zenon DEF Init, Inv, WireOk, OutcomeOk, Nothing

\* Publish appends what Build makes.
LEMMA PublishKeeps ==
    ASSUME Inv, NEW list \in Listings, Publish(list)
    PROVE  Inv'
  <1>1. LogOk(log) /\ WireOk(wire)
    BY Zenon DEF Inv
  <1>2. wire' = wire /\ outcome'.kind = "build"
    BY Zenon DEF Publish, Did
  <1>3. LogOk(log')
    <2>1. CASE BuildError(list) # "ok"
      BY <1>1, <2>1, Zenon DEF Publish
    <2>2. CASE BuildError(list) = "ok"
      <3> DEFINE c == Build(list)
                 s == sortLeaves(list)
      <3>1. log' = Append(log, c)
        BY <2>2, Zenon DEF Publish
      <3>2. Built(list)
        BY <2>2, BuiltMeans, ListingsAssumption, Zenon
      <3>3. Published(c)
        <4>1. s \in Seq(Int) /\ Ascending(s) /\ Len(s) = Len(list) /\ list # <<>> /\ list \in Seq(Int)
          BY <3>2, Zenon DEF Built
        <4>2. c = Committed(s)
          BY Zenon DEF Build
        <4>3. s # <<>>
          BY <4>1
        <4> HIDE DEF s, c
        <4>4. PublishedAs(c, s)
          BY <4>1, <4>2, <4>3, Zenon DEF PublishedAs
        <4> QED BY <4>4, Zenon DEF Published
      <3> HIDE DEF c
      <3>4. PICK U : log \in Seq(U)
        BY <1>1, Zenon DEF LogOk, IsSequence
      <3> DEFINE V == U \cup {c}
      <3>5. log \in Seq(V) /\ c \in V
        BY <3>4
      <3> HIDE DEF V
      <3>6. log' \in Seq(V) /\ Len(log') = Len(log) + 1
        BY <3>1, <3>5
      <3>7. ASSUME NEW i \in DOMAIN log' PROVE Published(log'[i])
        <4>1. i \in 1..(Len(log) + 1) /\ Len(log) \in Nat
          BY <3>5, <3>6, <3>7
        <4>2. CASE i = Len(log) + 1
          BY <3>1, <3>3, <3>5, <4>2
        <4>3. CASE i # Len(log) + 1
          <5>1. i \in 1..Len(log)
            BY <4>1, <4>3
          <5>2. log'[i] = log[i] /\ i \in DOMAIN log
            BY <3>1, <3>5, <5>1
          <5> QED BY <1>1, <5>2, Zenon DEF LogOk
        <4> QED BY <4>2, <4>3, Zenon
      <3> QED BY <3>6, <3>7, Zenon DEF LogOk, IsSequence
    <2> QED BY <2>1, <2>2, Zenon
  <1> QED BY <1>1, <1>2, <1>3, Zenon DEF Inv, OutcomeOk

\* A published commitment goes on the wire.
LEMMA SendKeeps ==
    ASSUME Inv, NEW i \in DOMAIN log, SendCommitment(i)
    PROVE  Inv'
  <1>1. LogOk(log) /\ log' = log /\ outcome' = Nothing
    BY Zenon DEF Inv, SendCommitment, Idle
  <1>2. Commitment(log[i])
    BY <1>1, PublishedCommitment, Zenon DEF LogOk
  <1>3. wire' = [kind |-> "commitment", c |-> log[i], of |-> log[i]]
    BY Zenon DEF SendCommitment
  <1>4. WireCommitment(wire')
    BY <1>2, <1>3, Zenon DEF WireCommitment
  <1> QED BY <1>1, <1>4, Zenon DEF Inv, WireOk, OutcomeOk, Nothing

\* An inclusion proof or a refusal.
LEMMA ProveInclusionKeeps ==
    ASSUME PathsAreSequences, Inv, NEW c \in Held, NEW x \in Object, ProveInclusion(c, x)
    PROVE  Inv'
  <1>1. LogOk(log) /\ WireOk(wire) /\ log' = log /\ outcome = Nothing
    BY Zenon DEF Inv, ProveInclusion
  <1>2. Commitment(c) /\ x \in Int
    BY <1>1, HeldCommitment, ObjectsAreNumbers, Zenon
  <1>3. CASE InclusionError(c, x) = "ok"
    <2> DEFINE i == IndexOf(c, x)
               p == Proof(New(c.leaves), i)
    <2>1. wire' = [kind |-> "inclusion", index |-> i, size |-> c.size, steps |-> p,
                   of |-> c, object |-> x] /\ outcome' = Nothing
      BY <1>1, <1>3, Zenon DEF ProveInclusion, InclusionProof
    <2>2. c.leaves \in Seq(Int) /\ Short(Len(c.leaves)) /\ Machine(c.size)
      BY <1>2, Zenon DEF Commitment
    <2>3. i \in Nat /\ i < Len(c.leaves)
      BY <1>2, <1>3, <2>2, IndexIn, Zenon
    <2> HIDE DEF i
    <2>4. IsSequence(p)
      BY <2>2, <2>3, Zenon DEF PathsAreSequences
    <2> HIDE DEF p
    <2>5. Machine(i)
      <3>1. PICK l \in Listings : Len(c.leaves) <= Len(l) + 1
        BY <2>2, Zenon DEF Short
      <3>2. Len(c.leaves) \in Nat /\ Len(l) \in Nat
        BY <2>2, ListingsAssumption
      <3>3. i <= Len(l) + 1
        BY <2>3, <3>1, <3>2
      <3> QED BY <2>3, <3>3 DEF Machine, Short
    <2>6. WireInclusion(wire')
      BY <1>2, <1>3, <2>1, <2>2, <2>4, <2>5, Zenon DEF WireInclusion
    <2> QED BY <1>1, <2>1, <2>6, Zenon DEF Inv, WireOk, OutcomeOk, Nothing
  <1>4. CASE InclusionError(c, x) # "ok"
    <2>1. wire' = wire /\ outcome' = [kind |-> "inclusion", result |-> InclusionError(c, x), c |-> c, object |-> x]
      BY <1>4, Zenon DEF ProveInclusion
    <2>2. RefusedInclusion(outcome')
      BY <1>2, <1>4, <2>1, Zenon DEF RefusedInclusion
    <2> QED BY <1>1, <2>1, <2>2, Zenon DEF Inv, OutcomeOk
  <1> QED BY <1>3, <1>4, Zenon

\* A consistency proof or a refusal.
LEMMA ProveConsistencyKeeps ==
    ASSUME Inv, NEW old \in Held, NEW next \in Held, ProveConsistency(old, next)
    PROVE  Inv'
  <1>1. LogOk(log) /\ WireOk(wire) /\ log' = log /\ outcome = Nothing
    BY Zenon DEF Inv, ProveConsistency
  <1>2. Commitment(old) /\ Commitment(next)
    BY <1>1, HeldCommitment, Zenon
  <1>3. CASE BetweenError(old, next) = "ok"
    <2>1. wire' = ConsistencyProofBetween(old, next) /\ outcome' = Nothing
      BY <1>1, <1>3, Zenon DEF ProveConsistency
    <2>2. old.size \in Int /\ next.size \in Int
      BY <1>2, Zenon DEF Commitment, Machine
    <2>3. WireConsistency(wire')
      BY <1>2, <1>3, <2>1, <2>2, Zenon DEF WireConsistency, ConsistencyProofBetween
    <2> QED BY <1>1, <2>1, <2>3, Zenon DEF Inv, WireOk, OutcomeOk, Nothing
  <1>4. CASE BetweenError(old, next) # "ok"
    <2>1. wire' = wire /\ outcome' = [kind |-> "consistency", result |-> BetweenError(old, next),
                                      old |-> old, next |-> next]
      BY <1>4, Zenon DEF ProveConsistency
    <2>2. RefusedConsistency(outcome')
      BY <1>2, <1>4, <2>1, Zenon DEF RefusedConsistency
    <2> QED BY <1>1, <2>1, <2>2, Zenon DEF Inv, OutcomeOk
  <1> QED BY <1>3, <1>4, Zenon

\* The three checks record what they were asked.
LEMMA ChecksKeep ==
    ASSUME Inv,
           \/ CheckCommitment
           \/ \E i \in DOMAIN log, x \in Object : CheckInclusion(i, x)
           \/ \E i, j \in DOMAIN log : CheckConsistency(i, j)
    PROVE  Inv'
  <1>1. LogOk(log) /\ WireOk(wire)
    BY Zenon DEF Inv
  <1>2. CASE CheckCommitment
    <2>1. log' = log /\ wire' = wire /\ CheckedCommitment(outcome', wire')
      BY <1>2, Zenon DEF CheckCommitment, Did, CheckedCommitment
    <2> QED BY <1>1, <2>1, Zenon DEF Inv, OutcomeOk
  <1>3. ASSUME NEW i \in DOMAIN log, NEW x \in Object, CheckInclusion(i, x) PROVE Inv'
    <2>1. log' = log /\ wire' = wire /\ wire.kind = "inclusion"
      BY <1>3, Zenon DEF CheckInclusion
    <2>2. outcome' = [kind |-> "check", result |-> VerifyProof(log[i].root, wire, x),
                      against |-> i, object |-> x]
      BY <1>3, Zenon DEF CheckInclusion
    <2>3. CheckedInclusion(outcome', wire', log')
      BY <2>1, <2>2, ObjectsAreNumbers, Zenon DEF CheckedInclusion
    <2> QED BY <1>1, <2>1, <2>3, Zenon DEF Inv, OutcomeOk
  <1>4. ASSUME NEW i \in DOMAIN log, NEW j \in DOMAIN log, CheckConsistency(i, j) PROVE Inv'
    <2>1. log' = log /\ wire' = wire /\ CheckedConsistency(outcome', wire', log')
      BY <1>4, Zenon DEF CheckConsistency, CheckedConsistency
    <2> QED BY <1>1, <2>1, Zenon DEF Inv, OutcomeOk
  <1> QED BY <1>2, <1>3, <1>4, Zenon

\* A step with a field changed, without the last or with one more is a sequence.
LEMMA AlteredStepsAre ==
    ASSUME NEW steps, IsSequence(steps), NEW s \in AlteredSteps(steps)
    PROVE  IsSequence(s)
  <1>1. PICK U : steps \in Seq(U)
    BY Zenon DEF IsSequence
  <1>2. ASSUME NEW i \in DOMAIN steps, NEW e, s = [steps EXCEPT ![i] = e] PROVE IsSequence(s)
    <2> DEFINE V == U \cup {e}
    <2>1. steps \in Seq(V) /\ e \in V
      BY <1>1
    <2> HIDE DEF V
    <2>2. s \in Seq(V)
      BY <1>2, <2>1
    <2> QED BY <2>2, Zenon DEF IsSequence
  <1>3. CASE s \in Turned(steps)
    <2>1. PICK i \in DOMAIN steps : s = [steps EXCEPT ![i].isRight = ~steps[i].isRight]
      BY <1>3, Zenon DEF Turned
    <2> DEFINE e == [steps[i] EXCEPT !.isRight = ~steps[i].isRight]
    <2>2. s = [steps EXCEPT ![i] = e]
      BY <2>1, Zenon
    <2> HIDE DEF e
    <2> QED BY <1>2, <2>2, Zenon
  <1>4. CASE s \in Rehashed(steps)
    <2>1. PICK i \in DOMAIN steps, h \in Digests \cup {Malformed} : s = [steps EXCEPT ![i].hash = h]
      BY <1>4 DEF Rehashed
    <2> DEFINE e == [steps[i] EXCEPT !.hash = h]
    <2>2. s = [steps EXCEPT ![i] = e]
      BY <2>1, Zenon
    <2> HIDE DEF e
    <2> QED BY <1>2, <2>2, Zenon
  <1>5. CASE s \in Shortened(steps)
    <2>1. s = SubSeq(steps, 1, Len(steps) - 1) /\ Len(steps) \in Nat /\ Len(steps) >= 1
      BY <1>1, <1>5 DEF Shortened
    <2>2. s \in Seq(U)
      BY <1>1, <2>1
    <2> QED BY <2>2, Zenon DEF IsSequence
  <1>6. CASE s \in Extended(steps)
    <2>1. PICK h \in Digests : s = Append(steps, [hash |-> h, isRight |-> TRUE])
      BY <1>6, Zenon DEF Extended
    <2> DEFINE e == [hash |-> h, isRight |-> TRUE]
               V == U \cup {e}
    <2> HIDE DEF e
    <2>2. steps \in Seq(V) /\ e \in V
      BY <1>1
    <2>3. s = Append(steps, e)
      BY <2>1, Zenon DEF e
    <2> HIDE DEF V
    <2>4. s \in Seq(V)
      BY <2>2, <2>3
    <2> QED BY <2>4, Zenon DEF IsSequence
  <1> QED BY <1>3, <1>4, <1>5, <1>6, Zenon DEF AlteredSteps

\* The start of a sequence of numbers.
LEMMA StartOf ==
    ASSUME NEW t \in Seq(Int), NEW n \in Nat, n <= Len(t)
    PROVE  SubSeq(t, 1, n) \in Seq(Int) /\ Len(SubSeq(t, 1, n)) = n /\ \A i \in 1..n : SubSeq(t, 1, n)[i] = t[i]
  OBVIOUS

\* Altered leaves are objects, one more at most.
LEMMA AlteredLeavesAre ==
    ASSUME NEW t, NEW c, PublishedAs(c, t), NEW s \in AlteredLeaves(t)
    PROVE  s \in Seq(Int) /\ Short(Len(s))
  <1>1. t \in Seq(Int) /\ t # <<>>
    BY Zenon DEF PublishedAs
  <1>2. Len(t) \in Nat /\ Len(t) >= 1 /\ \A i \in 1..Len(t) : t[i] \in Int
    BY <1>1
  <1>3. PICK l \in Listings : Len(t) = Len(l)
    BY Zenon DEF PublishedAs
  <1>4. ASSUME Len(s) \in Nat, Len(s) <= Len(t) + 1 PROVE Short(Len(s))
    <2>1. Len(s) <= Len(l) + 1
      BY <1>3, <1>4, Zenon
    <2> QED BY <2>1, Zenon DEF Short
  <1>5. CASE s = [i \in DOMAIN t |-> t[Len(t) + 1 - i]]
    <2> DEFINE n == Len(t)
    <2>1. DOMAIN t = 1..n
      BY <1>1
    <2>2. \A i \in 1..n : n + 1 - i \in 1..n
      BY <1>2
    <2>3. \A i \in 1..n : t[n + 1 - i] \in Int
      BY <1>2, <2>2, Zenon
    <2> HIDE DEF n
    <2>4. s \in [1..n -> Int]
      BY <1>5, <2>1, <2>3, Zenon DEF n
    <2>5. n \in Nat
      BY <1>2, Zenon DEF n
    <2>6. s \in Seq(Int) /\ Len(s) = n
      BY <2>4, <2>5
    <2>7. Len(s) \in Nat /\ Len(s) <= Len(t) + 1
      BY <2>5, <2>6 DEF n
    <2> QED BY <1>4, <2>6, <2>7, Zenon
  <1>6. CASE s = SubSeq(t, 1, Len(t) - 1)
    <2>1. s \in Seq(Int) /\ Len(s) = Len(t) - 1
      <3>1. Len(t) - 1 \in Nat /\ Len(t) - 1 <= Len(t)
        BY <1>2
      <3> QED BY <1>1, <1>6, <3>1, StartOf, Zenon
    <2>2. Len(s) \in Nat /\ Len(s) <= Len(t) + 1
      BY <1>2, <2>1
    <2> QED BY <1>4, <2>1, <2>2, Zenon
  <1>7. CASE s = Append(t, t[Len(t)])
    <2>1. t[Len(t)] \in Int
      BY <1>2
    <2>2. s \in Seq(Int) /\ Len(s) = Len(t) + 1
      BY <1>1, <1>7, <2>1
    <2>3. Len(s) \in Nat /\ Len(s) <= Len(t) + 1
      BY <1>2, <2>2
    <2> QED BY <1>4, <2>2, <2>3, Zenon
  <1>8. CASE s = <<>>
    <2>1. s \in Seq(Int) /\ Len(s) \in Nat /\ Len(s) <= Len(t) + 1
      BY <1>2, <1>8
    <2> QED BY <1>4, <2>1, Zenon
  <1> QED BY <1>5, <1>6, <1>7, <1>8, Zenon DEF AlteredLeaves

\* An altered commitment is a commitment still.
LEMMA AlterCommitmentKeeps ==
    ASSUME LogOk(log), WireCommitment(wire), wire.c = wire.of, wire.of \in Range(log),
           NEW d \in AlteredCommitment(wire)
    PROVE  WireCommitment(d)
  <1> DEFINE c == wire.c
  <1>1. PICK i \in DOMAIN log : c = log[i]
    BY Zenon DEF Range
  <1>2. PICK t : PublishedAs(c, t)
    BY <1>1, Zenon DEF LogOk, Published
  <1>3. Commitment(c) /\ c.leaves = t
    <2>1. Published(c) /\ c = Committed(t)
      BY <1>2, Zenon DEF Published, PublishedAs
    <2> QED BY <2>1, PublishedCommitment DEF Committed
  <1>4. wire = [kind |-> "commitment", c |-> c, of |-> wire.of]
    BY Zenon DEF WireCommitment
  <1> DEFINE Of(r, n, s, a) == [root |-> r, size |-> n, leaves |-> s, algorithm |-> a]
  <1>5. c = Of(c.root, c.size, t, c.algorithm) /\ t \in Seq(Int) /\ Short(Len(t)) /\ Machine(c.size)
    BY <1>3, Zenon DEF Commitment, Record
  <1> HIDE DEF c
  <1>6. ASSUME NEW r, NEW n, NEW s, NEW a, d = [kind |-> "commitment", c |-> Of(r, n, s, a), of |-> wire.of],
               s \in Seq(Int), Short(Len(s)), Machine(n)
        PROVE  WireCommitment(d)
    <2>1. Commitment(Of(r, n, s, a))
      BY <1>6, Zenon DEF Commitment, Record
    <2> HIDE DEF Of
    <2> QED BY <1>6, <2>1, Zenon DEF WireCommitment
  <1>7. CASE d \in {[wire EXCEPT !.c.size = n] : n \in Claims}
    <2>1. PICK n \in Claims : d = [wire EXCEPT !.c.size = n]
      BY <1>7, Zenon
    <2>2. d = [kind |-> "commitment", c |-> Of(c.root, n, t, c.algorithm), of |-> wire.of]
      BY <1>4, <1>5, <2>1
    <2>3. Machine(n)
      BY ClaimsAssumption, Zenon DEF Machine
    <2> HIDE DEF Of
    <2> QED BY <1>5, <1>6, <2>2, <2>3, Zenon
  <1>8. CASE d \in {[wire EXCEPT !.c.leaves = s] : s \in AlteredLeaves(c.leaves)}
    <2>1. PICK s \in AlteredLeaves(t) : d = [wire EXCEPT !.c.leaves = s]
      BY <1>3, <1>8, Zenon DEF c
    <2>2. d = [kind |-> "commitment", c |-> Of(c.root, c.size, s, c.algorithm), of |-> wire.of]
      BY <1>4, <1>5, <2>1
    <2>3. s \in Seq(Int) /\ Short(Len(s))
      BY <1>2, AlteredLeavesAre, Zenon
    <2> HIDE DEF Of
    <2> QED BY <1>5, <1>6, <2>2, <2>3, Zenon
  <1>9. CASE d \in {[wire EXCEPT !.c = Committed(s)] : s \in AlteredLeaves(c.leaves) \ {<<>>}}
    <2>1. PICK s \in AlteredLeaves(t) : d = [wire EXCEPT !.c = Committed(s)]
      BY <1>3, <1>9, Zenon DEF c
    <2>2. d = [kind |-> "commitment", c |-> Of(Root(New(s)), Len(s), s, RFC6962), of |-> wire.of]
      BY <1>4, <2>1 DEF Committed
    <2>3. s \in Seq(Int) /\ Short(Len(s))
      BY <1>2, AlteredLeavesAre
    <2>4. Machine(Len(s))
      BY <2>3 DEF Machine
    <2> HIDE DEF Of
    <2> QED BY <1>5, <1>6, <2>2, <2>3, <2>4, Zenon
  <1>10. CASE d \in {[wire EXCEPT !.c.root = h] : h \in {b.root : b \in Range(log)} \cup {Malformed}}
    <2>1. PICK h \in {b.root : b \in Range(log)} \cup {Malformed} : d = [wire EXCEPT !.c.root = h]
      BY <1>10, Zenon
    <2>2. d = [kind |-> "commitment", c |-> Of(h, c.size, t, c.algorithm), of |-> wire.of]
      BY <1>4, <1>5, <2>1
    <2> HIDE DEF Of
    <2> QED BY <1>5, <1>6, <2>2, Zenon
  <1>11. CASE d = [wire EXCEPT !.c.algorithm = "other"]
    <2>1. d = [kind |-> "commitment", c |-> Of(c.root, c.size, t, "other"), of |-> wire.of]
      BY <1>4, <1>5, <1>11
    <2> HIDE DEF Of
    <2> QED BY <1>5, <1>6, <2>1, Zenon
  <1> QED BY <1>7, <1>8, <1>9, <1>10, <1>11, Zenon DEF AlteredCommitment, c

\* An altered inclusion proof keeps its origin.
LEMMA AlterInclusionKeeps ==
    ASSUME WireInclusion(wire), wire = InclusionProof(wire.of, wire.object),
           NEW d \in AlteredInclusion(wire)
    PROVE  WireInclusion(d)
  <1> DEFINE Made(i, n, s) == [kind |-> "inclusion", index |-> i, size |-> n, steps |-> s,
                               of |-> wire.of, object |-> wire.object]
  <1>1. wire = Made(wire.index, wire.size, wire.steps)
    BY DEF InclusionProof
  <1>2. /\ Machine(wire.index) /\ Machine(wire.size) /\ IsSequence(wire.steps)
        /\ Commitment(wire.of) /\ wire.object \in Int /\ InclusionError(wire.of, wire.object) = "ok"
    BY Zenon DEF WireInclusion
  <1>3. ASSUME NEW i, NEW n, NEW s, d = Made(i, n, s), Machine(i), Machine(n), IsSequence(s)
        PROVE  WireInclusion(d)
    BY <1>2, <1>3, Zenon DEF WireInclusion
  <1>4. \A n \in Claims : Machine(n)
    BY ClaimsAssumption, Zenon DEF Machine
  <1>5. CASE d \in {[wire EXCEPT !.index = n] : n \in Claims}
    <2>1. PICK n \in Claims : d = [wire EXCEPT !.index = n]
      BY <1>5, Zenon
    <2>2. d = Made(n, wire.size, wire.steps)
      BY <1>1, <2>1
    <2> HIDE DEF Made
    <2> QED BY <1>2, <1>3, <1>4, <2>2, Zenon
  <1>6. CASE d \in {[wire EXCEPT !.size = n] : n \in Claims}
    <2>1. PICK n \in Claims : d = [wire EXCEPT !.size = n]
      BY <1>6, Zenon
    <2>2. d = Made(wire.index, n, wire.steps)
      BY <1>1, <2>1
    <2> HIDE DEF Made
    <2> QED BY <1>2, <1>3, <1>4, <2>2, Zenon
  <1>7. CASE d \in {[wire EXCEPT !.steps = s] : s \in AlteredSteps(wire.steps)}
    <2>1. PICK s \in AlteredSteps(wire.steps) : d = [wire EXCEPT !.steps = s]
      BY <1>7, Zenon
    <2>2. d = Made(wire.index, wire.size, s)
      BY <1>1, <2>1
    <2>3. IsSequence(s)
      BY <1>2, AlteredStepsAre, Zenon
    <2> HIDE DEF Made
    <2> QED BY <1>2, <1>3, <2>2, <2>3, Zenon
  <1> QED BY <1>5, <1>6, <1>7, Zenon DEF AlteredInclusion

\* An altered consistency proof keeps its origin.
LEMMA AlterConsistencyKeeps ==
    ASSUME WireConsistency(wire), wire = ConsistencyProofBetween(wire.of[1], wire.of[2]),
           NEW d \in AlteredConsistency(wire)
    PROVE  WireConsistency(d)
  <1> DEFINE Made(m, n, s) == [kind |-> "consistency", old |-> m, new |-> n, steps |-> s,
                               of |-> wire.of]
  <1>1. wire = Made(wire.old, wire.new, wire.steps)
    BY DEF ConsistencyProofBetween
  <1>2. /\ wire.old \in Int /\ wire.new \in Int
        /\ wire.of = <<wire.of[1], wire.of[2]>> /\ Commitment(wire.of[1]) /\ Commitment(wire.of[2])
        /\ BetweenError(wire.of[1], wire.of[2]) = "ok"
    BY Zenon DEF WireConsistency
  <1>3. ASSUME NEW m, NEW n, NEW s, d = Made(m, n, s), m \in Int, n \in Int
        PROVE  WireConsistency(d)
    BY <1>2, <1>3, Zenon DEF WireConsistency
  <1>4. \A n \in Claims : n \in Int
    BY ClaimsAssumption, Zenon
  <1>5. CASE d \in {[wire EXCEPT !.old = n] : n \in Claims}
    <2>1. PICK n \in Claims : d = [wire EXCEPT !.old = n]
      BY <1>5, Zenon
    <2>2. d = Made(n, wire.new, wire.steps)
      BY <1>1, <2>1
    <2> HIDE DEF Made
    <2> QED BY <1>2, <1>3, <1>4, <2>2, Zenon
  <1>6. CASE d \in {[wire EXCEPT !.new = n] : n \in Claims}
    <2>1. PICK n \in Claims : d = [wire EXCEPT !.new = n]
      BY <1>6, Zenon
    <2>2. d = Made(wire.old, n, wire.steps)
      BY <1>1, <2>1
    <2> HIDE DEF Made
    <2> QED BY <1>2, <1>3, <1>4, <2>2, Zenon
  <1>7. CASE d \in {[wire EXCEPT !.steps = s] : s \in AlteredSteps(wire.steps)}
    <2>1. PICK s \in AlteredSteps(wire.steps) : d = [wire EXCEPT !.steps = s]
      BY <1>7, Zenon
    <2>2. d = Made(wire.old, wire.new, s)
      BY <1>1, <2>1
    <2> HIDE DEF Made
    <2> QED BY <1>2, <1>3, <2>2, Zenon
  <1> QED BY <1>5, <1>6, <1>7, Zenon DEF AlteredConsistency

\* An altered document arrives, or is refused by the decoder.
LEMMA AlterKeeps ==
    ASSUME Inv, Fresh(wire), Genuine(wire), NEW d \in Altered(wire), Alter(d)
    PROVE  Inv'
  <1>1. LogOk(log) /\ WireOk(wire) /\ log' = log /\ outcome = Nothing
    BY Zenon DEF Inv, Alter
  <1>2. WireOk(d)
    <2>1. CASE wire.kind = "commitment"
      <3>1. WireCommitment(wire)
        BY <1>1, <2>1 DEF WireOk, WireInclusion, WireConsistency, Nothing
      <3>2. wire.c = wire.of /\ wire.of \in Range(log) /\ d \in AlteredCommitment(wire)
        BY <2>1, Zenon DEF Fresh, Genuine, Altered
      <3> QED BY <1>1, <3>1, <3>2, AlterCommitmentKeeps, Zenon DEF WireOk
    <2>2. CASE wire.kind = "inclusion"
      <3>1. WireInclusion(wire)
        BY <1>1, <2>2 DEF WireOk, WireCommitment, WireConsistency, Nothing
      <3>2. wire = InclusionProof(wire.of, wire.object) /\ d \in AlteredInclusion(wire)
        BY <2>2, Zenon DEF Fresh, Altered
      <3> QED BY <3>1, <3>2, AlterInclusionKeeps, Zenon DEF WireOk
    <2>3. CASE wire.kind = "consistency"
      <3>1. WireConsistency(wire)
        BY <1>1, <2>3 DEF WireOk, WireCommitment, WireInclusion, Nothing
      <3>2. wire = ConsistencyProofBetween(wire.of[1], wire.of[2]) /\ d \in AlteredConsistency(wire)
        BY <2>3, Zenon DEF Fresh, Altered
      <3> QED BY <3>1, <3>2, AlterConsistencyKeeps, Zenon DEF WireOk
    <2> QED BY <2>1, <2>2, <2>3, Zenon DEF Fresh
  <1>3. CASE Decodes(d)
    <2>1. wire' = d /\ outcome' = Nothing
      BY <1>1, <1>3, Zenon DEF Alter
    <2> QED BY <1>1, <1>2, <2>1, Zenon DEF Inv, OutcomeOk, Nothing
  <1>4. CASE ~Decodes(d)
    <2>1. wire' = Nothing /\ outcome'.kind = "decode"
      BY <1>4 DEF Alter, Did
    <2> QED BY <1>1, <2>1, Zenon DEF Inv, WireOk, OutcomeOk
  <1> QED BY <1>3, <1>4, Zenon

\* Every step keeps the invariant.
LEMMA StepInv ==
    ASSUME PathsAreSequences, Inv, [Next]_vars
    PROVE  Inv'
  <1>1. ASSUME NEW list \in Listings, Publish(list) PROVE Inv'
    BY <1>1, PublishKeeps, Zenon
  <1>2. ASSUME NEW i \in DOMAIN log, SendCommitment(i) PROVE Inv'
    BY <1>2, SendKeeps, Zenon
  <1>3. ASSUME NEW c \in Held, NEW x \in Object, ProveInclusion(c, x) PROVE Inv'
    BY <1>3, ProveInclusionKeeps, Zenon
  <1>4. ASSUME NEW old \in Held, NEW next \in Held, ProveConsistency(old, next) PROVE Inv'
    BY <1>4, ProveConsistencyKeeps, Zenon
  <1>5. ASSUME Fresh(wire), Genuine(wire), NEW d \in Altered(wire), Alter(d) PROVE Inv'
    BY <1>5, AlterKeeps, Zenon
  <1>6. ASSUME \/ CheckCommitment
               \/ \E i \in DOMAIN log, x \in Object : CheckInclusion(i, x)
               \/ \E i, j \in DOMAIN log : CheckConsistency(i, j)
        PROVE  Inv'
    BY <1>6, ChecksKeep, Zenon
  <1>7. CASE Discard
    BY <1>7, Zenon DEF Discard, Inv, WireOk, OutcomeOk, Nothing
  <1>8. CASE UNCHANGED vars
    BY <1>8, Zenon DEF vars, Inv
  <1> QED BY <1>1, <1>2, <1>3, <1>4, <1>5, <1>6, <1>7, <1>8, Zenon DEF Next

\* So it always holds.
LEMMA Invariance == ASSUME PathsAreSequences PROVE Spec => []Inv
  <1>1. Inv /\ [Next]_vars => Inv'
    BY StepInv, Zenon
  <1> QED BY <1>1, InitInv, PTL DEF Spec

\* The remainder of a negative number that is above minus the modulus.
LEMMA NegativeModulo ==
    ASSUME NEW n \in Int, NEW M \in Nat, M > 0, n < 0, n + M >= 0
    PROVE  n % M = n + M
  <1> DEFINE w == n % M
             q == n \div M
  <1>1. w \in Int /\ q \in Int /\ n = M * q + w /\ 0 <= w /\ w < M
    OBVIOUS
  <1> HIDE DEF w, q
  <1>2. ~(q >= 0)
    BY <1>1
  <1>3. ~(q <= -2)
    BY <1>1
  <1>4. q = -1
    BY <1>1, <1>2, <1>3
  <1>5. w = n + M
    BY <1>1, <1>4
  <1> QED BY <1>5, Zenon DEF w

\* A check of an inclusion proof has the result VerifyProof gives.
LEMMA InclusionChecked ==
    ASSUME Inv, outcome.kind = "check", wire.kind = "inclusion"
    PROVE  WireInclusion(wire) /\ CheckedInclusion(outcome, wire, log)
  <1>1. WireInclusion(wire)
    BY DEF Inv, WireOk, WireCommitment, WireConsistency, Nothing
  <1>2. CheckedInclusion(outcome, wire, log)
    BY Zenon DEF Inv, OutcomeOk, CheckedCommitment, CheckedConsistency, RefusedInclusion, RefusedConsistency
  <1> QED BY <1>1, <1>2, Zenon

\* A check of a consistency proof has the result VerifyConsistency gives.
LEMMA ConsistencyChecked ==
    ASSUME Inv, outcome.kind = "check", wire.kind = "consistency"
    PROVE  WireConsistency(wire) /\ CheckedConsistency(outcome, wire, log)
  <1>1. WireConsistency(wire)
    BY DEF Inv, WireOk, WireCommitment, WireInclusion, Nothing
  <1>2. CheckedConsistency(outcome, wire, log)
    BY Zenon DEF Inv, OutcomeOk, CheckedCommitment, CheckedInclusion, RefusedInclusion, RefusedConsistency
  <1> QED BY <1>1, <1>2, Zenon

------------------------------------------------------------------------------
(* The theorems.                                                           *)

\* No list is longer than a quarter of the range of the integers.
LEMMA ShortIs == \A n \in Int : Short(n) => n <= Quarter
  <1> SUFFICES ASSUME NEW n \in Int, Short(n) PROVE n <= Quarter
    OBVIOUS
  <1>1. PICK l \in Listings : n <= Len(l) + 1
    BY Zenon DEF Short
  <1>2. Len(l) < Quarter /\ Len(l) \in Nat
    BY ListingsAssumption DEF Quarter
  <1>3. Quarter \in Nat
    BY FourQuarters, Zenon
  <1> QED BY <1>1, <1>2, <1>3

\* A Go int is in the range of the integers.
LEMMA MachineIs == \A n : Machine(n) => n \in Int /\ -(2 * Quarter) <= n /\ n < 2 * Quarter
  <1> SUFFICES ASSUME NEW n, Machine(n) PROVE n \in Int /\ -(2 * Quarter) <= n /\ n < 2 * Quarter
    OBVIOUS
  <1> DEFINE M == 4 * Quarter
  <1>1. Quarter \in Nat /\ 1 <= Quarter /\ M \in Nat /\ M > 0 /\ Modulus = M
    BY FourQuarters
  <1>2. n \in Int
    BY Zenon DEF Machine
  <1>3. CASE AsInt(n) = n
    <2> DEFINE w == n % M
    <2>1. w \in Nat /\ w < M
      <3> HIDE DEF M
      <3> QED BY <1>1, <1>2
    <2>2. n = IF 2 * w < M THEN w ELSE w - M
      BY <1>1, <1>3, Zenon DEF AsInt
    <2> HIDE DEF w
    <2> QED BY <1>1, <1>2, <2>1, <2>2
  <1>4. CASE 0 <= n /\ Short(n)
    BY <1>1, <1>2, <1>4, ShortIs
  <1> QED BY <1>3, <1>4, Zenon DEF Machine

\* As a uint64 a negative int is above every size.
LEMMA UintOf ==
    ASSUME NEW n, Machine(n)
    PROVE  AsUint(n) \in Nat /\ (0 <= n => AsUint(n) = n) /\ (n < 0 => AsUint(n) >= 2 * Quarter)
  <1> DEFINE M == 4 * Quarter
  <1>1. Quarter \in Nat /\ 1 <= Quarter /\ M \in Nat /\ M > 0 /\ Modulus = M
    BY FourQuarters
  <1>2. n \in Int /\ -(2 * Quarter) <= n /\ n < 2 * Quarter
    BY MachineIs, Zenon
  <1>3. CASE 0 <= n
    <2>1. n \in Nat /\ n < Modulus
      BY <1>1, <1>2, <1>3
    <2>2. AsUint(n) = n
      BY <2>1, AsUintFits, Zenon
    <2> QED BY <1>3, <2>1, <2>2
  <1>4. CASE n < 0
    <2> DEFINE w == n % M
               q == n + M
    <2>1. q \in Nat /\ q < M /\ q >= 2 * Quarter
      BY <1>1, <1>2, <1>4
    <2>2. w = q
      <3> HIDE DEF M
      <3> QED BY <1>1, <1>2, <1>4, <2>1, NegativeModulo
    <2>3. AsUint(n) = q
      BY <1>1, <2>2, Zenon DEF AsUint
    <2> HIDE DEF q
    <2> QED BY <1>2, <1>4, <2>1, <2>3
  <1> QED BY <1>2, <1>3, <1>4

\* The audit paths the holders send are sequences.
LEMMA PathsSequences == PathsAreSequences
  <1> SUFFICES ASSUME NEW d \in Seq(Int), NEW i \in Nat, Short(Len(d)), i < Len(d)
               PROVE  IsSequence(Proof(New(d), i))
    BY Zenon DEF PathsAreSequences
  <1>1. Len(d) \in Nat /\ Len(d) >= 1 /\ 2 * Len(d) < Modulus
    BY ShortIs, FourQuarters
  <1>2. Proof(New(d), i) \in Seq(StepsOf(d))
    BY <1>1, ProofIsSequence, Zenon
  <1> QED BY <1>2, Zenon DEF IsSequence

\* The invariant of the log, the document under way and the last result.
LEMMA AlwaysInv == Spec => []Inv
  BY Invariance, PathsSequences, Zenon

------------------------------------------------------------------------------
(* What is published.                                                      *)

Entry(c) ==
    /\ c.leaves \in Seq(Int) /\ Len(c.leaves) >= 1 /\ Len(c.leaves) <= Quarter
    /\ Ascending(c.leaves) /\ c.size = Len(c.leaves) /\ c.root = Root(New(c.leaves))

\* A published commitment has ascending leaves, their number and their root.
LEMMA EntryIs ==
    ASSUME Inv, NEW i \in DOMAIN log
    PROVE  Entry(log[i]) /\ Commitment(log[i])
  <1> DEFINE c == log[i]
  <1>1. Published(c)
    BY Zenon DEF Inv, LogOk
  <1>2. Commitment(c)
    BY <1>1, PublishedCommitment, Zenon
  <1> HIDE DEF c
  <1>3. PICK s : PublishedAs(c, s)
    BY <1>1, Zenon DEF Published
  <1>4. s \in Seq(Int) /\ s # <<>> /\ Ascending(s) /\ c = Committed(s)
    BY <1>3, Zenon DEF PublishedAs
  <1>5. c.leaves = s /\ c.size = Len(s) /\ c.root = Root(New(s))
    BY <1>4, Zenon DEF Committed
  <1>6. Len(s) \in Nat /\ Len(s) >= 1 /\ Len(s) <= Quarter
    <2>1. Len(s) \in Nat /\ Len(s) >= 1
      BY <1>4
    <2>2. Short(Len(s))
      BY <1>2, <1>5, Zenon DEF Commitment
    <2> QED BY <2>1, <2>2, ShortIs
  <1> QED BY <1>2, <1>4, <1>5, <1>6, Zenon DEF Entry, c

\* Tree sizes stay clear of the end of the range.
LEMMA SizesFit ==
    ASSUME NEW n \in Nat, n <= Quarter
    PROVE  2 * n < Modulus /\ n < Modulus /\ n < 2 * Quarter
  BY FourQuarters

\* In every behaviour the root Build publishes is the RFC 6962 hash of its
\* ascending leaves.
THEOREM RootsAreRFC6962 == Spec => []RootIsRFC6962
  <1>1. Inv => RootIsRFC6962
    <2> SUFFICES ASSUME Inv, NEW i \in DOMAIN log
                 PROVE  Ascending(log[i].leaves) /\ log[i].root = MTH(log[i].leaves)
      BY Zenon DEF RootIsRFC6962
    <2>1. Entry(log[i])
      BY EntryIs, Zenon
    <2> QED BY <2>1, RootIsReference, Zenon DEF Entry
  <1> QED BY <1>1, AlwaysInv, PTL

\* Two published commitments have one root exactly when they commit the same
\* objects, in whatever order Build was given them.
THEOREM RootsAreObjects == Spec => []SameObjectsSameRoot
  <1>1. Inv => SameObjectsSameRoot
    <2> SUFFICES ASSUME Inv, NEW i \in DOMAIN log, NEW j \in DOMAIN log
                 PROVE  (log[i].root = log[j].root) <=> (Range(log[i].leaves) = Range(log[j].leaves))
      BY Zenon DEF SameObjectsSameRoot
    <2> DEFINE s == log[i].leaves
               t == log[j].leaves
    <2>1. Entry(log[i]) /\ Entry(log[j])
      BY EntryIs, Zenon
    <2>2. /\ s \in Seq(Int) /\ Len(s) >= 1 /\ Ascending(s) /\ log[i].root = Root(New(s))
          /\ t \in Seq(Int) /\ Len(t) >= 1 /\ Ascending(t) /\ log[j].root = Root(New(t))
      BY <2>1, Zenon DEF Entry
    <2> HIDE DEF s, t
    <2>3. Root(New(s)) = Root(New(t)) => s = t
      BY <2>2, RootInjective, Zenon
    <2>4. Range(s) = Range(t) => s = t
      BY <2>2, AscendingSame, Zenon
    <2> QED BY <2>2, <2>3, <2>4, Zenon DEF s, t
  <1> QED BY <1>1, AlwaysInv, PTL

\* VerifyCommitment accepts a decoded commitment exactly when Build would have
\* produced it from the objects it lists.
THEOREM VerifiedAreBuilt == Spec => []VerifiedIsBuilt
  <1>1. Inv => VerifiedIsBuilt
    <2> SUFFICES ASSUME Inv, outcome.kind = "check", wire.kind = "commitment"
                 PROVE  outcome.result = "ok" <=>
                          BuildError(wire.c.leaves) = "ok" /\ wire.c = Build(wire.c.leaves)
      BY Zenon DEF VerifiedIsBuilt
    <2>1. WireCommitment(wire)
      BY DEF Inv, WireOk, WireInclusion, WireConsistency, Nothing
    <2>2. outcome.result = VerifyCommitment(wire.c)
      BY Zenon DEF Inv, OutcomeOk, CheckedCommitment, CheckedInclusion, CheckedConsistency,
             RefusedInclusion, RefusedConsistency
    <2>3. Record(wire.c) /\ wire.c.leaves \in Seq(Int)
      BY <2>1, Zenon DEF WireCommitment, Commitment
    <2> QED BY <2>2, <2>3, VerifiedBuilt, Zenon
  <1> QED BY <1>1, AlwaysInv, PTL

------------------------------------------------------------------------------
(* Inclusion proofs.                                                       *)

\* The proof made from a published commitment for an object it has is accepted.
LEMMA MadeIsAccepted ==
    ASSUME NEW c, Entry(c), NEW x \in Int, InclusionError(c, x) = "ok"
    PROVE  VerifyProof(c.root, InclusionProof(c, x), x) = "ok"
  <1> DEFINE s == c.leaves
             i == IndexOf(c, x)
             p == Proof(New(s), i)
  <1>1. s \in Seq(Int) /\ Len(s) >= 1 /\ Len(s) <= Quarter /\ c.size = Len(s) /\ c.root = Root(New(s))
    BY Zenon DEF Entry
  <1>2. i \in Nat /\ i < Len(s) /\ s[i + 1] = x
    BY <1>1, IndexIn, Zenon
  <1>3. InclusionProof(c, x) = [kind |-> "inclusion", index |-> i, size |-> Len(s),
                                steps |-> p, of |-> c, object |-> x]
    BY <1>1, Zenon DEF InclusionProof
  <1> HIDE DEF i, p, s
  <1>4. Len(s) \in Nat /\ 2 * Len(s) < Modulus /\ Len(s) < Modulus /\ i < Modulus
    <2>1. Len(s) \in Nat /\ Modulus \in Nat
      BY <1>1, FourQuarters
    <2> QED BY <1>1, <1>2, <2>1, SizesFit
  <1>5. AsUint(i) = i /\ AsUint(Len(s)) = Len(s)
    BY <1>2, <1>4, AsUintFits, Zenon
  <1>6. VerifyProof(c.root, InclusionProof(c, x), x) = VerifyInclusion(c.root, i, Len(s), x, p)
    BY <1>3, <1>5 DEF VerifyProof
  <1>7. VerifyInclusion(Root(New(s)), i, Len(s), s[i + 1], p) = "ok"
    BY <1>1, <1>2, <1>4, ProofVerifies, Zenon DEF p
  <1> QED BY <1>1, <1>2, <1>6, <1>7, Zenon

\* A verified commitment gives a proof for each object it lists and for no
\* other, and the proof made from a published one is accepted for its root.
THEOREM InclusionIsComplete == Spec => []InclusionComplete
  <1>1. Inv => InclusionComplete
    <2> SUFFICES ASSUME Inv PROVE InclusionComplete
      OBVIOUS
    <2>1. ASSUME outcome.kind = "inclusion", VerifyCommitment(outcome.c) = "ok"
          PROVE  outcome.object \notin Range(outcome.c.leaves)
      <3>1. RefusedInclusion(outcome)
        BY <2>1, Zenon DEF Inv, OutcomeOk, CheckedCommitment, CheckedInclusion, CheckedConsistency, RefusedConsistency
      <3> DEFINE c == outcome.c
                 x == outcome.object
      <3>2. Record(c) /\ c.leaves \in Seq(Int) /\ x \in Int /\ InclusionError(c, x) # "ok"
        BY <3>1, Zenon DEF RefusedInclusion, Commitment
      <3>3. Ascending(c.leaves)
        BY <2>1, <3>2, VerifiedMeans, Zenon
      <3> HIDE DEF c, x
      <3>4. x \notin Range(c.leaves)
        BY <3>2, <3>3, IndexFinds, Zenon
      <3> QED BY <3>4, Zenon DEF c, x
    <2>2. ASSUME outcome.kind = "check", wire.kind = "inclusion", Fresh(wire),
                 <<log[outcome.against], outcome.object>> = <<wire.of, wire.object>>
          PROVE  outcome.result = "ok"
      <3> DEFINE c == log[outcome.against]
                 x == outcome.object
      <3>1. WireInclusion(wire) /\ CheckedInclusion(outcome, wire, log)
        BY <2>2, InclusionChecked, Zenon
      <3>2. outcome.against \in DOMAIN log /\ x \in Int /\ outcome.result = VerifyProof(c.root, wire, x)
        BY <3>1, Zenon DEF CheckedInclusion
      <3>3. wire.of = c /\ wire.object = x
        BY <2>2, Zenon
      <3>4. wire = InclusionProof(c, x) /\ InclusionError(c, x) = "ok"
        BY <2>2, <3>1, <3>3, Zenon DEF Fresh, WireInclusion
      <3>5. Entry(c)
        BY <3>2, EntryIs, Zenon
      <3> HIDE DEF c, x
      <3>6. VerifyProof(c.root, InclusionProof(c, x), x) = "ok"
        BY <3>2, <3>4, <3>5, MadeIsAccepted, Zenon
      <3> QED BY <3>2, <3>4, <3>6, Zenon
    <2> QED BY <2>1, <2>2, Zenon DEF InclusionComplete
  <1> QED BY <1>1, AlwaysInv, PTL

\* Whatever proof arrives, VerifyInclusion accepts it for an object only if the
\* root commits it; with the tree's own size, only at the object's own index.
THEOREM InclusionIsSound == Spec => []InclusionSound
  <1>1. Inv => InclusionSound
    <2> SUFFICES ASSUME Inv, outcome.kind = "check", wire.kind = "inclusion", outcome.result = "ok"
                 PROVE  LET c == log[outcome.against]
                        IN  /\ outcome.object \in Range(c.leaves)
                            /\ wire.size = c.size => c.leaves[wire.index + 1] = outcome.object
      BY Zenon DEF InclusionSound
    <2> DEFINE c == log[outcome.against]
               s == c.leaves
               x == outcome.object
               n == AsUint(wire.size)
               i == AsUint(wire.index)
               p == wire.steps
    <2>1. WireInclusion(wire) /\ CheckedInclusion(outcome, wire, log)
      BY InclusionChecked, Zenon
    <2>2. outcome.against \in DOMAIN log /\ VerifyProof(c.root, wire, x) = "ok"
      BY <2>1, Zenon DEF CheckedInclusion
    <2>3. Entry(c)
      BY <2>2, EntryIs, Zenon
    <2>4. s \in Seq(Int) /\ Len(s) >= 1 /\ Len(s) <= Quarter /\ c.size = Len(s) /\ c.root = Root(New(s))
      BY <2>3, Zenon DEF Entry
    <2>5. VerifyInclusion(Root(New(s)), i, n, x, p) = "ok"
      BY <2>2, <2>4, Zenon DEF VerifyProof
    <2>6. Machine(wire.index) /\ Machine(wire.size) /\ IsSequence(p)
      BY <2>1, Zenon DEF WireInclusion
    <2>7. Len(p) \in Nat /\ DOMAIN p = 1..Len(p)
      BY <2>6 DEF IsSequence
    <2>8. x \in Range(s)
      <3>1. Verify(Root(New(s)), x, p)
        BY <2>5, Zenon DEF VerifyInclusion
      <3>2. \E k \in 1..Len(s) : s[k] = x
        BY <2>4, <2>7, <3>1, VerifiedIsCommitted, SMTT(30)
      <3> QED BY <2>4, <3>2, RangeIs, Zenon
    <2>9. ASSUME wire.size = c.size PROVE s[wire.index + 1] = x
      <3> HIDE DEF s, x, p, i, c
      <3>1. Len(s) \in Nat /\ Quarter \in Nat /\ 2 * Len(s) < Modulus /\ Len(s) < Modulus
        <4>1. Len(s) \in Nat /\ Quarter \in Nat
          BY <2>4, FourQuarters
        <4> QED BY <2>4, <4>1, SizesFit, Zenon
      <3>2. n = Len(s)
        BY <2>4, <2>9, <3>1, AsUintFits, Zenon
      <3>3. i \in Nat /\ (0 <= wire.index => i = wire.index) /\ (wire.index < 0 => i >= 2 * Quarter)
        BY <2>6, UintOf, Zenon DEF i
      <3>4. i < Len(s) /\ s[i + 1] = x
        BY <2>4, <2>5, <2>7, <3>1, <3>2, <3>3, VerifiedAtIndex, SMTT(30)
      <3>5. wire.index \in Int
        BY <2>6, Zenon DEF Machine
      <3>6. i = wire.index
        BY <2>4, <3>1, <3>3, <3>4, <3>5, SMTT(30)
      <3> QED BY <3>4, <3>6, Zenon
    <2> QED BY <2>8, <2>9, Zenon
  <1> QED BY <1>1, AlwaysInv, PTL

------------------------------------------------------------------------------
(* Consistency proofs.                                                     *)

\* Whatever proof arrives, VerifyConsistency accepts it between two roots only
\* if the leaves of the first are the start of the leaves of the second.
THEOREM ConsistencyIsSound == Spec => []ConsistencySound
  <1>1. Inv => ConsistencySound
    <2> SUFFICES ASSUME Inv, outcome.kind = "check", wire.kind = "consistency", outcome.result = "ok"
                 PROVE  LET old == log[outcome.old].leaves
                            new == log[outcome.new].leaves
                        IN  old = new \/ StrictPrefix(old, new)
      BY Zenon DEF ConsistencySound
    <2> DEFINE a == log[outcome.old]
               b == log[outcome.new]
               e == a.leaves
               d == b.leaves
    <2>1. WireConsistency(wire) /\ CheckedConsistency(outcome, wire, log)
      BY ConsistencyChecked, Zenon
    <2>2. outcome.old \in DOMAIN log /\ outcome.new \in DOMAIN log
      BY <2>1, Zenon DEF CheckedConsistency
    <2>3. ~Loops(wire.old, wire.new) /\ VerifyConsistency(a.root, b.root, wire.old, wire.new, wire.steps)
      BY <2>1, Zenon DEF CheckedConsistency
    <2>4. wire.old \in Int /\ wire.new \in Int
      BY <2>1, Zenon DEF WireConsistency
    <2>5. Entry(a) /\ Entry(b)
      BY <2>2, EntryIs, Zenon
    <2>6. /\ e \in Seq(Int) /\ Len(e) >= 1 /\ a.root = Root(New(e))
          /\ d \in Seq(Int) /\ Len(d) >= 1 /\ b.root = Root(New(d))
      BY <2>5, Zenon DEF Entry
    <2> HIDE DEF e, d
    <2>7. Len(e) <= Len(d) /\ \A i \in 1..Len(e) : d[i] = e[i]
      BY <2>3, <2>4, <2>6, AcceptedIsPrefix
    <2>8. CASE Len(e) = Len(d)
      <3>1. d = e
        BY <2>6, <2>7, <2>8, SameElements, Zenon
      <3> QED BY <3>1, Zenon DEF e, d
    <2>9. CASE Len(e) # Len(d)
      <3>1. Len(e) < Len(d) /\ Len(e) \in Nat
        BY <2>6, <2>7, <2>9
      <3> DEFINE u == SubSeq(d, 1, Len(e))
      <3>2. u \in Seq(Int) /\ Len(u) = Len(e) /\ \A i \in 1..Len(e) : u[i] = d[i]
        BY <2>6, <3>1, StartOf
      <3> HIDE DEF u
      <3>3. u = e
        BY <2>6, <2>7, <3>2, SameElements, Zenon
      <3>4. StrictPrefix(e, d)
        BY <3>1, <3>3, Zenon DEF StrictPrefix, u
      <3> QED BY <3>4, Zenon DEF e, d
    <2> QED BY <2>8, <2>9, Zenon
  <1> QED BY <1>1, AlwaysInv, PTL

\* No lookup of a node fails, whatever commitments a holder works from.
LEMMA NeverCorrupt ==
    ASSUME NEW old, NEW next, Commitment(old), Commitment(next)
    PROVE  BetweenError(old, next) # "ErrTreeCorrupt"
  <1> DEFINE d == next.leaves
             m == old.size
             n == next.size
             p == ConsistencyProof(New(d), m, n)
  <1>1. d \in Seq(Int) /\ Short(Len(d)) /\ m \in Int /\ n \in Int
    BY Zenon DEF Commitment, Machine
  <1>2. old.leaves \in Seq(Int)
    BY Zenon DEF Commitment
  <1> SUFFICES ASSUME 0 < m, m < n, ~(Len(d) < m) PROVE p.err # "ErrTreeCorrupt"
    BY <1>1, <1>2 DEF BetweenError
  <1> HIDE DEF d, m, n, p
  <1>3. Len(d) \in Nat /\ Len(d) >= 1 /\ Len(d) <= Quarter
    BY <1>1, ShortIs
  <1>4. Size(New(d)) = Len(d)
    BY <1>1, <1>3, NewIs, Zenon
  <1>5. CASE n # Len(d)
    <2>1. p = [err |-> "ErrInvalidRange", steps |-> <<>>]
      BY <1>4, <1>5, Zenon DEF ConsistencyProof, p
    <2> QED BY <2>1, Zenon
  <1>6. CASE n = Len(d)
    <2>1. m \in Nat /\ 1 <= m /\ m < Len(d) /\ Len(d) <= TwoTo(IntBits - 2)
      BY <1>1, <1>3, <1>6 DEF Quarter
    <2>2. ConsistencyProof(New(d), m, Len(d)).err = "ok"
      BY <1>1, <2>1, ProofConsistent, Zenon
    <2> QED BY <1>6, <2>2, Zenon DEF p
  <1> QED BY <1>5, <1>6, Zenon

\* Between published commitments there is a proof exactly when one starts the other.
LEMMA BetweenIs ==
    ASSUME NEW a, NEW b, Entry(a), Entry(b)
    PROVE  BetweenError(a, b) = "ok" <=>
             Len(a.leaves) < Len(b.leaves) /\ \A i \in 1..Len(a.leaves) : b.leaves[i] = a.leaves[i]
  <1> DEFINE e == a.leaves
             d == b.leaves
             p == ConsistencyProof(New(d), Len(e), Len(d))
  <1>1. /\ e \in Seq(Int) /\ Len(e) >= 1 /\ Len(e) <= Quarter /\ a.size = Len(e)
        /\ d \in Seq(Int) /\ Len(d) >= 1 /\ Len(d) <= Quarter /\ b.size = Len(d)
    BY Zenon DEF Entry
  <1>2. Len(e) \in Nat /\ Len(d) \in Nat
    BY <1>1
  <1>3. BetweenError(a, b) = IF Len(e) <= 0 \/ Len(e) >= Len(d) THEN "ErrInvalidRange"
                             ELSE IF Len(e) < Len(e) \/ Len(d) < Len(e) THEN "ErrNotPrefix"
                             ELSE IF \E i \in 1..Len(e) : e[i] # d[i] THEN "ErrNotPrefix"
                             ELSE p.err
    BY <1>1, Zenon DEF BetweenError
  <1> HIDE DEF e, d
  <1>4. ASSUME Len(e) < Len(d), \A i \in 1..Len(e) : d[i] = e[i] PROVE p.err = "ok"
    BY <1>1, <1>2, <1>4, PrefixVerifies, Zenon DEF Quarter
  <1> HIDE DEF p
  <1>5. BetweenError(a, b) = "ok" => Len(e) < Len(d) /\ \A i \in 1..Len(e) : d[i] = e[i]
    BY <1>2, <1>3
  <1>6. Len(e) < Len(d) /\ (\A i \in 1..Len(e) : d[i] = e[i]) => BetweenError(a, b) = "ok"
    BY <1>1, <1>2, <1>3, <1>4
  <1> QED BY <1>5, <1>6, Zenon DEF e, d

\* The proof made between two published commitments is accepted.
LEMMA BetweenAccepted ==
    ASSUME NEW a, NEW b, Entry(a), Entry(b), BetweenError(a, b) = "ok",
           NEW w, w = ConsistencyProofBetween(a, b)
    PROVE  ~Loops(w.old, w.new) /\ VerifyConsistency(a.root, b.root, w.old, w.new, w.steps)
  <1> DEFINE e == a.leaves
             d == b.leaves
             p == ConsistencyProof(New(d), Len(e), Len(d))
  <1>1. /\ e \in Seq(Int) /\ Len(e) >= 1 /\ a.size = Len(e) /\ a.root = Root(New(e))
        /\ d \in Seq(Int) /\ Len(d) <= Quarter /\ b.size = Len(d) /\ b.root = Root(New(d))
    BY Zenon DEF Entry
  <1>2. Len(e) < Len(d) /\ \A i \in 1..Len(e) : d[i] = e[i]
    BY BetweenIs, Zenon
  <1>3. w.old = Len(e) /\ w.new = Len(d) /\ w.steps = p.steps
    BY <1>1, Zenon DEF ConsistencyProofBetween
  <1> HIDE DEF e, d
  <1>4. VerifyConsistency(Root(New(e)), Root(New(d)), Len(e), Len(d), p.steps)
    BY <1>1, <1>2, PrefixVerifies, Zenon DEF Quarter
  <1>5. ~Loops(Len(e), Len(d))
    <2>1. Len(e) \in Int /\ Len(d) \in Int /\ Quarter \in Nat
      BY <1>1, FourQuarters
    <2>2. ~(Len(d) > TwoTo(IntBits - 2))
      BY <1>1, <2>1 DEF Quarter
    <2> QED BY <2>1, <2>2, LoopsAbove, Zenon
  <1> HIDE DEF p
  <1> QED BY <1>1, <1>3, <1>4, <1>5, Zenon

\* Between published commitments a proof exists exactly when the later one adds
\* objects that sort after the earlier one's; it is accepted, and no lookup of a
\* node fails.
THEOREM ConsistencyIsComplete == Spec => []ConsistencyComplete
  <1>1. Inv => ConsistencyComplete
    <2> SUFFICES ASSUME Inv PROVE ConsistencyComplete
      OBVIOUS
    <2>1. ASSUME outcome.kind = "consistency"
          PROVE  /\ Commitment(outcome.old) /\ Commitment(outcome.next)
                 /\ outcome.result = BetweenError(outcome.old, outcome.next) /\ outcome.result # "ok"
      <3>1. RefusedConsistency(outcome)
        BY <2>1, Zenon DEF Inv, OutcomeOk, CheckedCommitment, CheckedInclusion, CheckedConsistency, RefusedInclusion
      <3> QED BY <3>1, Zenon DEF RefusedConsistency
    <2>2. outcome.kind = "consistency" => outcome.result # "ErrTreeCorrupt"
      BY <2>1, NeverCorrupt, Zenon
    <2>3. ASSUME outcome.kind = "consistency", {outcome.old, outcome.next} \subseteq Range(log)
          PROVE  LET old == Range(outcome.old.leaves)
                     new == Range(outcome.next.leaves)
                 IN  ~(old \subseteq new /\ old # new /\ \A x \in old, y \in new \ old : x < y)
      <3> DEFINE a == outcome.old
                 b == outcome.next
                 e == a.leaves
                 d == b.leaves
      <3>1. (\E i \in DOMAIN log : a = log[i]) /\ (\E i \in DOMAIN log : b = log[i])
        BY <2>3, Zenon DEF Range
      <3>2. Entry(a) /\ Entry(b)
        BY <3>1, EntryIs, Zenon
      <3>3. BetweenError(a, b) # "ok"
        BY <2>1, <2>3, Zenon
      <3>4. ~(Len(e) < Len(d) /\ \A i \in 1..Len(e) : d[i] = e[i])
        BY <3>2, <3>3, BetweenIs, Zenon
      <3>5. e \in Seq(Int) /\ Ascending(e) /\ d \in Seq(Int) /\ Ascending(d)
        BY <3>2, Zenon DEF Entry
      <3> HIDE DEF e, d
      <3>6. ~(/\ Range(e) \subseteq Range(d) /\ Range(e) # Range(d)
              /\ \A x \in Range(e), y \in Range(d) \ Range(e) : x < y)
        BY <3>4, <3>5, AscendingPrefix, Zenon
      <3> QED BY <3>6, Zenon DEF e, d
    <2>4. ASSUME outcome.kind = "check", wire.kind = "consistency", Fresh(wire),
                 <<log[outcome.old], log[outcome.new]>> = wire.of
          PROVE  outcome.result = "ok"
      <3> DEFINE a == log[outcome.old]
                 b == log[outcome.new]
      <3>1. WireConsistency(wire) /\ CheckedConsistency(outcome, wire, log)
        BY <2>4, ConsistencyChecked, Zenon
      <3>2. outcome.old \in DOMAIN log /\ outcome.new \in DOMAIN log
        BY <3>1, Zenon DEF CheckedConsistency
      <3>3. Entry(a) /\ Entry(b)
        BY <3>2, EntryIs, Zenon
      <3>4. wire.of[1] = a /\ wire.of[2] = b
        BY <2>4
      <3>5. wire = ConsistencyProofBetween(a, b) /\ BetweenError(a, b) = "ok"
        BY <2>4, <3>1, <3>4, Zenon DEF Fresh, WireConsistency
      <3>6. ~Loops(wire.old, wire.new) /\ VerifyConsistency(a.root, b.root, wire.old, wire.new, wire.steps)
        <4> HIDE DEF a, b
        <4> QED BY <3>3, <3>5, BetweenAccepted, Zenon
      <3> QED BY <3>1, <3>6, Zenon DEF CheckedConsistency
    <2> QED BY <2>2, <2>3, <2>4, Zenon DEF ConsistencyComplete
  <1> QED BY <1>1, AlwaysInv, PTL

==============================================================================
