--------------------- MODULE VerificationEngine_proofs ---------------------
(***************************************************************************)
(* A valid result of Engine.Verify speaks for the whole chain, for any     *)
(* number of hops, calls and inputs.  The induction over the hops is the   *)
(* walk of checkChainLink itself: PipelineInv says what is known of the    *)
(* hops it has passed.                                                     *)
(***************************************************************************)
EXTENDS VerificationEngine, WellFoundedInduction, TLAPS

-----------------------------------------------------------------------------
(* The comparisons of package delegation are reflexive and transitive.     *)

\* An authority's typed fields, as InputAssumption gives them.
IsAuthority(a) ==
    /\ IsWindow(a.validity)
    /\ IsScope(a.scope)
    /\ a.maxDepth = Nil \/ a.maxDepth \in Int

\* Every authority permits no more than itself: where the walk begins.
LEMMA NarrowerReflexive ==
    ASSUME NEW a, IsAuthority(a)
    PROVE  Narrower(a, a)
  BY DEF IsAuthority, IsWindow, IsScope, Narrower, scopeSubset, stringSliceSubset,
         timeWindowSubset, quantitySubset, monetarySubset, validitySubset

\* A subset of a subset is a subset in every dimension of a Scope, an empty
\* child dimension under a constrained parent included.
LEMMA ScopeTransitive ==
    ASSUME NEW a, NEW b, NEW c, IsScope(a), IsScope(b), IsScope(c),
           scopeSubset(b, a), scopeSubset(c, b)
    PROVE  scopeSubset(c, a)
  <1>1. \A d \in Dim : stringSliceSubset(c.items[d], a.items[d])
    BY Zenon DEF scopeSubset, stringSliceSubset
  <1>2. timeWindowSubset(c.window, a.window)
    BY DEF scopeSubset, timeWindowSubset, IsScope
  <1>3. quantitySubset(c.quantity, a.quantity)
    BY DEF scopeSubset, quantitySubset, IsScope
  <1>4. monetarySubset(c.monetary, a.monetary)
    BY DEF scopeSubset, monetarySubset, IsScope
  <1> QED
    BY <1>1, <1>2, <1>3, <1>4, Zenon DEF scopeSubset

\* Where VerifySubset accepts b under c, what is narrower than b is narrower
\* than c.
LEMMA NarrowerStep ==
    ASSUME NEW a, NEW b, NEW c, IsAuthority(a), IsAuthority(b), IsAuthority(c),
           Narrower(a, b), VerifySubset(b, c) = "ok"
    PROVE  Narrower(a, c)
  <1>1. /\ capabilitySubset(c.caps, b.caps)
        /\ scopeSubset(c.scope, b.scope)
        /\ validitySubset(c.validity, b.validity)
    BY Zenon DEF VerifySubset
  <1>2. a.caps \subseteq c.caps
    BY <1>1, Zenon DEF Narrower, capabilitySubset
  <1>3. scopeSubset(c.scope, a.scope)
    BY <1>1, ScopeTransitive, Zenon DEF Narrower, IsAuthority
  <1>4. validitySubset(c.validity, a.validity)
    BY <1>1 DEF Narrower, validitySubset, IsAuthority, IsWindow
  <1> QED
    BY <1>2, <1>3, <1>4, Zenon DEF Narrower

\* What a claim's authority permits, and a wider authority therefore permits.
LEMMA PermittedAbove ==
    ASSUME NEW claim, NEW a, NEW b, IsAuthority(a), IsAuthority(b),
           IsScope(claim.scope), IsWindow(claim.validity),
           claimScopeSubset(claim.scope, a.scope),
           validitySubset(a.validity, claim.validity),
           Narrower(a, b)
    PROVE  ClaimPermitted(claim, b)
  <1>1. \A d \in Dim : b.scope.items[d] = {} \/ claim.scope.items[d] \subseteq b.scope.items[d]
    BY Zenon DEF claimScopeSubset, claimSliceSubset, Narrower, scopeSubset, stringSliceSubset
  <1>2. timeWindowSubset(b.scope.window, claim.scope.window)
    BY DEF claimScopeSubset, Narrower, scopeSubset, timeWindowSubset, IsScope, IsAuthority
  <1>3. quantitySubset(b.scope.quantity, claim.scope.quantity)
    BY DEF claimScopeSubset, Narrower, scopeSubset, quantitySubset, IsScope, IsAuthority
  <1>4. monetarySubset(b.scope.monetary, claim.scope.monetary)
    BY DEF claimScopeSubset, Narrower, scopeSubset, monetarySubset, IsScope, IsAuthority
  <1>5. validitySubset(b.validity, claim.validity)
    BY DEF Narrower, validitySubset, IsAuthority, IsWindow
  <1> QED
    BY <1>1, <1>2, <1>3, <1>4, <1>5, Zenon DEF ClaimPermitted

-----------------------------------------------------------------------------
(* What the outcome of a check says.                                       *)

\* No check runs twice.
LEMMA PipelineDistinct ==
    /\ \A k \in 1..13 : Pipeline[k] \in CheckID
    /\ \A j, k \in 1..13 : Pipeline[j] = Pipeline[k] => j = k
  BY DEF Pipeline, CheckID

\* A non-empty set of naturals has a least element.
LEMMA Least ==
    ASSUME NEW S, S \subseteq Nat, S # {}
    PROVE  \E i \in S : \A j \in S : i <= j
  <1>1. PICK i \in S : \A j \in S : ~(<<j, i>> \in OpToRel(<, Nat))
    BY WFMin, NatLessThanWellFounded, Zenon
  <1>2. \A j \in Nat, k \in Nat : j < k => <<j, k>> \in OpToRel(<, Nat)
    BY Zenon DEF OpToRel
  <1>3. \A j \in S : ~(j < i)
    BY <1>1, <1>2, Zenon
  <1> QED
    BY <1>3

\* A loop over the hops passes when no hop is in error, and otherwise returns
\* the error of one of them.
LEMMA OverHopsOutcome ==
    ASSUME Len(in.chain) \in Nat, NEW errors
    PROVE  \/ /\ OverHops(errors) = Pass
              /\ \A i \in 1..Len(in.chain) : errors[i] = "ok"
           \/ \E i \in 1..Len(in.chain) :
                /\ OverHops(errors).err = errors[i]
                /\ errors[i] # "ok"
  <1> DEFINE bad == {i \in 1..Len(in.chain) : errors[i] # "ok"}
             first == CHOOSE i \in bad : \A j \in bad : i <= j
  <1>1. CASE bad = {}
    BY <1>1, Zenon DEF OverHops
  <1>2. CASE bad # {}
    <2>1. OverHops(errors) = Fail(errors[first], first - 1)
      BY <1>2, Zenon DEF OverHops
    <2>2. bad \subseteq Nat
      OBVIOUS
    <2>3. first \in bad
      <3> HIDE DEF bad
      <3>1. \E i \in bad : \A j \in bad : i <= j
        BY <1>2, <2>2, Least, Zenon
      <3> QED
        BY <3>1, Zenon
    <2> HIDE DEF first
    <2> QED
      BY <2>1, <2>3 DEF Fail
  <1> QED
    BY <1>1, <1>2, Zenon

\* What a check that passes has established, and that only the commitment
\* check skips itself.
LEMMA OutcomeMeans ==
    ASSUME NEW c \in Call, NEW id \in CheckID, id # "chain_link",
           Len(in.chain) \in Nat, Len(in.chain) > 0
    PROVE  /\ CheckOutcome(c, id).err = "skip" => id = "commitment" /\ ~checker
           /\ CheckOutcome(c, id).err = "ok" =>
                /\ id = "authorization" => LeafPermits
                /\ id = "root_authority" => Root.authority.parent = Nil
                /\ id = "temporal" =>
                     \A i \in 1..Len(in.chain) :
                         windowError(in.chain[i].authority.validity, now[c]) = "ok"
                /\ id = "revocation" =>
                     \A i \in 1..Len(in.chain) : in.chain[i].authority.status = "active"
  <1> USE DEF Pass, Fail
  <1>1. CASE id = "structural"
    BY <1>1, Zenon DEF CheckOutcome, checkStructural
  <1>2. CASE id = "signature"
    BY <1>2, Zenon DEF CheckOutcome, checkSignature
  <1>3. CASE id = "authorization"
    <2>1. CheckOutcome(c, id) = checkAuthorization
      BY <1>3, Zenon DEF CheckOutcome
    <2>2. checkAuthorization.err # "skip"
      BY Zenon DEF checkAuthorization
    <2>3. checkAuthorization.err = "ok" =>
             VerifyAuthorization(in.attestation, Leaf.authority, wall) = "ok"
      BY Zenon DEF checkAuthorization
    <2>4. VerifyAuthorization(in.attestation, Leaf.authority, wall) = "ok" => LeafPermits
      BY Zenon DEF VerifyAuthorization, LeafPermits, capabilityGranted
    <2> QED
      BY <1>3, <2>1, <2>2, <2>3, <2>4, Zenon
  <1>4. CASE id = "authority_proof"
    BY <1>4, OverHopsOutcome DEF CheckOutcome, checkAuthorityProof
  <1>5. CASE id = "root_authority"
    BY <1>5, Zenon DEF CheckOutcome, checkRootAuthority
  <1>6. CASE id = "temporal"
    <2> DEFINE errors == [i \in 1..Len(in.chain) |->
                            windowError(in.chain[i].authority.validity, now[c])]
    <2>1. CheckOutcome(c, id) = checkTemporal(c)
      BY <1>6, Zenon DEF CheckOutcome
    <2>2. /\ windowError(in.attestation.validity, now[c]) # "skip"
          /\ \A i \in 1..Len(in.chain) : errors[i] # "skip"
      BY Zenon DEF windowError
    <2>3. \/ /\ checkTemporal(c).err = windowError(in.attestation.validity, now[c])
             /\ checkTemporal(c).err # "ok"
          \/ checkTemporal(c) = OverHops(errors)
      BY Zenon DEF checkTemporal
    <2> HIDE DEF errors
    <2>4. \/ \A i \in 1..Len(in.chain) : errors[i] = "ok"
          \/ \E i \in 1..Len(in.chain) : OverHops(errors).err = errors[i] /\ errors[i] # "ok"
      BY OverHopsOutcome, Zenon
    <2>5. OverHops(errors).err # "skip"
      BY <2>2, OverHopsOutcome
    <2>6. \A i \in 1..Len(in.chain) :
             errors[i] = windowError(in.chain[i].authority.validity, now[c])
      BY Zenon DEF errors
    <2> QED
      BY <1>6, <2>1, <2>2, <2>3, <2>4, <2>5, <2>6, Zenon
  <1>7. CASE id = "revocation"
    <2> DEFINE errors == [i \in 1..Len(in.chain) |->
                            statusError(in.chain[i].authority.status)]
    <2>1. CheckOutcome(c, id) = OverHops(errors)
      BY <1>7, Zenon DEF CheckOutcome, checkRevocation
    <2>2. \A i \in 1..Len(in.chain) :
            /\ errors[i] # "skip"
            /\ errors[i] = "ok" => in.chain[i].authority.status = "active"
      BY Zenon DEF statusError
    <2> HIDE DEF errors
    <2> QED
      BY <1>7, <2>1, <2>2, OverHopsOutcome
  <1>8. CASE id = "identity"
    BY <1>8, Zenon DEF CheckOutcome, checkIdentity
  <1>9. CASE id = "key_binding"
    <2>1. CheckOutcome(c, id) = checkKeyBindingAt(c)
      BY <1>9, Zenon DEF CheckOutcome
    <2>2. signingKeyVersionError(now[c]) # "skip"
      BY Zenon DEF signingKeyVersionError
    <2>3. checkKeyBindingAt(c).err # "skip"
      BY <2>2, Zenon DEF checkKeyBindingAt
    <2> QED
      BY <1>9, <2>1, <2>3, Zenon
  <1>10. CASE id = "evidence"
    BY <1>10, Zenon DEF CheckOutcome, checkEvidence
  <1>11. CASE id = "provenance"
    BY <1>11, Zenon DEF CheckOutcome, checkProvenance
  <1>12. CASE id = "commitment"
    BY <1>12, Zenon DEF CheckOutcome, checkCommitment
  <1> QED
    BY <1>1, <1>2, <1>3, <1>4, <1>5, <1>6, <1>7, <1>8, <1>9, <1>10, <1>11, <1>12
       DEF CheckID, Pipeline

-----------------------------------------------------------------------------
(* The inductive invariant.                                                *)

Failures == failures = [c \in Call |-> failures[c]]
            /\ \A c \in Call : \E S : failures[c] \in Seq(S)

Inv == TypeOK /\ PipelineInv /\ Failures /\ in \in Input

\* The authorities of an input that Verify does not reject are typed.
LEMMA ChainTyped ==
    ASSUME in \in Input, ~ProgrammerError
    PROVE  /\ Len(in.chain) \in Nat
           /\ Len(in.chain) > 0
           /\ \A i \in 1..Len(in.chain) : IsAuthority(in.chain[i].authority)
           /\ IsWindow(in.attestation.validity)
           /\ IsWindow(in.attestation.claim.validity)
           /\ IsScope(in.attestation.claim.scope)
  BY InputAssumption, Zenon DEF ProgrammerError, IsAuthority

\* Nothing has run in the initial state.
LEMMA InitInv == VerifyInit => Inv
  <1> SUFFICES ASSUME VerifyInit PROVE Inv
    OBVIOUS
  <1>1. TypeOK
    BY TimeAssumption DEF VerifyInit, TypeOK, Status0
  <1>2. PipelineInv
    BY DEF VerifyInit, PipelineInv
  <1>3. Failures
    BY DEF VerifyInit, Failures
  <1> QED
    BY <1>1, <1>2, <1>3, Zenon DEF VerifyInit, Inv

\* What recording an outcome changes, and what it leaves alone.
LEMMA RecordEffect ==
    ASSUME TypeOK, Failures, NEW c \in Call, NEW id \in CheckID, NEW o,
           pc[c] \in 1..13, Record(c, id, o)
    PROVE  /\ pc' \in [Call -> -1..14]
           /\ checks' \in [Call -> [CheckID -> {"none", "passed", "failed", "skipped"}]]
           /\ Failures'
           /\ pc'[c] = pc[c] + 1
           /\ \A d \in Call \ {c} : /\ pc'[d] = pc[d]
                                    /\ checks'[d] = checks[d]
                                    /\ failures'[d] = failures[d]
           /\ \A i \in CheckID \ {id} : checks'[c][i] = checks[c][i]
           /\ failures'[c] = <<>> => failures[c] = <<>> /\ o.err \in {"ok", "skip"}
           /\ o.err = "ok" => checks'[c][id] = "passed"
           /\ o.err = "skip" => checks'[c][id] = "skipped"
  <1> DEFINE status == CASE o.err = "ok" -> "passed"
                         [] o.err = "skip" -> "skipped"
                         [] OTHER -> "failed"
             f == [check |-> id, err |-> o.err, hop |-> o.hop]
  <1>1. status \in {"passed", "failed", "skipped"}
    OBVIOUS
  <1>2. /\ o.err = "ok" => status = "passed"
        /\ o.err = "skip" => status = "skipped"
    OBVIOUS
  <1>3. checks' = [checks EXCEPT ![c][id] = status]
    BY Zenon DEF Record
  <1>4. pc' = [pc EXCEPT ![c] = pc[c] + 1]
    BY Zenon DEF Record
  <1>5. PICK S : failures[c] \in Seq(S)
    BY Zenon DEF Failures
  <1>6. /\ Append(failures[c], f) \in Seq(S \cup {f})
        /\ Append(failures[c], f) # <<>>
    <2>1. failures[c] \in Seq(S \cup {f})
      BY <1>5
    <2> HIDE DEF f
    <2> QED
      BY <2>1
  <1>7. \/ failures' = failures /\ o.err \in {"ok", "skip"}
        \/ failures' = [failures EXCEPT ![c] = Append(failures[c], f)]
    BY Zenon DEF Record
  <1> HIDE DEF status, f
  <1>8. /\ Failures'
        /\ \A d \in Call \ {c} : failures'[d] = failures[d]
        /\ failures'[c] = <<>> => failures[c] = <<>> /\ o.err \in {"ok", "skip"}
    BY <1>6, <1>7, Zenon DEF Failures
  <1>9. /\ pc' \in [Call -> -1..14]
        /\ pc'[c] = pc[c] + 1
        /\ \A d \in Call \ {c} : pc'[d] = pc[d]
    BY <1>4 DEF TypeOK
  <1>10. /\ checks' \in [Call -> [CheckID -> {"none", "passed", "failed", "skipped"}]]
         /\ checks'[c][id] = status
         /\ \A i \in CheckID \ {id} : checks'[c][i] = checks[c][i]
         /\ \A d \in Call \ {c} : checks'[d] = checks[d]
    BY <1>1, <1>3, Zenon DEF TypeOK
  <1> QED
    BY <1>2, <1>8, <1>9, <1>10, Zenon

\* A call keeps its invariant when it records an outcome that, unless it is a
\* failure, establishes what the check stands for.
LEMMA RecordKeeps ==
    ASSUME Inv, NEW c \in Call, NEW id \in CheckID, NEW o, Due(c, id), Record(c, id, o),
           UNCHANGED <<in, checker, now, link>>,
           failures'[c] = <<>> => Established(c, id)'
    PROVE  CallInv(c)'
  <1>1. CallInv(c) /\ pc[c] \in 1..13 /\ Pipeline[pc[c]] = id
    BY DEF Inv, PipelineInv, Due
  <1>2. /\ pc'[c] = pc[c] + 1
        /\ \A i \in CheckID \ {id} : checks'[c][i] = checks[c][i]
        /\ failures'[c] = <<>> => failures[c] = <<>>
    BY <1>1, RecordEffect DEF Inv
  <1>3. /\ (~ProgrammerError)'
        /\ now'[c] \in Int
        /\ link'[c] \in 1..Len(in'.chain)
        /\ (\A i \in 1..link[c] : /\ Narrower(Leaf.authority, in.chain[i].authority)
                                  /\ DepthDescends(i))'
    BY <1>1, Zenon DEF CallInv, ProgrammerError, Leaf, DepthDescends
  <1>4. ASSUME failures'[c] = <<>>, NEW k \in 1..(pc'[c] - 1)
        PROVE  Established(c, Pipeline[k])'
    <2>1. CASE k = pc[c]
      BY <1>1, <1>4, <2>1, Zenon
    <2>2. CASE k # pc[c]
      <3>1. k \in 1..(pc[c] - 1) /\ k \in 1..13
        BY <1>1, <1>2, <2>2
      <3>2. Established(c, Pipeline[k])
        BY <1>1, <1>2, <1>4, <3>1, Zenon DEF CallInv
      <3>3. Pipeline[k] \in CheckID \ {id}
        BY <1>1, <2>2, <3>1, PipelineDistinct, Zenon
      <3> HIDE DEF Pipeline
      <3> QED
        BY <1>2, <3>2, <3>3, Zenon DEF Established, LeafPermits, Leaf, Root
    <2> QED
      BY <2>1, <2>2, Zenon
  <1> QED
    BY <1>3, <1>4, Zenon DEF CallInv

\* A call's invariant speaks only of the call's own state and the inputs.
LEMMA OtherCalls ==
    ASSUME Inv, NEW c \in Call, UNCHANGED <<in, checker>>,
           \A d \in Call \ {c} : /\ pc'[d] = pc[d]
                                 /\ now'[d] = now[d]
                                 /\ link'[d] = link[d]
                                 /\ checks'[d] = checks[d]
                                 /\ failures'[d] = failures[d],
           pc'[c] # 0,
           pc'[c] \in 1..14 => CallInv(c)'
    PROVE  PipelineInv'
  <1> SUFFICES ASSUME NEW d \in Call, pc'[d] \in 1..14, d # c
               PROVE  CallInv(d)'
    BY Zenon DEF Inv, PipelineInv
  <1>1. CallInv(d)
    BY Zenon DEF Inv, PipelineInv
  <1>2. /\ in' = in /\ checker' = checker
        /\ pc'[d] = pc[d] /\ now'[d] = now[d] /\ link'[d] = link[d]
        /\ checks'[d] = checks[d] /\ failures'[d] = failures[d]
    OBVIOUS
  <1>3. /\ (~ProgrammerError)'
        /\ now'[d] \in Int
        /\ link'[d] \in 1..Len(in'.chain)
    BY <1>1, <1>2, Zenon DEF CallInv, ProgrammerError
  <1>4. (\A i \in 1..link[d] : /\ Narrower(Leaf.authority, in.chain[i].authority)
                               /\ DepthDescends(i))'
    BY <1>1, <1>2, Zenon DEF CallInv, Leaf, DepthDescends
  <1>5. ASSUME NEW id, Established(d, id) PROVE Established(d, id)'
    <2>1. (LeafPermits <=> LeafPermits') /\ Root' = Root
      BY <1>2, Zenon DEF LeafPermits, Leaf, Root
    <2>2. (\/ checks[d][id] = "passed"
           \/ id = "commitment" /\ ~checker /\ checks[d][id] = "skipped")'
      BY <1>2, <1>5 DEF Established
    <2>3. (id = "authorization" => LeafPermits)'
      BY <1>5, <2>1, Zenon DEF Established
    <2>4. (/\ id = "chain_link" => link[d] = Len(in.chain)
           /\ id = "root_authority" => Root.authority.parent = Nil)'
      BY <1>2, <1>5, <2>1, Zenon DEF Established
    <2>5. (id = "temporal" => \A i \in 1..Len(in.chain) :
                 validityContains(in.chain[i].authority.validity, now[d]))'
      BY <1>2, <1>5, Zenon DEF Established
    <2>6. (id = "revocation" => \A i \in 1..Len(in.chain) :
                 in.chain[i].authority.status = "active")'
      BY <1>2, <1>5, Zenon DEF Established
    <2> QED
      BY <2>2, <2>3, <2>4, <2>5, <2>6, Zenon DEF Established
  <1>6. (failures[d] = <<>> => \A k \in 1..(pc[d] - 1) : Established(d, Pipeline[k]))'
    BY <1>1, <1>2, <1>5, Zenon DEF CallInv
  <1> QED
    BY <1>3, <1>4, <1>6, Zenon DEF CallInv

\* Reject leaves the call outside the pipeline.
LEMMA RejectInv == ASSUME Inv, NEW c \in Call, Reject(c) PROVE Inv'
  <1>1. TypeOK' /\ Failures' /\ in' \in Input
    BY DEF Inv, TypeOK, Failures, Reject
  <1>2. PipelineInv'
    <2>1. pc'[c] = -1 /\ \A d \in Call \ {c} : pc'[d] = pc[d]
      BY Zenon DEF Inv, TypeOK, Reject
    <2> QED
      BY <2>1, OtherCalls DEF Reject
  <1> QED
    BY <1>1, <1>2, Zenon DEF Inv

\* Begin puts the walk at the leaf, which is narrower than itself.
LEMMA BeginInv == ASSUME Inv, NEW c \in Call, Begin(c) PROVE Inv'
  <1>1. TypeOK' /\ Failures' /\ in' \in Input
    BY InputAssumption DEF Inv, TypeOK, Failures, Begin
  <1>2. /\ pc'[c] = 1
        /\ now'[c] \in Int
        /\ \A d \in Call \ {c} : pc'[d] = pc[d] /\ now'[d] = now[d]
    BY InputAssumption, Zenon DEF Inv, TypeOK, Begin
  <1>3. CallInv(c)'
    <2>1. /\ Len(in.chain) \in Nat
          /\ Len(in.chain) > 0
          /\ IsAuthority(Leaf.authority)
      BY ChainTyped DEF Inv, Begin, Leaf
    <2>2. Narrower(Leaf.authority, Leaf.authority)
      BY <2>1, NarrowerReflexive, Zenon
    <2>3. DepthDescends(1)
      BY <2>1 DEF DepthDescends, IsAuthority, Leaf
    <2>4. link'[c] = 1 /\ in' = in /\ (~ProgrammerError)'
      BY Zenon DEF Inv, PipelineInv, Begin, ProgrammerError
    <2>5. (\A i \in 1..link[c] : /\ Narrower(Leaf.authority, in.chain[i].authority)
                                 /\ DepthDescends(i))'
      BY <2>2, <2>3, <2>4 DEF Leaf, DepthDescends
    <2>6. 1..(pc'[c] - 1) = {}
      BY <1>2
    <2>7. link'[c] \in 1..Len(in'.chain)
      BY <2>1, <2>4
    <2> QED
      BY <1>2, <2>4, <2>5, <2>6, <2>7, Zenon DEF CallInv
  <1>4. PipelineInv'
    BY <1>2, <1>3, OtherCalls DEF Begin
  <1> QED
    BY <1>1, <1>4 DEF Inv

\* A step that records the outcome of a check and nothing else.
LEMMA RecordInv ==
    ASSUME Inv, NEW c \in Call, NEW id \in CheckID, NEW o, Due(c, id), Record(c, id, o),
           UNCHANGED <<in, checker, wall, now, link, prov>>,
           failures'[c] = <<>> => Established(c, id)'
    PROVE  Inv'
  <1>1. pc[c] \in 1..13
    BY Zenon DEF Due
  <1>2. TypeOK' /\ Failures' /\ in' \in Input
    BY <1>1, RecordEffect, Zenon DEF Inv, TypeOK
  <1>3. CallInv(c)'
    BY RecordKeeps, Zenon
  <1>4. /\ pc'[c] = pc[c] + 1
        /\ \A d \in Call \ {c} : /\ pc'[d] = pc[d]
                                 /\ checks'[d] = checks[d]
                                 /\ failures'[d] = failures[d]
    BY <1>1, RecordEffect, Zenon DEF Inv
  <1>5. PipelineInv'
    BY <1>1, <1>3, <1>4, OtherCalls
  <1> QED
    BY <1>2, <1>5, Zenon DEF Inv

\* A check is skipped only after a failure.
LEMMA SkipCheckInv ==
    ASSUME Inv, NEW c \in Call, NEW id \in CheckID, SkipCheck(c, id) PROVE Inv'
  <1>1. failures[c] # <<>>
    BY DEF SkipCheck, prerequisiteFailed, failed
  <1>2. failures'[c] # <<>>
    BY <1>1, RecordEffect, Zenon DEF Inv, SkipCheck, Due
  <1> QED
    BY <1>2, RecordInv, Zenon DEF SkipCheck

\* A check that passes establishes what it stands for.
LEMMA RunCheckInv ==
    ASSUME Inv, NEW c \in Call, NEW id \in CheckID, RunCheck(c, id) PROVE Inv'
  <1> DEFINE o == CheckOutcome(c, id)
  <1>1. /\ Due(c, id)
        /\ id # "chain_link"
        /\ Record(c, id, o)
        /\ UNCHANGED <<in, checker, wall, now, link, prov>>
    BY Zenon DEF RunCheck
  <1>2. pc[c] \in 1..13 /\ CallInv(c)
    BY <1>1 DEF Due, Inv, PipelineInv
  <1>3. /\ Len(in.chain) \in Nat
        /\ Len(in.chain) > 0
        /\ \A i \in 1..Len(in.chain) : IsAuthority(in.chain[i].authority)
        /\ now[c] \in Int
    BY <1>2, ChainTyped, Zenon DEF Inv, CallInv
  <1>4. /\ o.err = "skip" => id = "commitment" /\ ~checker
        /\ o.err = "ok" =>
             /\ id = "authorization" => LeafPermits
             /\ id = "root_authority" => Root.authority.parent = Nil
             /\ id = "temporal" =>
                  \A i \in 1..Len(in.chain) :
                      windowError(in.chain[i].authority.validity, now[c]) = "ok"
             /\ id = "revocation" =>
                  \A i \in 1..Len(in.chain) : in.chain[i].authority.status = "active"
    BY <1>1, <1>3, OutcomeMeans, Zenon
  <1> HIDE DEF o
  <1>5. /\ failures'[c] = <<>> => o.err \in {"ok", "skip"}
        /\ o.err = "ok" => checks'[c][id] = "passed"
        /\ o.err = "skip" => checks'[c][id] = "skipped"
    BY <1>1, <1>2, RecordEffect DEF Inv
  <1>6. ASSUME failures'[c] = <<>> PROVE Established(c, id)'
    <2>1. id = "temporal" =>
            \A i \in 1..Len(in.chain) : validityContains(in.chain[i].authority.validity, now[c])
      BY <1>3, <1>4, <1>5, <1>6 DEF windowError, validityContains, IsAuthority, IsWindow
    <2> QED
      BY <1>1, <1>4, <1>5, <1>6, <2>1, Zenon DEF Established, LeafPermits, Leaf, Root
  <1> QED
    BY <1>1, <1>6, RecordInv, Zenon

\* One more pair in order: the leaf is narrower than the next authority too.
LEMMA ChainLinkHopInv == ASSUME Inv, NEW c \in Call, ChainLinkHop(c) PROVE Inv'
  <1>1. /\ pc[c] \in 1..13
        /\ Pipeline[pc[c]] = "chain_link"
        /\ CallInv(c)
        /\ link[c] < Len(in.chain)
        /\ chainLinkError(link[c]) = "ok"
    BY DEF ChainLinkHop, Due, Inv, PipelineInv
  <1>2. link' = [link EXCEPT ![c] = link[c] + 1]
        /\ UNCHANGED <<in, checker, wall, pc, now, prov, checks, failures>>
    BY Zenon DEF ChainLinkHop
  <1>3. TypeOK' /\ Failures' /\ in' \in Input
    BY <1>2 DEF Inv, TypeOK, Failures
  <1>4. PICK n \in Nat : n = link[c] /\ n \in 1..Len(in.chain) /\ n + 1 \in 1..Len(in.chain)
    BY <1>1, ChainTyped DEF Inv, CallInv
  <1>5. link'[c] = n + 1 /\ \A d \in Call \ {c} : link'[d] = link[d]
    BY <1>2, <1>4, Zenon DEF Inv, TypeOK
  <1>6. /\ IsAuthority(Leaf.authority)
        /\ IsAuthority(in.chain[n].authority)
        /\ IsAuthority(in.chain[n + 1].authority)
    <2>1. /\ Len(in.chain) > 0 /\ Len(in.chain) \in Nat
          /\ \A i \in 1..Len(in.chain) : IsAuthority(in.chain[i].authority)
      BY <1>1, ChainTyped, Zenon DEF Inv, CallInv
    <2>2. 1 \in 1..Len(in.chain)
      BY <2>1
    <2> QED BY <1>4, <2>1, <2>2, Zenon DEF Leaf
  <1>7. VerifySubset(in.chain[n].authority, in.chain[n + 1].authority) = "ok"
    BY <1>1, <1>4, Zenon DEF chainLinkError, mapDelegationError, VerifySubset
  <1>8. Narrower(Leaf.authority, in.chain[n].authority) /\ DepthDescends(n)
    BY <1>1, <1>4 DEF CallInv
  <1>9. Narrower(Leaf.authority, in.chain[n + 1].authority)
    BY <1>6, <1>7, <1>8, NarrowerStep, Zenon
  <1>10. DepthDescends(n + 1)
    <2>1. delegationDepthOK(in.chain[n + 1].authority.maxDepth, in.chain[n].authority.maxDepth)
      BY <1>7, Zenon DEF VerifySubset
    <2>2. ASSUME NEW leaf, NEW below, NEW above,
                 leaf = Nil \/ leaf \in Int, below = Nil \/ below \in Int,
                 above \in Int, delegationDepthOK(above, below), above # Nil,
                 below # Nil => leaf # Nil /\ leaf + (n - 1) <= below
          PROVE  leaf # Nil /\ leaf + n <= above
      BY <2>2 DEF delegationDepthOK
    <2>3. (n + 1) - 1 = n
      OBVIOUS
    <2> QED
      BY <2>1, <2>2, <2>3, <1>6, <1>8, Zenon DEF DepthDescends, IsAuthority
  <1>11. CallInv(c)'
    <2>1. ASSUME NEW i \in 1..link'[c]
          PROVE  /\ Narrower(Leaf.authority, in.chain[i].authority)
                 /\ DepthDescends(i)
      BY <1>1, <1>4, <1>5, <1>9, <1>10, <2>1 DEF CallInv
    <2>2. ASSUME failures'[c] = <<>>, NEW k \in 1..(pc'[c] - 1)
          PROVE  Established(c, Pipeline[k])'
      <3>1. k \in 1..13 /\ k # pc[c] /\ k \in 1..(pc[c] - 1)
        BY <1>1, <1>2
      <3>2. Pipeline[k] # "chain_link"
        BY <1>1, <3>1, PipelineDistinct, Zenon
      <3>3. Established(c, Pipeline[k])
        BY <1>1, <1>2, <2>2, <3>1, Zenon DEF CallInv
      <3> QED
        BY <1>2, <3>2, <3>3, Zenon DEF Established, LeafPermits, Leaf, Root
    <2>3. (\A i \in 1..link[c] : /\ Narrower(Leaf.authority, in.chain[i].authority)
                                 /\ DepthDescends(i))'
      BY <1>2, <2>1, Zenon DEF Leaf, DepthDescends
    <2>4. /\ (~ProgrammerError)'
          /\ now'[c] \in Int
          /\ link'[c] \in 1..Len(in'.chain)
      BY <1>1, <1>2, <1>4, <1>5, Zenon DEF CallInv, ProgrammerError
    <2> QED
      BY <2>2, <2>3, <2>4, Zenon DEF CallInv
  <1>12. PipelineInv'
    BY <1>1, <1>2, <1>5, <1>11, OtherCalls
  <1> QED
    BY <1>3, <1>12, Zenon DEF Inv

\* checkChainLink passes only past the last pair, and never skips itself.
LEMMA ChainLinkReturnInv == ASSUME Inv, NEW c \in Call, ChainLinkReturn(c) PROVE Inv'
  <1>1. /\ Due(c, "chain_link")
        /\ UNCHANGED <<in, checker, wall, now, link, prov>>
    BY Zenon DEF ChainLinkReturn
  <1>2. "chain_link" \in CheckID
    BY PipelineDistinct DEF CheckID, Pipeline
  <1>3. pc[c] \in 1..13 /\ CallInv(c)
    BY <1>1 DEF Due, Inv, PipelineInv
  <1>4. link[c] \in 1..Len(in.chain) /\ Len(in.chain) \in Nat
    BY <1>3, ChainTyped, Zenon DEF Inv, CallInv
  <1>5. CASE link[c] >= Len(in.chain) /\ Record(c, "chain_link", Pass)
    <2>1. checks'[c]["chain_link"] = "passed"
      BY <1>2, <1>3, <1>5, RecordEffect DEF Inv, Pass
    <2>2. Established(c, "chain_link")'
      BY <1>1, <1>4, <1>5, <2>1 DEF Established
    <2> QED
      BY <1>1, <1>2, <1>5, <2>2, RecordInv, Zenon
  <1>6. ASSUME chainLinkError(link[c]) # "ok",
               Record(c, "chain_link", Fail(chainLinkError(link[c]), link[c] - 1))
        PROVE  Inv'
    <2>1. chainLinkError(link[c]) # "skip"
      BY Zenon DEF chainLinkError, mapDelegationError, VerifySubset
    <2>2. failures'[c] # <<>>
      BY <1>2, <1>3, <1>6, <2>1, RecordEffect DEF Inv, Fail
    <2> QED
      BY <1>1, <1>2, <1>6, <2>2, RecordInv, Zenon
  <1> QED
    BY <1>5, <1>6, Zenon DEF ChainLinkReturn

\* The invariant holds of the next state, whatever step is taken.
LEMMA StepInv == Inv /\ [VerifyNext]_verifyVars => Inv'
  <1> SUFFICES ASSUME Inv, [VerifyNext]_verifyVars PROVE Inv'
    OBVIOUS
  <1>1. ASSUME NEW c \in Call, Step(c) PROVE Inv'
    BY <1>1, RejectInv, BeginInv, SkipCheckInv, RunCheckInv, ChainLinkHopInv,
       ChainLinkReturnInv, Zenon DEF Step
  <1>2. ASSUME UNCHANGED <<in, checker, local>>, wall' \in Int PROVE Inv'
    <2>1. TypeOK' /\ Failures' /\ in' \in Input
      BY <1>2, Zenon DEF Inv, TypeOK, Failures, local
    <2>2. ASSUME NEW d \in Call PROVE (pc[d] \in 1..14 => CallInv(d))' /\ (pc[d] = 0 => link[d] = 1)'
      <3>1. /\ pc'[d] = 0 => link'[d] = 1
            /\ pc'[d] \in 1..14 => CallInv(d)
        BY <1>2, Zenon DEF Inv, PipelineInv, local
      <3>2. CallInv(d) => CallInv(d)'
        BY <1>2, Zenon DEF CallInv, ProgrammerError, Leaf, Root, DepthDescends, Established,
                    LeafPermits, local
      <3> QED
        BY <3>1, <3>2, Zenon
    <2>3. PipelineInv'
      BY <2>2, Zenon DEF PipelineInv
    <2> QED
      BY <2>1, <2>3, Zenon DEF Inv
  <1>3. CASE WallTick
    BY <1>2, <1>3 DEF WallTick, Inv, TypeOK
  <1>4. CASE UNCHANGED verifyVars
    BY <1>2, <1>4, Zenon DEF verifyVars, Inv, TypeOK
  <1> QED
    BY <1>1, <1>3, <1>4, Zenon DEF VerifyNext

\* Inv holds in every reachable state.
LEMMA Invariance == VerifySpec => []Inv
  BY InitInv, StepInv, PTL DEF VerifySpec

-----------------------------------------------------------------------------
(* The theorems.                                                           *)

\* Verify's bookkeeping stays within its types.
THEOREM TypeCorrect == VerifySpec => []TypeOK
  <1>1. Inv => TypeOK
    BY Zenon DEF Inv
  <1> QED
    BY <1>1, Invariance, PTL

\* The walk of checkChainLink keeps the leaf narrower than every hop passed,
\* for chains of any length.
THEOREM PipelineInvariant == VerifySpec => []PipelineInv
  <1>1. Inv => PipelineInv
    BY Zenon DEF Inv
  <1> QED
    BY <1>1, Invariance, PTL

\* What is known of a valid call: every check of the pipeline is behind it.
LEMMA ValidEstablished ==
    ASSUME Inv, NEW c \in Call, Valid(c)
    PROVE  CallInv(c) /\ \A k \in 1..13 : Established(c, Pipeline[k])
  BY SMTT(30) DEF Inv, PipelineInv, Valid, Returned, CallInv

\* Result.Valid means that every check passed, the commitment check excepted
\* when no checker is configured.
THEOREM AllPassed == VerifySpec => []ValidMeansAllPassed
  <1>1. ASSUME Inv, NEW c \in Call, Valid(c), NEW id \in CheckID
        PROVE  \/ checks[c][id] = "passed"
               \/ id = "commitment" /\ ~checker /\ checks[c][id] = "skipped"
    <2>1. PICK k \in 1..13 : id = Pipeline[k]
      BY Zenon DEF CheckID
    <2>2. Established(c, id)
      BY <1>1, <2>1, ValidEstablished, Zenon
    <2> QED
      BY <2>2, Zenon DEF Established
  <1>2. Inv => ValidMeansAllPassed
    BY <1>1, Zenon DEF ValidMeansAllPassed
  <1> QED
    BY <1>2, Invariance, PTL

\* A valid call has established every named check.
LEMMA ValidFacts ==
    ASSUME Inv, NEW c \in Call, Valid(c)
    PROVE  /\ Established(c, "authorization")
           /\ Established(c, "chain_link")
           /\ Established(c, "root_authority")
           /\ Established(c, "temporal")
           /\ Established(c, "revocation")
  <1>1. /\ Pipeline[3] = "authorization"
        /\ Pipeline[5] = "chain_link"
        /\ Pipeline[6] = "root_authority"
        /\ Pipeline[7] = "temporal"
        /\ Pipeline[8] = "revocation"
    BY Zenon DEF Pipeline
  <1> QED
    BY <1>1, ValidEstablished

\* A valid result is permitted by every authority of the chain, whatever its
\* length, although Verify compares the attestation with the leaf only.
THEOREM Permitted == VerifySpec => []ValidMeansPermitted
  <1>1. ASSUME Inv, NEW c \in Call, Valid(c)
        PROVE  /\ Root.authority.parent = Nil
               /\ \A i \in 1..Len(in.chain) :
                    LET a == in.chain[i].authority IN
                    /\ in.attestation.capability \in a.caps
                    /\ ClaimPermitted(in.attestation.claim, a)
                    /\ validitySubset(a.validity, in.attestation.validity)
                    /\ a.status = "active"
                    /\ validityContains(a.validity, now[c])
    <2>1. /\ LeafPermits
          /\ link[c] = Len(in.chain)
          /\ Root.authority.parent = Nil
          /\ \A i \in 1..Len(in.chain) :
               validityContains(in.chain[i].authority.validity, now[c])
          /\ \A i \in 1..Len(in.chain) : in.chain[i].authority.status = "active"
      BY <1>1, ValidFacts, Zenon DEF Established
    <2>2. CallInv(c) /\ in \in Input /\ ~ProgrammerError
      BY <1>1, ValidEstablished, Zenon DEF CallInv, Inv
    <2>3. ASSUME NEW i \in 1..Len(in.chain)
          PROVE  /\ in.attestation.capability \in in.chain[i].authority.caps
                 /\ ClaimPermitted(in.attestation.claim, in.chain[i].authority)
                 /\ validitySubset(in.chain[i].authority.validity, in.attestation.validity)
      <3>1. Narrower(Leaf.authority, in.chain[i].authority)
        BY <2>1, <2>2, Zenon DEF CallInv
      <3>2. /\ IsAuthority(Leaf.authority)
            /\ IsAuthority(in.chain[i].authority)
            /\ IsWindow(in.attestation.validity)
            /\ IsWindow(in.attestation.claim.validity)
            /\ IsScope(in.attestation.claim.scope)
        <4>1. 1 \in 1..Len(in.chain)
          BY <2>2, ChainTyped
        <4> QED BY <2>2, <4>1, ChainTyped, Zenon DEF Leaf
      <3>3. in.attestation.capability \in in.chain[i].authority.caps
        BY <2>1, <3>1, Zenon DEF LeafPermits, Narrower
      <3>4. ClaimPermitted(in.attestation.claim, in.chain[i].authority)
        BY <2>1, <3>1, <3>2, PermittedAbove, Zenon DEF LeafPermits
      <3>5. validitySubset(in.chain[i].authority.validity, in.attestation.validity)
        BY <2>1, <3>1, <3>2, SMTT(30) DEF LeafPermits, Narrower, validitySubset, IsAuthority, IsWindow
      <3> QED
        BY <3>3, <3>4, <3>5, Zenon
    <2> QED
      BY <2>1, <2>3, Zenon
  <1>2. Inv => ValidMeansPermitted
    BY <1>1, Zenon DEF ValidMeansPermitted
  <1> QED
    BY <1>2, Invariance, PTL

\* MaxDepth bounds the delegations below every authority of a valid chain
\* whose leaf does not declare a negative depth.
THEOREM Depth == VerifySpec => []DepthRespected
  <1>1. ASSUME Inv, NEW c \in Call, Valid(c), NEW i \in 1..Len(in.chain),
               in.chain[i].authority.maxDepth # Nil,
               Leaf.authority.maxDepth # Nil => Leaf.authority.maxDepth >= 0
        PROVE  i - 1 <= in.chain[i].authority.maxDepth
    <2>1. CallInv(c) /\ link[c] = Len(in.chain) /\ in \in Input /\ ~ProgrammerError
      BY <1>1, ValidEstablished, ValidFacts, Zenon DEF CallInv, Inv, Established
    <2>2. DepthDescends(i)
      BY <2>1, Zenon DEF CallInv
    <2>3. IsAuthority(Leaf.authority) /\ IsAuthority(in.chain[i].authority)
      BY <2>1, ChainTyped DEF Leaf
    <2> QED
      BY <1>1, <2>2, <2>3 DEF DepthDescends, IsAuthority
  <1>2. Inv => DepthRespected
    BY <1>1, Zenon DEF DepthRespected
  <1> QED
    BY <1>2, Invariance, PTL

-----------------------------------------------------------------------------
(* Provenance and key versions.                                            *)

\* What a call that has begun keeps besides CallInv: the trace it built, the
\* parent references checkChainLink has compared, and the verdict on the
\* signing key's version once checkKeyBinding, the tenth check, is behind it.
TraceInvOf(c) ==
    pc[c] \in 1..14 =>
        /\ prov[c] = BuildProvenance(in)
        /\ \A i \in 1..(link[c] - 1) :
             in.chain[i].authority.parent = CanonicalHash(in.chain[i + 1].authority)
        /\ failures[c] = <<>> /\ pc[c] > 10 => signingKeyVersionError(now[c]) = "ok"

TraceInv == prov = [c \in Call |-> prov[c]] /\ \A c \in Call : TraceInvOf(c)

\* The definitions of a check and of the trace read only in and their argument.
LEMMA SameInput ==
    ASSUME in' = in
    PROVE  /\ BuildProvenance(in)' = BuildProvenance(in)
           /\ \A t : signingKeyVersionError(t)' = signingKeyVersionError(t)
  BY Zenon DEF BuildProvenance, signingKeyVersionError, BoundBy, keyVersionAt

\* Recording an outcome keeps the trace, and the verdict on the key version
\* when the outcome is checkKeyBinding's own or comes later.
LEMMA RecordTrace ==
    ASSUME Inv, TraceInv, NEW c \in Call, NEW id \in CheckID, NEW o, Due(c, id),
           Record(c, id, o), UNCHANGED <<in, checker, wall, now, link, prov>>,
           pc[c] = 10 /\ o.err \in {"ok", "skip"} /\ failures[c] = <<>>
             => signingKeyVersionError(now[c]) = "ok"
    PROVE  TraceInv'
  <1>1. pc[c] \in 1..13 /\ TypeOK /\ Failures
    BY Zenon DEF Due, Inv
  <1>2. /\ pc'[c] = pc[c] + 1
        /\ \A d \in Call \ {c} : pc'[d] = pc[d] /\ failures'[d] = failures[d]
        /\ failures'[c] = <<>> => failures[c] = <<>> /\ o.err \in {"ok", "skip"}
    BY <1>1, RecordEffect
  <1>3. ASSUME NEW d \in Call PROVE TraceInvOf(d)'
    <2>1. TraceInvOf(d)
      BY Zenon DEF TraceInv
    <2>2. CASE d # c
      BY <1>2, <2>1, <2>2, SameInput, Zenon DEF TraceInvOf
    <2>3. CASE d = c
      <3>1. pc[c] \in 1..14 /\ pc'[c] \in 1..14
        BY <1>1, <1>2
      <3>2. failures'[c] = <<>> /\ pc'[c] > 10 => signingKeyVersionError(now[c]) = "ok"
        BY <1>1, <1>2, <2>1, <2>3, <3>1 DEF TraceInvOf
      <3> QED
        BY <2>1, <2>3, <3>1, <3>2, SameInput, Zenon DEF TraceInvOf
    <2> QED
      BY <2>2, <2>3, Zenon
  <1> QED
    BY <1>3, Zenon DEF TraceInv

\* Nothing has begun in the initial state.
LEMMA InitTrace == VerifyInit => TraceInv
  BY DEF VerifyInit, TraceInv, TraceInvOf

\* Every step of a call, and every tick, keeps the trace.
LEMMA StepTrace == Inv /\ TraceInv /\ [VerifyNext]_verifyVars => TraceInv'
  <1> SUFFICES ASSUME Inv, TraceInv, [VerifyNext]_verifyVars PROVE TraceInv'
    OBVIOUS
  <1>1. ASSUME NEW c \in Call, Reject(c) PROVE TraceInv'
    <2>1. pc'[c] = -1 /\ \A d \in Call \ {c} : pc'[d] = pc[d]
      BY <1>1, Zenon DEF Inv, TypeOK, Reject
    <2>2. ASSUME NEW d \in Call PROVE TraceInvOf(d)'
      BY <1>1, <2>1, SameInput DEF Reject, TraceInv, TraceInvOf
    <2> QED
      BY <1>1, <2>2, Zenon DEF TraceInv, Reject
  <1>2. ASSUME NEW c \in Call, Begin(c) PROVE TraceInv'
    <2>1. /\ pc'[c] = 1 /\ link'[c] = 1
          /\ prov'[c] = BuildProvenance(in)
          /\ prov' = [d \in Call |-> prov'[d]]
          /\ \A d \in Call \ {c} : pc'[d] = pc[d] /\ now'[d] = now[d] /\ prov'[d] = prov[d]
      BY <1>2, Zenon DEF Inv, TypeOK, PipelineInv, TraceInv, Begin
    <2>2. ASSUME NEW d \in Call PROVE TraceInvOf(d)'
      <3>1. CASE d # c
        BY <1>2, <2>1, <3>1, SameInput DEF Begin, TraceInv, TraceInvOf
      <3>2. CASE d = c
        BY <1>2, <2>1, <3>2, SameInput DEF Begin, TraceInvOf
      <3> QED
        BY <3>1, <3>2, Zenon
    <2> QED
      BY <2>1, <2>2, Zenon DEF TraceInv
  <1>3. ASSUME NEW c \in Call, NEW id \in CheckID, SkipCheck(c, id) PROVE TraceInv'
    <2>1. failures[c] # <<>>
      BY <1>3 DEF SkipCheck, prerequisiteFailed, failed
    <2> QED
      BY <1>3, <2>1, RecordTrace, Zenon DEF SkipCheck
  <1>4. ASSUME NEW c \in Call, NEW id \in CheckID, RunCheck(c, id) PROVE TraceInv'
    <2> DEFINE o == CheckOutcome(c, id)
    <2>1. /\ Due(c, id) /\ Record(c, id, o)
          /\ UNCHANGED <<in, checker, wall, now, link, prov>>
      BY <1>4, Zenon DEF RunCheck
    <2>2. ASSUME pc[c] = 10, o.err \in {"ok", "skip"}
          PROVE  signingKeyVersionError(now[c]) = "ok"
      <3>1. id = "key_binding"
        BY <2>1, <2>2 DEF Due, Pipeline
      <3>2. o = checkKeyBindingAt(c)
        BY <3>1, Zenon DEF CheckOutcome
      <3>3. signingKeyVersionError(now[c]) # "skip"
        BY Zenon DEF signingKeyVersionError
      <3> QED
        BY <2>2, <3>2, <3>3 DEF checkKeyBindingAt, Fail, Pass
    <2> HIDE DEF o
    <2> QED
      BY <2>1, <2>2, RecordTrace, Zenon
  <1>5. ASSUME NEW c \in Call, ChainLinkHop(c) PROVE TraceInv'
    <2>1. /\ pc[c] = 5 /\ pc' = pc /\ failures' = failures /\ now' = now /\ prov' = prov
          /\ in' = in
          /\ link' = [link EXCEPT ![c] = link[c] + 1]
          /\ chainLinkError(link[c]) = "ok"
      BY <1>5 DEF ChainLinkHop, Due, Pipeline
    <2>2. /\ link[c] \in Nat \ {0} /\ link'[c] = link[c] + 1
          /\ \A d \in Call \ {c} : link'[d] = link[d]
      BY <2>1, Zenon DEF Inv, TypeOK
    <2>3. in.chain[link[c]].authority.parent = CanonicalHash(in.chain[link[c] + 1].authority)
      BY <2>1, Zenon DEF chainLinkError
    <2>4. ASSUME NEW d \in Call PROVE TraceInvOf(d)'
      <3>1. CASE d # c
        BY <2>1, <2>2, <3>1, SameInput, Zenon DEF TraceInv, TraceInvOf
      <3>2. CASE d = c
        <4>1. TraceInvOf(c)
          BY Zenon DEF TraceInv
        <4>2. \A i \in 1..(link'[c] - 1) :
                 in.chain[i].authority.parent = CanonicalHash(in.chain[i + 1].authority)
          BY <2>1, <2>2, <2>3, <4>1 DEF TraceInvOf
        <4> QED
          BY <2>1, <3>2, <4>1, <4>2, SameInput, Zenon DEF TraceInvOf
      <3> QED
        BY <3>1, <3>2
    <2> QED
      BY <2>1, <2>4, Zenon DEF TraceInv
  <1>6. ASSUME NEW c \in Call, ChainLinkReturn(c) PROVE TraceInv'
    <2>1. /\ Due(c, "chain_link") /\ pc[c] = 5
          /\ UNCHANGED <<in, checker, wall, now, link, prov>>
          /\ \E o : Record(c, "chain_link", o)
      BY <1>6 DEF ChainLinkReturn, Due, Pipeline
    <2>2. "chain_link" \in CheckID
      BY PipelineDistinct DEF CheckID, Pipeline
    <2> QED
      BY <2>1, <2>2, RecordTrace
  <1>7. ASSUME UNCHANGED <<in, local>> PROVE TraceInv'
    <2>1. ASSUME NEW d \in Call PROVE TraceInvOf(d)'
      BY <1>7, SameInput, Zenon DEF TraceInv, TraceInvOf, local
    <2> QED
      BY <1>7, <2>1, Zenon DEF TraceInv, local
  <1> QED
    BY <1>1, <1>2, <1>3, <1>4, <1>5, <1>6, <1>7, Zenon DEF VerifyNext, Step, WallTick, verifyVars

\* A valid result was signed under the key version that keyVersionAt selects:
\* none bound by the evaluation instant is later, or of the same instant and
\* a higher version, and it is not revoked.
THEOREM VersionInEffect == VerifySpec => []KeyVersionInEffect
  <1>1. ASSUME Inv, TraceInv, NEW c \in Call, Valid(c), in.keyVersions # {}
        PROVE  \E v \in in.keyVersions :
                 /\ v.version = in.attestation.keyVersion
                 /\ v.boundAt <= now[c]
                 /\ v.revokedAt # Nil => now[c] < v.revokedAt
                 /\ \A w \in in.keyVersions : w.boundAt <= now[c] =>
                      /\ w.boundAt <= v.boundAt
                      /\ w.boundAt = v.boundAt => w.version <= v.version
    <2> DEFINE t == now[c]
               v == keyVersionAt(t)
    <2>1. signingKeyVersionError(t) = "ok"
      BY <1>1 DEF TraceInv, TraceInvOf, Valid, Returned
    <2>2. /\ t \in Int /\ in \in Input /\ ~ProgrammerError
      BY <1>1, ValidEstablished, Zenon DEF CallInv, Inv
    <2>3. IsHistory(in.keyVersions) /\ in.attestation.keyVersion \in Int
      BY <2>2, InputAssumption, Zenon DEF ProgrammerError
    <2>4. BoundBy(t) \in SUBSET in.keyVersions /\ BoundBy(t) # {}
      BY <1>1, <2>1, Zenon DEF signingKeyVersionError, BoundBy
    <2>5. \E u \in BoundBy(t) : \A w \in BoundBy(t) : NoLater(w, u)
      BY <2>3, <2>4, Zenon DEF IsHistory
    <2>6. v \in BoundBy(t) /\ \A w \in BoundBy(t) : NoLater(w, v)
      BY <2>5, Zenon DEF keyVersionAt
    <2>7. /\ v \in in.keyVersions /\ v.boundAt <= t
          /\ v.version \in Int /\ v.boundAt \in Int
          /\ v.revokedAt = Nil \/ v.revokedAt \in Int
      BY <2>3, <2>6, Zenon DEF BoundBy, IsHistory
    <2>8. /\ ~(in.attestation.keyVersion < v.version)
          /\ ~(in.attestation.keyVersion > v.version)
          /\ ~(v.revokedAt # Nil /\ t >= v.revokedAt)
      BY <1>1, <2>1, <2>4, Zenon DEF signingKeyVersionError
    <2> HIDE DEF v, t
    <2>9. \A w \in in.keyVersions : w.boundAt <= t =>
            /\ w.boundAt <= v.boundAt
            /\ w.boundAt = v.boundAt => w.version <= v.version
      BY <2>2, <2>3, <2>6, <2>7 DEF BoundBy, IsHistory, NoLater
    <2>10. v.version = in.attestation.keyVersion /\ (v.revokedAt # Nil => t < v.revokedAt)
      BY <2>2, <2>3, <2>7, <2>8
    <2> QED
      BY <2>7, <2>9, <2>10, Zenon DEF t
  <1>2. Inv /\ TraceInv => KeyVersionInEffect
    BY <1>1, Zenon DEF KeyVersionInEffect
  <1> QED
    BY <1>2, InitInv, StepInv, InitTrace, StepTrace, PTL DEF VerifySpec

\* An element of a concatenation is an element of one of its two parts.
LEMMA ConcatElement ==
    ASSUME NEW S, NEW s \in Seq(S), NEW t \in Seq(S)
    PROVE  /\ s \o t \in Seq(S)
           /\ \A k \in 1..Len(s \o t) :
                \/ \E j \in 1..Len(s) : (s \o t)[k] = s[j]
                \/ \E j \in 1..Len(t) : (s \o t)[k] = t[j]
  <1> SUFFICES ASSUME NEW k \in 1..Len(s \o t)
               PROVE  \/ \E j \in 1..Len(s) : (s \o t)[k] = s[j]
                      \/ \E j \in 1..Len(t) : (s \o t)[k] = t[j]
    OBVIOUS
  <1>1. Len(s) \in Nat /\ Len(t) \in Nat /\ Len(s \o t) = Len(s) + Len(t)
    OBVIOUS
  <1>2. CASE k <= Len(s)
    BY <1>1, <1>2
  <1>3. CASE k > Len(s)
    <2>1. k - Len(s) \in 1..Len(t) /\ (s \o t)[k] = t[k - Len(s)]
      BY <1>1, <1>3
    <2> QED
      BY <2>1, Zenon
  <1> QED
    BY <1>1, <1>2, <1>3

\* The elements of the trace of kind "authority" are the hops of the chain,
\* each with the hash of the hop above it as its parent.
LEMMA TraceAuthority ==
    ASSUME NEW i, Len(i.chain) \in Nat \ {0},
           NEW k \in 1..Len(BuildProvenance(i)),
           BuildProvenance(i)[k].kind = "authority"
    PROVE  \E j \in 1..Len(i.chain) :
             /\ BuildProvenance(i)[k].ref = CanonicalHash(i.chain[j].authority)
             /\ BuildProvenance(i)[k].parent =
                  IF j < Len(i.chain) THEN CanonicalHash(i.chain[j + 1].authority) ELSE Nil
  <1> DEFINE n == Len(i.chain)
             ref(j) == CanonicalHash(i.chain[j].authority)
             att == AttestationHash(i.attestation)
             x == [NoLink EXCEPT !.kind = "attestation", !.ref = att,
                                 !.subject = i.attestation.issuer]
             y == [NoLink EXCEPT !.kind = "claim", !.ref = i.attestation.claim, !.parent = att]
             z == [NoLink EXCEPT !.kind = "signing_key", !.keyId = i.attestation.keyId,
                                 !.parent = att]
             hop(j) == [NoLink EXCEPT !.kind = "authority", !.ref = ref(j),
                                      !.subject = i.chain[j].authority.subject,
                                      !.parent = IF j < n THEN ref(j + 1) ELSE Nil]
             edge(j) == [NoLink EXCEPT !.kind = "delegation", !.ref = ref(j),
                                       !.parent = ref(j + 1)]
             top == [NoLink EXCEPT !.kind = "root_authority", !.ref = ref(n)]
             who == [NoLink EXCEPT !.kind = "identity",
                                   !.ref = i.chain[n].authority.subject,
                                   !.subject = i.chain[n].authority.subject]
             hops == [j \in 1..n |-> hop(j)]
             edges == [j \in 1..(n - 1) |-> edge(j)]
             last == IF i.resolver = Nil THEN <<>> ELSE <<who>>
             S == {x, y, z, top, who} \cup {hop(j) : j \in 1..n}
                    \cup {edge(j) : j \in 1..(n - 1)}
  <1>1. BuildProvenance(i) = <<x, y, z>> \o hops \o edges \o <<top>> \o last
    BY Zenon DEF BuildProvenance
  <1>2. n \in Nat /\ n - 1 \in Nat
    OBVIOUS
  <1>3. /\ x.kind = "attestation" /\ y.kind = "claim" /\ z.kind = "signing_key"
        /\ top.kind = "root_authority" /\ who.kind = "identity"
        /\ \A j \in 1..(n - 1) : edge(j).kind = "delegation"
    BY Zenon DEF NoLink
  <1>4. \A j \in 1..n : /\ hop(j).ref = ref(j)
                        /\ hop(j).parent = IF j < n THEN ref(j + 1) ELSE Nil
    BY Zenon DEF NoLink
  <1> HIDE DEF x, y, z, hop, edge, top, who, n, ref
  <1>5. hops \in Seq(S) /\ Len(hops) = n /\ edges \in Seq(S) /\ Len(edges) = n - 1
    BY <1>2
  <1>6. <<x, y, z>> \in Seq(S) /\ <<top>> \in Seq(S) /\ last \in Seq(S)
    <2>1. x \in S /\ y \in S /\ z \in S /\ top \in S /\ who \in S
      OBVIOUS
    <2> HIDE DEF S
    <2> QED
      BY <2>1
  <1> HIDE DEF S
  <1>7. /\ \A j \in 1..Len(<<x, y, z>>) : <<x, y, z>>[j].kind # "authority"
        /\ \A j \in 1..Len(edges) : edges[j].kind # "authority"
        /\ \A j \in 1..Len(<<top>>) : <<top>>[j].kind # "authority"
        /\ \A j \in 1..Len(last) : last[j].kind # "authority"
    <2>1. \A j \in 1..Len(<<x, y, z>>) : <<x, y, z>>[j].kind # "authority"
      <3>1. Len(<<x, y, z>>) = 3 /\ \A j \in 1..3 : <<x, y, z>>[j] \in {x, y, z}
        OBVIOUS
      <3> QED
        BY <1>3, <3>1, Zenon
    <2>2. \A j \in 1..Len(edges) : edges[j].kind # "authority"
      BY <1>2, <1>3, <1>5, Zenon
    <2>3. \A j \in 1..Len(<<top>>) : <<top>>[j].kind # "authority"
      BY <1>3
    <2>4. \A j \in 1..Len(last) : last[j].kind # "authority"
      BY <1>3
    <2> QED
      BY <2>1, <2>2, <2>3, <2>4, Zenon
  <1> DEFINE a == <<x, y, z>>
             b == hops
             d == edges
             e == <<top>>
             p1 == a \o b
             p2 == p1 \o d
             p3 == p2 \o e
             p4 == p3 \o last
  <1>8. BuildProvenance(i) = p4
    BY <1>1, Zenon
  <1>9. /\ a \in Seq(S) /\ b \in Seq(S) /\ d \in Seq(S) /\ e \in Seq(S) /\ last \in Seq(S)
        /\ \A j \in 1..Len(a) : a[j].kind # "authority"
        /\ \A j \in 1..Len(d) : d[j].kind # "authority"
        /\ \A j \in 1..Len(e) : e[j].kind # "authority"
        /\ \A j \in 1..Len(last) : last[j].kind # "authority"
    BY <1>5, <1>6, <1>7, Zenon
  <1>10. Len(b) = n /\ \A j \in 1..n : b[j] = hop(j)
    BY <1>5, Zenon
  <1> HIDE DEF a, b, d, e, last, hops, edges
  <1>11. p1 \in Seq(S) /\ \A j \in 1..Len(p1) :
           p1[j].kind = "authority" => \E m \in 1..Len(b) : p1[j] = b[m]
    BY <1>9, ConcatElement, SMTT(30)
  <1> HIDE DEF p1
  <1>12. p2 \in Seq(S) /\ \A j \in 1..Len(p2) :
           p2[j].kind = "authority" => \E m \in 1..Len(b) : p2[j] = b[m]
    BY <1>9, <1>11, ConcatElement
  <1> HIDE DEF p2
  <1>13. p3 \in Seq(S) /\ \A j \in 1..Len(p3) :
           p3[j].kind = "authority" => \E m \in 1..Len(b) : p3[j] = b[m]
    BY <1>9, <1>12, ConcatElement
  <1> HIDE DEF p3
  <1>14. \A j \in 1..Len(p4) :
           p4[j].kind = "authority" => \E m \in 1..Len(b) : p4[j] = b[m]
    BY <1>9, <1>13, ConcatElement
  <1>15. PICK m \in 1..n : BuildProvenance(i)[k] = hop(m)
    BY <1>8, <1>10, <1>14, Zenon
  <1> QED
    BY <1>4, <1>15, Zenon DEF n, ref

\* The trace of a valid result names the parents that the authorities
\* reference: buildProvenance takes them from the hops, checkChainLink and
\* checkRootAuthority make the two agree.
THEOREM ProvenanceParents == VerifySpec => []ProvenanceFollowsParents
  <1>1. ASSUME Inv, TraceInv, NEW c \in Call, Valid(c),
               NEW k \in 1..Len(prov[c]), NEW i \in 1..Len(in.chain),
               prov[c][k].kind = "authority",
               prov[c][k].ref = CanonicalHash(in.chain[i].authority)
        PROVE  prov[c][k].parent = in.chain[i].authority.parent
    <2> DEFINE n == Len(in.chain)
               up(j) == in.chain[j].authority.parent
    <2>1. /\ prov[c] = BuildProvenance(in)
          /\ \A j \in 1..(link[c] - 1) : up(j) = CanonicalHash(in.chain[j + 1].authority)
      BY <1>1 DEF TraceInv, TraceInvOf, Valid, Returned
    <2>2. link[c] = n /\ up(n) = Nil
      BY <1>1, ValidFacts, Zenon DEF Established, Root
    <2>3. /\ n \in Nat \ {0}
          /\ \A j \in 1..n : "parent" \in DOMAIN in.chain[j].authority
      <3>1. in \in Input /\ ~ProgrammerError
        BY <1>1, ValidEstablished, Zenon DEF CallInv, Inv
      <3> QED
        BY <3>1, InputAssumption DEF ProgrammerError
    <2>4. PICK j \in 1..n :
            /\ prov[c][k].ref = CanonicalHash(in.chain[j].authority)
            /\ prov[c][k].parent =
                 IF j < n THEN CanonicalHash(in.chain[j + 1].authority) ELSE Nil
      BY <1>1, <2>1, <2>3, TraceAuthority
    <2>5. prov[c][k].parent = up(j)
      BY <2>1, <2>2, <2>3, <2>4
    <2>6. \A m \in 1..n : CanonicalHash(in.chain[m].authority).parent = up(m)
      BY <2>3, Zenon DEF CanonicalHash
    <2>7. up(j) = up(i)
      <3>1. CanonicalHash(in.chain[j].authority) = CanonicalHash(in.chain[i].authority)
        BY <1>1, <2>4, Zenon
      <3> QED
        BY <2>6, <3>1, Zenon
    <2> QED
      BY <2>5, <2>7, Zenon
  <1>2. Inv /\ TraceInv => ProvenanceFollowsParents
    BY <1>1, Zenon DEF ProvenanceFollowsParents
  <1> QED
    BY <1>2, InitInv, StepInv, InitTrace, StepTrace, PTL DEF VerifySpec
=============================================================================
