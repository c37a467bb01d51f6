------------------------- MODULE VerificationEngine -------------------------
(***************************************************************************)
(* Package verification: Engine.Verify.  Concurrent calls share one engine *)
(* and one Inputs value; each runs the ordered checks, and time passes     *)
(* between them.  A check is one step, except checkChainLink, which is one *)
(* step per hop.                                                           *)
(*                                                                         *)
(* Inputs is a record [attestation, signingKey, chain, resolver,           *)
(* keyVersions, evidence, commitments, now]; a hop is [authority, key].    *)
(* resolver is Nil or the DID documents it serves: a partial function from *)
(* subjects to partial functions from key IDs to keys.  evidence maps      *)
(* canonical hashes to whether the content supplied under them matches.    *)
(***************************************************************************)
EXTENDS TrustObjects

CONSTANTS
    Call,       \* concurrent calls of Verify
    Input,      \* the Inputs values considered
    Time,       \* instants
    MaxTime,    \* bound on the wall clock
    Lossy       \* the integers that no double holds exactly

ASSUME TimeAssumption == Time \subseteq Int /\ MaxTime \in Int /\ Nil \notin Int

IsWindow(v) == v.notBefore \in Int /\ v.notAfter \in Int

IsScope(s) ==
    /\ s.window # Nil => s.window.start \in Int /\ s.window.end \in Int
    /\ s.quantity # Nil => s.quantity.limit \in Int
    /\ s.monetary # Nil => s.monetary.limit \in Int

\* a is bound before b, or with b under a version that is no higher.
NoLater(a, b) == a.boundAt < b.boundAt \/ (a.boundAt = b.boundAt /\ a.version <= b.version)

\* A rotation history is finite, so every part of it has a latest entry.
IsHistory(h) ==
    /\ \A v \in h : /\ v.version \in Int /\ v.boundAt \in Int
                    /\ v.revokedAt = Nil \/ v.revokedAt \in Int
    /\ \A part \in SUBSET h : part # {} => \E v \in part : \A w \in part : NoLater(w, v)

\* What the Go types say of the instants and limits in an Inputs value.
ASSUME InputAssumption ==
    \A i \in Input :
        /\ Len(i.chain) \in Nat
        /\ i.chain # <<>> => Len(i.chain) > 0
        /\ i.now = Nil \/ i.now \in Int
        /\ i.attestation # Nil =>
             /\ IsWindow(i.attestation.validity)
             /\ IsWindow(i.attestation.claim.validity)
             /\ IsScope(i.attestation.claim.scope)
             /\ i.attestation.keyVersion \in Int
        /\ IsHistory(i.keyVersions)
        /\ \A k \in 1..Len(i.chain) :
             LET a == i.chain[k].authority IN
             a # Nil => /\ "parent" \in DOMAIN a
                        /\ IsWindow(a.validity)
                        /\ IsScope(a.scope)
                        /\ a.maxDepth = Nil \/ a.maxDepth \in Int

Pipeline ==
    <<"structural", "signature", "authorization", "authority_proof",
      "chain_link", "root_authority", "temporal", "revocation", "identity",
      "key_binding", "evidence", "provenance", "commitment">>

CheckID == {Pipeline[k] : k \in 1..13}

checkPrerequisites ==
    [id \in CheckID |->
        CASE id = "structural" -> {}
          [] id \in {"authorization", "key_binding"} -> {"signature"}
          [] id = "authority_proof" -> {"authorization"}
          [] id = "chain_link" -> {"authority_proof"}
          [] id = "root_authority" -> {"chain_link"}
          [] OTHER -> {"structural"}]

VARIABLES
    in,         \* the Inputs value
    checker,    \* Engine.commitmentChecker # nil
    wall,       \* time.Now()
    pc,         \* position in the pipeline; 0 before it, 14 when Verify returned
    now,        \* checkContext.now
    link,       \* loop index of checkChainLink
    prov,       \* checkContext.prov
    checks,     \* Result.Checks: the status recorded for each check
    failures    \* Result.Failures

local == <<pc, now, link, prov, checks, failures>>
verifyVars == <<in, checker, wall, local>>

Leaf == in.chain[1]
Root == in.chain[Len(in.chain)]

Pass == [err |-> "ok", hop |-> -1]
Fail(err, hop) == [err |-> err, hop |-> hop]

\* The outcome of a loop over the hops: the first error that is not "ok".
OverHops(errors) ==
    LET bad == {i \in 1..Len(in.chain) : errors[i] # "ok"}
        first == CHOOSE i \in bad : \A j \in bad : i <= j
    IN  IF bad = {} THEN Pass ELSE Fail(errors[first], first - 1)

-----------------------------------------------------------------------------
(* Provenance.                                                             *)

NoLink == [kind |-> Nil, ref |-> Nil, subject |-> Nil, keyId |-> Nil, parent |-> Nil]

\* The trace from the attestation to the root, and to its identity.
BuildProvenance(i) ==
    LET n == Len(i.chain)
        ref(k) == CanonicalHash(i.chain[k].authority)
        att == AttestationHash(i.attestation)
    IN  <<[NoLink EXCEPT !.kind = "attestation", !.ref = att,
                         !.subject = i.attestation.issuer],
          [NoLink EXCEPT !.kind = "claim", !.ref = i.attestation.claim, !.parent = att],
          [NoLink EXCEPT !.kind = "signing_key", !.keyId = i.attestation.keyId,
                         !.parent = att]>>
        \o [k \in 1..n |->
              [NoLink EXCEPT !.kind = "authority", !.ref = ref(k),
                             !.subject = i.chain[k].authority.subject,
                             !.parent = IF k < n THEN ref(k + 1) ELSE Nil]]
        \o [k \in 1..(n - 1) |->
              [NoLink EXCEPT !.kind = "delegation", !.ref = ref(k),
                             !.parent = ref(k + 1)]]
        \o <<[NoLink EXCEPT !.kind = "root_authority", !.ref = ref(n)]>>
        \o IF i.resolver = Nil THEN <<>>
           ELSE <<[NoLink EXCEPT !.kind = "identity",
                                 !.ref = i.chain[n].authority.subject,
                                 !.subject = i.chain[n].authority.subject]>>

-----------------------------------------------------------------------------
(* The checks.                                                             *)

checkStructural == IF Validate(in.attestation) THEN Pass ELSE Fail("ErrStructural", -1)

checkSignature ==
    LET err == VerifySignature(in.attestation, in.signingKey) IN
    CASE err = "ok" -> Pass
      [] err = "ErrWrongKey" -> Fail("ErrSignatureKeyMismatch", -1)
      [] OTHER -> Fail("ErrSignatureMismatch", -1)

checkAuthorization ==
    LET err == VerifyAuthorization(in.attestation, Leaf.authority, wall) IN
    CASE err = "ok" -> Pass
      [] err = "ErrCapabilityNotGranted" -> Fail("ErrCapabilityNotGranted", -1)
      [] err = "ErrAuthorizationScope" -> Fail("ErrScopeViolation", -1)
      [] OTHER -> Fail("ErrAuthorityInvalid", -1)

checkAuthorityProof ==
    OverHops([i \in 1..Len(in.chain) |->
        IF VerifyAuthorityProof(in.chain[i].authority, in.chain[i].key) = "ok"
          THEN "ok" ELSE "ErrAuthorityInvalid"])

mapDelegationError(err) ==
    CASE err = "ErrCapabilityEscalation" -> "ErrCapabilityNotGranted"
      [] err \in {"ErrScopeEscalation", "ErrValidityEscalation"} -> "ErrScopeViolation"
      [] err = "ErrDepthEscalation" -> "ErrDelegationDepth"
      [] OTHER -> err

\* Mutant: the parent reference is not compared with the parent's hash.
chainLinkErrorNoRef(i) ==
    mapDelegationError(VerifySubset(in.chain[i].authority, in.chain[i + 1].authority))

\* The link from hop i to hop i + 1.
chainLinkError(i) ==
    LET child == in.chain[i].authority
        parent == in.chain[i + 1].authority
    IN  IF child.parent # CanonicalHash(parent) THEN "ErrChainBroken"
        ELSE mapDelegationError(VerifySubset(child, parent))

checkRootAuthority ==
    IF Root.authority.parent = Nil THEN Pass ELSE Fail("ErrNotRootAuthority", -1)

windowError(v, t) ==
    IF t < v.notBefore THEN "ErrNotYetValid"
    ELSE IF t > v.notAfter THEN "ErrExpired"
    ELSE "ok"

checkTemporal(c) ==
    LET err == windowError(in.attestation.validity, now[c]) IN
    IF err # "ok" THEN Fail(err, -1)
    ELSE OverHops([i \in 1..Len(in.chain) |->
                     windowError(in.chain[i].authority.validity, now[c])])

statusError(status) ==
    CASE status = "active" -> "ok"
      [] status = "revoked" -> "ErrRevoked"
      [] status = "superseded" -> "ErrSuperseded"
      [] status = "expired" -> "ErrExpired"
      [] OTHER -> "ErrAuthorityInvalid"

checkRevocation ==
    OverHops([i \in 1..Len(in.chain) |-> statusError(in.chain[i].authority.status)])

checkIdentity ==
    IF in.resolver = Nil \/ Root.authority.subject \in DOMAIN in.resolver
      THEN Pass ELSE Fail("ErrIdentityUnresolved", -1)

\* The entry of the rotation history in effect at t: the latest bound, ties
\* broken toward the higher version.
BoundBy(t) == {v \in in.keyVersions : v.boundAt <= t}

\* Mutant: of entries bound at one instant the lower version is taken.
keyVersionAtLowTie(t) ==
    CHOOSE v \in BoundBy(t) : \A w \in BoundBy(t) :
        w.boundAt < v.boundAt \/ (w.boundAt = v.boundAt /\ v.version <= w.version)

keyVersionAt(t) ==
    CHOOSE v \in BoundBy(t) : \A w \in BoundBy(t) : NoLater(w, v)

signingKeyVersionError(t) ==
    LET used == in.attestation.keyVersion IN
    IF in.keyVersions = {} THEN "ok"
    ELSE IF BoundBy(t) = {} THEN "ErrKeyBinding"
    ELSE IF used < keyVersionAt(t).version THEN "ErrKeyVersionSuperseded"
    ELSE IF used > keyVersionAt(t).version THEN "ErrKeyBinding"
    ELSE IF keyVersionAt(t).revokedAt # Nil /\ t >= keyVersionAt(t).revokedAt
      THEN "ErrRevoked"
    ELSE "ok"

\* The key that subject's DID document binds to keyId is the supplied one.
keyBound(subject, keyId, want) ==
    /\ subject \in DOMAIN in.resolver
    /\ keyId \in DOMAIN in.resolver[subject]
    /\ in.resolver[subject][keyId] = want

checkKeyBindingAt(c) ==
    LET err == signingKeyVersionError(now[c])
        att == in.attestation
        bound == /\ keyBound(att.issuer, att.keyId, in.signingKey)
                 /\ keyBound(Root.authority.subject, Root.authority.keyId, Root.key)
    IN  IF err # "ok" THEN Fail(err, -1)
        ELSE IF in.resolver = Nil THEN Pass
        ELSE IF bound THEN Pass ELSE Fail("ErrKeyBinding", -1)

checkEvidence ==
    LET ev == in.attestation.evidence IN
    IF \A i \in 1..Len(ev) : ev[i] \in DOMAIN in.evidence /\ in.evidence[ev[i]]
      THEN Pass ELSE Fail("ErrEvidenceIntegrity", -1)

checkProvenance(c) ==
    IF prov[c] = BuildProvenance(in) THEN Pass ELSE Fail("ErrProvenanceMismatch", -1)

\* commitments holds the checker's verdict on each supplied proof.
checkCommitment ==
    IF ~checker THEN Fail("skip", -1)
    ELSE IF in.commitments = <<>> \/ \E i \in 1..Len(in.commitments) : ~in.commitments[i]
      THEN Fail("ErrCommitmentInvalid", -1)
    ELSE Pass

CheckOutcome(c, id) ==
    CASE id = "structural" -> checkStructural
      [] id = "signature" -> checkSignature
      [] id = "authorization" -> checkAuthorization
      [] id = "authority_proof" -> checkAuthorityProof
      [] id = "root_authority" -> checkRootAuthority
      [] id = "temporal" -> checkTemporal(c)
      [] id = "revocation" -> checkRevocation
      [] id = "identity" -> checkIdentity
      [] id = "key_binding" -> checkKeyBindingAt(c)
      [] id = "evidence" -> checkEvidence
      [] id = "provenance" -> checkProvenance(c)
      [] id = "commitment" -> checkCommitment
-----------------------------------------------------------------------------
(* Engine.Verify.                                                          *)

Status0 == [id \in CheckID |-> "none"]

VerifyInit ==
    /\ in \in Input
    /\ checker \in BOOLEAN
    /\ wall \in Time
    /\ pc = [c \in Call |-> 0]
    /\ now = [c \in Call |-> Nil]
    /\ link = [c \in Call |-> 1]
    /\ prov = [c \in Call |-> <<>>]
    /\ checks = [c \in Call |-> Status0]
    /\ failures = [c \in Call |-> <<>>]

\* A canonical hash fails on an integer that its JSON cannot spell exactly.
Hashable(scope, n) ==
    Lossy \cap ({n} \cup {q.limit : q \in {scope.quantity, scope.monetary} \ {Nil}}) = {}

\* What Verify, and the BuildProvenance it begins with, refuse to look at.
ProgrammerError ==
    ~ /\ in.attestation # Nil
      /\ in.signingKey # Nil
      /\ in.chain # <<>>
      /\ Hashable(in.attestation.claim.scope, in.attestation.keyVersion)
      /\ \A i \in 1..Len(in.chain) :
           /\ in.chain[i].authority # Nil
           /\ Hashable(in.chain[i].authority.scope, in.chain[i].authority.maxDepth)

Reject(c) ==
    /\ pc[c] = 0
    /\ ProgrammerError
    /\ pc' = [pc EXCEPT ![c] = -1]
    /\ UNCHANGED <<in, checker, wall, now, link, prov, checks, failures>>

\* A zero Inputs.Now resolves to the engine's clock, time.Now by default.
Begin(c) ==
    /\ pc[c] = 0
    /\ ~ProgrammerError
    /\ now' = [now EXCEPT ![c] = IF in.now = Nil THEN wall ELSE in.now]
    /\ prov' = [prov EXCEPT ![c] = BuildProvenance(in)]
    /\ pc' = [pc EXCEPT ![c] = 1]
    /\ UNCHANGED <<in, checker, wall, link, checks, failures>>

failed(c) == {failures[c][i].check : i \in 1..Len(failures[c])}

prerequisiteFailed(c, id) == checkPrerequisites[id] \cap failed(c) # {}

\* The call is about to run the check id.
Due(c, id) == pc[c] \in 1..13 /\ Pipeline[pc[c]] = id

\* Mutant: a failure is recorded as a skip.
RecordLenient(c, id, o) ==
    /\ checks' = [checks EXCEPT ![c][id] =
                     IF o.err = "ok" THEN "passed" ELSE "skipped"]
    /\ UNCHANGED failures
    /\ pc' = [pc EXCEPT ![c] = @ + 1]

\* Mutant: the loop advances past the following check as well.
RecordPastNext(c, id, o) ==
    /\ checks' = [checks EXCEPT ![c][id] =
                     CASE o.err = "ok" -> "passed"
                       [] o.err = "skip" -> "skipped"
                       [] OTHER -> "failed"]
    /\ failures' = IF o.err \in {"ok", "skip"} THEN failures
                   ELSE [failures EXCEPT ![c] =
                           Append(@, [check |-> id, err |-> o.err, hop |-> o.hop])]
    /\ pc' = [pc EXCEPT ![c] = @ + 2]

\* The switch of Verify's loop.
Record(c, id, o) ==
    /\ checks' = [checks EXCEPT ![c][id] =
                     CASE o.err = "ok" -> "passed"
                       [] o.err = "skip" -> "skipped"
                       [] OTHER -> "failed"]
    /\ failures' = IF o.err \in {"ok", "skip"} THEN failures
                   ELSE [failures EXCEPT ![c] =
                           Append(@, [check |-> id, err |-> o.err, hop |-> o.hop])]
    /\ pc' = [pc EXCEPT ![c] = @ + 1]

SkipCheck(c, id) ==
    /\ Due(c, id)
    /\ prerequisiteFailed(c, id)
    /\ Record(c, id, Fail("skip", -1))
    /\ UNCHANGED <<in, checker, wall, now, link, prov>>

RunCheck(c, id) ==
    /\ Due(c, id)
    /\ ~prerequisiteFailed(c, id)
    /\ id # "chain_link"
    /\ Record(c, id, CheckOutcome(c, id))
    /\ UNCHANGED <<in, checker, wall, now, link, prov>>

\* Mutant: the loop steps from one pair to the next disjoint one.
ChainLinkHopPairs(c) ==
    /\ Due(c, "chain_link")
    /\ ~prerequisiteFailed(c, "chain_link")
    /\ link[c] < Len(in.chain)
    /\ chainLinkError(link[c]) = "ok"
    /\ link' = [link EXCEPT ![c] = @ + 2]
    /\ UNCHANGED <<in, checker, wall, pc, now, prov, checks, failures>>

\* One iteration of checkChainLink that finds its pair in order.
ChainLinkHop(c) ==
    /\ Due(c, "chain_link")
    /\ ~prerequisiteFailed(c, "chain_link")
    /\ link[c] < Len(in.chain)
    /\ chainLinkError(link[c]) = "ok"
    /\ link' = [link EXCEPT ![c] = @ + 1]
    /\ UNCHANGED <<in, checker, wall, pc, now, prov, checks, failures>>

\* checkChainLink returns: at the first pair in error, or past the last.
ChainLinkReturn(c) ==
    /\ Due(c, "chain_link")
    /\ ~prerequisiteFailed(c, "chain_link")
    /\ \/ /\ link[c] >= Len(in.chain)
          /\ Record(c, "chain_link", Pass)
       \/ /\ link[c] < Len(in.chain)
          /\ chainLinkError(link[c]) # "ok"
          /\ Record(c, "chain_link", Fail(chainLinkError(link[c]), link[c] - 1))
    /\ UNCHANGED <<in, checker, wall, now, link, prov>>

WallTick ==
    /\ wall < MaxTime
    /\ wall' = wall + 1
    /\ UNCHANGED <<in, checker, local>>

Step(c) ==
    \/ Reject(c) \/ Begin(c)
    \/ \E id \in CheckID : SkipCheck(c, id) \/ RunCheck(c, id)
    \/ ChainLinkHop(c) \/ ChainLinkReturn(c)

VerifyNext == (\E c \in Call : Step(c)) \/ WallTick

VerifySpec == VerifyInit /\ [][VerifyNext]_verifyVars

-----------------------------------------------------------------------------
(* Properties.                                                             *)

Returned(c) == pc[c] = 14
Valid(c) == Returned(c) /\ failures[c] = <<>>

\* The engine's bookkeeping stays within its types: a position of the
\* pipeline, a status per check, an index of the chain.
TypeOK ==
    /\ checker \in BOOLEAN
    /\ wall \in Int
    /\ pc \in [Call -> -1..14]
    /\ now \in [Call -> Int \cup {Nil}]
    /\ link \in [Call -> Nat \ {0}]
    /\ checks \in [Call -> [CheckID -> {"none", "passed", "failed", "skipped"}]]

\* Result.Valid means that every check ran and passed; only the commitment
\* check may have been skipped, and only without a checker.
ValidMeansAllPassed ==
    \A c \in Call : Valid(c) =>
        \A id \in CheckID :
            \/ checks[c][id] = "passed"
            \/ id = "commitment" /\ ~checker /\ checks[c][id] = "skipped"

\* a permits no more than b does, in every dimension but the depth.
Narrower(a, b) ==
    /\ a.caps \subseteq b.caps
    /\ scopeSubset(b.scope, a.scope)
    /\ validitySubset(b.validity, a.validity)

\* What a claim lists is within what authority a permits: an empty or nil
\* dimension of an authority is unconstrained (authority.go 80-84).
ClaimPermitted(claim, a) ==
    /\ \A d \in Dim : a.scope.items[d] = {} \/ claim.scope.items[d] \subseteq a.scope.items[d]
    /\ timeWindowSubset(a.scope.window, claim.scope.window)
    /\ quantitySubset(a.scope.quantity, claim.scope.quantity)
    /\ monetarySubset(a.scope.monetary, claim.scope.monetary)
    /\ validitySubset(a.validity, claim.validity)

\* A valid result speaks for the whole chain: the root and every authority
\* below it grants the capability, permits the claim, covers the
\* attestation's window, and is active and current at the evaluation instant,
\* although only the leaf is compared with the attestation.
ValidMeansPermitted ==
    \A c \in Call : Valid(c) =>
        /\ Root.authority.parent = Nil
        /\ \A i \in 1..Len(in.chain) :
            LET a == in.chain[i].authority IN
            /\ in.attestation.capability \in a.caps
            /\ ClaimPermitted(in.attestation.claim, a)
            /\ validitySubset(a.validity, in.attestation.validity)
            /\ a.status = "active"
            /\ validityContains(a.validity, now[c])

\* What the attestation's own authority permits it.
LeafPermits ==
    /\ in.attestation.capability \in Leaf.authority.caps
    /\ claimScopeSubset(in.attestation.claim.scope, Leaf.authority.scope)
    /\ validitySubset(Leaf.authority.validity, in.attestation.claim.validity)
    /\ validitySubset(Leaf.authority.validity, in.attestation.validity)

\* The leaf's depth bound leaves room for the i - 1 delegations below hop i.
DepthDescends(i) ==
    in.chain[i].authority.maxDepth # Nil =>
        /\ Leaf.authority.maxDepth # Nil
        /\ Leaf.authority.maxDepth + (i - 1) <= in.chain[i].authority.maxDepth

\* What is known once the check id is behind a call with no failure.
Established(c, id) ==
    /\ \/ checks[c][id] = "passed"
       \/ id = "commitment" /\ ~checker /\ checks[c][id] = "skipped"
    /\ id = "authorization" => LeafPermits
    /\ id = "chain_link" => link[c] = Len(in.chain)
    /\ id = "root_authority" => Root.authority.parent = Nil
    /\ id = "temporal" =>
         \A i \in 1..Len(in.chain) : validityContains(in.chain[i].authority.validity, now[c])
    /\ id = "revocation" =>
         \A i \in 1..Len(in.chain) : in.chain[i].authority.status = "active"

\* What holds of a call that has begun.
CallInv(c) ==
    /\ ~ProgrammerError
    /\ now[c] \in Int
    /\ link[c] \in 1..Len(in.chain)
    /\ \A i \in 1..link[c] :
         /\ Narrower(Leaf.authority, in.chain[i].authority)
         /\ DepthDescends(i)
    /\ failures[c] = <<>> => \A k \in 1..(pc[c] - 1) : Established(c, Pipeline[k])

\* The inductive invariant of the pipeline.  The walk of checkChainLink keeps
\* the leaf narrower than every authority it has passed; comparing adjacent
\* pairs is enough because each comparison is transitive.
PipelineInv ==
    \A c \in Call : /\ pc[c] = 0 => link[c] = 1
                    /\ pc[c] \in 1..14 => CallInv(c)

\* In a valid chain whose leaf does not declare a negative depth, no bounded
\* authority has more delegations below it than its MaxDepth allows: comparing
\* adjacent pairs (delegationDepthOK) bounds the distance to the leaf.
DepthRespected ==
    \A c \in Call : Valid(c) =>
        \A i \in 1..Len(in.chain) :
            LET d == in.chain[i].authority.maxDepth IN
            (/\ d # Nil
             /\ Leaf.authority.maxDepth # Nil => Leaf.authority.maxDepth >= 0)
                => i - 1 <= d

\* The provenance of a valid result names the parents that the authorities
\* themselves reference, although it is built from the hops' own hashes.
ProvenanceFollowsParents ==
    \A c \in Call : Valid(c) =>
        \A k \in 1..Len(prov[c]), i \in 1..Len(in.chain) :
            /\ prov[c][k].kind = "authority"
            /\ prov[c][k].ref = CanonicalHash(in.chain[i].authority)
            => prov[c][k].parent = in.chain[i].authority.parent

\* A valid result was signed under the key version in effect at the
\* evaluation instant, and that version is not revoked by then.  As
\* rotation_test.go 360-361 has it, the version in effect is the one bound
\* last, and the highest of those bound together: no entry of the history
\* bound by then is later, or of the same instant and a higher version.
KeyVersionInEffect ==
    \A c \in Call : Valid(c) /\ in.keyVersions # {} =>
        \E v \in in.keyVersions :
            /\ v.version = in.attestation.keyVersion
            /\ v.boundAt <= now[c]
            /\ v.revokedAt # Nil => now[c] < v.revokedAt
            /\ \A w \in in.keyVersions : w.boundAt <= now[c] =>
                 /\ w.boundAt <= v.boundAt
                 /\ w.boundAt = v.boundAt => w.version <= v.version

-----------------------------------------------------------------------------
(* What the tests and comments say, and the code does not do.              *)

\* determinism_test.go 34: "repeated Verify runs with identical Inputs and
\* a fixed Now produce byte-identical Results".
Deterministic ==
    \A c, d \in Call :
        Returned(c) /\ Returned(d) /\ in.now # Nil =>
            checks[c] = checks[d] /\ failures[c] = failures[d]

\* authority.go 155: MaxDepth "is the maximum delegation depth below this
\* authority", and delegation_test.go 344: "parent depth 0 admits no
\* delegation", so a valid chain never has more hops below than that.
DepthIsMaximum ==
    \A c \in Call : Valid(c) =>
        \A i \in 1..Len(in.chain) :
            LET d == in.chain[i].authority.maxDepth IN d # Nil => i - 1 <= d

\* checks_single.go 105: "keyVersionAt returns the highest-version entry bound
\* at or before now", so a valid result is signed under no lower version.
HighestVersionInEffect ==
    \A c \in Call : Valid(c) =>
        \A w \in in.keyVersions :
            w.boundAt <= now[c] => w.version <= in.attestation.keyVersion
=============================================================================
