------------------------ MODULE SignedObjects_proofs ------------------------
(***************************************************************************)
(* Proofs for SignedObjects, KeyBinding and Tokens.  No sequence of        *)
(* signing, failed signing, delegation and status changes leaves an object *)
(* with the signature of one proof and the algorithm or key ID of another, *)
(* or breaks the link between an authority and its parent in any way but   *)
(* one.  An EAT token yields the attestation it was made of.  Whatever     *)
(* documents the resolver serves, an accepted key is the one key its       *)
(* document gives the identifier.  The two verifiers of a token agree.     *)
(***************************************************************************)
EXTENDS SignedObjects, KeyBinding, Tokens, FiniteSetTheorems, TLAPS

-----------------------------------------------------------------------------
(* Authorities and attestations.                                           *)


Field == {"status", "alg", "keyId", "sig"}

\* The signature is one that a signer made under the named algorithm.
MadeBy(a) ==
    \E s \in Signer : /\ a.alg = AlgorithmForPublicKey(s.key)
                      /\ a.sig = SignatureBy(s, a.sig.content)

\* An authority's signature covers all of it but a later change of status.
AuthoritySigned(a) ==
    /\ Field \subseteq DOMAIN a
    /\ a.sig # Nil => /\ a.sig.content = [CanonicalHash(a) EXCEPT !.status = a.sig.content.status]
                      /\ MadeBy(a)

AttestationSigned(a) ==
    /\ Field \subseteq DOMAIN a
    /\ a.sig # Nil => a.sig.content = AttestationHash(a) /\ MadeBy(a)

\* The root as it was at Derive, whatever happened to its proof since.
AtDerive(a, id) ==
    [CanonicalHash(a) EXCEPT !.status = id.status, !.alg = id.alg, !.keyId = id.keyId]

Shape ==
    /\ authority = [root |-> authority.root, child |-> authority.child]
    /\ derivedFrom = [status |-> derivedFrom.status, alg |-> derivedFrom.alg,
                      keyId |-> derivedFrom.keyId]

Inv ==
    /\ Shape
    /\ AuthoritySigned(authority.root)
    /\ authority.child # NoAuthority =>
         /\ AuthoritySigned(authority.child)
         /\ "parent" \in DOMAIN authority.child
         /\ authority.child.parent = AtDerive(authority.root, derivedFrom)
    /\ AttestationSigned(att)

\* An object without a signature satisfies its part of the invariant.
LEMMA Unsigned ==
    ASSUME NEW a, Field \subseteq DOMAIN a, a.sig = Nil
    PROVE  AuthoritySigned(a) /\ AttestationSigned(a)
  BY Zenon DEF AuthoritySigned, AttestationSigned

\* What the signing functions build: the named fields, and a signature over
\* the object as it is named.
LEMMA SignedBy ==
    ASSUME NEW b, Field \subseteq DOMAIN b, NEW s \in Signer,
           b.alg = AlgorithmForPublicKey(s.key)
    PROVE  /\ AuthoritySigned([b EXCEPT !.sig = SignatureBy(s, CanonicalHash(b))])
           /\ AttestationSigned([b EXCEPT !.sig = SignatureBy(s, AttestationHash(b))])
  <1> DEFINE h == [b EXCEPT !.sig = Nil]
             a == [b EXCEPT !.sig = SignatureBy(s, h)]
  <1>1. DOMAIN a = DOMAIN b /\ DOMAIN h = DOMAIN b
    OBVIOUS
  <1>2. SignatureBy(s, h).content = h
    BY Zenon DEF SignatureBy, Signature
  <1>3. a.sig = SignatureBy(s, h) /\ a.alg = b.alg /\ a.sig.content = h
    BY <1>2, Zenon DEF Field
  <1>4. [a EXCEPT !.sig = Nil] = h
    OBVIOUS
  <1>5. [h EXCEPT !.status = h.status] = h
    BY <1>1, Zenon DEF Field
  <1>6. MadeBy(a)
    BY <1>3, Zenon DEF MadeBy
  <1>7. AuthoritySigned(a)
    BY <1>1, <1>3, <1>4, <1>5, <1>6, Zenon DEF AuthoritySigned, CanonicalHash
  <1>8. AttestationSigned(a)
    BY <1>1, <1>3, <1>4, <1>6, Zenon DEF AttestationSigned, AttestationHash
  <1> QED
    BY <1>7, <1>8, Zenon DEF CanonicalHash, AttestationHash

\* What one call of SignAuthority may make of an authority.
SignResult(a, signer, keyID, b) ==
    LET begun == ProofStart(a, signer, keyID) IN
    b \in {a, begun, [begun EXCEPT !.sig = SignatureBy(signer, CanonicalHash(begun))]}

\* Each of its outcomes is signed for what it names, or is not signed.
LEMMA SignKeeps ==
    ASSUME NEW a, AuthoritySigned(a), NEW s \in Signer, NEW keyID, NEW b,
           SignResult(a, s, keyID, b)
    PROVE  AuthoritySigned(b) /\ DOMAIN b = DOMAIN a
  <1> DEFINE begun == ProofStart(a, s, keyID)
  <1>1. Field \subseteq DOMAIN a
    BY Zenon DEF AuthoritySigned
  <1>2. /\ DOMAIN begun = DOMAIN a
        /\ begun.sig = Nil /\ begun.alg = AlgorithmForPublicKey(s.key)
    BY <1>1, Zenon DEF ProofStart, Field
  <1> HIDE DEF begun
  <1>3. AuthoritySigned(begun)
    BY <1>1, <1>2, Unsigned, Zenon
  <1>4. AuthoritySigned([begun EXCEPT !.sig = SignatureBy(s, CanonicalHash(begun))])
    BY <1>1, <1>2, SignedBy, Zenon
  <1> QED
    BY <1>2, <1>3, <1>4, Zenon DEF SignResult, begun

\* Nor does it touch what a child's reference depends on, once the status,
\* the algorithm and the key ID are put back.
LEMMA SignKeepsDerived ==
    ASSUME NEW a, Field \subseteq DOMAIN a, NEW s \in Signer, NEW keyID, NEW b,
           SignResult(a, s, keyID, b), NEW id
    PROVE  AtDerive(b, id) = AtDerive(a, id)
  BY Zenon DEF SignResult, ProofStart, AtDerive, CanonicalHash, Field

\* A change of status keeps both.
LEMMA StatusKeeps ==
    ASSUME NEW a, AuthoritySigned(a), NEW st, NEW id
    PROVE  LET b == [a EXCEPT !.status = st] IN
           /\ AuthoritySigned(b) /\ DOMAIN b = DOMAIN a
           /\ AtDerive(b, id) = AtDerive(a, id)
  <1> DEFINE b == [a EXCEPT !.status = st]
  <1>1. /\ Field \subseteq DOMAIN a /\ DOMAIN b = DOMAIN a
        /\ b.sig = a.sig /\ b.alg = a.alg
    BY Zenon DEF AuthoritySigned, Field
  <1>2. \A t : [CanonicalHash(b) EXCEPT !.status = t] = [CanonicalHash(a) EXCEPT !.status = t]
    BY <1>1, Zenon DEF CanonicalHash
  <1>3. AtDerive(b, id) = AtDerive(a, id)
    BY <1>1, Zenon DEF AtDerive, CanonicalHash
  <1> HIDE DEF b
  <1>4. AuthoritySigned(b)
    BY <1>1, <1>2, Zenon DEF AuthoritySigned, MadeBy
  <1> QED
    BY <1>1, <1>3, <1>4, Zenon DEF b

\* The objects begin without a signature.
LEMMA InitInv == LifecycleInit /\ TransportInit => Inv
  <1> SUFFICES ASSUME LifecycleInit, TransportInit PROVE Inv
    OBVIOUS
  <1>1. PICK r \in RootDraft : authority = [root |-> r, child |-> NoAuthority]
    BY Zenon DEF LifecycleInit
  <1>2. AuthoritySigned(authority.root)
    BY <1>1, Unsigned, DraftAssumption, Zenon DEF Field
  <1>3. AttestationSigned(att)
    BY Unsigned, DraftAssumption, Zenon DEF Field, TransportInit
  <1> QED
    BY <1>1, <1>2, <1>3, Zenon DEF Inv, Shape, LifecycleInit, Identity

\* One step of the lifecycle.
LEMMA LifecycleStep ==
    ASSUME Inv, LifecycleNext, UNCHANGED transportVars
    PROVE  Inv'
  <1>0. AttestationSigned(att)'
    BY Zenon DEF Inv, transportVars, AttestationSigned, MadeBy
  <1>1. ASSUME NEW s \in Signer, NEW id \in SignerID, NEW out \in Outcome,
               SignAuthority("root", s, id, out)
        PROVE  Inv'
    <2>1. /\ authority' = [root |-> authority'.root, child |-> authority.child]
          /\ SignResult(authority.root, s, id, authority'.root)
          /\ derivedFrom' = derivedFrom
      BY <1>1, Zenon DEF SignAuthority, SignResult, Inv, Shape
    <2>2. AuthoritySigned(authority'.root)
      BY <2>1, SignKeeps, Zenon DEF Inv
    <2>3. AtDerive(authority'.root, derivedFrom) = AtDerive(authority.root, derivedFrom)
      BY <2>1, SignKeepsDerived DEF Inv, AuthoritySigned
    <2>4. authority'.child = authority.child
      BY <2>1
    <2> QED
      BY <1>0, <2>1, <2>2, <2>3, <2>4, Zenon
      DEF Inv, Shape, AuthoritySigned, MadeBy, AtDerive
  <1>2. ASSUME NEW s \in Signer, NEW id \in SignerID, NEW out \in Outcome,
               SignAuthority("child", s, id, out)
        PROVE  Inv'
    <2>1. /\ authority' = [root |-> authority.root, child |-> authority'.child]
          /\ SignResult(authority.child, s, id, authority'.child)
          /\ derivedFrom' = derivedFrom
          /\ authority.child # NoAuthority
      BY <1>2, Zenon DEF SignAuthority, SignResult, Inv, Shape
    <2>2. AuthoritySigned(authority'.child) /\ DOMAIN authority'.child = DOMAIN authority.child
      BY <2>1, SignKeeps, Zenon DEF Inv
    <2>3. authority'.child.parent = authority.child.parent
      BY <2>1, Zenon DEF Inv, SignResult, ProofStart
    <2>4. authority'.root = authority.root
      BY <2>1
    <2> QED
      BY <1>0, <2>1, <2>2, <2>3, <2>4, Zenon
      DEF Inv, Shape, AuthoritySigned, MadeBy, AtDerive
  <1>3. ASSUME NEW spec \in DelegationSpec, Derive(spec) PROVE Inv'
    <2>1. /\ authority' = [root |-> authority.root, child |-> authority'.child]
          /\ derivedFrom' = Identity(authority.root)
          /\ DOMAIN authority'.child = {"subject", "parent", "caps", "scope", "validity",
                                        "maxDepth", "status", "alg", "keyId", "sig"}
          /\ authority'.child.parent = CanonicalHash(authority.root)
          /\ authority'.child.sig = Nil
      BY <1>3, Zenon DEF Derive, Inv, Shape
    <2>2. AuthoritySigned(authority'.child)
      BY <2>1, Unsigned, Zenon DEF Field
    <2>3. AtDerive(authority.root, Identity(authority.root)) = CanonicalHash(authority.root)
      BY Zenon DEF Inv, AuthoritySigned, Field, AtDerive, Identity, CanonicalHash
    <2>4. authority'.root = authority.root
      BY <2>1
    <2>5. derivedFrom' = [status |-> derivedFrom'.status, alg |-> derivedFrom'.alg,
                          keyId |-> derivedFrom'.keyId]
      BY <2>1, Zenon DEF Identity
    <2> QED
      BY <1>0, <2>1, <2>2, <2>3, <2>4, <2>5, Zenon
      DEF Inv, Shape, AuthoritySigned, MadeBy, AtDerive
  <1>4. ASSUME NEW st, SetStatus("root", st) PROVE Inv'
    <2>1. /\ authority' = [root |-> authority'.root, child |-> authority.child]
          /\ authority'.root = [authority.root EXCEPT !.status = st]
          /\ derivedFrom' = derivedFrom
      BY <1>4, Zenon DEF SetStatus, Inv, Shape
    <2>2. /\ AuthoritySigned(authority'.root)
          /\ AtDerive(authority'.root, derivedFrom) = AtDerive(authority.root, derivedFrom)
      BY <2>1, StatusKeeps DEF Inv
    <2>3. authority'.child = authority.child
      BY <2>1
    <2> QED
      BY <1>0, <2>1, <2>2, <2>3, Zenon DEF Inv, Shape, AuthoritySigned, MadeBy, AtDerive
  <1>5. ASSUME NEW st, SetStatus("child", st) PROVE Inv'
    <2>1. /\ authority' = [root |-> authority.root, child |-> authority'.child]
          /\ authority'.child = [authority.child EXCEPT !.status = st]
          /\ derivedFrom' = derivedFrom
          /\ authority.child # NoAuthority
      BY <1>5, Zenon DEF SetStatus, Inv, Shape
    <2>2. AuthoritySigned(authority'.child) /\ DOMAIN authority'.child = DOMAIN authority.child
      BY <2>1, StatusKeeps DEF Inv
    <2>3. authority'.child.parent = authority.child.parent
      BY <2>1, Zenon DEF Inv
    <2>4. authority'.root = authority.root
      BY <2>1
    <2> QED
      BY <1>0, <2>1, <2>2, <2>3, <2>4, Zenon
      DEF Inv, Shape, AuthoritySigned, MadeBy, AtDerive
  <1> QED
    BY <1>1, <1>2, <1>3, <1>4, <1>5, Zenon DEF LifecycleNext

\* One step of the attestation's way.
LEMMA TransportStep ==
    ASSUME Inv, TransportNext, UNCHANGED lifecycleVars
    PROVE  Inv'
  <1>1. AttestationSigned(att')
    <2>1. CASE att' = att
      BY <2>1, Zenon DEF Inv
    <2>2. ASSUME NEW s \in Signer, NEW id \in SignerID, NEW out \in Outcome,
                 SignAttestation(s, id, out)
          PROVE  AttestationSigned(att')
      <3> DEFINE alg == AlgorithmForPublicKey(s.key)
                 named == IF id = Nil THEN att ELSE [att EXCEPT !.keyId = id]
                 begun == [named EXCEPT !.alg = alg, !.sig = Nil]
      <3>1. Field \subseteq DOMAIN att
        BY Zenon DEF Inv, AttestationSigned
      <3>2. Field \subseteq DOMAIN begun /\ begun.sig = Nil /\ begun.alg = alg
        BY <3>1, Zenon DEF Field
      <3>3. att' \in {att, begun, [begun EXCEPT !.sig = SignatureBy(s, AttestationHash(begun))]}
        BY <2>2, Zenon DEF SignAttestation
      <3> HIDE DEF begun, named
      <3>4. AttestationSigned(begun)
        BY <3>2, Unsigned, Zenon
      <3>5. AttestationSigned([begun EXCEPT !.sig = SignatureBy(s, AttestationHash(begun))])
        BY <3>2, SignedBy, Zenon
      <3> QED
        BY <3>3, <3>4, <3>5, Zenon DEF Inv
    <2> QED
      BY <2>1, <2>2, Zenon DEF TransportNext, Send, AlterWire, Receive
  <1> QED
    BY <1>1, Zenon DEF Inv, Shape, lifecycleVars, AuthoritySigned, AttestationSigned, MadeBy,
                AtDerive

\* The invariant holds throughout.
LEMMA Invariance == ObjectSpec => []Inv
  <1>1. ASSUME Inv, UNCHANGED <<lifecycleVars, transportVars>> PROVE Inv'
    BY <1>1, Zenon DEF Inv, Shape, lifecycleVars, transportVars, AuthoritySigned,
                AttestationSigned, MadeBy, AtDerive
  <1> QED
    BY <1>1, InitInv, LifecycleStep, TransportStep, PTL DEF ObjectSpec, ObjectNext

\* authority/proof.go and attestation/sign.go: an error of the signer between
\* the assignments never leaves the signature of an earlier proof beside the
\* algorithm or key ID of a later one; for every set of signers and drafts.
THEOREM ProofsUnmixed == ObjectSpec => []NoMixedProof
  <1>1. ASSUME NEW a, AuthoritySigned(a), a.sig # Nil
        PROVE  /\ a.sig.content.alg = a.alg
               /\ a.sig.content.keyId = a.keyId
               /\ \/ VerifyAuthorityProof(a, a.sig.key) = "ok"
                  \/ a.sig.content.status # a.status
                  \/ "v" \in DOMAIN a.sig
    <2> DEFINE st == a.sig.content.status
    <2>1. /\ Field \subseteq DOMAIN a
          /\ a.sig.content = [CanonicalHash(a) EXCEPT !.status = st]
          /\ MadeBy(a)
      BY <1>1, Zenon DEF AuthoritySigned
    <2>2. a.sig.content.alg = a.alg /\ a.sig.content.keyId = a.keyId
      BY <2>1, Zenon DEF Field, CanonicalHash
    <2>3. ASSUME st = a.status, "v" \notin DOMAIN a.sig
          PROVE  VerifyAuthorityProof(a, a.sig.key) = "ok"
      <3>1. [CanonicalHash(a) EXCEPT !.status = a.status] = CanonicalHash(a)
        BY <2>1, Zenon DEF Field, CanonicalHash
      <3>2. a.sig.content = CanonicalHash(a)
        BY <2>1, <2>3, <3>1, Zenon
      <3>3. PICK s \in Signer : /\ a.alg = AlgorithmForPublicKey(s.key)
                                /\ a.sig = SignatureBy(s, a.sig.content)
        BY <2>1, Zenon DEF MadeBy
      <3>4. a.sig = Signature(s.key, CanonicalHash(a)) /\ a.sig.key = s.key
        BY <2>3, <3>2, <3>3 DEF SignatureBy, Signature
      <3> QED
        BY <3>3, <3>4, SignerAssumption, Zenon DEF VerifyAuthorityProof
    <2> QED
      BY <2>2, <2>3, Zenon
  <1>2. ASSUME NEW a, AttestationSigned(a), a.sig # Nil
        PROVE  VerifySignature(a, a.sig.key) = "ok" \/ "v" \in DOMAIN a.sig
    <2>1. PICK s \in Signer : /\ a.alg = AlgorithmForPublicKey(s.key)
                              /\ a.sig = SignatureBy(s, AttestationHash(a))
      BY <1>2, Zenon DEF AttestationSigned, MadeBy
    <2> QED
      BY <1>2, <2>1, SignerAssumption DEF VerifySignature, SignatureBy, Signature
  <1>3. NoAuthority.sig = Nil
    BY Zenon DEF NoAuthority
  <1>4. Inv => NoMixedProof
    BY <1>1, <1>2, <1>3, Zenon DEF Inv, NoMixedProof
  <1> QED
    BY <1>4, Invariance, PTL

\* delegation.Derive hashes the parent with its proof's algorithm and key ID:
\* the child's reference holds exactly while the parent keeps those and its
\* status, whatever is signed in between.
THEOREM LinkIsIdentity == ObjectSpec => []LinkFollowsIdentity
  <1>1. ASSUME NEW a, Field \subseteq DOMAIN a, NEW id,
               id = [status |-> id.status, alg |-> id.alg, keyId |-> id.keyId]
        PROVE  AtDerive(a, id) = CanonicalHash(a) <=> Identity(a) = id
    <2>1. ASSUME Identity(a) = id PROVE AtDerive(a, id) = CanonicalHash(a)
      <3>1. a.status = id.status /\ a.alg = id.alg /\ a.keyId = id.keyId
        BY <2>1, Zenon DEF Identity
      <3> QED
        BY <1>1, <3>1, Zenon DEF AtDerive, CanonicalHash, Field
    <2>2. ASSUME AtDerive(a, id) = CanonicalHash(a) PROVE Identity(a) = id
      <3>1. /\ AtDerive(a, id).status = id.status
            /\ AtDerive(a, id).alg = id.alg
            /\ AtDerive(a, id).keyId = id.keyId
        BY <1>1, Zenon DEF AtDerive, CanonicalHash, Field
      <3>2. /\ CanonicalHash(a).status = a.status
            /\ CanonicalHash(a).alg = a.alg
            /\ CanonicalHash(a).keyId = a.keyId
        BY <1>1, Zenon DEF CanonicalHash, Field
      <3> QED
        BY <1>1, <2>2, <3>1, <3>2, Zenon DEF Identity
    <2> QED
      BY <2>1, <2>2, Zenon
  <1>2. Inv => LinkFollowsIdentity
    BY <1>1, Zenon DEF Inv, Shape, AuthoritySigned, LinkFollowsIdentity
  <1> QED
    BY <1>2, Invariance, PTL

-----------------------------------------------------------------------------
(* An attestation as an EAT token.                                         *)

\* The fields of an attestation, with their ranges.
IsAttestation(a) ==
    /\ a = [issuer |-> a.issuer, authorityRef |-> a.authorityRef,
            capability |-> a.capability, claim |-> a.claim, evidence |-> a.evidence,
            validity |-> [notBefore |-> a.validity.notBefore,
                          notAfter |-> a.validity.notAfter],
            issuedAt |-> a.issuedAt, keyId |-> a.keyId, keyVersion |-> a.keyVersion,
            alg |-> a.alg, status |-> a.status, sig |-> a.sig]
    /\ a.keyVersion \in 0..(2^WordBits - 1)
    /\ \A t \in {a.issuedAt, a.validity.notBefore, a.validity.notAfter} :
         t.half \in Int /\ t = [half |-> t.half, zone |-> t.zone]

\* The token was made of the attestation, which does not change any more; what
\* happens to it on its way can take its signature away but not replace it.
Sent ==
    /\ IsAttestation(att)
    /\ wire # NoWire => /\ sent.att = att
                        /\ AttestationHashes(att)
                        /\ wire.sig \in {att.sig, Nil}
    /\ received # Nothing => wire # NoWire /\ received = UnmarshalEAT(wire)

\* Signing keeps the fields.
LEMMA SignedFields ==
    ASSUME NEW a, IsAttestation(a), NEW alg, NEW id, NEW sig
    PROVE  /\ IsAttestation([[a EXCEPT !.keyId = id] EXCEPT !.alg = alg, !.sig = sig])
           /\ IsAttestation([a EXCEPT !.alg = alg, !.sig = sig])
           /\ IsAttestation([a EXCEPT !.sig = sig])
  <1> DEFINE rec(i, g, s) ==
               [issuer |-> a.issuer, authorityRef |-> a.authorityRef,
                capability |-> a.capability, claim |-> a.claim, evidence |-> a.evidence,
                validity |-> a.validity, issuedAt |-> a.issuedAt, keyId |-> i,
                keyVersion |-> a.keyVersion, alg |-> g, status |-> a.status, sig |-> s]
  <1>1. /\ a = rec(a.keyId, a.alg, a.sig)
        /\ a.validity = [notBefore |-> a.validity.notBefore, notAfter |-> a.validity.notAfter]
    BY DEF IsAttestation
  <1>2. \A i, g, s : IsAttestation(rec(i, g, s))
    BY <1>1 DEF IsAttestation
  <1>3. /\ [[a EXCEPT !.keyId = id] EXCEPT !.alg = alg, !.sig = sig] = rec(id, alg, sig)
        /\ [a EXCEPT !.alg = alg, !.sig = sig] = rec(a.keyId, alg, sig)
        /\ [a EXCEPT !.sig = sig] = rec(a.keyId, a.alg, sig)
    <2> DEFINE x == [a EXCEPT !.keyId = id]
               y == [x EXCEPT !.alg = alg]
               z == [a EXCEPT !.alg = alg]
    <2>1. x = rec(id, a.alg, a.sig)
      BY <1>1
    <2>2. z = rec(a.keyId, alg, a.sig)
      BY <1>1
    <2>3. [a EXCEPT !.sig = sig] = rec(a.keyId, a.alg, sig)
      BY <1>1
    <2> HIDE DEF x, z
    <2>4. y = rec(id, alg, a.sig)
      BY <2>1
    <2>5. [z EXCEPT !.sig = sig] = rec(a.keyId, alg, sig)
      BY <2>2
    <2> HIDE DEF y
    <2>6. [y EXCEPT !.sig = sig] = rec(id, alg, sig)
      BY <2>4
    <2> HIDE DEF rec
    <2> QED BY <2>3, <2>5, <2>6, Zenon DEF x, y, z
  <1> QED BY <1>2, <1>3

\* The attestation begins as a draft.
LEMMA InitSent == TransportInit => Sent
  BY AttestationAssumption, Zenon DEF TransportInit, Sent, IsAttestation

\* Each step keeps it: nothing is signed once the token exists.
LEMMA StepSent ==
    ASSUME Sent, TransportNext \/ UNCHANGED transportVars
    PROVE  Sent'
  <1>1. ASSUME NEW s \in Signer, NEW id \in SignerID, NEW out \in Outcome,
               wire = NoWire, SignAttestation(s, id, out)
        PROVE  Sent'
    <2> DEFINE alg == AlgorithmForPublicKey(s.key)
               named == IF id = Nil THEN att ELSE [att EXCEPT !.keyId = id]
               begun == [named EXCEPT !.alg = alg, !.sig = Nil]
    <2>1. IsAttestation(att) /\ received = Nothing
      BY <1>1, Zenon DEF Sent
    <2>2. IsAttestation(begun)
      BY <2>1, SignedFields, Zenon
    <2>3. att' \in {att, begun, [begun EXCEPT !.sig = SignatureBy(s, AttestationHash(begun))]}
      BY <1>1, Zenon DEF SignAttestation
    <2>4. wire' = NoWire /\ received' = Nothing
      BY <1>1, <2>1, Zenon DEF SignAttestation
    <2> DEFINE by == SignatureBy(s, AttestationHash(begun))
    <2> HIDE DEF begun, by
    <2>5. IsAttestation(att')
      <3>1. IsAttestation([begun EXCEPT !.sig = by])
        BY <2>2, SignedFields, Zenon
      <3> QED BY <2>1, <2>2, <2>3, <3>1, Zenon DEF by
    <2> QED BY <2>4, <2>5, Zenon DEF Sent, IsAttestation
  <1>2. ASSUME Send PROVE Sent'
    <2>1. /\ att' = att /\ wire' = MarshalEAT(att) /\ sent'.att = att
          /\ received' = Nothing /\ AttestationHashes(att) /\ IsAttestation(att)
      BY <1>2, Zenon DEF Send, Sent
    <2>2. wire'.sig = att.sig
      BY <2>1, Zenon DEF MarshalEAT, marshalCOSESign1
    <2> QED BY <2>1, <2>2, Zenon DEF Sent, IsAttestation, AttestationHashes, Exact
  <1>3. ASSUME AlterWire PROVE Sent'
    <2>1. /\ att' = att /\ sent' = sent /\ received' = Nothing /\ wire # NoWire
          /\ wire = MarshalEAT(sent.att) /\ wire' \in AlteredWires(wire)
      BY <1>3, Zenon DEF AlterWire
    <2>2. IsAttestation(att) /\ sent.att = att /\ AttestationHashes(att) /\ wire.sig \in {att.sig, Nil}
      BY <2>1, Zenon DEF Sent
    <2>3. wire'.sig \in {wire.sig, Nil}
      <3>1. wire = [elements |-> wire.elements, protected |-> wire.protected,
                    claims |-> wire.claims, sig |-> wire.sig]
        BY <2>1, Zenon DEF MarshalEAT, marshalCOSESign1
      <3> QED BY <2>1, <3>1, Zenon DEF AlteredWires
    <2> QED BY <2>1, <2>2, <2>3, Zenon DEF Sent, IsAttestation, AttestationHashes, Exact
  <1>4. ASSUME Receive PROVE Sent'
    BY <1>4, Zenon DEF Receive, Sent, IsAttestation, AttestationHashes, Exact
  <1>5. ASSUME UNCHANGED transportVars PROVE Sent'
    BY <1>5, Zenon DEF transportVars, Sent, IsAttestation, AttestationHashes, Exact
  <1> QED BY <1>1, <1>2, <1>3, <1>4, <1>5, Zenon DEF TransportNext

\* A registered algorithm survives its COSE label; any other is read as none.
LEMMA CoseInverse ==
    ASSUME NEW alg
    PROVE  AlgorithmForCOSE(COSE(alg)) = IF alg \in Algorithm THEN alg ELSE ""
  <1>1. \A a \in Algorithm, b \in Algorithm : CoseLabel[a] = CoseLabel[b] => a = b
    BY DEF Algorithm, CoseLabel
  <1>2. \A a \in Algorithm : CoseLabel[a] # 0
    BY DEF Algorithm, CoseLabel
  <1> QED BY <1>1, <1>2, Zenon DEF AlgorithmForCOSE, COSE

\* An instant survives the token when it is whole seconds in UTC.
LEMMA InstantInverse ==
    ASSUME NEW t, t.half \in Int, t = [half |-> t.half, zone |-> t.zone]
    PROVE  unixClaim(Unix(t)) = t <=> t.half % 2 = 0 /\ t.zone = 0
  <1> DEFINE h == t.half
             z == t.zone
  <1>1. t = [half |-> h, zone |-> z] /\ h \in Int
    OBVIOUS
  <1>2. unixClaim(Unix(t)) = [half |-> 2 * (h \div 2), zone |-> 0]
    BY Zenon DEF unixClaim, Unix
  <1> HIDE DEF h, z
  <1>3. 2 * (h \div 2) = h <=> h % 2 = 0
    BY <1>1
  <1>4. unixClaim(Unix(t)) = t <=> h % 2 = 0 /\ z = 0
    BY <1>1, <1>2, <1>3
  <1> QED BY <1>4, Zenon DEF h, z

\* The remainder of a number just below a multiple of the modulus.
LEMMA WrappedModulo ==
    ASSUME NEW M \in Nat, M > 0, NEW u \in 0..(M - 1)
    PROVE  (u - M) % M = u /\ u % M = u
  <1> DEFINE r == (u - M) % M
             q == (u - M) \div M
             w == u % M
             p == u \div M
  <1>1. r \in Int /\ q \in Int /\ u - M = M * q + r /\ 0 <= r /\ r < M
    OBVIOUS
  <1>2. w \in Int /\ p \in Int /\ u = M * p + w /\ 0 <= w /\ w < M
    OBVIOUS
  <1> HIDE DEF r, q, w, p
  <1>3. ~(q >= 0) /\ ~(q <= -2)
    <2>1. ~(q >= 0)
      BY <1>1
    <2>2. ~(q <= -2)
      BY <1>1
    <2> QED BY <2>1, <2>2, Zenon
  <1>4. ~(p >= 1) /\ ~(p <= -1)
    <2>1. ~(p >= 1)
      BY <1>2
    <2>2. ~(p <= -1)
      BY <1>2
    <2> QED BY <2>1, <2>2, Zenon
  <1>5. q = -1 /\ p = 0
    BY <1>1, <1>2, <1>3, <1>4
  <1>6. r = u /\ w = u
    BY <1>1, <1>2, <1>5
  <1> QED BY <1>6, Zenon DEF r, w

\* A uint64 survives its conversion to int64 and back.
LEMMA VersionInverse ==
    ASSUME NEW k \in 0..(2^WordBits - 1)
    PROVE  ToUnsigned(ToSigned(k)) = k
  <1> DEFINE M == 2^WordBits
             H == 2^(WordBits - 1)
  <1>1. M \in Nat /\ M > 0
    BY AttestationAssumption
  <1>2. ToUnsigned(ToSigned(k)) = (IF k < H THEN k ELSE k - M) % M
    BY Zenon DEF ToUnsigned, ToSigned
  <1>3. k \in 0..(M - 1)
    OBVIOUS
  <1> HIDE DEF M, H
  <1>4. (k - M) % M = k /\ k % M = k
    BY <1>1, <1>3, WrappedModulo, Zenon
  <1> QED BY <1>2, <1>4, Zenon

\* UnmarshalEAT after MarshalEAT, without an error on the way.
ReadBack(a) == [attFromClaims(eatClaims(a)) EXCEPT !.sig = a.sig]

\* The fields it restores, and what it makes of the others.
LEMMA ReadBackFields ==
    ASSUME NEW a, IsAttestation(a)
    PROVE  /\ ReadBack(a).keyVersion = a.keyVersion
           /\ ReadBack(a) =
             [issuer |-> a.issuer, authorityRef |-> a.authorityRef,
              capability |-> a.capability, claim |-> a.claim,
              evidence |-> IF a.evidence = <<>> THEN Nil ELSE a.evidence,
              validity |-> [notBefore |-> unixClaim(Unix(a.validity.notBefore)),
                            notAfter |-> unixClaim(Unix(a.validity.notAfter))],
              issuedAt |-> unixClaim(Unix(a.issuedAt)), keyId |-> a.keyId,
              keyVersion |-> a.keyVersion,
              alg |-> IF a.alg \in Algorithm THEN a.alg ELSE "",
              status |-> statusFromInt64(a.status), sig |-> a.sig]
  <1> DEFINE c == eatClaims(a)
  <1>1. /\ c.iss = a.issuer /\ c.authorityRef = a.authorityRef /\ c.capability = a.capability
        /\ c.claim = a.claim /\ c.evidence = IF a.evidence = Nil THEN <<>> ELSE a.evidence
        /\ c.exp = Unix(a.validity.notAfter) /\ c.nbf = Unix(a.validity.notBefore)
        /\ c.iat = Unix(a.issuedAt) /\ c.keyId = a.keyId
        /\ c.keyVersion = ToSigned(a.keyVersion) /\ c.alg = COSE(a.alg) /\ c.status = a.status
    BY Zenon DEF eatClaims
  <1> HIDE DEF c
  <1>2. ToUnsigned(c.keyVersion) = a.keyVersion
    BY <1>1, VersionInverse, Zenon DEF IsAttestation
  <1>3. AlgorithmForCOSE(c.alg) = IF a.alg \in Algorithm THEN a.alg ELSE ""
    BY <1>1, CoseInverse, Zenon
  <1>4. (IF c.evidence = <<>> THEN Nil ELSE c.evidence)
          = IF a.evidence = <<>> THEN Nil ELSE a.evidence
    BY <1>1, Zenon
  <1> DEFINE b == attFromClaims(c)
  <1>5. b =
          [issuer |-> a.issuer, authorityRef |-> a.authorityRef,
           capability |-> a.capability, claim |-> a.claim,
           evidence |-> IF a.evidence = <<>> THEN Nil ELSE a.evidence,
           validity |-> [notBefore |-> unixClaim(Unix(a.validity.notBefore)),
                         notAfter |-> unixClaim(Unix(a.validity.notAfter))],
           issuedAt |-> unixClaim(Unix(a.issuedAt)), keyId |-> a.keyId,
           keyVersion |-> a.keyVersion,
           alg |-> IF a.alg \in Algorithm THEN a.alg ELSE "",
           status |-> statusFromInt64(a.status), sig |-> Nil]
    BY <1>1, <1>2, <1>3, <1>4, Zenon DEF attFromClaims
  <1>6. ReadBack(a) = [b EXCEPT !.sig = a.sig]
    BY Zenon DEF ReadBack, c
  <1> HIDE DEF b
  <1>7. ReadBack(a).keyVersion = a.keyVersion
    BY <1>5, <1>6, Zenon
  <1> QED BY <1>5, <1>6, <1>7, Zenon

\* The token of a representable attestation restores all of it, and that of
\* another changes something that the hash covers.
LEMMA HashReadBack ==
    ASSUME NEW a, IsAttestation(a)
    PROVE  /\ AttestationHash(ReadBack(a)) = AttestationHash(a) /\ a.issuer # Nil /\ a.alg \in Algorithm
                <=> Representable(a)
           /\ Representable(a) => ReadBack(a) = a
  <1> DEFINE b == ReadBack(a)
             ev == IF a.evidence = <<>> THEN Nil ELSE a.evidence
             nb == unixClaim(Unix(a.validity.notBefore))
             na == unixClaim(Unix(a.validity.notAfter))
             at == unixClaim(Unix(a.issuedAt))
             alg == IF a.alg \in Algorithm THEN a.alg ELSE ""
             st == statusFromInt64(a.status)
  <1>1. b = [issuer |-> a.issuer, authorityRef |-> a.authorityRef,
             capability |-> a.capability, claim |-> a.claim, evidence |-> ev,
             validity |-> [notBefore |-> nb, notAfter |-> na], issuedAt |-> at,
             keyId |-> a.keyId, keyVersion |-> a.keyVersion, alg |-> alg, status |-> st,
             sig |-> a.sig]
    BY ReadBackFields, Zenon
  <1>2. /\ nb = a.validity.notBefore <=> a.validity.notBefore.half % 2 = 0 /\ a.validity.notBefore.zone = 0
        /\ na = a.validity.notAfter <=> a.validity.notAfter.half % 2 = 0 /\ a.validity.notAfter.zone = 0
        /\ at = a.issuedAt <=> a.issuedAt.half % 2 = 0 /\ a.issuedAt.zone = 0
    BY InstantInverse, Zenon DEF IsAttestation
  <1>3. ev = a.evidence <=> a.evidence # <<>>
    BY AttestationAssumption, Zenon
  <1>4. st = a.status <=> a.status \in Status \cup {"unset"}
    BY Zenon DEF statusFromInt64
  <1>5. a.alg \in Algorithm => alg = a.alg
    OBVIOUS
  <1>6. /\ AttestationHash(a) = [issuer |-> a.issuer, authorityRef |-> a.authorityRef,
             capability |-> a.capability, claim |-> a.claim, evidence |-> a.evidence,
             validity |-> [notBefore |-> a.validity.notBefore, notAfter |-> a.validity.notAfter],
             issuedAt |-> a.issuedAt, keyId |-> a.keyId, keyVersion |-> a.keyVersion,
             alg |-> a.alg, status |-> a.status, sig |-> Nil]
    BY DEF AttestationHash, IsAttestation
  <1> HIDE DEF b
  <1>7. AttestationHash(b) = [issuer |-> a.issuer, authorityRef |-> a.authorityRef,
             capability |-> a.capability, claim |-> a.claim, evidence |-> ev,
             validity |-> [notBefore |-> nb, notAfter |-> na], issuedAt |-> at,
             keyId |-> a.keyId, keyVersion |-> a.keyVersion, alg |-> alg, status |-> st,
             sig |-> Nil]
    <2> HIDE DEF ev, nb, na, at, alg, st
    <2> QED BY <1>1 DEF AttestationHash
  <1> DEFINE same == /\ ev = a.evidence /\ nb = a.validity.notBefore /\ na = a.validity.notAfter
                     /\ at = a.issuedAt /\ alg = a.alg /\ st = a.status
  <1>8. AttestationHash(b) = AttestationHash(a) <=> same
    <2> HIDE DEF ev, nb, na, at, alg, st
    <2>1. ASSUME AttestationHash(b) = AttestationHash(a) PROVE same
      <3> DEFINE x == AttestationHash(b)
                 y == AttestationHash(a)
      <3>1. /\ x.evidence = ev /\ x.validity = [notBefore |-> nb, notAfter |-> na]
            /\ x.issuedAt = at /\ x.alg = alg /\ x.status = st
        BY <1>7
      <3>2. /\ y.evidence = a.evidence
            /\ y.validity = [notBefore |-> a.validity.notBefore, notAfter |-> a.validity.notAfter]
            /\ y.issuedAt = a.issuedAt /\ y.alg = a.alg /\ y.status = a.status
        BY <1>6
      <3>3. x = y
        BY <2>1, Zenon
      <3> HIDE DEF x, y
      <3> QED BY <3>1, <3>2, <3>3
    <2>2. ASSUME same PROVE AttestationHash(b) = AttestationHash(a)
      BY <1>6, <1>7, <2>2, Zenon
    <2> QED BY <2>1, <2>2, Zenon
  <1>9. Representable(a) <=> same /\ a.issuer # Nil /\ a.alg \in Algorithm
    <2>1. Representable(a) <=>
            /\ a.issuedAt.half % 2 = 0 /\ a.issuedAt.zone = 0
            /\ a.validity.notBefore.half % 2 = 0 /\ a.validity.notBefore.zone = 0
            /\ a.validity.notAfter.half % 2 = 0 /\ a.validity.notAfter.zone = 0
            /\ a.alg \in Algorithm /\ a.status \in Status \cup {"unset"}
            /\ a.issuer # Nil /\ a.evidence # <<>>
      BY Zenon DEF Representable
    <2> HIDE DEF ev, nb, na, at, alg, st
    <2> QED BY <1>2, <1>3, <1>4, <1>5, <2>1, Zenon
  <1>10. same => b = a
    <2>1. a = [issuer |-> a.issuer, authorityRef |-> a.authorityRef,
               capability |-> a.capability, claim |-> a.claim, evidence |-> a.evidence,
               validity |-> [notBefore |-> a.validity.notBefore, notAfter |-> a.validity.notAfter],
               issuedAt |-> a.issuedAt, keyId |-> a.keyId, keyVersion |-> a.keyVersion,
               alg |-> a.alg, status |-> a.status, sig |-> a.sig]
      BY Zenon DEF IsAttestation
    <2> HIDE DEF ev, nb, na, at, alg, st
    <2> QED BY <1>1, <2>1, Zenon
  <1> HIDE DEF same
  <1> QED BY <1>8, <1>9, <1>10, Zenon DEF b

\* UnmarshalEAT of the token of an attestation.
LEMMA EatRoundTrip ==
    ASSUME NEW a, IsAttestation(a), AttestationHashes(a), NEW r, r = UnmarshalEAT(MarshalEAT(a))
    PROVE  /\ r.err = "ok" <=> Representable(a)
           /\ r.err = "ok" => r.att = a
  <1> DEFINE w == MarshalEAT(a)
             c == eatClaims(a)
             b == ReadBack(a)
  <1>1. /\ w.elements = 4 /\ w.claims = c /\ w.sig = a.sig
        /\ c.iss = a.issuer /\ c.alg = COSE(a.alg) /\ c.cti = AttestationHash(a)
    BY Zenon DEF MarshalEAT, marshalCOSESign1, eatClaims
  <1>2. [attFromClaims(w.claims) EXCEPT !.sig = w.sig] = b
    BY <1>1, Zenon DEF ReadBack
  <1>3. AlgorithmForCOSE(w.claims.alg) = "" <=> a.alg \notin Algorithm
    <2>1. "" \notin Algorithm
      BY Zenon DEF Algorithm, CoseLabel
    <2> QED BY <1>1, <2>1, CoseInverse, Zenon
  <1>4. AttestationHashes(b)
    <2>1. b.keyVersion = a.keyVersion
      BY ReadBackFields, Zenon
    <2> QED BY <2>1, Zenon DEF AttestationHashes
  <1> HIDE DEF w, c, b
  <1>5. r = IF w.claims.iss = Nil THEN [err |-> "ErrInvalidClaims"]
            ELSE IF AlgorithmForCOSE(w.claims.alg) = "" THEN [err |-> "ErrInvalidClaims"]
            ELSE IF w.claims.cti # AttestationHash(b) THEN [err |-> "ErrEATHashMismatch"]
            ELSE [err |-> "ok", att |-> b]
    <2>1. r = UnmarshalEAT(w)
      BY Zenon DEF w
    <2>2. parseCOSESign1(w)
      BY <1>1, Zenon DEF parseCOSESign1
    <2> QED BY <1>2, <1>4, <2>1, <2>2, Zenon DEF UnmarshalEAT
  <1>6. /\ AttestationHash(b) = AttestationHash(a) /\ a.issuer # Nil /\ a.alg \in Algorithm
             <=> Representable(a)
        /\ Representable(a) => b = a
    BY HashReadBack, Zenon DEF b
  <1> DEFINE hb == AttestationHash(b)
             ha == AttestationHash(a)
  <1>7. r = IF a.issuer = Nil \/ a.alg \notin Algorithm THEN [err |-> "ErrInvalidClaims"]
            ELSE IF ha # hb THEN [err |-> "ErrEATHashMismatch"]
            ELSE [err |-> "ok", att |-> b]
    <2>1. w.claims.iss = a.issuer /\ w.claims.cti = ha
      BY <1>1, Zenon
    <2> HIDE DEF ha
    <2> QED BY <1>3, <1>5, <2>1, Zenon
  <1>8. /\ r.err = "ok" <=> a.issuer # Nil /\ a.alg \in Algorithm /\ hb = ha
        /\ r.err = "ok" => r.att = b
    <2> HIDE DEF ha, hb
    <2> QED BY <1>7
  <1> HIDE DEF hb, ha
  <1> QED BY <1>6, <1>7, <1>8, Zenon DEF hb, ha

\* attestation/eat.go: a token that arrives as it was sent is accepted exactly
\* when the attestation is representable, and yields it; from any token, an
\* attestation whose signature verifies is the one that was sent; for every
\* set of drafts and signers and every width of the integers.
THEOREM EatIsFaithful == ObjectSpec => []EatFaithful
  <1>1. ASSUME Inv, Sent, received # Nothing PROVE EatFaithful
    <2>1. /\ wire # NoWire /\ received = UnmarshalEAT(wire) /\ sent.att = att
          /\ AttestationHashes(att) /\ IsAttestation(att) /\ wire.sig \in {att.sig, Nil}
      BY <1>1, Zenon DEF Sent
    <2>2. ASSUME wire = MarshalEAT(sent.att)
          PROVE  /\ received.err = "ok" <=> Representable(sent.att)
                 /\ received.err = "ok" => received.att = sent.att
      BY <2>1, <2>2, EatRoundTrip, Zenon
    <2>3. ASSUME NEW s \in Signer, received.err = "ok", VerifySignature(received.att, s.key) = "ok"
          PROVE  received.att = sent.att
      <3> DEFINE b == attFromClaims(wire.claims)
                 r == received.att
      <3>1. r = [b EXCEPT !.sig = wire.sig]
        BY <2>1, <2>3, Zenon DEF UnmarshalEAT
      <3>2. b = [issuer |-> b.issuer, authorityRef |-> b.authorityRef,
                 capability |-> b.capability, claim |-> b.claim, evidence |-> b.evidence,
                 validity |-> b.validity, issuedAt |-> b.issuedAt, keyId |-> b.keyId,
                 keyVersion |-> b.keyVersion, alg |-> b.alg, status |-> b.status, sig |-> b.sig]
        BY Zenon DEF attFromClaims
      <3> HIDE DEF b
      <3>3. DOMAIN r = DOMAIN att /\ "sig" \in DOMAIN r /\ r.sig = wire.sig
        BY <2>1, <3>1, <3>2, Zenon DEF IsAttestation
      <3> HIDE DEF r
      <3>4. r.sig # Nil /\ r.sig = Signature(s.key, AttestationHash(r))
        BY <2>3, Zenon DEF VerifySignature, r
      <3>5. att.sig = r.sig
        BY <2>1, <3>3, <3>4, Zenon
      <3>6. att.sig.content = AttestationHash(r)
        BY <3>4, <3>5 DEF Signature
      <3>7. att.sig.content = AttestationHash(att)
        BY <1>1, <3>4, <3>5, Zenon DEF Inv, AttestationSigned
      <3>8. r = att
        <4>1. [r EXCEPT !.sig = Nil] = [att EXCEPT !.sig = Nil]
          BY <3>6, <3>7, Zenon DEF AttestationHash
        <4>2. r = [x \in DOMAIN r |-> r[x]] /\ att = [x \in DOMAIN r |-> att[x]]
          BY <2>1, <3>1, <3>2, <3>3, Zenon DEF IsAttestation, r
        <4>3. \A x \in DOMAIN r : x # "sig" => r[x] = [r EXCEPT !.sig = Nil][x]
          BY <4>2, Zenon
        <4>4. \A x \in DOMAIN r : x # "sig" => att[x] = [att EXCEPT !.sig = Nil][x]
          BY <4>2, Zenon
        <4>5. \A x \in DOMAIN r : r[x] = att[x]
          BY <3>5, <4>1, <4>3, <4>4, Zenon
        <4> QED BY <4>2, <4>5, Zenon
      <3> QED BY <2>1, <3>8, Zenon DEF r
    <2> QED BY <2>2, <2>3, Zenon DEF EatFaithful
  <1>2. Inv /\ Sent => EatFaithful
    BY <1>1, Zenon DEF EatFaithful
  <1>3. ASSUME Sent, [ObjectNext]_<<lifecycleVars, transportVars>> PROVE Sent'
    BY <1>3, StepSent, Zenon DEF ObjectNext
  <1> QED BY <1>2, <1>3, Invariance, InitSent, PTL DEF ObjectSpec

-----------------------------------------------------------------------------
(* The key binder.                                                         *)

\* What bindKeyMatches found of an accepted key.
Accepted(b) ==
    LET res == Bind(b.keyID, b.doc) IN
    /\ b.doc \in Document /\ b.key \in PublicKey
    /\ res.err = "ok"
    /\ samePublicKey(res.key, b.key)
    /\ sameKeyAlgorithm(res.key, b.key)

BindingInv ==
    /\ published \in [Subject -> Document]
    /\ binding \in Seq(Lookup)
    /\ \A b \in bound : Accepted(b)

\* Nothing is accepted before the first call.
LEMMA InitBinding == BindingInit => BindingInv
  BY DEF BindingInit, BindingInv

\* Each step keeps the accepted keys, adds one, or starts over.
LEMMA StepBinding == BindingInv /\ [BindingNext]_bindingVars => BindingInv'
  <1> SUFFICES ASSUME BindingInv, [BindingNext]_bindingVars PROVE BindingInv'
    OBVIOUS
  <1> USE DEF BindingInv
  <1>1. ASSUME NEW s \in Subject, NEW d \in Document, Publish(s, d) PROVE BindingInv'
    BY <1>1, Zenon DEF Publish, Accepted
  <1>2. ASSUME NEW leaf \in Lookup, NEW root \in Lookup, checkKeyBinding(leaf, root)
        PROVE  BindingInv'
    BY <1>2 DEF checkKeyBinding
  <1>3. ASSUME bindKeyMatches PROVE BindingInv'
    <2> DEFINE r == Head(binding)
               doc == published[r.subject]
               new == [doc |-> doc, keyID |-> r.keyID, key |-> r.want]
    <2>1. r \in Lookup /\ Tail(binding) \in Seq(Lookup) /\ published' = published
      BY <1>3 DEF bindKeyMatches
    <2>2. doc \in Document /\ r.want \in PublicKey
      BY <2>1, Zenon DEF Lookup
    <2>3. \/ binding' = <<>> /\ bound' = {}
          \/ binding' = Tail(binding) /\ bound' = bound \cup {new} /\ Accepted(new)
      BY <1>3, <2>2, Zenon DEF bindKeyMatches, Accepted
    <2>4. \A b \in bound' : Accepted(b)
      BY <2>3, Zenon
    <2>5. binding' \in Seq(Lookup)
      <3>1. <<>> \in Seq(Lookup)
        OBVIOUS
      <3> QED
        BY <2>1, <2>3, <3>1, Zenon
    <2> HIDE DEF new
    <2> QED
      BY <2>1, <2>4, <2>5, Zenon DEF Accepted
  <1>4. CASE UNCHANGED bindingVars
    BY <1>4, Zenon DEF bindingVars, Accepted
  <1> QED
    BY <1>1, <1>2, <1>3, <1>4, Zenon DEF BindingNext

\* Two supplied keys that match one bound key are one key: the encoding fixes
\* the curve and the material, and the algorithm fixes the RSA scheme.
LEMMA SameKey ==
    ASSUME NEW k, NEW a \in PublicKey, NEW b \in PublicKey,
           samePublicKey(k, a), sameKeyAlgorithm(k, a),
           samePublicKey(k, b), sameKeyAlgorithm(k, b)
    PROVE  a = b
  <1>1. /\ a = [type |-> a.type, param |-> a.param, mat |-> a.mat]
        /\ b = [type |-> b.type, param |-> b.param, mat |-> b.mat]
    BY BindingAssumption, Zenon
  <1>2. a.mat = b.mat
    BY Zenon DEF samePublicKey
  <1>3. AlgorithmForPublicKey(a) = AlgorithmForPublicKey(b) /\ AlgorithmForPublicKey(a) # ""
    BY Zenon DEF sameKeyAlgorithm
  <1>4. a.type = b.type /\ a.param = b.param
    <2> DEFINE rsa == {"pss", "pkcs1"}
    <2>1. CASE a.type \in rsa
      <3>1. b.type \in rsa
        <4>1. SUFFICES ASSUME b.type \notin rsa PROVE FALSE
          OBVIOUS
        <4>2. b.type = "rsa"
          BY <2>1, <4>1, Zenon DEF samePublicKey
        <4> QED
          BY <1>3, <4>2, Zenon DEF AlgorithmForPublicKey
      <3> DEFINE hashes == {"SHA256", "SHA384", "SHA512"}
                 pa == a.param
                 pb == b.param
      <3>2. CASE a.type = "pss" /\ b.type = "pss"
        <4>1. rsaPSSAlgForHash(pa) = rsaPSSAlgForHash(pb) /\ rsaPSSAlgForHash(pa) # ""
          BY <1>3, <3>2, Zenon DEF AlgorithmForPublicKey
        <4> HIDE DEF pa, pb
        <4>2. pa \in hashes /\ pb \in hashes
          BY <4>1, Zenon DEF rsaPSSAlgForHash
        <4>3. pa = pb
          BY <4>1, <4>2, Zenon DEF rsaPSSAlgForHash
        <4> QED
          BY <3>2, <4>3, Zenon DEF pa, pb
      <3>3. CASE a.type = "pkcs1" /\ b.type = "pkcs1"
        <4>1. rsaPKCS1AlgForHash(pa) = rsaPKCS1AlgForHash(pb) /\ rsaPKCS1AlgForHash(pa) # ""
          BY <1>3, <3>3, Zenon DEF AlgorithmForPublicKey
        <4> HIDE DEF pa, pb
        <4>2. pa \in hashes /\ pb \in hashes
          BY <4>1, Zenon DEF rsaPKCS1AlgForHash
        <4>3. pa = pb
          BY <4>1, <4>2, Zenon DEF rsaPKCS1AlgForHash
        <4> QED
          BY <3>3, <4>3, Zenon DEF pa, pb
      <3>4. CASE a.type = "pss" /\ b.type = "pkcs1"
        BY <1>3, <3>4, Zenon DEF AlgorithmForPublicKey, rsaPSSAlgForHash, rsaPKCS1AlgForHash
      <3>5. CASE a.type = "pkcs1" /\ b.type = "pss"
        BY <1>3, <3>5, Zenon DEF AlgorithmForPublicKey, rsaPSSAlgForHash, rsaPKCS1AlgForHash
      <3> QED
        BY <2>1, <3>1, <3>2, <3>3, <3>4, <3>5, Zenon
    <2>2. CASE a.type \notin rsa /\ b.type \in rsa
      <3>1. a.type = "rsa"
        BY <2>2, Zenon DEF samePublicKey
      <3> QED
        BY <1>3, <3>1, Zenon DEF AlgorithmForPublicKey
    <2>3. CASE a.type \notin rsa /\ b.type \notin rsa
      BY <2>3, Zenon DEF samePublicKey
    <2> QED
      BY <2>1, <2>2, <2>3, Zenon
  <1> QED
    BY <1>1, <1>2, <1>4, Zenon

\* A set of exactly one element holds what CHOOSE takes from it.
LEMMA OneMatch ==
    ASSUME NEW S, IsFiniteSet(S), Cardinality(S) = 1
    PROVE  S = {CHOOSE a \in S : TRUE}
  <1>1. PICK x : S = {x}
    BY FS_Singleton, Zenon
  <1> QED
    BY <1>1, Zenon

\* The algorithms the binder tells apart.
Known == {"EdDSA", "ES256K", "ES256", "ES384"} \cup rsaKeyAlgorithms

\* There are finitely many of them, so that a set of them can be counted.
LEMMA KnownFinite == IsFiniteSet(Known)
  <1>1. \A x, y : IsFiniteSet({x, y})
    <2> TAKE x, y
    <2>1. {x, y} = {x} \cup {y}
      OBVIOUS
    <2>2. IsFiniteSet({x})
      BY FS_Singleton, Zenon
    <2>3. IsFiniteSet({x} \cup {y})
      BY <2>2, FS_AddElement, Zenon
    <2> QED
      BY <2>1, <2>3, Zenon
  <1>2. \A S, T : IsFiniteSet(S) /\ IsFiniteSet(T) => IsFiniteSet(S \cup T)
    BY FS_Union, Zenon
  <1>3. IsFiniteSet({"EdDSA", "ES256K"} \cup {"ES256", "ES384"} \cup {"PS256", "PS384"}
                      \cup {"PS512", "RS256"} \cup {"RS384", "RS512"})
    BY <1>1, <1>2, Zenon
  <1>4. Known = {"EdDSA", "ES256K"} \cup {"ES256", "ES384"} \cup {"PS256", "PS384"}
                  \cup {"PS512", "RS256"} \cup {"RS384", "RS512"}
    BY Zenon DEF Known, rsaKeyAlgorithms
  <1> QED
    BY <1>3, <1>4, Zenon

\* A raw key is of the algorithm it was read as.
LEMMA RawKeyAlgorithm ==
    ASSUME NEW alg \in {"EdDSA", "ES256K", "ES256", "ES384"}, NEW mat
    PROVE  AlgorithmForPublicKey(RawKey(alg, mat)) = alg
  BY Zenon DEF RawKey, AlgorithmForPublicKey, ecdsaAlgForCurve

\* What a method encodes.
Encoded(m) ==
    IF m.multibase # NoMultibase THEN candidatesForRawKey(m.multibase)
    ELSE algorithmsForJWK(m.jwk)

\* A method that binds has one algorithm both encoded and declared, and the
\* key is of that algorithm.
LEMMA MethodDecides ==
    ASSUME NEW m, bindMethod(m).err = "ok"
    PROVE  intersectAlgorithms(Encoded(m), declaredAlgorithms(m).algs)
             = {AlgorithmForPublicKey(bindMethod(m).key)}
  <1> DEFINE declared == declaredAlgorithms(m)
             matches == intersectAlgorithms(Encoded(m), declared.algs)
             alg == CHOOSE a \in matches : TRUE
  <1>0. \A e : Err(e).err = e
    BY Zenon DEF Err
  <1>1. declared.err = "ok"
    BY <1>0, Zenon DEF bindMethod
  <1>2. matches \subseteq Encoded(m)
    BY Zenon DEF intersectAlgorithms
  <1>3. CASE m.multibase = NoMultibase
    <2>1. bindMethod(m) = bindJWK(m.jwk, declared.algs) /\ Encoded(m) = algorithmsForJWK(m.jwk)
      BY <1>1, <1>3, Zenon DEF bindMethod, Encoded
    <2>2. Encoded(m) \subseteq Known
      BY <2>1, Zenon DEF algorithmsForJWK, Known
    <2>3. IsFiniteSet(matches)
      BY <1>2, <2>2, KnownFinite, FS_Subset, Zenon
    <2>4. /\ Cardinality(matches) = 1
          /\ AlgorithmForPublicKey(bindMethod(m).key) = alg
      BY <1>0, <2>1 DEF bindJWK
    <2> QED
      BY <2>3, <2>4, OneMatch, Zenon
  <1>4. CASE m.multibase # NoMultibase
    <2>1. /\ bindMethod(m) = selectCandidate(m.multibase, declared.algs)
          /\ Encoded(m) = candidatesForRawKey(m.multibase)
      BY <1>0, <1>1, <1>4, Zenon DEF bindMethod, Encoded
    <2>2. Encoded(m) \subseteq {"EdDSA", "ES256K", "ES256", "ES384"}
      BY <2>1, Zenon DEF candidatesForRawKey
    <2>3. IsFiniteSet(matches)
      BY <1>2, <2>2, KnownFinite, FS_Subset DEF Known
    <2>4. /\ Cardinality(matches) = 1
          /\ bindMethod(m).key = RawKey(alg, m.multibase.mat)
      BY <1>0, <2>1 DEF selectCandidate, Ok
    <2>5. matches = {alg}
      BY <2>3, <2>4, OneMatch, Zenon
    <2>6. AlgorithmForPublicKey(bindMethod(m).key) = alg
      BY <1>2, <2>2, <2>4, <2>5, RawKeyAlgorithm
    <2> QED
      BY <2>5, <2>6, Zenon
  <1> QED
    BY <1>3, <1>4, Zenon

\* A non-empty set of naturals has a least element.
LEMMA LeastIndex ==
    ASSUME NEW S, S \subseteq Nat, S # {}
    PROVE  \E i \in S : \A j \in S : i <= j
  <1>1. PICK i \in S : \A j \in S : ~(<<j, i>> \in OpToRel(<, Nat))
    BY WFMin, NatLessThanWellFounded, Zenon
  <1>2. \A j \in Nat, k \in Nat : j < k => <<j, k>> \in OpToRel(<, Nat)
    BY Zenon DEF OpToRel
  <1>3. \A j \in S : ~(j < i)
    BY <1>1, <1>2, Zenon
  <1> QED
    BY <1>3

\* Bind's answer is that of one matching method.
LEMMA BindIsMethod ==
    ASSUME NEW keyID, NEW doc \in Document, Bind(keyID, doc).err = "ok"
    PROVE  \E i \in 1..Len(doc.methods) :
             /\ methodMatches(doc.methods[i], doc.id, keyID)
             /\ Bind(keyID, doc) = bindMethod(doc.methods[i])
  <1> DEFINE hits == {i \in 1..Len(doc.methods) :
                        /\ methodMatches(doc.methods[i], doc.id, keyID)
                        /\ hasKeyMaterial(doc.methods[i])}
             first == CHOOSE i \in hits : \A j \in hits : i <= j
  <1>1. hits # {} /\ Bind(keyID, doc) = bindMethod(doc.methods[first])
    BY Zenon DEF Bind, Err
  <1>2. hits \subseteq Nat
    BY BindingAssumption
  <1>3. \E i \in hits : \A j \in hits : i <= j
    <2> HIDE DEF hits
    <2> QED
      BY <1>1, <1>2, LeastIndex, Zenon
  <1>4. first \in hits
    <2> HIDE DEF hits
    <2> QED
      BY <1>3, Zenon
  <1> QED
    BY <1>1, <1>4, Zenon

\* verification/binder.go and checks_single.go: whatever documents are
\* published between the lookups of a check, an accepted key is the only one
\* its document gives the identifier, and the only reading of the material
\* that the method permits; for every set of documents, identifiers and keys.
THEOREM KeyIsUnique == BindingSpec => []OneKeyPerID
  <1>1. ASSUME BindingInv, NEW b \in bound, NEW c \in bound, b.doc = c.doc, b.keyID = c.keyID
        PROVE  b.key = c.key
    BY <1>1, SameKey, Zenon DEF BindingInv, Accepted
  <1>2. ASSUME BindingInv, NEW b \in bound
        PROVE  \E i \in 1..Len(b.doc.methods) :
                 LET m == b.doc.methods[i]
                     declared == declaredAlgorithms(m).algs
                     encoded == Encoded(m)
                 IN  /\ methodMatches(m, b.doc.id, b.keyID)
                     /\ {a \in encoded : declared = {} \/ a \in declared}
                          = {AlgorithmForPublicKey(b.key)}
    <2>1. /\ b.doc \in Document /\ Bind(b.keyID, b.doc).err = "ok"
          /\ AlgorithmForPublicKey(b.key) = AlgorithmForPublicKey(Bind(b.keyID, b.doc).key)
      BY <1>2, Zenon DEF BindingInv, Accepted, sameKeyAlgorithm
    <2>2. PICK i \in 1..Len(b.doc.methods) :
            /\ methodMatches(b.doc.methods[i], b.doc.id, b.keyID)
            /\ Bind(b.keyID, b.doc) = bindMethod(b.doc.methods[i])
      BY <2>1, BindIsMethod, Zenon
    <2> DEFINE m == b.doc.methods[i]
               declared == declaredAlgorithms(m).algs
    <2>3. intersectAlgorithms(Encoded(m), declared) = {AlgorithmForPublicKey(b.key)}
      BY <2>1, <2>2, MethodDecides, Zenon
    <2>4. {a \in Encoded(m) : declared = {} \/ a \in declared}
            = intersectAlgorithms(Encoded(m), declared)
      BY Zenon DEF intersectAlgorithms
    <2> QED
      BY <2>2, <2>3, <2>4, Zenon
  <1>3. BindingInv => OneKeyPerID
    BY <1>1, <1>2, Zenon DEF OneKeyPerID, Encoded
  <1> QED
    BY <1>3, InitBinding, StepBinding, PTL DEF BindingSpec

-----------------------------------------------------------------------------
(* Tokens.                                                                 *)

\* What is read from a JWK without a private part.
Reads(m, kty, crv, alg, mat) ==
    /\ m.kty = kty /\ m.crv = crv /\ m.alg = alg /\ m.mat = mat /\ m.good = TRUE
    /\ kty = "OKP" => UnmarshalJWK(m) = unmarshalOKPPublic(m)
    /\ kty = "EC" => UnmarshalJWK(m) = unmarshalECPublic(m)
    /\ kty = "RSA" => UnmarshalJWK(m) = unmarshalRSAPublic(m)
    /\ \A want, type, param :
         alg \in {"", want} =>
             OfCurve(m, want, type, param) = Ok([type |-> type, param |-> param, mat |-> mat])

\* The members decide which of the three functions reads it.
LEMMA ReadJwk ==
    \A kty, crv, alg, mat : alg # "none" => Reads(Jwk(kty, crv, alg, mat), kty, crv, alg, mat)
  <1> TAKE kty, crv, alg, mat
  <1> HAVE alg # "none"
  <1> DEFINE m == Jwk(kty, crv, alg, mat)
  <1>1. /\ m.kty = kty /\ m.crv = crv /\ m.alg = alg /\ m.mat = mat /\ m.good = TRUE /\ m.d = FALSE
    BY Zenon DEF Jwk
  <1> HIDE DEF m
  <1>2. /\ kty = "OKP" => UnmarshalJWK(m) = unmarshalOKPPublic(m)
        /\ kty = "EC" => UnmarshalJWK(m) = unmarshalECPublic(m)
        /\ kty = "RSA" => UnmarshalJWK(m) = unmarshalRSAPublic(m)
    BY <1>1, Zenon DEF UnmarshalJWK
  <1>3. \A want, type, param :
          alg \in {"", want} =>
              OfCurve(m, want, type, param) = Ok([type |-> type, param |-> param, mat |-> mat])
    BY <1>1, Zenon DEF OfCurve
  <1>4. Reads(m, kty, crv, alg, mat)
    BY <1>1, <1>2, <1>3, Zenon DEF Reads
  <1> QED BY <1>4, Zenon DEF m

\* A key is what its JWK says.
LEMMA JwkInverse ==
    ASSUME NEW k \in TokenKey
    PROVE  UnmarshalJWK(MarshalJWK(k)) = Ok(k)
  <1> DEFINE mat == k.mat
             m == MarshalJWK(k)
             key(t, p) == [type |-> t, param |-> p, mat |-> mat]
             hashes == {"SHA256", "SHA384", "SHA512"}
  <1>1. /\ k = key(k.type, k.param)
        /\ \/ k.type \in {"ed25519", "x25519", "secp256k1"} /\ k.param = ""
           \/ k.type = "ecdsa" /\ k.param \in {"P-256", "P-384"}
           \/ k.type \in {"pss", "pkcs1"} /\ k.param \in hashes
    BY TokenAssumption, Zenon
  <1>2. ASSUME k.type = "ed25519", k.param = "" PROVE UnmarshalJWK(m) = Ok(k)
    <2>1. m = Jwk("OKP", "Ed25519", "EdDSA", mat)
      BY <1>2, Zenon DEF MarshalJWK
    <2>2. Reads(m, "OKP", "Ed25519", "EdDSA", mat)
      BY <2>1, ReadJwk, Zenon
    <2> HIDE DEF m, mat
    <2>3. OfCurve(m, "EdDSA", "ed25519", "") = Ok(key("ed25519", ""))
      BY <2>2, Zenon DEF Reads
    <2> QED BY <1>1, <1>2, <2>2, <2>3, Zenon DEF Reads, unmarshalOKPPublic
  <1>3. ASSUME k.type = "x25519", k.param = "" PROVE UnmarshalJWK(m) = Ok(k)
    <2>1. m = Jwk("OKP", "X25519", "", mat)
      BY <1>3, Zenon DEF MarshalJWK
    <2>2. Reads(m, "OKP", "X25519", "", mat)
      BY <2>1, ReadJwk, Zenon
    <2> HIDE DEF m, mat
    <2>3. OfCurve(m, "ECDH-ES", "x25519", "") = Ok(key("x25519", ""))
      BY <2>2, Zenon DEF Reads
    <2> QED BY <1>1, <1>3, <2>2, <2>3, Zenon DEF Reads, unmarshalOKPPublic
  <1>4. ASSUME k.type = "secp256k1", k.param = "" PROVE UnmarshalJWK(m) = Ok(k)
    <2>1. m = Jwk("EC", "secp256k1", "ES256K", mat)
      BY <1>4, Zenon DEF MarshalJWK, AlgorithmForPublicKey
    <2>2. Reads(m, "EC", "secp256k1", "ES256K", mat)
      BY <2>1, ReadJwk, Zenon
    <2> HIDE DEF m, mat
    <2>3. OfCurve(m, "ES256K", "secp256k1", "") = Ok(key("secp256k1", ""))
      BY <2>2, Zenon DEF Reads
    <2> QED BY <1>1, <1>4, <2>2, <2>3, Zenon DEF Reads, unmarshalECPublic
  <1>5. ASSUME k.type = "ecdsa", k.param = "P-256" PROVE UnmarshalJWK(m) = Ok(k)
    <2>1. m = Jwk("EC", "P-256", "ES256", mat)
      BY <1>5, Zenon DEF MarshalJWK, AlgorithmForPublicKey, ecdsaAlgForCurve
    <2>2. Reads(m, "EC", "P-256", "ES256", mat)
      BY <2>1, ReadJwk, Zenon
    <2> HIDE DEF m, mat
    <2>3. OfCurve(m, "ES256", "ecdsa", "P-256") = Ok(key("ecdsa", "P-256"))
      BY <2>2 DEF Reads
    <2> QED BY <1>1, <1>5, <2>2, <2>3, Zenon DEF Reads, unmarshalECPublic
  <1>6. ASSUME k.type = "ecdsa", k.param = "P-384" PROVE UnmarshalJWK(m) = Ok(k)
    <2>1. m = Jwk("EC", "P-384", "ES384", mat)
      BY <1>6, Zenon DEF MarshalJWK, AlgorithmForPublicKey, ecdsaAlgForCurve
    <2>2. Reads(m, "EC", "P-384", "ES384", mat)
      BY <2>1, ReadJwk, Zenon
    <2> HIDE DEF m, mat
    <2>3. OfCurve(m, "ES384", "ecdsa", "P-384") = Ok(key("ecdsa", "P-384"))
      BY <2>2 DEF Reads
    <2> QED BY <1>1, <1>6, <2>2, <2>3, Zenon DEF Reads, unmarshalECPublic
  <1>7. ASSUME k.type \in {"pss", "pkcs1"}, k.param \in hashes PROVE UnmarshalJWK(m) = Ok(k)
    <2> DEFINE alg == AlgorithmForPublicKey(k)
               rsa == {"pss", "pkcs1"} \X hashes
               name(p) == AlgorithmForPublicKey([type |-> p[1], param |-> p[2], mat |-> ""])
    <2>1. m = Jwk("RSA", "", alg, mat)
      BY <1>7, Zenon DEF MarshalJWK
    <2>2. \A x : \A h \in hashes :
             /\ AlgorithmForPublicKey([type |-> "pss", param |-> h, mat |-> x]) = rsaPSSAlgForHash(h)
             /\ AlgorithmForPublicKey([type |-> "pkcs1", param |-> h, mat |-> x]) = rsaPKCS1AlgForHash(h)
      BY Zenon DEF AlgorithmForPublicKey
    <2>3. /\ rsaPSSAlgForHash("SHA256") = "PS256" /\ rsaPSSAlgForHash("SHA384") = "PS384"
          /\ rsaPSSAlgForHash("SHA512") = "PS512" /\ rsaPKCS1AlgForHash("SHA256") = "RS256"
          /\ rsaPKCS1AlgForHash("SHA384") = "RS384" /\ rsaPKCS1AlgForHash("SHA512") = "RS512"
      BY Zenon DEF rsaPSSAlgForHash, rsaPKCS1AlgForHash
    <2>4. alg = name(<<k.type, k.param>>)
      BY <1>1, <1>7, <2>2, Zenon
    <2>5. \A p \in rsa, q \in rsa : name(p) = name(q) => p = q
      <3>1. \A p \in rsa : p = <<p[1], p[2]>> /\ p[1] \in {"pss", "pkcs1"} /\ p[2] \in hashes
        OBVIOUS
      <3>2. \A h \in hashes : name(<<"pss", h>>) = rsaPSSAlgForHash(h) /\ name(<<"pkcs1", h>>) = rsaPKCS1AlgForHash(h)
        BY <2>2, Zenon
      <3>3. \A h \in hashes, g \in hashes :
              /\ rsaPSSAlgForHash(h) = rsaPSSAlgForHash(g) => h = g
              /\ rsaPKCS1AlgForHash(h) = rsaPKCS1AlgForHash(g) => h = g
              /\ rsaPSSAlgForHash(h) # rsaPKCS1AlgForHash(g)
        BY <2>3, Zenon
      <3> SUFFICES ASSUME NEW p \in rsa, NEW q \in rsa, name(p) = name(q) PROVE p = q
        OBVIOUS
      <3>4. /\ p = <<p[1], p[2]>> /\ p[1] \in {"pss", "pkcs1"} /\ p[2] \in hashes
            /\ q = <<q[1], q[2]>> /\ q[1] \in {"pss", "pkcs1"} /\ q[2] \in hashes
        BY <3>1, Zenon
      <3> DEFINE by(x) == IF x[1] = "pss" THEN rsaPSSAlgForHash(x[2]) ELSE rsaPKCS1AlgForHash(x[2])
      <3> HIDE DEF rsa, name, hashes
      <3>5. name(p) = by(p) /\ name(q) = by(q)
        BY <3>2, <3>4, Zenon
      <3>6. p[1] = q[1] /\ p[2] = q[2]
        BY <3>3, <3>4, <3>5, Zenon
      <3> QED BY <3>4, <3>6, Zenon
    <2>6. alg \in rsaKeyAlgorithms
      BY <1>1, <1>7, <2>2, <2>3, Zenon DEF rsaKeyAlgorithms
    <2>7. <<k.type, k.param>> \in rsa
      BY <1>7, Zenon
    <2>8. rsaAlgParams(alg) = <<k.type, k.param>>
      <3> HIDE DEF alg
      <3>1. rsaAlgParams(alg) = CHOOSE p \in rsa : name(p) = alg
        BY Zenon DEF rsaAlgParams
      <3> HIDE DEF name, rsa
      <3> QED BY <2>4, <2>5, <2>7, <3>1, Zenon
    <2>9. alg # "" /\ alg # "none"
      BY <2>6, Zenon DEF rsaKeyAlgorithms
    <2> HIDE DEF alg, m, mat
    <2>10. /\ UnmarshalJWK(m) = unmarshalRSAPublic(m)
           /\ m.alg = alg /\ m.mat = mat /\ m.good = TRUE
      <3>1. Reads(m, "RSA", "", alg, mat)
        BY <2>1, <2>9, ReadJwk, Zenon
      <3> QED BY <3>1, Zenon DEF Reads
    <2> DEFINE p == rsaAlgParams(alg)
    <2>11. p[1] = k.type /\ p[2] = k.param
      BY <2>8
    <2> HIDE DEF p
    <2>12. unmarshalRSAPublic(m) = Ok(key(p[1], p[2]))
      BY <2>6, <2>9, <2>10, Zenon DEF unmarshalRSAPublic, p
    <2> QED BY <1>1, <2>10, <2>11, <2>12, Zenon
  <1> HIDE DEF m, mat
  <1> QED BY <1>1, <1>2, <1>3, <1>4, <1>5, <1>6, <1>7, Zenon DEF m

\* The strings of an array that holds nothing else.
LEMMA AllStrings ==
    ASSUME NEW v, NEW n \in Nat, DOMAIN v = 1..n, \A i \in 1..n : v[i][1] = "str"
    PROVE  Strings(v) = [i \in 1..n |-> v[i][2]]
  <1> DEFINE at == {i \in DOMAIN v : v[i][1] = "str"}
             nth(k) == CHOOSE i \in at : Cardinality({j \in at : j <= i}) = k
  <1>1. at = 1..n
    OBVIOUS
  <1>2. Cardinality(at) = n
    <2>1. Cardinality(1..n) = n
      BY FS_Interval
    <2> QED BY <1>1, <2>1, Zenon
  <1>3. \A i \in 1..n : Cardinality({j \in at : j <= i}) = i
    <2> TAKE i \in 1..n
    <2>1. {j \in at : j <= i} = 1..i
      BY <1>1
    <2>2. Cardinality(1..i) = i
      BY FS_Interval
    <2> QED BY <2>1, <2>2, Zenon
  <1>4. \A k \in 1..n : nth(k) = k
    <2> DEFINE upto(i) == Cardinality({j \in at : j <= i})
    <2>1. \A i \in at : upto(i) = i
      BY <1>1, <1>3, Zenon
    <2>2. \A k \in 1..n : nth(k) = CHOOSE i \in at : upto(i) = k
      OBVIOUS
    <2> HIDE DEF upto, nth, at
    <2> QED BY <1>1, <2>1, <2>2, Zenon
  <1>5. Strings(v) = [k \in 1..Cardinality(at) |-> v[nth(k)][2]]
    BY Zenon DEF Strings
  <1> HIDE DEF at, nth
  <1> QED BY <1>2, <1>4, <1>5, Zenon

\* The claims the verifiers look at, and the form of a JSON value.
Registered == {"iss", "aud", "exp", "nbf", "iat"}

IsValue(v) ==
    /\ v[1] = "str" => v = <<"str", v[2]>>
    /\ v[1] = "num" => v[2] \in Int
    /\ v[1] = "arr" => Len(v[2]) \in Nat /\ DOMAIN v[2] = 1..Len(v[2])

IsPayload(p) ==
    /\ p.kind \in {"object", "null", "other"}
    /\ p.kind = "object" => \A n \in Registered : IsValue(Member(p, n))

\* What an issuer's payload holds.
LEMMA ForeignIsPayload ==
    ASSUME NEW p \in ForeignPayload
    PROVE  IsPayload(p)
  <1>1. \A n \in DOMAIN p.members : IsValue(p.members[n])
    BY TokenAssumption, Zenon DEF IsValue
  <1>2. IsValue(<<"absent">>)
    BY Zenon DEF IsValue
  <1>3. \A n : IsValue(Member(p, n))
    BY <1>1, <1>2, Zenon DEF Member
  <1> QED BY <1>3, TokenAssumption, Zenon DEF IsPayload

\* The claims an issuer signs.
IsClaims(c) ==
    /\ c = [iss |-> c.iss, aud |-> c.aud, exp |-> c.exp, nbf |-> c.nbf, iat |-> c.iat,
            extra |-> [n \in DOMAIN c.extra |-> c.extra[n]]]
    /\ c.exp \in Int /\ c.nbf \in Int /\ c.iat \in Int
    /\ Len(c.aud) \in Nat /\ c.aud = [i \in 1..Len(c.aud) |-> c.aud[i]]
    /\ ValidateClaims(c)

\* A whole number of seconds survives.
LEMMA WholeSeconds == \A n \in Int : ToInt64(2 * n) = n
  BY DEF ToInt64

\* MarshalJSON writes a registered claim when it is not zero.
LEMMA MemberWritten ==
    ASSUME NEW c, IsClaims(c), NEW n \in Registered
    PROVE  Member(MarshalClaims(c), n) = IF Has(c, n) THEN ClaimValue(c, n) ELSE <<"absent">>
  <1> DEFINE names == {x \in Registered : Has(c, x)}
             mem == [x \in names \cup DOMAIN c.extra |->
                       IF x \in DOMAIN c.extra THEN c.extra[x] ELSE ClaimValue(c, x)]
  <1>1. MarshalClaims(c).members = mem
    BY Zenon DEF MarshalClaims, Object, Registered
  <1>2. n \notin DOMAIN c.extra
    BY Zenon DEF IsClaims, ValidateClaims, reservedClaims, Registered
  <1>3. DOMAIN mem = names \cup DOMAIN c.extra
    OBVIOUS
  <1>4. n \in names => mem[n] = ClaimValue(c, n)
    BY <1>2, Zenon
  <1>5. n \in names <=> Has(c, n)
    OBVIOUS
  <1> HIDE DEF mem, names
  <1> QED BY <1>1, <1>2, <1>3, <1>4, <1>5, Zenon DEF Member

\* An audience is written as a string or as an array of strings, and is read
\* back as it was.
LEMMA AudienceInverse ==
    ASSUME NEW c, IsClaims(c), NEW v, v = Member(MarshalClaims(c), "aud")
    PROVE  /\ AsAudience(v) = c.aud
           /\ IsValue(v)
           /\ v[1] = "arr" => \A i \in DOMAIN v[2] : v[2][i][1] = "str"
  <1> DEFINE a == c.aud
             n == Len(c.aud)
             w == [i \in 1..n |-> <<"str", a[i]>>]
  <1>1. n \in Nat /\ a = [i \in 1..n |-> a[i]] /\ DOMAIN a = 1..n
    BY Zenon DEF IsClaims
  <1>2. v = IF a # <<>> THEN ClaimValue(c, "aud") ELSE <<"absent">>
    BY MemberWritten, Zenon DEF Registered, Has
  <1>3. ClaimValue(c, "aud") = IF n = 1 THEN <<"str", a[1]>> ELSE <<"arr", w>>
    BY <1>1, Zenon DEF ClaimValue
  <1> HIDE DEF a, n
  <1>4. CASE a = <<>>
    <2>1. v[1] = "absent"
      BY <1>2, <1>4
    <2> QED BY <1>4, <2>1, Zenon DEF AsAudience, IsValue, a
  <1>5. CASE a # <<>> /\ n = 1
    <2>1. v = <<"str", a[1]>>
      BY <1>2, <1>3, <1>5, Zenon
    <2>2. v[1] = "str" /\ v[2] = a[1]
      BY <2>1
    <2>3. <<a[1]>> = a
      BY <1>1, <1>5
    <2> QED BY <2>1, <2>2, <2>3, Zenon DEF AsAudience, IsValue, a
  <1>6. CASE a # <<>> /\ n # 1
    <2>1. v = <<"arr", w>>
      BY <1>2, <1>3, <1>6, Zenon
    <2>2. v[1] = "arr" /\ v[2] = w
      <3> HIDE DEF w
      <3> QED BY <2>1
    <2>3. DOMAIN w = 1..n /\ \A i \in 1..n : w[i][1] = "str" /\ w[i][2] = a[i]
      OBVIOUS
    <2>4. w \in Seq({<<"str", a[i]>> : i \in 1..n}) /\ Len(w) = n
      BY <1>1
    <2> HIDE DEF w
    <2>5. Strings(w) = [i \in 1..n |-> w[i][2]]
      BY <1>1, <2>3, AllStrings, Zenon
    <2>6. Strings(w) = a
      BY <1>1, <2>3, <2>5, Zenon
    <2>7. AsAudience(v) = c.aud
      BY <2>2, <2>6, Zenon DEF AsAudience, a
    <2>8. IsValue(v)
      BY <1>1, <2>2, <2>3, <2>4, Zenon DEF IsValue
    <2> QED BY <2>2, <2>3, <2>7, <2>8, Zenon
  <1> QED BY <1>4, <1>5, <1>6, Zenon

\* A time is written as a number, unless it is zero, and is read back.
LEMMA TimeInverse ==
    ASSUME NEW c, IsClaims(c), NEW n \in {"exp", "nbf", "iat"}, NEW v, v = Member(MarshalClaims(c), n)
    PROVE  /\ AsTime(v) = c[n]
           /\ IsValue(v)
           /\ v[1] = IF c[n] = 0 THEN "absent" ELSE "num"
           /\ v[1] = "num" => ToInt64(v[2]) # 0
  <1>1. c[n] \in Int
    BY Zenon DEF IsClaims
  <1>2. v = IF c[n] # 0 THEN <<"num", 2 * c[n]>> ELSE <<"absent">>
    BY MemberWritten, Zenon DEF Registered, Has, ClaimValue
  <1> DEFINE x == c[n]
  <1> HIDE DEF x
  <1>3. x \in Int /\ v = IF x # 0 THEN <<"num", 2 * x>> ELSE <<"absent">>
    BY <1>1, <1>2, Zenon DEF x
  <1>4. /\ x # 0 => v[1] = "num" /\ v[2] = 2 * x
        /\ x = 0 => v[1] = "absent"
    BY <1>3
  <1>5. ToInt64(2 * x) = x
    BY <1>3, WholeSeconds, Zenon
  <1> QED BY <1>3, <1>4, <1>5 DEF AsTime, IsValue, x

\* What claims.Sign writes is read back as it was, and in one way only.
LEMMA ClaimsInverse ==
    ASSUME NEW c, IsClaims(c), NEW p, p = MarshalClaims(c)
    PROVE  /\ p.kind = "object" /\ IsPayload(p) /\ ~ReadDifferently(p)
           /\ UnmarshalClaims(p) = c
  <1>1. p.kind = "object"
    BY Zenon DEF MarshalClaims, Object
  <1>2. \A n \in {"exp", "nbf", "iat"} :
          /\ AsTime(Member(p, n)) = c[n] /\ IsValue(Member(p, n))
          /\ Member(p, n)[1] \in {"absent", "num"}
          /\ Member(p, n)[1] = "num" => ToInt64(Member(p, n)[2]) # 0
    BY TimeInverse, Zenon
  <1>3. /\ AsAudience(Member(p, "aud")) = c.aud
        /\ IsValue(Member(p, "aud"))
        /\ Member(p, "aud")[1] = "arr" => \A i \in DOMAIN Member(p, "aud")[2] : Member(p, "aud")[2][i][1] = "str"
    BY AudienceInverse, Zenon
  <1>4. AsString(Member(p, "iss")) = c.iss /\ IsValue(Member(p, "iss"))
    <2> DEFINE v == Member(p, "iss")
    <2>1. v = IF c.iss # "" THEN <<"str", c.iss>> ELSE <<"absent">>
      BY MemberWritten, Zenon DEF Registered, Has, ClaimValue
    <2> HIDE DEF v
    <2>2. /\ c.iss # "" => v = <<"str", c.iss>> /\ v[1] = "str" /\ v[2] = c.iss
          /\ c.iss = "" => v[1] = "absent"
      BY <2>1, Zenon
    <2>3. AsString(v) = c.iss /\ IsValue(v)
      BY <2>2, Zenon DEF AsString, IsValue
    <2> QED BY <2>3, Zenon DEF v
  <1>5. IsPayload(p)
    BY <1>1, <1>2, <1>3, <1>4, Zenon DEF IsPayload, Registered
  <1>6. ~ReadDifferently(p)
    BY <1>1, <1>2, <1>3, Zenon DEF ReadDifferently
  <1>7. [n \in DOMAIN p.members \ reservedClaims |-> p.members[n]] = [n \in DOMAIN c.extra |-> c.extra[n]]
    <2> DEFINE names == {x \in {"iss", "aud", "exp", "nbf", "iat"} : Has(c, x)}
               mem == [x \in names \cup DOMAIN c.extra |->
                         IF x \in DOMAIN c.extra THEN c.extra[x] ELSE ClaimValue(c, x)]
    <2>1. p.members = mem
      BY Zenon DEF MarshalClaims, Object
    <2>2. names \subseteq reservedClaims /\ DOMAIN c.extra \cap reservedClaims = {}
      BY Zenon DEF IsClaims, ValidateClaims, reservedClaims
    <2>3. DOMAIN mem = names \cup DOMAIN c.extra /\ \A x \in DOMAIN c.extra : mem[x] = c.extra[x]
      OBVIOUS
    <2> HIDE DEF mem, names
    <2>4. DOMAIN mem \ reservedClaims = DOMAIN c.extra
      BY <2>2, <2>3, Zenon
    <2> QED BY <2>1, <2>3, <2>4, Zenon
  <1>8. UnmarshalClaims(p) = [iss |-> c.iss, aud |-> c.aud, exp |-> c.exp, nbf |-> c.nbf, iat |-> c.iat,
                              extra |-> [n \in DOMAIN c.extra |-> c.extra[n]]]
    <2>1. AsTime(Member(p, "exp")) = c.exp /\ AsTime(Member(p, "nbf")) = c.nbf /\ AsTime(Member(p, "iat")) = c.iat
      BY <1>2, Zenon
    <2> QED BY <1>3, <1>4, <1>7, <2>1, Zenon DEF UnmarshalClaims
  <1> QED BY <1>1, <1>5, <1>6, <1>8, Zenon DEF IsClaims

\* What claims.Verify asks of the claims, without a list of required ones.
ClaimsHold(c, opts, now) ==
    /\ TimeValid(c, now)
    /\ opts.iss = "" \/ c.iss = opts.iss
    /\ opts.aud = {} \/ \E i \in DOMAIN c.aud : c.aud[i] \in opts.aud

\* The two verifiers read a time, an issuer and an audience alike.
LEMMA SameTime ==
    ASSUME NEW v, IsValue(v), v[1] \in {"absent", "num"}, NEW now \in Nat
    PROVE  /\ AsTime(v) \in Int
           /\ (v[1] # "absent" => now >= ToInt64(v[2])) <=> AsTime(v) = 0 \/ now >= AsTime(v)
           /\ ~(v[1] = "num" /\ ToInt64(v[2]) = 0) =>
                ((v[1] # "absent" => now < ToInt64(v[2])) <=> AsTime(v) = 0 \/ now < AsTime(v))
  <1> DEFINE t == ToInt64(v[2])
  <1>1. v[1] = "num" => t \in Int
    BY DEF IsValue, ToInt64
  <1>2. AsTime(v) = IF v[1] = "num" THEN t ELSE 0
    BY Zenon DEF AsTime
  <1> HIDE DEF t
  <1>3. AsTime(v) \in Int
    BY <1>1, <1>2
  <1>4. (v[1] # "absent" => now >= t) <=> AsTime(v) = 0 \/ now >= AsTime(v)
    BY <1>1, <1>2
  <1>5. ~(v[1] = "num" /\ t = 0) => ((v[1] # "absent" => now < t) <=> AsTime(v) = 0 \/ now < AsTime(v))
    BY <1>1, <1>2, Zenon
  <1> QED BY <1>3, <1>4, <1>5, Zenon DEF t

\* An issuer that is not empty.
LEMMA SameIssuer ==
    ASSUME NEW v, IsValue(v), NEW iss, iss # ""
    PROVE  v = <<"str", iss>> <=> AsString(v) = iss
  <1>1. ASSUME v = <<"str", iss>> PROVE AsString(v) = iss
    <2>1. v[1] = "str" /\ v[2] = iss
      BY <1>1, Zenon
    <2> QED BY <2>1, Zenon DEF AsString
  <1>2. ASSUME AsString(v) = iss PROVE v = <<"str", iss>>
    <2>1. v[1] = "str" /\ v[2] = iss
      BY <1>2, Zenon DEF AsString
    <2> QED BY <2>1, Zenon DEF IsValue
  <1> QED BY <1>1, <1>2, Zenon

\* An audience is one string or an array of strings.
LEMMA SameAudience ==
    ASSUME NEW v, IsValue(v), NEW aud,
           v[1] = "arr" => \A i \in DOMAIN v[2] : v[2][i][1] = "str"
    PROVE  jwsAudienceContains(v, aud) <=> \E i \in DOMAIN AsAudience(v) : AsAudience(v)[i] \in aud
  <1>1. ASSUME v[1] = "arr"
        PROVE  jwsAudienceContains(v, aud) <=> \E i \in DOMAIN AsAudience(v) : AsAudience(v)[i] \in aud
    <2> DEFINE w == v[2]
               n == Len(w)
    <2>1. n \in Nat /\ DOMAIN w = 1..n
      BY <1>1, Zenon DEF IsValue
    <2>2. AsAudience(v) = Strings(w)
      BY <1>1, Zenon DEF AsAudience
    <2>3. jwsAudienceContains(v, aud) <=> \E i \in DOMAIN w : w[i][2] \in aud
      BY <1>1, Zenon DEF jwsAudienceContains
    <2>4. \A i \in DOMAIN w : w[i][1] = "str"
      BY <1>1, Zenon
    <2> HIDE DEF n, w
    <2>5. Strings(w) = [i \in 1..n |-> w[i][2]]
      BY <2>1, <2>4, AllStrings
    <2> QED BY <2>1, <2>2, <2>3, <2>5
  <1>2. ASSUME v[1] = "str"
        PROVE  jwsAudienceContains(v, aud) <=> \E i \in DOMAIN AsAudience(v) : AsAudience(v)[i] \in aud
    <2>1. AsAudience(v) = <<v[2]>>
      BY <1>2, Zenon DEF AsAudience
    <2>2. jwsAudienceContains(v, aud) <=> v[2] \in aud
      BY <1>2, Zenon DEF jwsAudienceContains
    <2> DEFINE a == AsAudience(v)
               x == v[2]
    <2>3. a = <<x>> /\ (jwsAudienceContains(v, aud) <=> x \in aud)
      BY <2>1, <2>2, Zenon
    <2> HIDE DEF a, x
    <2>4. DOMAIN a = {1} /\ a[1] = x
      <3>1. a \in Seq({x}) /\ Len(a) = 1 /\ a[1] = x
        BY <2>3
      <3>2. DOMAIN a = 1..Len(a)
        BY <3>1
      <3> QED BY <3>1, <3>2
    <2>5. (\E i \in DOMAIN a : a[i] \in aud) <=> x \in aud
      BY <2>4, Zenon
    <2> QED BY <2>3, <2>5, Zenon DEF a
  <1>3. ASSUME v[1] \notin {"str", "arr"}
        PROVE  jwsAudienceContains(v, aud) <=> \E i \in DOMAIN AsAudience(v) : AsAudience(v)[i] \in aud
    <2>1. AsAudience(v) = <<>> /\ ~jwsAudienceContains(v, aud)
      BY <1>3, Zenon DEF AsAudience, jwsAudienceContains
    <2> DEFINE a == AsAudience(v)
    <2>2. a = <<>>
      BY <2>1, Zenon
    <2> HIDE DEF a
    <2>3. DOMAIN a = {}
      <3>1. a \in Seq({}) /\ Len(a) = 0
        BY <2>2
      <3>2. DOMAIN a = 1..Len(a)
        BY <3>1
      <3> QED BY <3>1, <3>2
    <2> QED BY <2>1, <2>3, Zenon DEF a
  <1> QED BY <1>1, <1>2, <1>3, Zenon

\* On an object that is not read differently checkClaims asks what claims.Verify
\* asks.
LEMMA SameRead ==
    ASSUME NEW p, IsPayload(p), p.kind = "object", ~ReadDifferently(p), NEW opts, NEW now \in Nat
    PROVE  checkClaims(p, opts, now) <=> ClaimsHold(UnmarshalClaims(p), opts, now)
  <1> DEFINE c == UnmarshalClaims(p)
             a == Member(p, "aud")
             inTime == \A n \in {x \in {"exp", "nbf", "iat"} : Member(p, x)[1] # "absent"} :
                          /\ Member(p, n)[1] = "num"
                          /\ IF n = "exp" THEN now < ToInt64(Member(p, n)[2]) ELSE now >= ToInt64(Member(p, n)[2])
             fromIssuer == opts.iss = "" \/ Member(p, "iss") = <<"str", opts.iss>>
             forAudience == opts.aud = {} \/ jwsAudienceContains(a, opts.aud)
  <1>1. \A n \in Registered : IsValue(Member(p, n))
    BY Zenon DEF IsPayload
  <1>2. /\ \A n \in {"exp", "nbf", "iat"} : Member(p, n)[1] \in {"absent", "num"}
        /\ ~(Member(p, "exp")[1] = "num" /\ ToInt64(Member(p, "exp")[2]) = 0)
        /\ a[1] = "arr" => \A i \in DOMAIN a[2] : a[2][i][1] = "str"
    BY Zenon DEF ReadDifferently
  <1>3. inTime <=> TimeValid(c, now)
    <2> DEFINE e == Member(p, "exp")
               b == Member(p, "nbf")
               i == Member(p, "iat")
    <2>1. c.exp = AsTime(e) /\ c.nbf = AsTime(b) /\ c.iat = AsTime(i)
      BY Zenon DEF UnmarshalClaims
    <2>2. TimeValid(c, now) <=> /\ AsTime(e) = 0 \/ now < AsTime(e)
                                /\ AsTime(b) = 0 \/ now >= AsTime(b)
                                /\ AsTime(i) = 0 \/ now >= AsTime(i)
      <3> HIDE DEF c, e, b, i
      <3> QED BY <2>1, Zenon DEF TimeValid
    <2>3. inTime <=> /\ e[1] # "absent" => now < ToInt64(e[2])
                     /\ b[1] # "absent" => now >= ToInt64(b[2])
                     /\ i[1] # "absent" => now >= ToInt64(i[2])
      BY <1>2, Zenon
    <2>4. IsValue(e) /\ IsValue(b) /\ IsValue(i)
      BY <1>1, Zenon DEF Registered
    <2>5. /\ e[1] \in {"absent", "num"} /\ b[1] \in {"absent", "num"} /\ i[1] \in {"absent", "num"}
          /\ ~(e[1] = "num" /\ ToInt64(e[2]) = 0)
      BY <1>2, Zenon
    <2> HIDE DEF c, e, b, i, inTime
    <2>6. (e[1] # "absent" => now < ToInt64(e[2])) <=> AsTime(e) = 0 \/ now < AsTime(e)
      BY <2>4, <2>5, SameTime, Zenon
    <2>7. (b[1] # "absent" => now >= ToInt64(b[2])) <=> AsTime(b) = 0 \/ now >= AsTime(b)
      BY <2>4, <2>5, SameTime, Zenon
    <2>8. (i[1] # "absent" => now >= ToInt64(i[2])) <=> AsTime(i) = 0 \/ now >= AsTime(i)
      BY <2>4, <2>5, SameTime, Zenon
    <2> QED BY <2>2, <2>3, <2>6, <2>7, <2>8, Zenon
  <1>4. fromIssuer <=> opts.iss = "" \/ c.iss = opts.iss
    <2> DEFINE v == Member(p, "iss")
    <2>1. c.iss = AsString(v)
      BY Zenon DEF UnmarshalClaims
    <2>2. IsValue(v)
      BY <1>1, Zenon DEF Registered
    <2>3. opts.iss # "" => (v = <<"str", opts.iss>> <=> AsString(v) = opts.iss)
      <3> HIDE DEF v
      <3> QED BY <2>2, SameIssuer, Zenon
    <2> HIDE DEF c
    <2> QED BY <2>1, <2>3, Zenon
  <1>5. forAudience <=> opts.aud = {} \/ \E i \in DOMAIN c.aud : c.aud[i] \in opts.aud
    <2>1. c.aud = AsAudience(a)
      BY Zenon DEF UnmarshalClaims
    <2>2. IsValue(a)
      BY <1>1, Zenon DEF Registered
    <2> HIDE DEF a, c
    <2>3. jwsAudienceContains(a, opts.aud) <=> \E i \in DOMAIN AsAudience(a) : AsAudience(a)[i] \in opts.aud
      BY <1>2, <2>2, SameAudience, Zenon
    <2> QED BY <2>1, <2>3, Zenon
  <1>6. checkClaims(p, opts, now) <=> inTime /\ fromIssuer /\ forAudience
    BY Zenon DEF checkClaims
  <1>7. ClaimsHold(c, opts, now) <=> /\ TimeValid(c, now)
                                     /\ opts.iss = "" \/ c.iss = opts.iss
                                     /\ opts.aud = {} \/ \E i \in DOMAIN c.aud : c.aud[i] \in opts.aud
    BY Zenon DEF ClaimsHold
  <1> HIDE DEF c, inTime, fromIssuer, forAudience
  <1> QED BY <1>3, <1>4, <1>5, <1>6, <1>7, Zenon DEF c

\* null leaves every field zero, and asks what an object without members asks.
LEMMA NullRead ==
    ASSUME NEW p, p.kind = "null", NEW opts, NEW now \in Nat
    PROVE  checkClaims(p, opts, now) <=> ClaimsHold(UnmarshalClaims(Object(<<>>)), opts, now)
  <1> DEFINE q == Object(<<>>)
             plain == opts.iss = "" /\ opts.aud = {}
  <1>1. q.kind = "object" /\ \A n : n \notin DOMAIN q.members
    <2> DEFINE none == <<>>
    <2>1. none \in Seq({}) /\ Len(none) = 0 /\ DOMAIN none = 1..Len(none)
      OBVIOUS
    <2>2. \A n : n \notin DOMAIN none
      BY <2>1
    <2>3. q.kind = "object" /\ q.members = none
      BY Zenon DEF Object
    <2> HIDE DEF none, q
    <2> QED BY <2>2, <2>3, Zenon
  <1> HIDE DEF q
  <1>2. \A n : Member(q, n) = <<"absent">>
    BY <1>1, Zenon DEF Member
  <1>3. \A n : Member(q, n)[1] = "absent"
    BY <1>2
  <1>4. IsPayload(q) /\ ~ReadDifferently(q)
    BY <1>1, <1>3, Zenon DEF IsPayload, IsValue, ReadDifferently
  <1>5. checkClaims(q, opts, now) <=> ClaimsHold(UnmarshalClaims(q), opts, now)
    BY <1>1, <1>4, SameRead, Zenon
  <1>6. checkClaims(p, opts, now) <=> plain
    BY Zenon DEF checkClaims
  <1>7. checkClaims(q, opts, now) <=> plain
    <2> DEFINE other == Member(q, "iss") = <<"str", opts.iss>>
               heard == jwsAudienceContains(Member(q, "aud"), opts.aud)
    <2>1. ~other
      <3> DEFINE i == opts.iss
                 v == Member(q, "iss")
                 w == <<"str", i>>
      <3> HIDE DEF i, v
      <3>1. w[1] = "str"
        OBVIOUS
      <3>2. v[1] = "absent"
        BY <1>3, Zenon DEF v
      <3>3. v # w
        BY <3>1, <3>2, Zenon
      <3> QED BY <3>3, Zenon DEF v, i
    <2>2. ~heard
      BY <1>3, Zenon DEF jwsAudienceContains
    <2>3. {n \in {"exp", "nbf", "iat"} : Member(q, n)[1] # "absent"} = {}
      BY <1>3, Zenon
    <2>4. checkClaims(q, opts, now) <=> /\ opts.iss = "" \/ other
                                        /\ opts.aud = {} \/ heard
      BY <1>1, <2>3, Zenon DEF checkClaims
    <2> QED BY <2>1, <2>2, <2>4, Zenon
  <1> QED BY <1>5, <1>6, <1>7, Zenon DEF q

\* The key comes back from its JWK, so claims.Verify checks under the key.
LEMMA WithJWK ==
    ASSUME NEW t, NEW key \in TokenKey, NEW opts, NEW now
    PROVE  VerifyClaimsWithJWK(t, MarshalJWK(key), opts, now) <=> VerifyClaims(t, key, opts, now)
  <1> DEFINE parsed == UnmarshalJWK(MarshalJWK(key))
  <1>1. parsed = Ok(key)
    BY JwkInverse, Zenon
  <1>2. VerifyClaimsWithJWK(t, MarshalJWK(key), opts, now)
          <=> parsed.err = "ok" /\ VerifyClaims(t, parsed.key, opts, now)
    BY Zenon DEF VerifyClaimsWithJWK
  <1> HIDE DEF parsed
  <1>3. parsed.err = "ok" /\ parsed.key = key
    BY <1>1, Zenon DEF Ok
  <1> QED BY <1>2, <1>3, Zenon

\* What an accepted signature says of the token.
LEMMA SignatureChecked ==
    ASSUME NEW t, NEW key, NEW pin, VerifyJWSSignature(t, key, pin)
    PROVE  /\ t.shape \notin {"none", "dots", "padded", "repeated"}
           /\ t.header.alg = AlgorithmForPublicKey(key)
           /\ t.sig = [key |-> key, msg |-> SigningInput(t.header, t.payload)]
           /\ tokenAlgorithm(t) \notin {"ErrMalformedJWT", "none"}
  <1>1. parseCompact(t) = "ok"
    BY Zenon DEF VerifyJWSSignature
  <1>2. t.shape \notin {"none", "dots", "padded", "repeated"}
    BY <1>1, Zenon DEF parseCompact
  <1>3. /\ t.header.alg = AlgorithmForPublicKey(key)
        /\ t.header.alg \in Algorithm
        /\ t.sig = [key |-> key, msg |-> SigningInput(t.header, t.payload)]
    BY Zenon DEF VerifyJWSSignature, RegistryVerify
  <1>4. tokenAlgorithm(t) = t.header.alg
    BY <1>2, Zenon DEF tokenAlgorithm
  <1>5. "ErrMalformedJWT" \notin Algorithm /\ "none" \notin Algorithm
    BY Zenon DEF Algorithm, CoseLabel
  <1> QED BY <1>2, <1>3, <1>4, <1>5, Zenon

\* The two answers.  Both need the signature; claims.Verify needs an object or
\* null inside its window; and they are one where nothing is read differently.
LEMMA TwoAnswers ==
    ASSUME NEW t, IsPayload(t.payload), NEW key \in TokenKey, NEW opts, NEW now \in Nat
    PROVE  LET jws == VerifyJWS(t, key, opts, now)
               claims == VerifyClaims(t, key, opts, now)
           IN  /\ jws \/ claims => VerifyJWSSignature(t, key, opts.pin)
               /\ claims /\ t.payload.kind = "object" => TimeValid(UnmarshalClaims(t.payload), now)
               /\ opts.allowed = {} /\ opts.required = {} /\ ~ReadDifferently(t.payload) => (jws <=> claims)
  <1> DEFINE p == t.payload
             c == IF p.kind = "object" THEN UnmarshalClaims(p) ELSE UnmarshalClaims(Object(<<>>))
             signed == VerifyJWSSignature(t, key, opts.pin)
             known == tokenAlgorithm(t) \notin {"ErrMalformedJWT", "none"}
             listed == opts.allowed = {} \/ t.header.alg \in opts.allowed
             had == \A n \in opts.required : claimPresent(c, n)
  <1>1. VerifyJWS(t, key, opts, now) <=> signed /\ checkClaims(p, opts, now)
    BY Zenon DEF VerifyJWS
  <1>2. VerifyClaims(t, key, opts, now)
          <=> /\ known /\ listed /\ signed
              /\ p.kind \in {"object", "null"}
              /\ ClaimsHold(c, opts, now)
              /\ had
              /\ ValidateClaims(c)
    BY Zenon DEF VerifyClaims, ClaimsHold
  <1>3. ValidateClaims(c)
    <2>1. \A q : DOMAIN UnmarshalClaims(q).extra = DOMAIN q.members \ reservedClaims
      BY Zenon DEF UnmarshalClaims
    <2>2. \A q : ValidateClaims(UnmarshalClaims(q))
      BY <2>1, Zenon DEF ValidateClaims
    <2> QED BY <2>2, Zenon
  <1>4. p.kind = "object" => c = UnmarshalClaims(p)
    OBVIOUS
  <1>5. p.kind \in {"object", "null"} /\ ~ReadDifferently(p)
          => (checkClaims(p, opts, now) <=> ClaimsHold(c, opts, now))
    <2>1. CASE p.kind = "object"
      <3>1. ~ReadDifferently(p) => (checkClaims(p, opts, now) <=> ClaimsHold(UnmarshalClaims(p), opts, now))
        BY <2>1, SameRead, Zenon
      <3> QED BY <1>4, <2>1, <3>1, Zenon
    <2>2. CASE p.kind = "null"
      <3>1. checkClaims(p, opts, now) <=> ClaimsHold(UnmarshalClaims(Object(<<>>)), opts, now)
        BY <2>2, NullRead, Zenon
      <3>2. c = UnmarshalClaims(Object(<<>>))
        BY <2>2, Zenon
      <3> QED BY <3>1, <3>2, Zenon
    <2> QED BY <2>1, <2>2, Zenon
  <1>6. ~ReadDifferently(p) => p.kind \in {"object", "null"}
    BY Zenon DEF IsPayload, ReadDifferently
  <1>7. signed => known
    BY SignatureChecked, Zenon
  <1>8. opts.allowed = {} /\ opts.required = {} => listed /\ had
    OBVIOUS
  <1>9. ClaimsHold(c, opts, now) => TimeValid(c, now)
    BY Zenon DEF ClaimsHold
  <1> HIDE DEF c, signed, known, listed, had
  <1> QED BY <1>1, <1>2, <1>3, <1>4, <1>5, <1>6, <1>7, <1>8, <1>9, Zenon DEF signed

\* A token, and one as it was signed.
IsToken(t) == t = [shape |-> t.shape, header |-> t.header, payload |-> t.payload, sig |-> t.sig]

Signed(t, p) ==
    /\ IsToken(t)
    /\ t.shape = "compact"
    /\ t.payload = p
    /\ t.sig.msg.payload = p

\* What Sign returns, when it returns a token.
LEMMA TokenSigned ==
    ASSUME NEW p, NEW key, NEW alg, SignJWS(p, key, alg) # NoToken
    PROVE  Signed(SignJWS(p, key, alg), p)
  <1> DEFINE header == [alg |-> alg, crit |-> FALSE]
             msg == SigningInput(header, p)
             sigs == RegistrySign(alg, key, msg)
             one == [key |-> key, msg |-> msg]
             sig == CHOOSE s \in sigs : TRUE
             t == SignJWS(p, key, alg)
  <1>1. t = IF sigs = {} THEN NoToken ELSE [shape |-> "compact", header |-> header, payload |-> p, sig |-> sig]
    BY Zenon DEF SignJWS
  <1>2. sigs = {} \/ sigs = {one}
    BY Zenon DEF RegistrySign
  <1>3. msg.payload = p
    BY Zenon DEF SigningInput
  <1> HIDE DEF header, msg, sigs, t
  <1>4. sigs # {}
    BY <1>1, Zenon DEF t
  <1>5. sig = one
    <2> HIDE DEF one
    <2> QED BY <1>2, <1>4, Zenon
  <1> HIDE DEF sig
  <1>6. sig.msg = msg
    BY <1>5, Zenon
  <1>7. t = [shape |-> "compact", header |-> header, payload |-> p, sig |-> sig]
    BY <1>1, <1>4, Zenon
  <1>8. t.shape = "compact" /\ t.header = header /\ t.payload = p /\ t.sig = sig
    BY <1>7, Zenon
  <1>9. t = [shape |-> t.shape, header |-> t.header, payload |-> t.payload, sig |-> t.sig]
    BY <1>7, <1>8, Zenon
  <1>10. Signed(t, p)
    BY <1>3, <1>6, <1>8, <1>9, Zenon DEF Signed, IsToken
  <1> QED BY <1>10, Zenon DEF t

\* NoToken differs from every token in its shape.
LEMMA NoTokenIs ==
    /\ IsToken(NoToken) /\ NoToken.shape = "none" /\ IsPayload(NoToken.payload)
    /\ \A t : IsToken(t) /\ t.shape # "none" => t # NoToken
  <1> DEFINE header == [alg |-> "", crit |-> FALSE]
             sig == [key |-> NoKey]
             payload == [kind |-> "other"]
             t == NoToken
  <1>1. t = [shape |-> "none", header |-> header, payload |-> payload, sig |-> sig]
    BY Zenon DEF NoToken
  <1>2. payload.kind = "other"
    OBVIOUS
  <1> HIDE DEF header, sig, payload, t
  <1>3. t.shape = "none" /\ t.header = header /\ t.payload = payload /\ t.sig = sig
    BY <1>1, Zenon
  <1>4. t = [shape |-> t.shape, header |-> t.header, payload |-> t.payload, sig |-> t.sig]
    BY <1>1, <1>3, Zenon
  <1>5. IsToken(t) /\ t.shape = "none" /\ IsPayload(t.payload)
    BY <1>2, <1>3, <1>4, Zenon DEF IsToken, IsPayload
  <1> QED BY <1>5, Zenon DEF t

\* A token changed on its way keeps its signature.
LEMMA AlteredIs ==
    ASSUME NEW t, IsToken(t), t.shape = "compact", IsPayload(t.payload), NEW u \in AlteredTokens(t)
    PROVE  /\ IsToken(u) /\ u.shape \in {"compact", "dots", "padded", "repeated"}
           /\ IsPayload(u.payload) /\ u.sig = t.sig
  <1> DEFINE made(s, h, p) == [shape |-> s, header |-> h, payload |-> p, sig |-> t.sig]
  <1>1. /\ \A s : [t EXCEPT !.shape = s] = made(s, t.header, t.payload)
        /\ \A p : [t EXCEPT !.payload = p] = made(t.shape, t.header, p)
        /\ \A h : [t EXCEPT !.header = h] = made(t.shape, h, t.payload)
    BY DEF IsToken
  <1>2. \A s, h, p : /\ made(s, h, p).shape = s /\ made(s, h, p).payload = p
                     /\ made(s, h, p).sig = t.sig /\ IsToken(made(s, h, p))
    BY Zenon DEF IsToken
  <1>3. \E s \in {"compact", "dots", "padded", "repeated"} : \E h, p : u = made(s, h, p) /\ IsPayload(p)
    <2>1. \A a : \E h : [t EXCEPT !.header.alg = a] = [t EXCEPT !.header = h]
      OBVIOUS
    <2>2. \E h : [t EXCEPT !.header.crit = TRUE] = [t EXCEPT !.header = h]
      OBVIOUS
    <2>3. CASE u \in {[t EXCEPT !.shape = s] : s \in {"dots", "padded", "repeated"}}
      BY <1>1, <2>3
    <2>4. CASE u \in {[t EXCEPT !.header.crit = TRUE]}
      <3>1. PICK h : u = made(t.shape, h, t.payload)
        BY <1>1, <2>2, <2>4, Zenon
      <3> QED BY <3>1, Zenon
    <2>5. CASE u \in {[t EXCEPT !.header.alg = a] : a \in {"", "none", "EdDSA", "PS256", "RS256"}}
      <3>1. PICK a : u = [t EXCEPT !.header.alg = a]
        BY <2>5, Zenon
      <3>2. PICK h : u = made(t.shape, h, t.payload)
        BY <1>1, <2>1, <3>1, Zenon
      <3> QED BY <3>2
    <2>6. CASE u \in {[t EXCEPT !.payload = p] : p \in ForeignPayload}
      BY <1>1, <2>6, ForeignIsPayload
    <2> QED BY <2>3, <2>4, <2>5, <2>6, Zenon DEF AlteredTokens
  <1> HIDE DEF made
  <1> QED BY <1>2, <1>3

\* The verifiers' answers are about the token and the instant at hand.
Answered(t, now) ==
    \E key \in TokenKey, opts \in TokenOption :
        verdict = [jws |-> VerifyJWS(t, key, opts, now),
                   claims |-> VerifyClaimsWithJWK(t, MarshalJWK(key), opts, now),
                   key |-> key, opts |-> opts]

\* The inductive invariant: what the token is, which claims its signature was
\* made for, and what the last verdict answers.
TokenInv ==
    /\ clock \in Nat
    /\ IsToken(token) /\ token.shape \in {"none", "compact", "dots", "padded", "repeated"}
    /\ IsPayload(token.payload)
    /\ token = NoToken => issued = <<>> /\ verdict = NoVerdict
    /\ issued # <<>> => IsClaims(issued[1]) /\ token.sig.msg.payload = MarshalClaims(issued[1])
    /\ verdict # NoVerdict => Answered(token, clock)

\* It holds before anything is issued.
LEMMA InitToken == TokenInit => TokenInv
  <1> SUFFICES ASSUME TokenInit PROVE TokenInv
    OBVIOUS
  <1>1. clock = 0 /\ token = NoToken /\ issued = <<>> /\ verdict = NoVerdict
    BY Zenon DEF TokenInit
  <1> QED BY <1>1, NoTokenIs, Zenon DEF TokenInv

\* A token that was just signed, for some claims or for another issuer.
LEMMA NewToken ==
    ASSUME TokenInv, token = NoToken, NEW p, IsPayload(p), Signed(token', p),
           clock' = clock, verdict' = verdict,
           \/ issued' = issued
           \/ \E c : IsClaims(c) /\ p = MarshalClaims(c) /\ issued' = <<c>>
    PROVE  TokenInv'
  <1>1. /\ clock' \in Nat /\ IsToken(token') /\ token'.shape = "compact"
        /\ token'.payload = p /\ token'.sig.msg.payload = p
    BY Zenon DEF TokenInv, Signed
  <1>2. token' # NoToken
    BY <1>1, NoTokenIs, Zenon
  <1>3. verdict' = NoVerdict /\ issued = <<>>
    BY Zenon DEF TokenInv
  <1>4. issued' # <<>> => IsClaims(issued'[1]) /\ token'.sig.msg.payload = MarshalClaims(issued'[1])
    <2>1. CASE issued' = issued
      BY <1>3, <2>1, Zenon
    <2>2. ASSUME NEW c, IsClaims(c), p = MarshalClaims(c), issued' = <<c>>
          PROVE  IsClaims(issued'[1]) /\ token'.sig.msg.payload = MarshalClaims(issued'[1])
      <3>1. issued'[1] = c
        BY <2>2, Zenon
      <3> QED BY <1>1, <2>2, <3>1, Zenon
    <2> QED BY <2>1, <2>2, Zenon
  <1> QED BY <1>1, <1>2, <1>3, <1>4, Zenon DEF TokenInv

\* One step preserves the invariant.
LEMMA StepToken == TokenInv /\ [TokenNext]_tokenVars => TokenInv'
  <1> SUFFICES ASSUME TokenInv, [TokenNext]_tokenVars PROVE TokenInv'
    OBVIOUS
  <1>1. ASSUME NEW c \in ClaimSet, NEW key \in TokenKey, NEW o \in TokenOption,
               IssueClaims(c, key, o.pin, o.allowed)
        PROVE  TokenInv'
    <2> DEFINE alg == IF o.pin = "" THEN AlgorithmForPublicKey(key) ELSE o.pin
               p == MarshalClaims(c)
    <2>1. /\ token = NoToken /\ token' = SignClaims(c, key, o.pin, o.allowed) /\ token' # NoToken
          /\ issued' = <<c>> /\ clock' = clock /\ verdict' = verdict
      BY <1>1, Zenon DEF IssueClaims
    <2>2. ValidateClaims(c) /\ token' = SignJWS(p, key, alg)
      BY <2>1, Zenon DEF SignClaims
    <2>3. IsClaims(c)
      BY <2>2, TokenAssumption, Zenon DEF IsClaims
    <2>4. IsPayload(p)
      BY <2>3, ClaimsInverse, Zenon
    <2> HIDE DEF alg, p
    <2>5. Signed(token', p)
      BY <2>1, <2>2, TokenSigned, Zenon
    <2> QED BY <2>1, <2>3, <2>4, <2>5, NewToken, Zenon DEF p
  <1>2. ASSUME NEW p \in ForeignPayload, NEW key \in TokenKey, IssuePayload(p, key)
        PROVE  TokenInv'
    <2>1. /\ token = NoToken /\ token' = SignJWS(p, key, AlgorithmForPublicKey(key)) /\ token' # NoToken
          /\ issued' = issued /\ clock' = clock /\ verdict' = verdict
      BY <1>2, Zenon DEF IssuePayload
    <2>2. Signed(token', p)
      BY <2>1, TokenSigned, Zenon
    <2> QED BY <2>1, <2>2, NewToken, ForeignIsPayload, Zenon
  <1>3. ASSUME Alter PROVE TokenInv'
    <2>1. /\ token.shape = "compact" /\ token' \in AlteredTokens(token)
          /\ verdict = NoVerdict /\ clock' = clock /\ issued' = issued /\ verdict' = verdict
      BY <1>3, Zenon DEF Alter
    <2>2. /\ IsToken(token') /\ token'.shape \in {"compact", "dots", "padded", "repeated"}
          /\ IsPayload(token'.payload) /\ token'.sig = token.sig
      BY <2>1, AlteredIs, Zenon DEF TokenInv
    <2>3. token' # NoToken
      BY <2>2, NoTokenIs, Zenon
    <2> QED BY <2>1, <2>2, <2>3, Zenon DEF TokenInv
  <1>4. ASSUME Tick PROVE TokenInv'
    BY <1>4 DEF Tick, TokenInv
  <1>5. ASSUME NEW key \in TokenKey, NEW o \in TokenOption, CheckToken(key, o) PROVE TokenInv'
    <2>1. /\ token # NoToken /\ clock' = clock /\ token' = token /\ issued' = issued
      BY <1>5, Zenon DEF CheckToken
    <2>2. Answered(token, clock)'
      BY <1>5, <2>1, Zenon DEF CheckToken, Answered
    <2> QED BY <2>1, <2>2, Zenon DEF TokenInv
  <1>6. CASE UNCHANGED tokenVars
    BY <1>6, Zenon DEF TokenInv, Answered, tokenVars
  <1> QED BY <1>1, <1>2, <1>3, <1>4, <1>5, <1>6, Zenon DEF TokenNext

\* The invariant makes the verifiers agree.
LEMMA AnswersAgree == TokenInv => VerifiersAgree
  <1> SUFFICES ASSUME TokenInv PROVE VerifiersAgree
    OBVIOUS
  <1>1. CASE verdict = NoVerdict
    <2>1. verdict.jws = FALSE /\ verdict.claims = FALSE
      BY <1>1, Zenon DEF NoVerdict
    <2> QED BY <2>1, Zenon DEF VerifiersAgree
  <1>2. CASE verdict # NoVerdict
    <2>1. PICK key \in TokenKey, opts \in TokenOption :
            verdict = [jws |-> VerifyJWS(token, key, opts, clock),
                       claims |-> VerifyClaimsWithJWK(token, MarshalJWK(key), opts, clock),
                       key |-> key, opts |-> opts]
      BY <1>2, Zenon DEF TokenInv, Answered
    <2> DEFINE jws == VerifyJWS(token, key, opts, clock)
               claims == VerifyClaimsWithJWK(token, MarshalJWK(key), opts, clock)
               signed == VerifyJWSSignature(token, key, opts.pin)
    <2>2. jws \in BOOLEAN /\ claims \in BOOLEAN
      BY Zenon DEF VerifyJWS, VerifyClaimsWithJWK
    <2>3. verdict = [jws |-> jws, claims |-> claims, key |-> key, opts |-> opts]
      BY <2>1, Zenon
    <2>4. clock \in Nat /\ IsPayload(token.payload)
      BY Zenon DEF TokenInv
    <2>5. /\ jws \/ claims => signed
          /\ claims /\ token.payload.kind = "object" => TimeValid(UnmarshalClaims(token.payload), clock)
          /\ opts.allowed = {} /\ opts.required = {} /\ ~ReadDifferently(token.payload) => (jws <=> claims)
      BY <2>4, TwoAnswers, WithJWK, Zenon
    <2>6. signed => /\ token.shape = "compact"
                    /\ token.sig = [key |-> key, msg |-> SigningInput(token.header, token.payload)]
                    /\ token.header.alg = AlgorithmForPublicKey(key)
      BY SignatureChecked, Zenon DEF TokenInv
    <2> DEFINE c == issued[1]
    <2>7. signed /\ issued # <<>> => /\ token.payload.kind = "object" /\ ~ReadDifferently(token.payload)
                                     /\ UnmarshalClaims(token.payload) = c
                                     /\ IsClaims(c)
      <3> SUFFICES ASSUME signed, issued # <<>>
                   PROVE  /\ token.payload.kind = "object" /\ ~ReadDifferently(token.payload)
                          /\ UnmarshalClaims(token.payload) = c
                          /\ IsClaims(c)
        OBVIOUS
      <3>1. IsClaims(c) /\ token.sig.msg.payload = MarshalClaims(c)
        BY Zenon DEF TokenInv
      <3> DEFINE s == token.sig
                 m == SigningInput(token.header, token.payload)
      <3>2. m.payload = token.payload
        BY Zenon DEF SigningInput
      <3>3. s = [key |-> key, msg |-> m]
        BY <2>6, Zenon
      <3> HIDE DEF s, m, c
      <3>4. s.msg = m
        BY <3>3, Zenon
      <3>5. token.payload = MarshalClaims(c)
        BY <3>1, <3>2, <3>4, Zenon DEF s
      <3> QED BY <3>1, <3>5, ClaimsInverse, Zenon
    <2> HIDE DEF jws, claims, signed
    <2>8. verdict.jws = jws /\ verdict.claims = claims /\ verdict.key = key /\ verdict.opts = opts
      BY <2>3, Zenon
    <2>9. verdict.jws \/ verdict.claims =>
            /\ token.shape = "compact"
            /\ token.sig = [key |-> verdict.key, msg |-> SigningInput(token.header, token.payload)]
            /\ token.header.alg = AlgorithmForPublicKey(verdict.key)
      BY <2>5, <2>6, <2>8, Zenon
    <2>10. verdict.claims /\ issued # <<>> =>
             /\ UnmarshalClaims(token.payload) = c
             /\ c.exp = 0 \/ clock < c.exp
             /\ clock >= c.nbf /\ clock >= c.iat
      <3>1. claims /\ issued # <<>> => UnmarshalClaims(token.payload) = c /\ TimeValid(c, clock) /\ IsClaims(c)
        BY <2>5, <2>7, Zenon
      <3> HIDE DEF c
      <3>2. TimeValid(c, clock) /\ IsClaims(c) => /\ c.exp = 0 \/ clock < c.exp
                                                  /\ clock >= c.nbf /\ clock >= c.iat
        BY <2>4 DEF TimeValid, IsClaims
      <3> QED BY <2>8, <3>1, <3>2, Zenon
    <2>11. verdict.jws # verdict.claims =>
             \/ verdict.opts.allowed # {}
             \/ verdict.opts.required # {}
             \/ issued = <<>> /\ ReadDifferently(token.payload)
      BY <2>2, <2>5, <2>7, <2>8, Zenon
    <2> QED BY <2>9, <2>10, <2>11, Zenon DEF VerifiersAgree
  <1> QED BY <1>1, <1>2, Zenon

\* In every behaviour of the issuers, the wire and the two verifiers: a verifier
\* accepts only what the key's holder signed and nobody changed; claims.Verify
\* returns the claims that claims.Sign was given, inside their window; and
\* jwkutil.Verify and claims.Verify answer alike, except on the payloads that
\* the two read differently.
THEOREM TokenVerifiersAgree == TokenSpec => []VerifiersAgree
  <1>1. TokenSpec => []TokenInv
    BY InitToken, StepToken, PTL DEF TokenSpec
  <1>2. []TokenInv => []VerifiersAgree
    BY AnswersAgree, PTL
  <1> QED BY <1>1, <1>2, PTL

==============================================================================
