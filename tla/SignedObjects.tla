--------------------------- MODULE SignedObjects ---------------------------
(***************************************************************************)
(* The life of an object that gets signed: an authority is signed, a       *)
(* second one is derived from it, either is signed again or has its status *)
(* changed; an attestation is signed and travels as an EAT token.          *)
(*                                                                         *)
(* Signing makes two calls of a signature.Signer, and with a remote key    *)
(* either can fail after the object was changed.  Authorities and          *)
(* attestations are the records of TrustObjects; an attestation's instants *)
(* are [half, zone]: half seconds since the epoch, since a token carries   *)
(* whole ones, and the offset from UTC, which the canonical JSON keeps.    *)
(***************************************************************************)
EXTENDS TrustObjects, SigningKeys

CONSTANTS
    Signer,     \* [key, path]: path is "local", "jose" or "evm"
    SignerID,   \* the key IDs passed to the signing functions; Nil is ""
    RootDraft,  \* the authorities that delegate, before they are signed
    DelegationSpec,
    Draft,      \* the attestations before they are signed
    WordBits,   \* the width of uint64
    Mantissa    \* the width of a double's mantissa

ASSUME SignerAssumption == \A s \in Signer : AlgorithmOf[s.key] = AlgorithmForPublicKey(s.key)

\* The fields that the operations below assign.
ASSUME DraftAssumption ==
    /\ \A a \in RootDraft \cup Draft : {"status", "alg", "keyId", "sig"} \subseteq DOMAIN a
    /\ \A a \in RootDraft \cup Draft : a.sig = Nil

\* An attestation has these fields, KeyVersion is a uint64, an instant is an
\* offset from the epoch and one from UTC, and an empty slice is not nil.
ASSUME AttestationAssumption ==
    /\ Nil # <<>>
    /\ 2^WordBits \in Nat \ {0}
    /\ \A a \in Draft :
         /\ a = [issuer |-> a.issuer, authorityRef |-> a.authorityRef,
                 capability |-> a.capability, claim |-> a.claim, evidence |-> a.evidence,
                 validity |-> [notBefore |-> a.validity.notBefore,
                               notAfter |-> a.validity.notAfter],
                 issuedAt |-> a.issuedAt, keyId |-> a.keyId, keyVersion |-> a.keyVersion,
                 alg |-> a.alg, status |-> a.status, sig |-> a.sig]
         /\ a.keyVersion \in 0..(2^WordBits - 1)
         /\ \A t \in {a.issuedAt, a.validity.notBefore, a.validity.notAfter} :
              t.half \in Int /\ t = [half |-> t.half, zone |-> t.zone]

\* Canonical JSON writes an integer as a double, and refuses one that is not a
\* double exactly; then there is no hash.
Exact(n) == \E e \in 0..WordBits : n % 2^e = 0 /\ n \div 2^e \in (-(2^Mantissa))..2^Mantissa

\* The integers of an authority; a monetary limit is a double already, and is
\* taken to be below 2^53, where its literal is exact.
AuthorityHashes(a) ==
    /\ a.maxDepth # Nil => Exact(a.maxDepth)
    /\ a.scope.quantity # Nil => Exact(a.scope.quantity.limit)

AttestationHashes(a) == Exact(a.keyVersion)

\* Which of the signer's two calls fails, if any.
Outcome == {"PublicKey fails", "Sign fails", "ok"}

\* A local or JOSE signer hashes with SHA-256, as ES256K verification does.
\* An EVM one hashes with Keccak-256 and appends the recovery id: 65 bytes.
SignatureBy(signer, content) ==
    IF signer.path = "evm"
      THEN [key |-> signer.key, content |-> content, v |-> TRUE]
      ELSE Signature(signer.key, content)

-----------------------------------------------------------------------------
(* The conversions of an EAT token.                                        *)

COSE(alg) == IF alg \in Algorithm THEN CoseLabel[alg] ELSE 0

ToSigned(u) == IF u < 2^(WordBits - 1) THEN u ELSE u - 2^WordBits
ToUnsigned(n) == n % 2^WordBits

\* Time.Unix drops the fraction and the zone.
Unix(t) == t.half \div 2

unixClaim(seconds) == [half |-> 2 * seconds, zone |-> 0]

\* An unknown status is read as the zero value.
statusFromInt64(s) == IF s \in Status THEN s ELSE "unset"

eatClaims(att) ==
    [iss |-> att.issuer, cti |-> AttestationHash(att),
     exp |-> Unix(att.validity.notAfter), nbf |-> Unix(att.validity.notBefore),
     iat |-> Unix(att.issuedAt), authorityRef |-> att.authorityRef,
     capability |-> att.capability, claim |-> att.claim,
     evidence |-> IF att.evidence = Nil THEN <<>> ELSE att.evidence,
     keyId |-> att.keyId, keyVersion |-> ToSigned(att.keyVersion),
     alg |-> COSE(att.alg), status |-> att.status]

\* The protected header repeats the algorithm and the key ID.
marshalCOSESign1(alg, keyID, claims, sig) ==
    [elements |-> 4, protected |-> [alg |-> COSE(alg), kid |-> keyID],
     claims |-> claims, sig |-> sig]

MarshalEAT(att) == marshalCOSESign1(att.alg, att.keyId, eatClaims(att), att.sig)

\* Four elements; the protected header is not decoded.
parseCOSESign1(w) == w.elements = 4

\* An empty evidence array is read as nil.
attFromClaims(c) ==
    [issuer |-> c.iss, authorityRef |-> c.authorityRef, capability |-> c.capability,
     claim |-> c.claim, evidence |-> IF c.evidence = <<>> THEN Nil ELSE c.evidence,
     validity |-> [notBefore |-> unixClaim(c.nbf), notAfter |-> unixClaim(c.exp)],
     issuedAt |-> unixClaim(c.iat), keyId |-> c.keyId,
     keyVersion |-> ToUnsigned(c.keyVersion), alg |-> AlgorithmForCOSE(c.alg),
     status |-> statusFromInt64(c.status), sig |-> Nil]

\* Mutant: cti is not compared.
UnmarshalEATUnbound(w) ==
    IF ~parseCOSESign1(w) THEN [err |-> "ErrMalformedEAT"]
    ELSE IF w.claims.iss = Nil \/ AlgorithmForCOSE(w.claims.alg) = ""
      THEN [err |-> "ErrInvalidClaims"]
    ELSE [err |-> "ok", att |-> [attFromClaims(w.claims) EXCEPT !.sig = w.sig]]

\* cti must be the hash of the result.
UnmarshalEAT(w) ==
    LET att == [attFromClaims(w.claims) EXCEPT !.sig = w.sig] IN
    IF ~parseCOSESign1(w) THEN [err |-> "ErrMalformedEAT"]
    ELSE IF w.claims.iss = Nil THEN [err |-> "ErrInvalidClaims"]
    ELSE IF AlgorithmForCOSE(w.claims.alg) = "" THEN [err |-> "ErrInvalidClaims"]
    ELSE IF ~AttestationHashes(att) THEN [err |-> "ErrLossyNumber"]
    ELSE IF w.claims.cti # AttestationHash(att) THEN [err |-> "ErrEATHashMismatch"]
    ELSE [err |-> "ok", att |-> att]

-----------------------------------------------------------------------------
VARIABLES
    authority,  \* the two authorities, "root" and "child"
    derivedFrom,\* the root's status, algorithm and key ID at Derive
    att,        \* the attestation
    sent,       \* the attestation the token was made of
    wire,       \* the token
    received    \* what UnmarshalEAT returned

lifecycleVars == <<authority, derivedFrom>>
transportVars == <<att, sent, wire, received>>

\* What may change in an authority after it was built, but for the signature.
Identity(a) == [status |-> a.status, alg |-> a.alg, keyId |-> a.keyId]

NoAuthority == [subject |-> Nil, sig |-> Nil]
NoWire == [elements |-> 0]
Nothing == [err |-> "none"]

LifecycleInit ==
    /\ authority \in {[root |-> r, child |-> NoAuthority] : r \in RootDraft}
    /\ derivedFrom = Identity(authority.root)

TransportInit ==
    /\ att \in Draft
    /\ sent = Nothing
    /\ wire = NoWire
    /\ received = Nothing

-----------------------------------------------------------------------------
(* Authorities.                                                            *)

\* Mutant: the old signature stays until a new one replaces it.
ProofStartStale(a, signer, keyID) ==
    [a EXCEPT !.alg = AlgorithmForPublicKey(signer.key), !.keyId = keyID]

\* Algorithm and KeyID are set and the signature is cleared before hashing.
ProofStart(a, signer, keyID) ==
    [a EXCEPT !.alg = AlgorithmForPublicKey(signer.key), !.keyId = keyID, !.sig = Nil]

\* An error of PublicKey comes before the first assignment, one of the hash or
\* of Sign after the last but one.
SignAuthority(o, signer, keyID, outcome) ==
    LET begun == ProofStart(authority[o], signer, keyID) IN
    /\ authority[o] # NoAuthority
    /\ authority' =
         IF outcome = "PublicKey fails" \/ AlgorithmForPublicKey(signer.key) = ""
           THEN authority
         ELSE IF outcome = "Sign fails" \/ ~AuthorityHashes(begun)
           THEN [authority EXCEPT ![o] = begun]
         ELSE [authority EXCEPT
                 ![o] = [begun EXCEPT !.sig = SignatureBy(signer, CanonicalHash(begun))]]
    /\ UNCHANGED derivedFrom

\* The child names the hash of the parent as it is now, proof fields included.
Derive(spec) ==
    LET parent == authority.root
        child == [subject |-> spec.subject, parent |-> CanonicalHash(parent),
                  caps |-> spec.caps, scope |-> spec.scope, validity |-> spec.validity,
                  maxDepth |-> spec.maxDepth, status |-> "active",
                  alg |-> Nil, keyId |-> Nil, sig |-> Nil]
    IN  /\ VerifySubset(child, parent) = "ok"
        /\ AuthorityHashes(parent)
        /\ authority' = [authority EXCEPT !.child = child]
        /\ derivedFrom' = Identity(parent)

\* The holder of an authority changes its status (external).
SetStatus(o, status) ==
    /\ authority[o] # NoAuthority
    /\ authority' = [authority EXCEPT ![o].status = status]
    /\ UNCHANGED derivedFrom

LifecycleNext ==
    \/ \E o \in {"root", "child"}, s \in Signer, id \in SignerID, out \in Outcome :
         SignAuthority(o, s, id, out)
    \/ \E spec \in DelegationSpec : Derive(spec)
    \/ \E o \in {"root", "child"}, st \in {"active", "revoked"} : SetStatus(o, st)

-----------------------------------------------------------------------------
(* Attestations.                                                           *)

\* An empty key ID leaves SigningKeyID alone.
SignAttestation(signer, keyID, outcome) ==
    LET alg == AlgorithmForPublicKey(signer.key)
        named == IF keyID = Nil THEN att ELSE [att EXCEPT !.keyId = keyID]
        begun == [named EXCEPT !.alg = alg, !.sig = Nil]
    IN  /\ att' = IF outcome = "PublicKey fails" \/ alg = "" THEN att
                  ELSE IF outcome = "Sign fails" \/ ~AttestationHashes(begun) THEN begun
                  ELSE [begun EXCEPT !.sig = SignatureBy(signer, AttestationHash(begun))]
        /\ UNCHANGED <<sent, wire, received>>

\* MarshalEAT fails without a hash.
Send ==
    /\ wire = NoWire
    /\ AttestationHashes(att)
    /\ wire' = MarshalEAT(att)
    /\ sent' = [err |-> "ok", att |-> att]
    /\ UNCHANGED <<att, received>>

\* The ways a token can arrive other than it was sent: cut short, with its
\* header or its slot replaced, or with a claim changed and cti left alone or
\* computed anew (external).
AlteredWires(w) ==
    LET late == [w.claims EXCEPT !.exp = @ + 1] IN
    {[w EXCEPT !.elements = 3], [w EXCEPT !.protected.alg = 0], [w EXCEPT !.sig = Nil],
     [w EXCEPT !.claims.keyVersion = 2^Mantissa + 1],
     [w EXCEPT !.claims.iss = Nil], [w EXCEPT !.claims.status = "other"],
     [w EXCEPT !.claims = late],
     [w EXCEPT !.claims = [late EXCEPT !.cti = AttestationHash(attFromClaims(late))]]}

AlterWire ==
    /\ wire # NoWire
    /\ received = Nothing
    /\ wire = MarshalEAT(sent.att)
    /\ wire' \in AlteredWires(wire)
    /\ UNCHANGED <<att, sent, received>>

Receive ==
    /\ wire # NoWire
    /\ received = Nothing
    /\ received' = UnmarshalEAT(wire)
    /\ UNCHANGED <<att, sent, wire>>

TransportNext ==
    \/ /\ wire = NoWire
       /\ \E s \in Signer, id \in SignerID, out \in Outcome : SignAttestation(s, id, out)
    \/ Send
    \/ AlterWire
    \/ Receive

\* The two parts side by side.
ObjectNext ==
    \/ LifecycleNext /\ UNCHANGED transportVars
    \/ TransportNext /\ UNCHANGED lifecycleVars

ObjectSpec ==
    LifecycleInit /\ TransportInit /\ [][ObjectNext]_<<lifecycleVars, transportVars>>

-----------------------------------------------------------------------------
\* A signature an object carries was made for the algorithm and the key ID it
\* names, whatever calls failed in between and whatever it was signed with
\* before; and it verifies, unless the status was edited since or the signer
\* was on its EVM path, whose signatures this verification does not accept.
NoMixedProof ==
    /\ \A o \in {"root", "child"} :
         LET a == authority[o] IN
         \/ a.sig = Nil
         \/ /\ a.sig.content.alg = a.alg
            /\ a.sig.content.keyId = a.keyId
            /\ \/ VerifyAuthorityProof(a, a.sig.key) = "ok"
               \/ a.sig.content.status # a.status
               \/ "v" \in DOMAIN a.sig
    /\ \/ att.sig = Nil
       \/ VerifySignature(att, att.sig.key) = "ok"
       \/ "v" \in DOMAIN att.sig

\* The child's reference finds its parent exactly while the parent has the
\* status, algorithm and key ID it had when the child was derived: signing the
\* parent again under the same key ID, or failing to, leaves the link in
\* place, and signing it for the first time after Derive breaks it.
LinkFollowsIdentity ==
    authority.child # NoAuthority =>
        (authority.child.parent = CanonicalHash(authority.root)
           <=> Identity(authority.root) = derivedFrom)

\* What the token can carry: whole seconds in UTC, a registered algorithm, a
\* known status or none, an issuer, and no empty evidence list other than nil.
Representable(a) ==
    /\ \A t \in {a.issuedAt, a.validity.notBefore, a.validity.notAfter} :
         t.half % 2 = 0 /\ t.zone = 0
    /\ a.alg \in Algorithm
    /\ a.status \in Status \cup {"unset"}
    /\ a.issuer # Nil
    /\ a.evidence # <<>>

\* A token that arrives as it was sent is accepted exactly when the
\* attestation is representable, and then yields that attestation; from any
\* token, an attestation whose signature verifies is the one that was sent.
EatFaithful ==
    received # Nothing =>
        /\ wire = MarshalEAT(sent.att) =>
             /\ received.err = "ok" <=> Representable(sent.att)
             /\ received.err = "ok" => received.att = sent.att
        /\ \A s \in Signer :
             received.err = "ok" /\ VerifySignature(received.att, s.key) = "ok"
               => received.att = sent.att
=============================================================================
