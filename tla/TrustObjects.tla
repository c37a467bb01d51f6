--------------------------- MODULE TrustObjects ---------------------------
(***************************************************************************)
(* The trust objects and the pure rules over them: packages authority,     *)
(* delegation and attestation.                                             *)
(*                                                                         *)
(* An authority is a record [subject, parent, caps, scope, validity,       *)
(* maxDepth, status, alg, keyId, sig].  Instants are integers, a sorted    *)
(* duplicate-free slice is a set, a nil pointer is Nil.  SHA-256 over the  *)
(* canonical encoding is taken to be injective, so a hash is the hashed    *)
(* content; a signature is the pair of the key and the content it signs.   *)
(***************************************************************************)
EXTENDS Integers, Sequences

CONSTANTS
    Nil,
    Dim,        \* the string-slice dimensions of a Scope
    AlgorithmOf \* the signature algorithm of each key

-----------------------------------------------------------------------------
(* Package authority.                                                      *)

\* Mutant: the signature is hashed too.
CanonicalHashSigned(auth) == auth

\* Proof.Signature is zeroed before hashing; Algorithm and KeyID are not.
CanonicalHash(auth) == [auth EXCEPT !.sig = Nil]

Signature(key, content) == [key |-> key, content |-> content]

\* Algorithm mismatch first, then the signature over the recomputed hash.
VerifyAuthorityProof(auth, key) ==
    IF AlgorithmOf[key] # auth.alg THEN "ErrWrongKey"
    ELSE IF auth.sig # Signature(key, CanonicalHash(auth))
      THEN "ErrTamperedAuthority"
    ELSE "ok"

-----------------------------------------------------------------------------
(* Package delegation: parent first, as in the code.                       *)

capabilitySubset(parent, child) == child \subseteq parent

\* Mutant: an empty child dimension counts as a subset of anything.
stringSliceSubsetNaive(parent, child) == parent = {} \/ child \subseteq parent

\* An empty parent is unconstrained; an empty child under a constrained
\* parent drops the constraint.
stringSliceSubset(parent, child) ==
    parent = {} \/ (child # {} /\ child \subseteq parent)

timeWindowSubset(parent, child) ==
    \/ parent = Nil
    \/ /\ child # Nil
       /\ child.start >= parent.start
       /\ child.end <= parent.end

quantitySubset(parent, child) ==
    \/ parent = Nil
    \/ /\ child # Nil
       /\ child.unit = parent.unit
       /\ child.limit <= parent.limit

monetarySubset(parent, child) ==
    \/ parent = Nil
    \/ /\ child # Nil
       /\ child.currency = parent.currency
       /\ child.limit <= parent.limit

scopeSubset(parent, child) ==
    /\ \A d \in Dim : stringSliceSubset(parent.items[d], child.items[d])
    /\ timeWindowSubset(parent.window, child.window)
    /\ quantitySubset(parent.quantity, child.quantity)
    /\ monetarySubset(parent.monetary, child.monetary)

validitySubset(parent, child) ==
    /\ child.notBefore >= parent.notBefore
    /\ child.notAfter <= parent.notAfter

\* Mutant: the bound of the child may equal the parent's.
delegationDepthOKEqual(parent, child) ==
    parent = Nil \/ (child # Nil /\ child <= parent)

delegationDepthOK(parent, child) ==
    parent = Nil \/ (child # Nil /\ child < parent)

\* The first violation, in the order the code tests them.
VerifySubset(child, parent) ==
    IF ~capabilitySubset(parent.caps, child.caps)
      THEN "ErrCapabilityEscalation"
    ELSE IF ~scopeSubset(parent.scope, child.scope)
      THEN "ErrScopeEscalation"
    ELSE IF ~validitySubset(parent.validity, child.validity)
      THEN "ErrValidityEscalation"
    ELSE IF ~delegationDepthOK(parent.maxDepth, child.maxDepth)
      THEN "ErrDepthEscalation"
    ELSE "ok"

-----------------------------------------------------------------------------
(* Package attestation: the attestation first, as in the code.             *)

Status == {"active", "revoked", "superseded", "expired"}

\* The zero time.Time, before every other instant.
ZeroTime == -1

\* Structural validity.  wellFormed and evidenceValid are the verdicts of
\* claim.Validate and of evidence.ValidateEvidence on the items; the evidence
\* is the sequence of its items' canonical hashes, which must ascend.
Validate(att) ==
    /\ Nil \notin {att.issuer, att.keyId, att.authorityRef, att.capability}
    /\ att.claim.wellFormed
    /\ att.evidenceValid
    /\ att.status \in Status
    /\ att.issuedAt # ZeroTime
    /\ {att.validity.notBefore, att.validity.notAfter} # {ZeroTime}
    /\ \A i \in 2..Len(att.evidence) : att.evidence[i - 1] < att.evidence[i]

capabilityGranted(caps, c) == c \in caps

\* Every listed element is listed by the authority.  The length test the code
\* begins with adds nothing for a slice without duplicates; a claim that has
\* some fails claim.Validate, and its result is not valid either way.
claimSliceSubset(sub, super) == sub \subseteq super

claimScopeSubset(sub, super) ==
    /\ \A d \in Dim : claimSliceSubset(sub.items[d], super.items[d])
    /\ super.window # Nil =>
         /\ sub.window # Nil
         /\ sub.window.start >= super.window.start
         /\ sub.window.end <= super.window.end
    /\ super.quantity # Nil =>
         /\ sub.quantity # Nil
         /\ sub.quantity.unit = super.quantity.unit
         /\ sub.quantity.limit <= super.quantity.limit
    /\ super.monetary # Nil =>
         /\ sub.monetary # Nil
         /\ sub.monetary.currency = super.monetary.currency
         /\ sub.monetary.limit <= super.monetary.limit

validityContains(v, now) == v.notBefore <= now /\ now <= v.notAfter

\* now is time.Now() at the call.
VerifyAuthorization(att, auth, now) ==
    IF att.authorityRef = Nil THEN "ErrMissingAuthorityRef"
    ELSE IF att.authorityRef # CanonicalHash(auth) THEN "ErrAuthorityMismatch"
    ELSE IF att.issuer # auth.subject THEN "ErrSubjectMismatch"
    ELSE IF ~capabilityGranted(auth.caps, att.capability)
      THEN "ErrCapabilityNotGranted"
    ELSE IF auth.status # "active" THEN "ErrAuthorityNotActive"
    ELSE IF att.status # "active" THEN "ErrAttestationNotActive"
    ELSE IF ~validityContains(att.validity, now)
      THEN "ErrAttestationNotCurrent"
    ELSE IF ~claimScopeSubset(att.claim.scope, auth.scope)
      THEN "ErrAuthorizationScope"
    ELSE IF \/ ~validitySubset(auth.validity, att.claim.validity)
            \/ ~validitySubset(auth.validity, att.validity)
      THEN "ErrAuthorizationValidity"
    ELSE "ok"

\* VerifySignature: the key's algorithm, then the signature over the hash of
\* the attestation without its signature; an absent one never verifies.
AttestationHash(att) == [att EXCEPT !.sig = Nil]

VerifySignature(att, key) ==
    IF AlgorithmOf[key] # att.alg THEN "ErrWrongKey"
    ELSE IF att.sig = Nil \/ att.sig # Signature(key, AttestationHash(att))
      THEN "ErrTamperedAttestation"
    ELSE "ok"
=============================================================================
