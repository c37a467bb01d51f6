---------------------------- MODULE KeyBinding ----------------------------
(***************************************************************************)
(* Package verification: the key binder, and the two resolutions of        *)
(* checkKeyBinding.  The leaf's key is looked up in the issuer's DID       *)
(* document and then the root's key in the root subject's; the resolver    *)
(* is asked each time, and a subject may publish another document between  *)
(* the two calls.                                                          *)
(*                                                                         *)
(* A document is [id, methods]; a method is [id, type, account, multibase, *)
(* jwk].  An identifier is a sequence, <<did, fragment>> or <<fragment>>.  *)
(* A type is a pair <<form, name>>: a suite name, a JOSE name, a decimal   *)
(* COSE label, or a JOSE name with the suffix VerificationKey2020.  A      *)
(* multibase value is [prefix, decodes, len, mat, points], where points    *)
(* are the algorithms whose key parser accepts the decoded bytes.          *)
(***************************************************************************)
EXTENDS SigningKeys

CONSTANTS
    Subject,    \* the identities whose documents the resolver serves
    Document,   \* the documents a subject may publish
    KeyID,      \* the key identifiers asked for
    PublicKey   \* the keys a caller supplies

ASSUME BindingAssumption ==
    /\ \A k \in PublicKey : k = [type |-> k.type, param |-> k.param, mat |-> k.mat]
    /\ \A d \in Document : Len(d.methods) \in Nat

NoJwk == Jwk("", "", "", "")
NoMultibase == [prefix |-> "", decodes |-> FALSE, len |-> 0, mat |-> "", points |-> {}]

-----------------------------------------------------------------------------
(* What a method declares.  The empty set declares nothing.                *)

suiteKeyAlgorithms(name) ==
    CASE name \in {"Ed25519VerificationKey2018", "Ed25519VerificationKey2020"} -> {"EdDSA"}
      [] name \in {"EcdsaSecp256k1VerificationKey2019",
                   "EcdsaSecp256k1RecoveryMethod2020"} -> {"ES256K"}
      [] name = "EcdsaSecp256r1VerificationKey2019" -> {"ES256", "ES384"}
      [] name = "RsaVerificationKey2018" -> rsaKeyAlgorithms
      [] name = "JsonWebKey2020" -> {}

algorithmsForSuiteType(type) ==
    LET alg == CASE type[1] \in {"jose", "jose2020"} -> AlgorithmForJOSE(type[2])
                 [] type[1] = "cose" -> AlgorithmForCOSE(type[2])
                 [] OTHER -> ""
    IN  CASE type[1] = "none" -> [err |-> "ok", algs |-> {}]
          [] type[1] = "suite" -> [err |-> "ok", algs |-> suiteKeyAlgorithms(type[2])]
          [] OTHER -> IF alg = "" THEN [err |-> "ErrKeyBinding", algs |-> {}]
                      ELSE [err |-> "ok", algs |-> {alg}]

\* A blockchain account is a secp256k1 key's, whatever else is declared.
declaredAlgorithms(m) ==
    LET suite == algorithmsForSuiteType(m.type) IN
    IF suite.err # "ok" \/ ~m.account THEN suite
    ELSE IF suite.algs = {} \/ "ES256K" \in suite.algs
      THEN [err |-> "ok", algs |-> {"ES256K"}]
    ELSE [err |-> "ErrKeyBinding", algs |-> {}]

\* An empty declaration is no constraint.
intersectAlgorithms(cands, declared) ==
    IF declared = {} THEN cands ELSE cands \cap declared

-----------------------------------------------------------------------------
(* What the material encodes.                                              *)

decodeMultibase(mb) == mb.prefix \in {"z", "u", "f", "F"} /\ mb.decodes

\* Every algorithm whose key has this length and whose parser accepts.
candidatesForRawKey(raw) ==
    raw.points \cap
      CASE raw.len = 32 -> {"EdDSA"}
        [] raw.len \in {33, 64, 65} -> {"ES256K", "ES256"}
        [] raw.len \in {49, 96, 97} -> {"ES384"}
        [] OTHER -> {}

\* The elliptic-curve and Edwards keys, by algorithm.
RawKey(alg, mat) ==
    CASE alg = "EdDSA" -> [type |-> "ed25519", param |-> "", mat |-> mat]
      [] alg = "ES256K" -> [type |-> "secp256k1", param |-> "", mat |-> mat]
      [] alg = "ES256" -> [type |-> "ecdsa", param |-> "P-256", mat |-> mat]
      [] alg = "ES384" -> [type |-> "ecdsa", param |-> "P-384", mat |-> mat]

\* Mutant: the first algorithm that fits is taken.
selectCandidateFirst(raw, declared) ==
    LET matches == intersectAlgorithms(candidatesForRawKey(raw), declared) IN
    IF matches = {} THEN Err("ErrKeyBinding")
    ELSE Ok(RawKey(CHOOSE a \in matches : TRUE, raw.mat))

\* The one candidate the declaration permits.
selectCandidate(raw, declared) ==
    LET matches == intersectAlgorithms(candidatesForRawKey(raw), declared) IN
    IF Cardinality(matches) # 1 THEN Err("ErrKeyBinding")
    ELSE Ok(RawKey(CHOOSE a \in matches : TRUE, raw.mat))

\* What kty, crv and alg declare; {} stands for the errors.
algorithmsForJWK(m) ==
    LET one(alg) == IF m.alg \in {"", alg} THEN {alg} ELSE {} IN
    CASE m.kty = "OKP" /\ m.crv = "Ed25519" -> one("EdDSA")
      [] m.kty = "EC" /\ m.crv = "P-256" -> one("ES256")
      [] m.kty = "EC" /\ m.crv = "P-384" -> one("ES384")
      [] m.kty = "EC" /\ m.crv = "secp256k1" -> one("ES256K")
      [] m.kty = "RSA" -> IF m.alg = "" THEN rsaKeyAlgorithms
                          ELSE rsaKeyAlgorithms \cap {m.alg}
      [] OTHER -> {}

jwkWithAlg(m, alg) == IF m.alg # "" THEN m ELSE [m EXCEPT !.alg = alg]

bindJWK(m, declared) ==
    LET matches == intersectAlgorithms(algorithmsForJWK(m), declared)
        alg == CHOOSE a \in matches : TRUE
        parsed == UnmarshalJWK(jwkWithAlg(m, alg))
    IN  IF Cardinality(matches) # 1 THEN Err("ErrKeyBinding")
        ELSE IF parsed.err # "ok" THEN Err("ErrStructural")
        ELSE IF AlgorithmForPublicKey(parsed.key) # alg THEN Err("ErrKeyBinding")
        ELSE parsed

-----------------------------------------------------------------------------
(* The binder and the comparison with the supplied key.                    *)

methodMatches(m, docID, keyID) == m.id = keyID \/ m.id = <<docID>> \o keyID

hasKeyMaterial(m) == m.multibase # NoMultibase \/ m.jwk # NoJwk

bindMethod(m) ==
    LET declared == declaredAlgorithms(m) IN
    IF declared.err # "ok" THEN Err(declared.err)
    ELSE IF m.multibase = NoMultibase THEN bindJWK(m.jwk, declared.algs)
    ELSE IF ~decodeMultibase(m.multibase) \/ candidatesForRawKey(m.multibase) = {}
      THEN Err("ErrStructural")
    ELSE selectCandidate(m.multibase, declared.algs)

\* The first method that matches and has material decides, even by failing.
Bind(keyID, doc) ==
    LET ms == doc.methods
        hits == {i \in 1..Len(ms) :
                    methodMatches(ms[i], doc.id, keyID) /\ hasKeyMaterial(ms[i])}
    IN  IF hits = {} THEN Err("key not found")
        ELSE bindMethod(ms[CHOOSE i \in hits : \A j \in hits : i <= j])

\* marshalPublicKey keeps the curve and the material, not the RSA scheme.
samePublicKey(a, b) ==
    LET family(k) == CASE k.type \in {"pss", "pkcs1"} -> <<"rsa", "">>
                       [] OTHER -> <<k.type, k.param>>
    IN  family(a) = family(b) /\ a.mat = b.mat

\* Mutant: the algorithms are not compared.
sameKeyAlgorithmAny(bound, want) == TRUE

sameKeyAlgorithm(bound, want) ==
    /\ "" \notin {AlgorithmForPublicKey(bound), AlgorithmForPublicKey(want)}
    /\ AlgorithmForPublicKey(bound) = AlgorithmForPublicKey(want)

-----------------------------------------------------------------------------
VARIABLES
    published,  \* the document the resolver serves for each subject
    binding,    \* the lookups checkKeyBinding has still to make
    bound       \* the lookups of this call that matched, with the document seen

bindingVars == <<published, binding, bound>>

Lookup == [subject : Subject, keyID : KeyID, want : PublicKey]

BindingInit ==
    /\ published \in [Subject -> Document]
    /\ binding = <<>>
    /\ bound = {}

\* The subject publishes another document (external to the engine).
Publish(s, d) ==
    /\ binding # <<>>
    /\ published' = [published EXCEPT ![s] = d]
    /\ UNCHANGED <<binding, bound>>

\* checkKeyBinding with a resolver: the leaf's key, then the root's.
checkKeyBinding(leaf, root) ==
    /\ binding = <<>>
    /\ binding' = <<leaf, root>>
    /\ bound' = {}
    /\ UNCHANGED published

\* One Resolve and Bind; an error ends the check.
bindKeyMatches ==
    /\ binding # <<>>
    /\ LET r == Head(binding)
           doc == published[r.subject]
           res == Bind(r.keyID, doc)
       IN  IF /\ res.err = "ok"
              /\ samePublicKey(res.key, r.want)
              /\ sameKeyAlgorithm(res.key, r.want)
             THEN /\ binding' = Tail(binding)
                  /\ bound' = bound \cup {[doc |-> doc, keyID |-> r.keyID, key |-> r.want]}
             ELSE /\ binding' = <<>>
                  /\ bound' = {}
    /\ UNCHANGED published

BindingNext ==
    \/ \E s \in Subject, d \in Document : Publish(s, d)
    \/ \E leaf, root \in Lookup : checkKeyBinding(leaf, root)
    \/ bindKeyMatches

BindingSpec == BindingInit /\ [][BindingNext]_bindingVars

-----------------------------------------------------------------------------
\* Whatever a check accepted, one document gives one key identifier one key,
\* algorithm included: two keys for one identifier in a call mean that the
\* document changed between its two lookups.  The key's algorithm is one a
\* matching method declares, and no other reading of that method's material
\* was permitted: an ambiguous encoding is refused, not guessed.
OneKeyPerID ==
    \A b \in bound :
        /\ \A c \in bound : b.doc = c.doc /\ b.keyID = c.keyID => b.key = c.key
        /\ \E i \in 1..Len(b.doc.methods) :
             LET m == b.doc.methods[i]
                 declared == declaredAlgorithms(m).algs
                 encoded == IF m.multibase # NoMultibase
                              THEN candidatesForRawKey(m.multibase)
                              ELSE algorithmsForJWK(m.jwk)
             IN  /\ methodMatches(m, b.doc.id, b.keyID)
                 /\ {a \in encoded : declared = {} \/ a \in declared}
                      = {AlgorithmForPublicKey(b.key)}
=============================================================================
