---------------------------- MODULE SigningKeys ----------------------------
(***************************************************************************)
(* Packages signature and identity/jwk: which algorithm a key signs with,  *)
(* and its form as a JSON Web Key.                                         *)
(*                                                                         *)
(* A key is [type, param, mat]: its Go type, the curve or hash bound to it *)
(* and the material (the point, or the modulus and exponent).  A private   *)
(* key is named by its public half.  A JWK is [kty, crv, alg, mat, good,   *)
(* d]: an absent member is "", good says that the library parses the       *)
(* material, d that the private member is present.  The points of the      *)
(* documents are on their curves.                                          *)
(***************************************************************************)
EXTENDS Integers, Sequences, FiniteSets

NoKey == [type |-> "", param |-> "", mat |-> ""]
Ok(key) == [err |-> "ok", key |-> key]
Err(e) == [err |-> e, key |-> NoKey]

-----------------------------------------------------------------------------
(* Package signature.                                                      *)

\* The registered algorithms, with their COSE labels.
CoseLabel ==
    [EdDSA |-> -8, ES256K |-> -47, ES256 |-> -7, ES384 |-> -35,
     PS256 |-> -37, PS384 |-> -38, PS512 |-> -39,
     RS256 |-> -257, RS384 |-> -258, RS512 |-> -259]

Algorithm == DOMAIN CoseLabel

\* "" for a name or a label that is not registered.
AlgorithmForJOSE(name) == IF name \in Algorithm THEN name ELSE ""

AlgorithmForCOSE(label) ==
    IF \E a \in Algorithm : CoseLabel[a] = label
      THEN CHOOSE a \in Algorithm : CoseLabel[a] = label ELSE ""

ecdsaAlgForCurve(curve) ==
    CASE curve = "P-256" -> "ES256"
      [] curve = "P-384" -> "ES384"
      [] OTHER -> ""

rsaPSSAlgForHash(hash) ==
    CASE hash = "SHA256" -> "PS256"
      [] hash = "SHA384" -> "PS384"
      [] hash = "SHA512" -> "PS512"
      [] OTHER -> ""

rsaPKCS1AlgForHash(hash) ==
    CASE hash = "SHA256" -> "RS256"
      [] hash = "SHA384" -> "RS384"
      [] hash = "SHA512" -> "RS512"
      [] OTHER -> ""

\* "" for a key that does not sign, X25519 among them.
AlgorithmForPublicKey(key) ==
    CASE key.type = "ed25519" -> "EdDSA"
      [] key.type = "secp256k1" -> "ES256K"
      [] key.type = "ecdsa" -> ecdsaAlgForCurve(key.param)
      [] key.type = "pss" -> rsaPSSAlgForHash(key.param)
      [] key.type = "pkcs1" -> rsaPKCS1AlgForHash(key.param)
      [] OTHER -> ""

\* The registered closures refuse a key of another algorithm; a signature is
\* what was signed and by which key.  The result is the set of signatures Sign
\* may return, empty for an error.
RegistrySign(alg, key, msg) ==
    IF alg \notin Algorithm \/ AlgorithmForPublicKey(key) # alg THEN {}
    ELSE {[key |-> key, msg |-> msg]}

RegistryVerify(alg, key, sig, msg) ==
    /\ alg \in Algorithm
    /\ AlgorithmForPublicKey(key) = alg
    /\ sig = [key |-> key, msg |-> msg]

-----------------------------------------------------------------------------
(* Package identity/jwk.                                                   *)

rsaKeyAlgorithms == {"PS256", "PS384", "PS512", "RS256", "RS384", "RS512"}

\* The scheme and the hash an RSA "alg" selects.
rsaAlgParams(alg) ==
    CHOOSE p \in {"pss", "pkcs1"} \X {"SHA256", "SHA384", "SHA512"} :
        AlgorithmForPublicKey([type |-> p[1], param |-> p[2], mat |-> ""]) = alg

Jwk(kty, crv, alg, mat) ==
    [kty |-> kty, crv |-> crv, alg |-> alg, mat |-> mat, good |-> TRUE, d |-> FALSE]

MarshalJWK(key) ==
    LET alg == AlgorithmForPublicKey(key) IN
    CASE key.type = "ed25519" -> Jwk("OKP", "Ed25519", "EdDSA", key.mat)
      [] key.type = "x25519" -> Jwk("OKP", "X25519", "", key.mat)
      [] key.type = "secp256k1" -> Jwk("EC", "secp256k1", alg, key.mat)
      [] key.type = "ecdsa" -> Jwk("EC", key.param, alg, key.mat)
      [] key.type \in {"pss", "pkcs1"} -> Jwk("RSA", "", alg, key.mat)

\* The key, when alg is absent or the one the curve wants, and the library
\* reads the material.
OfCurve(m, want, type, param) ==
    IF m.alg \notin {"", want} THEN Err("ErrAlgMismatch")
    ELSE IF ~m.good THEN Err("ErrInvalidMember")
    ELSE Ok([type |-> type, param |-> param, mat |-> m.mat])

unmarshalOKPPublic(m) ==
    IF m.crv = "Ed25519" THEN OfCurve(m, "EdDSA", "ed25519", "")
    ELSE IF m.crv = "X25519" THEN OfCurve(m, "ECDH-ES", "x25519", "")
    ELSE Err("ErrUnsupportedCrv")

unmarshalECPublic(m) ==
    IF m.crv = "secp256k1" THEN OfCurve(m, "ES256K", "secp256k1", "")
    ELSE IF m.crv = "P-256" THEN OfCurve(m, "ES256", "ecdsa", "P-256")
    ELSE IF m.crv = "P-384" THEN OfCurve(m, "ES384", "ecdsa", "P-384")
    ELSE Err("ErrUnsupportedCrv")

\* alg is what tells PSS from PKCS #1 v1.5, and is required.
unmarshalRSAPublic(m) ==
    IF m.alg = "" THEN Err("ErrAlgRequired")
    ELSE IF m.alg \notin rsaKeyAlgorithms THEN Err("ErrAlgMismatch")
    ELSE IF ~m.good THEN Err("ErrInvalidMember")
    ELSE LET p == rsaAlgParams(m.alg) IN
         Ok([type |-> p[1], param |-> p[2], mat |-> m.mat])

UnmarshalJWK(m) ==
    IF m.kty = "" THEN Err("ErrMissingMember")
    ELSE IF m.d THEN Err("ErrInvalidMember")
    ELSE IF m.alg = "none" THEN Err("ErrAlgNone")
    ELSE IF m.kty = "OKP" THEN unmarshalOKPPublic(m)
    ELSE IF m.kty = "EC" THEN unmarshalECPublic(m)
    ELSE IF m.kty = "RSA" THEN unmarshalRSAPublic(m)
    ELSE Err("ErrUnsupportedKty")
=============================================================================
