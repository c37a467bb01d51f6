------------------------------ MODULE Tokens ------------------------------
(***************************************************************************)
(* Compact JWS and JWT claims: identity/jwk/jws.go and auth/claims.  One   *)
(* issuer signs claims, another signs payloads of its own; a token may be  *)
(* changed on its way; a verifier holds a key and options, and time passes *)
(* before it looks.  There are two verifiers, jwkutil.Verify and           *)
(* claims.Verify, over the same signature check.                           *)
(*                                                                         *)
(* A JSON value is <<"str", s>>, <<"num", h>> in half seconds, since a     *)
(* NumericDate may be fractional, <<"arr", values>> or <<"obj">>.  A       *)
(* payload is [kind, members]: an object, null, or some other value.  A    *)
(* token is [shape, header, payload, sig]: shape says how the segments     *)
(* and the header parse, header is [alg, crit].  Claims is the Go struct,  *)
(* with 0, "" and <<>> for what is absent; sub and jti are carried like    *)
(* iss, without a check of their own, and are left out.                    *)
(***************************************************************************)
EXTENDS SigningKeys

CONSTANTS
    TokenKey,       \* the keys that sign and verify
    ClaimSet,       \* the claims that are issued
    ForeignPayload, \* the payloads of another issuer
    TokenOption,    \* options: [pin, allowed, iss, aud, required]
    MaxClock        \* bound on the clock, in seconds

\* The keys are of the types that have a JWK.  A time is below 2^53 seconds, so
\* that a JSON number holds it exactly; a JSON value has the form given above.
ASSUME TokenAssumption ==
    /\ \A k \in TokenKey :
         /\ k = [type |-> k.type, param |-> k.param, mat |-> k.mat]
         /\ \/ k.type \in {"ed25519", "x25519", "secp256k1"} /\ k.param = ""
            \/ k.type = "ecdsa" /\ k.param \in {"P-256", "P-384"}
            \/ k.type \in {"pss", "pkcs1"} /\ k.param \in {"SHA256", "SHA384", "SHA512"}
    /\ \A c \in ClaimSet :
         /\ c = [iss |-> c.iss, aud |-> c.aud, exp |-> c.exp, nbf |-> c.nbf, iat |-> c.iat,
                 extra |-> [n \in DOMAIN c.extra |-> c.extra[n]]]
         /\ c.exp \in Int /\ c.nbf \in Int /\ c.iat \in Int
         /\ Len(c.aud) \in Nat /\ c.aud = [i \in 1..Len(c.aud) |-> c.aud[i]]
    /\ \A p \in ForeignPayload :
         /\ p.kind \in {"object", "null", "other"}
         /\ \A n \in DOMAIN p.members :
              LET v == p.members[n] IN
              /\ v[1] = "str" => v = <<"str", v[2]>>
              /\ v[1] = "num" => v[2] \in Int
              /\ v[1] = "arr" => Len(v[2]) \in Nat /\ DOMAIN v[2] = 1..Len(v[2])

reservedClaims == {"iss", "sub", "aud", "exp", "nbf", "iat", "jti"}

Object(members) == [kind |-> "object", members |-> members]

-----------------------------------------------------------------------------
(* Claims and their JSON.                                                  *)

\* A registered name in Extra is refused, when signing and when marshalling.
ValidateClaims(c) == DOMAIN c.extra \cap reservedClaims = {}

\* The zero value of a field is its absence.
Has(c, n) ==
    IF n = "aud" THEN c.aud # <<>>
    ELSE IF n = "iss" THEN c.iss # ""
    ELSE c[n] # 0

\* One audience is a string.
ClaimValue(c, n) ==
    IF n = "iss" THEN <<"str", c.iss>>
    ELSE IF n # "aud" THEN <<"num", 2 * c[n]>>
    ELSE IF Len(c.aud) = 1 THEN <<"str", c.aud[1]>>
    ELSE <<"arr", [i \in DOMAIN c.aud |-> <<"str", c.aud[i]>>]>>

\* What is present is written, then Extra over it.
MarshalClaims(c) ==
    LET names == {n \in {"iss", "aud", "exp", "nbf", "iat"} : Has(c, n)}
    IN  Object([n \in names \cup DOMAIN c.extra |->
                   IF n \in DOMAIN c.extra THEN c.extra[n] ELSE ClaimValue(c, n)])

\* int64(f) rounds toward zero.
ToInt64(half) == IF half >= 0 THEN half \div 2 ELSE -((-half) \div 2)

Member(p, n) == IF n \in DOMAIN p.members THEN p.members[n] ELSE <<"absent">>

\* The strings among the entries of an array, in their order: the k-th is the
\* one with k strings up to it.
Strings(entries) ==
    LET at == {i \in DOMAIN entries : entries[i][1] = "str"}
        nth(k) == CHOOSE i \in at : Cardinality({j \in at : j <= i}) = k
    IN  [k \in 1..Cardinality(at) |-> entries[nth(k)][2]]

AsString(v) == IF v[1] = "str" THEN v[2] ELSE ""
AsTime(v) == IF v[1] = "num" THEN ToInt64(v[2]) ELSE 0
AsAudience(v) ==
    IF v[1] = "str" THEN <<v[2]>> ELSE IF v[1] = "arr" THEN Strings(v[2]) ELSE <<>>

\* A member of another type than the field's is ignored; so is an audience
\* entry that is not a string.
UnmarshalClaims(p) ==
    [iss |-> AsString(Member(p, "iss")),
     aud |-> AsAudience(Member(p, "aud")),
     exp |-> AsTime(Member(p, "exp")),
     nbf |-> AsTime(Member(p, "nbf")),
     iat |-> AsTime(Member(p, "iat")),
     extra |-> [n \in DOMAIN p.members \ reservedClaims |-> p.members[n]]]

-----------------------------------------------------------------------------
(* The JWS.                                                                *)

SigningInput(header, payload) == [header |-> header, payload |-> payload]

NoToken == [shape |-> "none", header |-> [alg |-> "", crit |-> FALSE],
            payload |-> [kind |-> "other"], sig |-> [key |-> NoKey]]

\* The token, or none when Sign returns an error: alg is required, is
\* registered and is the key's.  Every caller in the repository leaves
\* Headers empty, and so does the model.
SignJWS(payload, key, alg) ==
    LET header == [alg |-> alg, crit |-> FALSE]
        sigs == RegistrySign(alg, key, SigningInput(header, payload))
    IN  IF sigs = {} THEN NoToken
        ELSE [shape |-> "compact", header |-> header, payload |-> payload,
              sig |-> CHOOSE sig \in sigs : TRUE]

\* claims.Sign: the whitelist binds the algorithm given and the one derived.
SignClaims(c, key, pin, allowed) ==
    LET alg == IF pin = "" THEN AlgorithmForPublicKey(key) ELSE pin IN
    IF ~ValidateClaims(c) \/ pin = "none" \/ alg = "" THEN NoToken
    ELSE IF allowed # {} /\ alg \notin allowed THEN NoToken
    ELSE SignJWS(MarshalClaims(c), key, alg)

\* Three canonical segments, no repeated header member, no crit, an alg.
parseCompact(t) ==
    IF t.shape \in {"none", "dots"} THEN "ErrMalformedJWS"
    ELSE IF t.shape = "padded" THEN "ErrInvalidSegment"
    ELSE IF t.shape = "repeated" THEN "ErrDuplicateMember"
    ELSE IF t.header.crit THEN "ErrCritUnsupported"
    ELSE IF t.header.alg = "" THEN "ErrMissingMember"
    ELSE IF t.header.alg = "none" THEN "ErrAlgNone"
    ELSE "ok"

\* The key decides the algorithm; the caller may pin it again.
VerifyJWSSignature(t, key, pin) ==
    /\ parseCompact(t) = "ok"
    /\ AlgorithmForPublicKey(key) # ""
    /\ t.header.alg = AlgorithmForPublicKey(key)
    /\ pin = "" \/ t.header.alg = pin
    /\ RegistryVerify(t.header.alg, key, t.sig, SigningInput(t.header, t.payload))

\* jwkutil: a string, or an array all of whose entries are strings.
jwsAudienceContains(v, expected) ==
    \/ v[1] = "str" /\ v[2] \in expected
    \/ /\ v[1] = "arr"
       /\ \A i \in DOMAIN v[2] : v[2][i][1] = "str"
       /\ \E i \in DOMAIN v[2] : v[2][i][2] \in expected

\* Time claims are checked when present, and must then be numbers.
checkClaims(p, opts, now) ==
    LET plain == opts.iss = "" /\ opts.aud = {}
        present == {n \in {"exp", "nbf", "iat"} : Member(p, n)[1] # "absent"}
        at(n) == ToInt64(Member(p, n)[2])
    IN  IF p.kind # "object" THEN plain
        ELSE /\ \A n \in present :
                  /\ Member(p, n)[1] = "num"
                  /\ IF n = "exp" THEN now < at(n) ELSE now >= at(n)
             /\ opts.iss = "" \/ Member(p, "iss") = <<"str", opts.iss>>
             /\ opts.aud = {} \/ jwsAudienceContains(Member(p, "aud"), opts.aud)

VerifyJWS(t, key, opts, now) ==
    VerifyJWSSignature(t, key, opts.pin) /\ checkClaims(t.payload, opts, now)

-----------------------------------------------------------------------------
(* claims.Verify.                                                          *)

\* A name outside the registered ones is looked up in Extra.
claimPresent(c, n) ==
    IF n \in {"iss", "aud", "exp", "nbf", "iat"} THEN Has(c, n) ELSE n \in DOMAIN c.extra

\* Mutant: exp is the last second of validity.
TimeValidLate(c, now) ==
    /\ c.exp = 0 \/ now <= c.exp
    /\ c.nbf = 0 \/ now >= c.nbf
    /\ c.iat = 0 \/ now >= c.iat

\* A zero time is an absent one.
TimeValid(c, now) ==
    /\ c.exp = 0 \/ now < c.exp
    /\ c.nbf = 0 \/ now >= c.nbf
    /\ c.iat = 0 \/ now >= c.iat

\* Read before the signature is checked, and without its strictness.
tokenAlgorithm(t) ==
    IF t.shape \in {"none", "dots", "padded"} THEN "ErrMalformedJWT" ELSE t.header.alg

\* The signature, then the payload: null leaves every field zero, another
\* value that is not an object is an error.
VerifyClaims(t, key, opts, now) ==
    LET c == IF t.payload.kind = "object" THEN UnmarshalClaims(t.payload)
             ELSE UnmarshalClaims(Object(<<>>))
    IN  /\ tokenAlgorithm(t) \notin {"ErrMalformedJWT", "none"}
        /\ opts.allowed = {} \/ t.header.alg \in opts.allowed
        /\ VerifyJWSSignature(t, key, opts.pin)
        /\ t.payload.kind \in {"object", "null"}
        /\ TimeValid(c, now)
        /\ opts.iss = "" \/ c.iss = opts.iss
        /\ opts.aud = {} \/ \E i \in DOMAIN c.aud : c.aud[i] \in opts.aud
        /\ \A n \in opts.required : claimPresent(c, n)
        /\ ValidateClaims(c)

VerifyClaimsWithJWK(t, jwk, opts, now) ==
    LET parsed == UnmarshalJWK(jwk) IN
    parsed.err = "ok" /\ VerifyClaims(t, parsed.key, opts, now)

-----------------------------------------------------------------------------
VARIABLES
    clock,      \* time.Now().Unix()
    token,      \* the token the verifier receives
    issued,     \* the claims it was signed for, <<>> for another issuer's
    verdict     \* what the two verifiers last answered

tokenVars == <<clock, token, issued, verdict>>

NoVerdict == [jws |-> FALSE, claims |-> FALSE, key |-> NoKey, opts |-> <<>>]

TokenInit ==
    /\ clock = 0
    /\ token = NoToken
    /\ issued = <<>>
    /\ verdict = NoVerdict

IssueClaims(c, key, pin, allowed) ==
    /\ token = NoToken
    /\ token' = SignClaims(c, key, pin, allowed)
    /\ token' # NoToken
    /\ issued' = <<c>>
    /\ UNCHANGED <<clock, verdict>>

IssuePayload(p, key) ==
    /\ token = NoToken
    /\ token' = SignJWS(p, key, AlgorithmForPublicKey(key))
    /\ token' # NoToken
    /\ UNCHANGED <<clock, issued, verdict>>

\* The ways a token can arrive other than it was sent (external).
AlteredTokens(t) ==
    {[t EXCEPT !.shape = s] : s \in {"dots", "padded", "repeated"}}
      \cup {[t EXCEPT !.header.crit = TRUE]}
      \cup {[t EXCEPT !.header.alg = a] : a \in {"", "none", "EdDSA", "PS256", "RS256"}}
      \cup {[t EXCEPT !.payload = p] : p \in ForeignPayload}

Alter ==
    /\ token # NoToken
    /\ verdict = NoVerdict
    /\ token.sig.msg = SigningInput(token.header, token.payload)
    /\ token.shape = "compact"
    /\ token' \in AlteredTokens(token)
    /\ UNCHANGED <<clock, issued, verdict>>

Tick ==
    /\ clock < MaxClock
    /\ clock' = clock + 1
    /\ verdict' = NoVerdict
    /\ UNCHANGED <<token, issued>>

\* Both verifiers are asked at one instant, with one key and one set of
\* options; claims.Verify gets the key as a JWK.
CheckToken(key, opts) ==
    /\ token # NoToken
    /\ verdict = NoVerdict
    /\ verdict' = [jws |-> VerifyJWS(token, key, opts, clock),
                   claims |-> VerifyClaimsWithJWK(token, MarshalJWK(key), opts, clock),
                   key |-> key, opts |-> opts]
    /\ UNCHANGED <<clock, token, issued>>

TokenNext ==
    \/ \E c \in ClaimSet, key \in TokenKey, o \in TokenOption :
         IssueClaims(c, key, o.pin, o.allowed)
    \/ \E p \in ForeignPayload, key \in TokenKey : IssuePayload(p, key)
    \/ Alter
    \/ Tick
    \/ \E key \in TokenKey, o \in TokenOption : CheckToken(key, o)

TokenSpec == TokenInit /\ [][TokenNext]_tokenVars

-----------------------------------------------------------------------------
\* The payloads that the two verifiers read differently: a value that is no
\* object, a time that is no number or an expiry that rounds to zero, and an
\* audience with an entry that is no string.
ReadDifferently(p) ==
    \/ p.kind = "other"
    \/ /\ p.kind = "object"
       /\ \/ \E n \in {"exp", "nbf", "iat"} : Member(p, n)[1] \notin {"absent", "num"}
          \/ Member(p, "exp")[1] = "num" /\ ToInt64(Member(p, "exp")[2]) = 0
          \/ /\ Member(p, "aud")[1] = "arr"
             /\ \E i \in DOMAIN Member(p, "aud")[2] : Member(p, "aud")[2][i][1] # "str"

\* A verifier accepts only what the key's holder signed, under the key's own
\* algorithm, and unchanged; claims.Verify then returns the claims that
\* claims.Sign was given, inside their window.  Without a whitelist or
\* required claims, claims.Verify and jwkutil.Verify give the same answer at
\* every instant, except on a payload they read differently, which claims.Sign
\* never writes.
VerifiersAgree ==
    /\ verdict.jws \/ verdict.claims =>
         /\ token.shape = "compact"
         /\ token.sig = [key |-> verdict.key, msg |-> SigningInput(token.header, token.payload)]
         /\ token.header.alg = AlgorithmForPublicKey(verdict.key)
    /\ verdict.claims /\ issued # <<>> =>
         LET c == issued[1] IN
         /\ UnmarshalClaims(token.payload) = c
         /\ c.exp = 0 \/ clock < c.exp
         /\ clock >= c.nbf /\ clock >= c.iat
    /\ verdict.jws # verdict.claims =>
         \/ verdict.opts.allowed # {}
         \/ verdict.opts.required # {}
         \/ issued = <<>> /\ ReadDifferently(token.payload)
=============================================================================
