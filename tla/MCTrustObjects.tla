-------------------------- MODULE MCTrustObjects ---------------------------
(***************************************************************************)
(* The trust objects in one instance: the verification engine, signed      *)
(* objects, the key binder and signed tokens.  The five parts share no     *)
(* variable and each invariant reads the variables of one part, so a       *)
(* behaviour moves one part and leaves the others where they began.        *)
(***************************************************************************)
EXTENDS MCVerificationEngine, SignedObjects, KeyBinding, Tokens

VARIABLE part

vars == <<verifyVars, lifecycleVars, transportVars, bindingVars, tokenVars, part>>

Key(type, param, mat) == [type |-> type, param |-> param, mat |-> mat]
ed == Key("ed25519", "", "a")
k1key == Key("secp256k1", "", "b")
p256 == Key("ecdsa", "P-256", "c")
pss == Key("pss", "SHA256", "d")
pkcs1 == Key("pkcs1", "SHA256", "d")

-----------------------------------------------------------------------------
MCSigner ==
    {[key |-> ed, path |-> "local"], [key |-> k1key, path |-> "jose"],
     [key |-> k1key, path |-> "evm"]}
AllAlgorithmOf == MCAlgorithmOf @@ [k \in {ed, k1key} |-> AlgorithmForPublicKey(k)]

MCRootDraft ==
    {[subject |-> "root", parent |-> Nil, caps |-> {"attest", "sign"},
      scope |-> Scope({"r1", "r2"}, limit), validity |-> Window(0, 4), maxDepth |-> 2,
      status |-> "active", alg |-> Nil, keyId |-> Nil, sig |-> Nil] : limit \in {4, 5}}

\* One specification within the root's bounds and one beyond them.
MCDelegationSpec ==
    {[subject |-> "leaf", caps |-> {"attest"}, scope |-> Scope(res, 4),
      validity |-> Window(1, 3), maxDepth |-> 1] : res \in {{"r1"}, {"r3"}}}

At(half, zone) == [half |-> half, zone |-> zone]

MCDraft ==
    LET base == [issuer |-> "leaf", authorityRef |-> "ref", capability |-> "attest",
                 claim |-> "claim", evidence |-> <<1>>, keyId |-> "id0", keyVersion |-> 1,
                 validity |-> Window(At(2, 0), At(8, 0)), issuedAt |-> At(2, 0),
                 status |-> "active", alg |-> Nil, sig |-> Nil]
    IN  {[base EXCEPT !.issuedAt = t, !.evidence = e] :
            t \in {At(2, 0), At(3, 0), At(-3, 0), At(2, 1)}, e \in {Nil, <<>>, <<1>>}}
        \cup {[base EXCEPT !.validity.notAfter = t, !.keyVersion = v] :
            t \in {At(8, 0), At(9, 0)}, v \in {0, 5, 12}}
        \cup {[base EXCEPT !.issuer = i, !.status = s] :
            i \in {Nil, "leaf"}, s \in {"active", "revoked", "unset", "other"}}

-----------------------------------------------------------------------------
Method(id, type, account, multibase, jwk) ==
    [id |-> id, type |-> type, account |-> account, multibase |-> multibase, jwk |-> jwk]
Raw(prefix, len, mat, points) ==
    [prefix |-> prefix, decodes |-> TRUE, len |-> len, mat |-> mat, points |-> points]

\* Bytes that are a point of both curves, and bytes that are one of one.
both == Raw("z", 33, "b", {"ES256K", "ES256"})

MCMethod ==
    {Method(<<"k">>, t, FALSE, both, NoJwk) :
        t \in {<<"none", "">>, <<"suite", "JsonWebKey2020">>, <<"jose", "ES256K">>,
               <<"jose2020", "ES256">>, <<"cose", -47>>, <<"cose", -257>>, <<"jose", "other">>}}
    \cup {Method(<<"s1", "k">>, t, TRUE, both, NoJwk) :
        t \in {<<"suite", "EcdsaSecp256k1RecoveryMethod2020">>,
               <<"suite", "EcdsaSecp256r1VerificationKey2019">>}}
    \cup {Method(<<"k">>, <<"suite", "Ed25519VerificationKey2020">>, FALSE,
                 Raw(p, 32, "a", {"EdDSA"}), NoJwk) : p \in {"z", "m"}}
    \cup {Method(<<"k">>, <<"suite", "RsaVerificationKey2018">>, FALSE, NoMultibase,
                 Jwk("RSA", "", a, "d")) : a \in {"", "PS256", "RS256", "none"}}
    \cup {Method(<<"k">>, t, FALSE, NoMultibase, Jwk("RSA", "", "", "d")) :
            t \in {<<"jose", "PS256">>, <<"jose", "RS256">>}}
    \cup {Method(<<"k">>, <<"suite", "JsonWebKey2020">>, FALSE, NoMultibase, j) :
            j \in {MarshalJWK(ed), MarshalJWK(p256), MarshalJWK(Key("x25519", "", "a")),
                   [MarshalJWK(ed) EXCEPT !.good = FALSE], [MarshalJWK(ed) EXCEPT !.d = TRUE],
                   Jwk("EC", "secp256k1", "ES256", "b"), Jwk("oct", "", "", "b")}}
    \cup {Method(<<"k">>, <<"none", "">>, FALSE, NoMultibase, NoJwk)}

MCSubject == {"s1"}
MCKeyID == {<<"k">>}
MCPublicKey == {ed, k1key, Key("ecdsa", "P-256", "b"), p256, pss, pkcs1}
MCDocument ==
    {[id |-> "s1", methods |-> <<m>>] : m \in MCMethod}
    \cup {[id |-> "s1", methods |-> <<Method(<<"k">>, <<"none", "">>, FALSE, NoMultibase, NoJwk), m>>] :
            m \in {Method(<<"other">>, <<"none", "">>, FALSE, both, NoJwk),
                   Method(<<"k">>, <<"jose", "ES256K">>, FALSE, both, NoJwk)}}

-----------------------------------------------------------------------------
MCTokenKey == {ed, pss, pkcs1, Key("x25519", "", "a")}

\* An Extra that holds a registered name is among them.
MCClaimSet ==
    {[iss |-> i, aud |-> a, exp |-> x, nbf |-> n, iat |-> 0, extra |-> <<>>] :
        i \in {"", "i"}, a \in {<<>>, <<"u", "v">>}, x \in {0, 2}, n \in {0, 1}}
    \cup {[iss |-> "i", aud |-> <<"u">>, exp |-> 2, nbf |-> 0, iat |-> n, extra |-> r] :
        n \in {0, 1}, r \in {[role |-> <<"str", "x">>], [exp |-> <<"num", 4>>]}}

MCForeignPayload ==
    {Object([exp |-> v]) : v \in {<<"num", 0>>, <<"num", 1>>, <<"num", 3>>, <<"num", 4>>,
                                  <<"num", -3>>, <<"str", "x">>}}
    \cup {Object([nbf |-> v]) : v \in {<<"num", 3>>, <<"num", -1>>, <<"obj">>}}
    \cup {Object([iat |-> <<"num", 3>>, role |-> <<"obj">>])}
    \cup {Object([aud |-> <<"arr", a>>, iss |-> v]) :
            a \in {<<>>, <<<<"str", "u">>>>, <<<<"num", 2>>, <<"str", "u">>>>},
            v \in {<<"str", "i">>, <<"num", 2>>}}
    \cup {[kind |-> k, members |-> <<>>] : k \in {"null", "other"}}

MCTokenOption ==
    {[pin |-> p, allowed |-> {}, iss |-> i, aud |-> a, required |-> {}] :
        p \in {"", "EdDSA"}, i \in {"", "i"}, a \in {{}, {"u"}}}
    \cup {[pin |-> "none", allowed |-> {}, iss |-> "", aud |-> {}, required |-> {}]}
    \cup {[pin |-> "", allowed |-> w, iss |-> "", aud |-> {}, required |-> r] :
        w \in {{}, {"EdDSA"}}, r \in {{"exp"}, {"role"}}}

-----------------------------------------------------------------------------
\* A part at rest begins in one state.
Init ==
    /\ part \in {"verification", "lifecycle", "transport", "binding", "tokens"}
    /\ \/ part = "verification"
       \/ /\ part # "verification"
          /\ in = [Build(Base) EXCEPT !.chain = <<>>]
          /\ checker = FALSE
          /\ wall = CHOOSE t \in Time : TRUE
    /\ VerifyInit
    /\ \/ part = "transport"
       \/ part # "transport" /\ att = CHOOSE a \in Draft : TRUE
    /\ TransportInit
    /\ \/ part = "binding"
       \/ part # "binding" /\ published = [s \in Subject |-> CHOOSE d \in Document : TRUE]
    /\ BindingInit
    /\ LifecycleInit
    /\ part # "lifecycle" => authority.root = CHOOSE r \in RootDraft : TRUE
    /\ TokenInit

Next ==
    /\ UNCHANGED part
    /\ \/ /\ part = "verification"
          /\ VerifyNext
          /\ UNCHANGED <<lifecycleVars, transportVars, bindingVars, tokenVars>>
       \/ /\ part = "lifecycle"
          /\ LifecycleNext
          /\ UNCHANGED <<verifyVars, transportVars, bindingVars, tokenVars>>
       \/ /\ part = "transport"
          /\ TransportNext
          /\ UNCHANGED <<verifyVars, lifecycleVars, bindingVars, tokenVars>>
       \/ /\ part = "binding"
          /\ BindingNext
          /\ UNCHANGED <<verifyVars, lifecycleVars, transportVars, tokenVars>>
       \/ /\ part = "tokens"
          /\ TokenNext
          /\ UNCHANGED <<verifyVars, lifecycleVars, transportVars, bindingVars>>

Spec == Init /\ [][Next]_vars
=============================================================================
