------------------------ MODULE MCVerificationEngine ------------------------
(***************************************************************************)
(* VerificationEngine on chains of up to three hops.  Every input is the   *)
(* valid one with a few fields changed before it is signed and linked, or  *)
(* tampered with afterwards.                                               *)
(***************************************************************************)
EXTENDS VerificationEngine, TLC

CONSTANTS k1, k2, k3, k4

MCAlgorithmOf == (k1 :> "EdDSA") @@ (k2 :> "EdDSA") @@ (k3 :> "ES256") @@ (k4 :> "ES256K")

MCDim == {"resources", "actions"}

Items(res) == [d \in MCDim |-> IF d = "resources" THEN res ELSE {}]
Scope(res, limit) ==
    [items |-> Items(res), window |-> Nil, monetary |-> Nil,
     quantity |-> IF limit = Nil THEN Nil ELSE [unit |-> "operations", limit |-> limit]]
Window(from, to) == [notBefore |-> from, notAfter |-> to]

Sign(auth, key) ==
    LET meta == [auth EXCEPT !.alg = AlgorithmOf[key], !.keyId = key] IN
    [meta EXCEPT !.sig = Signature(key, CanonicalHash(meta))]

Authority(subject, parent, caps, scope, window, depth, status) ==
    [subject |-> subject, parent |-> parent, caps |-> caps, scope |-> scope,
     validity |-> window, maxDepth |-> depth, status |-> status,
     alg |-> Nil, keyId |-> Nil, sig |-> Nil]

\* The fields that the families of inputs below vary.
Base ==
    [hops |-> 3, rootRes |-> {}, rootLimit |-> Nil, midRes |-> {"r1", "r2"},
     leafRes |-> {"r1"}, leafLimit |-> Nil, claimRes |-> {"r1"}, claimLimit |-> Nil,
     rootDepth |-> Nil, midDepth |-> 1, leafDepth |-> 0,
     leafCaps |-> {"attest"}, cap |-> "attest",
     midStatus |-> "active", rootTo |-> 4, leafTo |-> 4, attTo |-> 4, attStatus |-> "active",
     now |-> 2, tamper |-> "none", history |-> {}, resolver |-> TRUE,
     evidence |-> <<1, 2>>, content |-> (1 :> TRUE) @@ (2 :> TRUE),
     commitments |-> <<TRUE>>]

Other == CanonicalHash(Authority("other", Nil, {"attest", "sign"}, Scope({}, Nil),
                                 Window(0, 4), Nil, "active"))

Build(p) ==
    LET root == Sign(Authority("root", IF p.tamper = "rootParent" THEN Other ELSE Nil,
                               {"attest", "sign"}, Scope(p.rootRes, p.rootLimit),
                               Window(0, p.rootTo), p.rootDepth, "active"), k1)
        mid == Sign(Authority("mid", CanonicalHash(root), {"attest", "sign"},
                              Scope(p.midRes, p.rootLimit), Window(0, 4), p.midDepth,
                              p.midStatus), k2)
        above == CASE p.hops = 3 -> <<[authority |-> mid, key |-> k2],
                                      [authority |-> root, key |-> k1]>>
                   [] p.hops = 2 -> <<[authority |-> root, key |-> k1]>>
                   [] p.hops = 1 -> <<>>
        leaf == Sign(Authority("leaf", IF p.tamper = "link" THEN Other
                                       ELSE IF above = <<>> THEN Nil ELSE CanonicalHash(above[1].authority),
                               p.leafCaps, Scope(p.leafRes, p.leafLimit),
                               Window(1, p.leafTo), p.leafDepth, "active"), k3)
        last == IF p.tamper = "leafProof" THEN [leaf EXCEPT !.sig.key = k1]
                ELSE IF p.tamper = "leafNil" THEN Nil ELSE leaf
        att == [issuer |-> IF p.tamper = "issuer" THEN "mid" ELSE "leaf", keyId |-> k4,
                authorityRef |-> CanonicalHash(leaf), capability |-> p.cap,
                claim |-> [wellFormed |-> p.tamper # "claim",
                           scope |-> Scope(p.claimRes, p.claimLimit),
                           validity |-> Window(1, p.attTo)],
                status |-> p.attStatus,
                issuedAt |-> IF p.tamper = "issuedAt" THEN ZeroTime ELSE 1,
                evidenceValid |-> p.tamper # "evidence",
                validity |-> IF p.tamper = "noWindow" THEN Window(ZeroTime, ZeroTime)
                             ELSE Window(1, p.attTo),
                keyVersion |-> 1, evidence |-> p.evidence, alg |-> AlgorithmOf[k4],
                sig |-> Nil]
        signed == [att EXCEPT !.sig = Signature(IF p.tamper = "sig" THEN k3 ELSE k4, att)]
    IN  [attestation |-> IF p.tamper = "nil" THEN Nil ELSE signed,
         signingKey |-> IF p.tamper = "wrongKey" THEN k3 ELSE k4,
         chain |-> <<[authority |-> last, key |-> k3]>> \o above,
         resolver |-> IF p.resolver = Nil THEN Nil
                      ELSE IF p.resolver THEN ("leaf" :> (k4 :> k4) @@ (k3 :> k3)) @@ ("root" :> (k1 :> k1))
                      ELSE ("leaf" :> (k4 :> k3)),
         keyVersions |-> p.history, evidence |-> p.content,
         commitments |-> p.commitments, now |-> p.now]

Entry(v, at, rev) == [version |-> v, boundAt |-> at, revokedAt |-> rev]

Tampers == {"none", "nil", "claim", "sig", "wrongKey", "issuer", "leafProof",
            "leafNil", "link", "rootParent", "issuedAt", "evidence", "noWindow"}

ScopeInputs ==
    {Build([Base EXCEPT !.rootRes = a, !.midRes = b, !.leafRes = l, !.claimRes = c]) :
        a \in {{}, {"r1"}, {"r1", "r2"}}, b \in {{}, {"r1"}, {"r1", "r2"}},
        l \in {{}, {"r1"}, {"r2"}}, c \in {{}, {"r1"}, {"r2"}}}
    \cup {Build([Base EXCEPT !.rootLimit = a, !.leafLimit = b, !.claimLimit = c]) :
        a \in {Nil, 1}, b \in {Nil, 1, 2}, c \in {Nil, 1, 2, 9}}
    \cup {Build([Base EXCEPT !.rootLimit = 9, !.leafLimit = 1, !.claimLimit = 1])}

DepthInputs ==
    {Build([Base EXCEPT !.rootDepth = a, !.midDepth = b, !.leafDepth = c, !.hops = n,
                        !.tamper = t]) :
        a \in {Nil, 0, 1, 2}, b \in {Nil, 0, 1}, c \in {Nil, -1, 0, 1}, n \in {2, 3},
        t \in {"none", "link"}}

TimeInputs ==
    {Build([Base EXCEPT !.rootTo = a, !.leafTo = b, !.attTo = c, !.now = t, !.midStatus = s]) :
        a \in {2, 4}, b \in {2, 4}, c \in {2, 4}, t \in {Nil, 0, 2, 3},
        s \in {"active", "revoked", "superseded", "expired", "unknown"}}

TamperInputs ==
    {Build([Base EXCEPT !.tamper = t, !.resolver = r, !.leafCaps = l, !.cap = a,
                        !.attStatus = s]) :
        t \in Tampers, r \in {Nil, TRUE, FALSE}, l \in {{"attest"}, {"revoke"}},
        a \in {"attest", "sign"}, s \in {"active", "revoked"}}

HistoryInputs ==
    {Build([Base EXCEPT !.history = {Entry(1, 1, r), Entry(2, b, Nil)} \cup extra,
                        !.now = t]) :
        r \in {Nil, 2, 3}, b \in {1, 2, 3},
        extra \in {{}, {Entry(3, 0, Nil)}}, t \in {0, 1, 2, 3}}
    \cup {Build([Base EXCEPT !.history = {Entry(v, 2, r)}, !.now = t]) :
        v \in {0, 1, 2}, r \in {Nil, 2, 3}, t \in {1, 2, 3}}

EvidenceInputs ==
    {Build([Base EXCEPT !.evidence = e, !.content = c, !.commitments = m]) :
        e \in {<<>>, <<1>>, <<1, 2>>, <<2, 1>>},
        c \in {(1 :> TRUE), (1 :> TRUE) @@ (2 :> FALSE), (1 :> TRUE) @@ (2 :> TRUE)},
        m \in {<<>>, <<TRUE>>, <<TRUE, FALSE>>}}

MCInput ==
    ScopeInputs \cup DepthInputs \cup TimeInputs \cup TamperInputs
    \cup HistoryInputs \cup EvidenceInputs
    \cup {[Build(Base) EXCEPT !.chain = <<>>], [Build(Base) EXCEPT !.signingKey = Nil],
          Build([Base EXCEPT !.hops = 1])}

\* Wall-clock instants at which a call may begin.
MCTime == 1..2

\* The attestation expires between the two instants of MCTime.
FixedNowInput == {Build([Base EXCEPT !.attTo = 2, !.leafTo = 2])}
=============================================================================
