SPECIFICATION Spec
CONSTANTS
    Handler = {h1, h2}
    Token = {t1, t2, t3}
    Family = {f1, f2}
    Code = {c1}
    User = {u1, u2}
    Client = {cl1, cl2}
    URI = {uri1, uri2}
    Verifier = {v1, v2}
    None = None
    c1 = c1  u1 = u1  u2 = u2  v1 = v1  cl1 = cl1  cl2 = cl2  uri1 = uri1
    AuthCode <- MCAuthCode
INVARIANTS TypeOK AtMostOneLiveToken SingleExchange SubjectPreserved IndInv
PROPERTIES DeadFamilyStaysDead ReuseKillsFamily FamiliesRefined
SYMMETRY Symmetry
VIEW NoOutcome
