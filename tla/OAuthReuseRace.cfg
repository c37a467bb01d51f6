SPECIFICATION Spec
CONSTANTS
    Handler = {h1, h2}
    Token = {t1, t2, t3}
    Family = {f1}
    Code = {}
    User = {u1}
    Client = {cl1}
    URI = {uri1}
    Verifier = {v1}
    None = None
    c1 = c1  u1 = u1  u2 = u2  v1 = v1  cl1 = cl1  cl2 = cl2  uri1 = uri1
    AuthCode <- MCAuthCode
INVARIANTS ReuseRevokesEntireFamily
