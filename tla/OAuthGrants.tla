---------------------------- MODULE OAuthGrants ----------------------------
(***************************************************************************)
(* Package auth/oauth: the password, authorization-code and refresh-token  *)
(* grants, run by concurrent request handlers over the two stores that the *)
(* embedding application provides.  A handler's step ends at each store    *)
(* call, because that is where another handler can come in between.        *)
(*                                                                         *)
(* Time is abstracted to the set of stored credentials whose ExpiresAt has *)
(* passed, and the signed access token to the success of its signing.      *)
(* A store call that returns an error may have taken effect or not: the    *)
(* interfaces do not say, and a database that times out does either.       *)
(***************************************************************************)
EXTENDS Naturals

CONSTANTS
    Handler,    \* concurrent calls of the grant functions
    Token,      \* raw refresh tokens, identified with their hashes
    Family,     \* refresh-token family identifiers
    Code,       \* authorization codes present in the code store
    User,
    Client,
    URI,
    Verifier,   \* PKCE verifiers
    AuthCode,   \* the stored record of each code
    None

\* AuthCode gives every stored code its bindings; challenge = None is the
\* empty CodeChallenge, and otherwise names the verifier that hashes to it.
AuthCodeRecord ==
    [user : User, client : Client, uri : URI,
     challenge : Verifier \cup {None}, s256 : BOOLEAN]

ASSUME AuthCodeAssumption == AuthCode \in [Code -> AuthCodeRecord]

ASSUME NoneAssumption ==
    None \notin Token \cup Code \cup Family \cup User \cup Verifier

ASSUME DisjointAssumption ==
    Token \cap (Code \cup {"unborn", "rotating", "dead"}) = {}

VARIABLES
    stored,     \* hashes with a RefreshToken record
    familyOf,   \* RefreshToken.FamilyID
    userOf,     \* RefreshToken.UserID
    revoked,    \* RefreshToken.RevokedAt # nil
    consumed,   \* AuthCode.ConsumedAt # nil
    expired,    \* time.Now() is after ExpiresAt
    pc, cred, fam, usr, outcome,    \* the handlers' local state
    origin,     \* ghost: what each stored token was exchanged for
    reused      \* ghost: families for which ErrTokenReuseDetected was returned

store == <<stored, familyOf, userOf, revoked, consumed, expired>>
local == <<pc, cred, fam, usr, outcome>>
ghost == <<origin, reused>>
vars == <<store, local, ghost>>

PC == {"idle", "consume", "revoke", "revokeFamily", "issue"}
Outcome ==
    {"none", "ok", "ErrInvalidCredentials", "ErrInvalidGrant",
     "ErrExpiredToken", "ErrInvalidClient", "ErrInvalidPKCE",
     "ErrInvalidRedirectURI", "ErrCodeConsumed", "ErrTokenReuseDetected",
     "failure"}

\* Every variable holds a value of the sort the code keeps in it.
TypeOK ==
    /\ stored \in SUBSET Token
    /\ familyOf \in [Token -> Family \cup {None}]
    /\ userOf \in [Token -> User \cup {None}]
    /\ revoked \in SUBSET stored
    /\ consumed \in SUBSET Code
    /\ expired \in SUBSET (Token \cup Code)
    /\ pc \in [Handler -> PC]
    /\ cred \in [Handler -> Token \cup Code \cup {None}]
    /\ fam \in [Handler -> Family \cup {None}]
    /\ usr \in [Handler -> User \cup {None}]
    /\ outcome \in [Handler -> Outcome]
    /\ origin \in [Token -> Token \cup Code \cup {None}]
    /\ reused \in SUBSET Family

Init ==
    /\ stored = {} /\ revoked = {} /\ consumed = {} /\ expired = {}
    /\ familyOf = [t \in Token |-> None]
    /\ userOf = [t \in Token |-> None]
    /\ pc = [h \in Handler |-> "idle"]
    /\ cred = [h \in Handler |-> None]
    /\ fam = [h \in Handler |-> None]
    /\ usr = [h \in Handler |-> None]
    /\ outcome = [h \in Handler |-> "none"]
    /\ origin = [t \in Token |-> None]
    /\ reused = {}

Live(t) == t \in stored \ revoked
InFamily(f) == {t \in stored : familyOf[t] = f}

\* The handler returns err (or "ok"), dropping its local variables.
Return(h, err) ==
    /\ pc' = [pc EXCEPT ![h] = "idle"]
    /\ cred' = [cred EXCEPT ![h] = None]
    /\ fam' = [fam EXCEPT ![h] = None]
    /\ usr' = [usr EXCEPT ![h] = None]
    /\ outcome' = [outcome EXCEPT ![h] = err]

\* The handler goes on to the store call at label, about credential c, on
\* behalf of user u and, for a rotation, of family f.
Proceed(h, label, c, f, u) ==
    /\ pc' = [pc EXCEPT ![h] = label]
    /\ cred' = [cred EXCEPT ![h] = c]
    /\ fam' = [fam EXCEPT ![h] = f]
    /\ usr' = [usr EXCEPT ![h] = u]
    /\ outcome' = [outcome EXCEPT ![h] = "none"]

GoTo(h, label) ==
    /\ pc' = [pc EXCEPT ![h] = label]
    /\ UNCHANGED <<cred, fam, usr, outcome>>

-----------------------------------------------------------------------------
(* PasswordGrant.  matches is the verdict of password.Verify.              *)

PasswordGrant(h, u, matches) ==
    /\ pc[h] = "idle"
    /\ IF matches
         THEN Proceed(h, "issue", None, None, u)
         ELSE Return(h, "ErrInvalidCredentials")
    /\ UNCHANGED <<store, ghost>>

-----------------------------------------------------------------------------
(* AuthCodeGrant.                                                          *)

\* A verifier of the right grammar hashes to the challenge under S256;
\* None stands for a verifier outside the grammar.
VerifyPKCE(verifier, ac) ==
    /\ ac.s256
    /\ verifier # None
    /\ verifier = ac.challenge

\* The first check of the looked-up record that fails, or "ok".
AuthCodeError(c, verifier, uri, client) ==
    LET ac == AuthCode[c] IN
    CASE c \in consumed -> "ErrInvalidGrant"
      [] c \notin consumed /\ c \in expired -> "ErrExpiredToken"
      [] c \notin consumed \cup expired /\ ac.client # client
            -> "ErrInvalidClient"
      [] c \notin consumed \cup expired /\ ac.client = client
            /\ ac.challenge # None /\ ~VerifyPKCE(verifier, ac)
            -> "ErrInvalidPKCE"
      [] c \notin consumed \cup expired /\ ac.client = client
            /\ (ac.challenge # None => VerifyPKCE(verifier, ac))
            /\ ac.uri # uri -> "ErrInvalidRedirectURI"
      [] OTHER -> "ok"

AuthCodeGrant(h, c, verifier, uri, client) ==
    /\ pc[h] = "idle"
    /\ LET err == AuthCodeError(c, verifier, uri, client) IN
       IF err = "ok"
         THEN Proceed(h, "consume", c, None, AuthCode[c].user)
         ELSE Return(h, err)
    /\ UNCHANGED <<store, ghost>>

\* Mutant: the single-use check is left to the snapshot of the lookup.
ConsumeBlind(h) ==
    /\ pc[h] = "consume"
    /\ consumed' = consumed \cup {cred[h]}
    /\ GoTo(h, "issue")
    /\ UNCHANGED <<stored, familyOf, userOf, revoked, expired, ghost>>

\* codeStore.Consume: an atomic check-and-set.
Consume(h) ==
    /\ pc[h] = "consume"
    /\ IF cred[h] \in consumed
         THEN /\ Return(h, "ErrCodeConsumed")
              /\ UNCHANGED consumed
         ELSE /\ consumed' = consumed \cup {cred[h]}
              /\ GoTo(h, "issue")
    /\ UNCHANGED <<stored, familyOf, userOf, revoked, expired, ghost>>

ConsumeError(h) ==
    /\ pc[h] = "consume"
    /\ consumed' \in {consumed, consumed \cup {cred[h]}}
    /\ Return(h, "failure")
    /\ UNCHANGED <<stored, familyOf, userOf, revoked, expired, ghost>>

-----------------------------------------------------------------------------
(* RefreshTokenGrant.                                                      *)

\* Mutant: the lookup's not-found error is ignored.
RefreshTokenGrantUnknown(h, t) ==
    /\ pc[h] = "idle"
    /\ IF t \in expired
         THEN Return(h, "ErrExpiredToken")
         ELSE Proceed(h, IF t \in revoked THEN "revokeFamily" ELSE "revoke",
                      t, familyOf[t], userOf[t])
    /\ UNCHANGED <<store, ghost>>

\* Mutant: the successor is issued in a family of its own.
RefreshTokenGrantNewFamily(h, t) ==
    /\ pc[h] = "idle"
    /\ t \in stored
    /\ IF t \in expired
         THEN Return(h, "ErrExpiredToken")
         ELSE Proceed(h, IF t \in revoked THEN "revokeFamily" ELSE "revoke",
                      t, None, userOf[t])
    /\ UNCHANGED <<store, ghost>>

\* GetByHash finds the record and the checks on the copy it returns run:
\* expiry first, then the revocation mark.
RefreshTokenGrant(h, t) ==
    /\ pc[h] = "idle"
    /\ t \in stored
    /\ IF t \in expired
         THEN Return(h, "ErrExpiredToken")
         ELSE Proceed(h, IF t \in revoked THEN "revokeFamily" ELSE "revoke",
                      t, familyOf[t], userOf[t])
    /\ UNCHANGED <<store, ghost>>

\* GetByHash of either store fails, or finds no record.
LookupError(h) ==
    /\ pc[h] = "idle"
    /\ Return(h, "ErrInvalidGrant")
    /\ UNCHANGED <<store, ghost>>

\* Mutant: the revocation is a plain write, not a check-and-set.
RevokeBlind(h) ==
    /\ pc[h] = "revoke"
    /\ revoked' = revoked \cup {cred[h]}
    /\ GoTo(h, "issue")
    /\ UNCHANGED <<stored, familyOf, userOf, consumed, expired, ghost>>

\* Mutant: the old token is not claimed before its successor is issued.
RevokeNothing(h) ==
    /\ pc[h] = "revoke"
    /\ GoTo(h, IF cred[h] \in revoked THEN "revokeFamily" ELSE "issue")
    /\ UNCHANGED <<store, ghost>>

\* store.Revoke: an atomic check-and-set claims the token for rotation.
Revoke(h) ==
    /\ pc[h] = "revoke"
    /\ IF cred[h] \in revoked
         THEN /\ GoTo(h, "revokeFamily")
              /\ UNCHANGED revoked
         ELSE /\ revoked' = revoked \cup {cred[h]}
              /\ GoTo(h, "issue")
    /\ UNCHANGED <<stored, familyOf, userOf, consumed, expired, ghost>>

RevokeError(h) ==
    /\ pc[h] = "revoke"
    /\ revoked' \in {revoked, revoked \cup {cred[h]}}
    /\ Return(h, "failure")
    /\ UNCHANGED <<stored, familyOf, userOf, consumed, expired, ghost>>

\* Mutant: reuse revokes the presented token alone.
RevokeFamilyOne(h) ==
    /\ pc[h] = "revokeFamily"
    /\ revoked' = revoked \cup {cred[h]}
    /\ reused' = reused \cup {fam[h]}
    /\ Return(h, "ErrTokenReuseDetected")
    /\ UNCHANGED <<stored, familyOf, userOf, consumed, expired, origin>>

RevokeFamily(h) ==
    /\ pc[h] = "revokeFamily"
    /\ revoked' = revoked \cup InFamily(fam[h])
    /\ reused' = reused \cup {fam[h]}
    /\ Return(h, "ErrTokenReuseDetected")
    /\ UNCHANGED <<stored, familyOf, userOf, consumed, expired, origin>>

\* A failed RevokeFamily may have reached some of the family's records.
RevokeFamilyError(h) ==
    /\ pc[h] = "revokeFamily"
    /\ \E some \in SUBSET InFamily(fam[h]) : revoked' = revoked \cup some
    /\ Return(h, "failure")
    /\ UNCHANGED <<stored, familyOf, userOf, consumed, expired, ghost>>

-----------------------------------------------------------------------------
(* issueTokens and issueTokensInFamily.  newID and token.Generate draw     *)
(* from a CSPRNG: the values they return have not been drawn before.       *)

IssueFamily(h, f) ==
    IF fam[h] = None THEN InFamily(f) = {} ELSE f = fam[h]

\* store.Create writes the record.
Create(h, t, f) ==
    /\ t \notin stored
    /\ IssueFamily(h, f)
    /\ stored' = stored \cup {t}
    /\ familyOf' = [familyOf EXCEPT ![t] = f]
    /\ userOf' = [userOf EXCEPT ![t] = usr[h]]
    /\ origin' = [origin EXCEPT ![t] = cred[h]]
    /\ UNCHANGED <<revoked, consumed, expired, reused>>

Issue(h, t, f) ==
    /\ pc[h] = "issue"
    /\ Create(h, t, f)
    /\ Return(h, "ok")

\* Randomness, signing or Create fails; nothing was stored.
IssueError(h) ==
    /\ pc[h] = "issue"
    /\ Return(h, "failure")
    /\ UNCHANGED <<store, ghost>>

\* Create reports an error although the record was written.
CreateError(h, t, f) ==
    /\ pc[h] = "issue"
    /\ Create(h, t, f)
    /\ Return(h, "failure")

-----------------------------------------------------------------------------
\* ExpiresAt of a stored credential passes.
Expire(c) ==
    /\ c \in (stored \cup Code) \ expired
    /\ expired' = expired \cup {c}
    /\ UNCHANGED <<stored, familyOf, userOf, revoked, consumed, local, ghost>>

Grant(h) ==
    \/ \E u \in User, matches \in BOOLEAN : PasswordGrant(h, u, matches)
    \/ \E c \in Code, v \in Verifier \cup {None}, uri \in URI, cl \in Client :
           AuthCodeGrant(h, c, v, uri, cl)
    \/ \E t \in Token : RefreshTokenGrant(h, t)
    \/ LookupError(h)

StoreCall(h) ==
    \/ Consume(h) \/ ConsumeError(h)
    \/ Revoke(h) \/ RevokeError(h)
    \/ RevokeFamily(h) \/ RevokeFamilyError(h)
    \/ \E t \in Token, f \in Family : Issue(h, t, f) \/ CreateError(h, t, f)
    \/ IssueError(h)

Next ==
    \/ \E h \in Handler : Grant(h) \/ StoreCall(h)
    \/ \E c \in Token \cup Code : Expire(c)

Spec == Init /\ [][Next]_vars

-----------------------------------------------------------------------------
(* Safety.                                                                 *)

\* However many requests race, a family has at most one unrevoked refresh
\* token (RefreshTokenGrant's claim-then-issue order, oauth.go 124-138).
AtMostOneLiveToken ==
    \A s, t \in stored :
        Live(s) /\ Live(t) /\ familyOf[s] = familyOf[t] => s = t

\* An authorization code and a refresh token each buy at most one refresh
\* token: no interleaving of Consume or Revoke lets two handlers win.
SingleExchange ==
    \A s, t \in stored :
        origin[s] = origin[t] /\ origin[s] # None => s = t

\* The user a code or token was issued to is the user of everything issued
\* in exchange for it, and rotation stays in the family.
SubjectPreserved ==
    \A t \in stored :
        /\ origin[t] \in Code => userOf[t] = AuthCode[origin[t]].user
        /\ origin[t] \in Token =>
             /\ origin[t] \in revoked
             /\ userOf[t] = userOf[origin[t]]
             /\ familyOf[t] = familyOf[origin[t]]

\* A handler that has claimed family f for rotation.
RotationOf(f) == {h \in Handler : pc[h] = "issue" /\ fam[h] = f}

\* The family has had tokens, none is usable, and no rotation is in flight.
Died(f) ==
    /\ InFamily(f) # {}
    /\ InFamily(f) \subseteq revoked
    /\ RotationOf(f) = {}

\* A family that has died stays so: no replayed token, retry or late store
\* call can claim it for rotation or give it a usable token again.
DeadFamilyStaysDead == [][\A f \in Family : Died(f) => Died(f)']_vars

\* Reporting reuse leaves the family dead, and so dead for ever, whatever the
\* handlers did since the token was looked up; the one exception is a rotation
\* that claimed the family before and has not stored its token yet.
ReuseKillsFamily ==
    [][\A h \in Handler, f \in Family :
         /\ pc[h] = "revokeFamily" /\ fam[h] = f
         /\ pc'[h] = "idle" /\ outcome'[h] = "ErrTokenReuseDetected"
         => Died(f)' \/ RotationOf(f)' # {}]_vars

-----------------------------------------------------------------------------
(* The inductive invariant behind the safety properties.                   *)

\* Every record has an owner and a family, and what was exchanged is used up.
RecordInv ==
    \A t \in stored :
        /\ familyOf[t] \in Family
        /\ userOf[t] \in User
        /\ origin[t] \in Code => origin[t] \in consumed
        /\ origin[t] \in Token => origin[t] \in revoked

\* What a handler remembers across a store call agrees with the store.
HandlerInv ==
    \A h \in Handler :
        /\ pc[h] \in {"revoke", "revokeFamily"} =>
             /\ cred[h] \in stored
             /\ fam[h] = familyOf[cred[h]]
             /\ usr[h] = userOf[cred[h]]
        /\ pc[h] = "consume" =>
             /\ cred[h] \in Code
             /\ fam[h] = None
             /\ usr[h] = AuthCode[cred[h]].user
        /\ pc[h] = "issue" =>
             /\ usr[h] \in User
             /\ \/ cred[h] = None /\ fam[h] = None
                \/ /\ cred[h] \in consumed
                   /\ fam[h] = None
                   /\ usr[h] = AuthCode[cred[h]].user
                \/ /\ cred[h] \in revoked
                   /\ fam[h] = familyOf[cred[h]]
                   /\ usr[h] = userOf[cred[h]]

\* A handler about to issue is the only one to have claimed its credential,
\* nothing was issued for the credential yet, and the family it rotates has
\* no unrevoked token.
ClaimInv ==
    \A h \in Handler :
        pc[h] = "issue" /\ cred[h] # None =>
            /\ \A t \in stored : origin[t] # cred[h]
            /\ \A k \in Handler \ {h} :
                 pc[k] = "issue" =>
                     cred[k] # cred[h] /\ (fam[h] # None => fam[k] # fam[h])
            /\ fam[h] # None => InFamily(fam[h]) \subseteq revoked

\* The strengthening of the safety properties that every step preserves.
IndInv ==
    /\ RecordInv
    /\ HandlerInv
    /\ ClaimInv
    /\ AtMostOneLiveToken
    /\ SingleExchange
    /\ SubjectPreserved

-----------------------------------------------------------------------------
(* Refinement of TokenFamilies.                                            *)

Holder ==
    [f \in Family |->
        IF \E t \in InFamily(f) : Live(t)
          THEN CHOOSE t \in InFamily(f) : Live(t)
        ELSE IF RotationOf(f) # {} THEN "rotating"
        ELSE IF InFamily(f) # {} THEN "dead"
        ELSE "unborn"]

Families == INSTANCE TokenFamilies WITH holder <- Holder, spent <- revoked

\* The grants implement the family life cycle of TokenFamilies.
FamiliesRefined == Families!Spec

-----------------------------------------------------------------------------
(* What the comments say, and the code does not do.                        *)

\* oauth.go 101-103: "Presenting a revoked or already-rotated token is
\* treated as reuse and revokes the entire family."  After the reuse error
\* no token of the family is usable.
ReuseRevokesEntireFamily ==
    \A t \in stored : familyOf[t] \in reused => t \in revoked
=============================================================================
