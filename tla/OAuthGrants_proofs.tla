------------------------ MODULE OAuthGrants_proofs -------------------------
(***************************************************************************)
(* Proofs, for any number of handlers, tokens, families and codes, of the  *)
(* safety properties of OAuthGrants and of its refinement of TokenFamilies.*)
(***************************************************************************)
EXTENDS OAuthGrants, TLAPS

USE AuthCodeAssumption, NoneAssumption, DisjointAssumption

\* The invariant that the proofs carry along: types and IndInv together.
Inv == TypeOK /\ IndInv

\* The records of a code store name a user of the system.
LEMMA CodeUser == \A c \in Code : AuthCode[c].user \in User
BY Zenon DEF AuthCodeRecord

\* Init of the grants establishes the invariant.
LEMMA InitInv == Init => Inv
BY Zenon DEF Init, Inv, TypeOK, PC, Outcome, IndInv, RecordInv, HandlerInv, ClaimInv,
       AtMostOneLiveToken, SingleExchange, SubjectPreserved, Live, InFamily

\* Every step of every grant preserves the invariant.
LEMMA StepInv == Inv /\ [Next]_vars => Inv'
<1> SUFFICES ASSUME Inv, [Next]_vars PROVE Inv'
    OBVIOUS
<1> USE CodeUser DEF Inv, IndInv, TypeOK, RecordInv, HandlerInv, ClaimInv,
        AtMostOneLiveToken, SingleExchange, SubjectPreserved, PC, InFamily, Live,
        store, local, ghost
<1>1. ASSUME NEW h \in Handler, NEW u \in User, NEW matches \in BOOLEAN,
             PasswordGrant(h, u, matches)
      PROVE  Inv'
    BY <1>1 DEF PasswordGrant, Proceed, Return, Outcome
<1>2. ASSUME NEW h \in Handler, NEW c \in Code, NEW v \in Verifier \cup {None},
             NEW uri \in URI, NEW cl \in Client,
             AuthCodeGrant(h, c, v, uri, cl)
      PROVE  Inv'
    BY <1>2 DEF AuthCodeGrant, Proceed, Return, Outcome, AuthCodeError
<1>3. ASSUME NEW h \in Handler, NEW t \in Token,
             RefreshTokenGrant(h, t)
      PROVE  Inv'
    BY <1>3 DEF RefreshTokenGrant, Proceed, Return, Outcome
<1>4. ASSUME NEW h \in Handler, LookupError(h)
      PROVE  Inv'
    BY <1>4 DEF LookupError, Return, Outcome
<1>5. ASSUME NEW h \in Handler, Consume(h)
      PROVE  Inv'
  <2>1. TypeOK'
      BY <1>5 DEF Consume, GoTo, Return, Outcome
  <2>2. RecordInv'
      BY <1>5 DEF Consume, GoTo, Return
  <2>3. HandlerInv'
      BY <1>5 DEF Consume, GoTo, Return
  <2>4. ClaimInv'
      BY <1>5 DEF Consume, GoTo, Return
  <2>5. AtMostOneLiveToken'
      BY <1>5, Zenon DEF Consume, GoTo, Return
  <2>6. SingleExchange'
      BY <1>5 DEF Consume, GoTo, Return
  <2>7. SubjectPreserved'
      BY <1>5, Zenon DEF Consume, GoTo, Return
  <2> QED BY <2>1, <2>2, <2>3, <2>4, <2>5, <2>6, <2>7, Zenon
<1>6. ASSUME NEW h \in Handler, ConsumeError(h)
      PROVE  Inv'
    BY <1>6 DEF ConsumeError, Return, Outcome
<1>7. ASSUME NEW h \in Handler, Revoke(h)
      PROVE  Inv'
  <2>1. TypeOK'
      BY <1>7 DEF Revoke, GoTo, Return, Outcome
  <2>2. RecordInv'
      BY <1>7 DEF Revoke, GoTo, Return
  <2>3. HandlerInv'
      BY <1>7 DEF Revoke, GoTo, Return
  <2>4. ClaimInv'
      BY <1>7 DEF Revoke, GoTo, Return
  <2>5. AtMostOneLiveToken'
      BY <1>7 DEF Revoke, GoTo, Return
  <2>6. SingleExchange'
      BY <1>7, Zenon DEF Revoke, GoTo, Return
  <2>7. SubjectPreserved'
      BY <1>7 DEF Revoke, GoTo, Return
  <2> QED BY <2>1, <2>2, <2>3, <2>4, <2>5, <2>6, <2>7
<1>8. ASSUME NEW h \in Handler, RevokeError(h)
      PROVE  Inv'
    BY <1>8 DEF RevokeError, Return, Outcome
<1>9. ASSUME NEW h \in Handler, RevokeFamily(h)
      PROVE  Inv'
  <2>1. TypeOK'
      BY <1>9 DEF RevokeFamily, Return, Outcome
  <2>2. RecordInv'
      BY <1>9, Zenon DEF RevokeFamily, Return
  <2>3. HandlerInv'
      BY <1>9 DEF RevokeFamily, Return
  <2>4. ClaimInv'
      BY <1>9 DEF RevokeFamily, Return
  <2>5. AtMostOneLiveToken'
      BY <1>9, Zenon DEF RevokeFamily, Return
  <2>6. SingleExchange'
      BY <1>9 DEF RevokeFamily, Return
  <2>7. SubjectPreserved'
      BY <1>9, Zenon DEF RevokeFamily, Return
  <2> QED BY <2>1, <2>2, <2>3, <2>4, <2>5, <2>6, <2>7
<1>10. ASSUME NEW h \in Handler, RevokeFamilyError(h)
      PROVE  Inv'
    BY <1>10 DEF RevokeFamilyError, Return, Outcome
<1>11. ASSUME NEW h \in Handler, NEW t \in Token, NEW f \in Family,
             Issue(h, t, f)
      PROVE  Inv'
  <2>1. TypeOK'
      BY <1>11 DEF Issue, Create, IssueFamily, Return, Outcome
  <2>2. RecordInv'
      BY <1>11 DEF Issue, Create, IssueFamily, Return
  <2>3. HandlerInv'
      BY <1>11 DEF Issue, Create, IssueFamily, Return
  <2>4. ClaimInv'
      BY <1>11 DEF Issue, Create, IssueFamily, Return
  <2>5. AtMostOneLiveToken'
      BY <1>11 DEF Issue, Create, IssueFamily, Return
  <2>6. SingleExchange'
      BY <1>11 DEF Issue, Create, IssueFamily, Return
  <2>7. SubjectPreserved'
      BY <1>11 DEF Issue, Create, IssueFamily, Return
  <2> QED BY <2>1, <2>2, <2>3, <2>4, <2>5, <2>6, <2>7, Zenon
<1>12. ASSUME NEW h \in Handler, NEW t \in Token, NEW f \in Family,
             CreateError(h, t, f)
      PROVE  Inv'
  <2>1. TypeOK'
      BY <1>12 DEF CreateError, Create, IssueFamily, Return, Outcome
  <2>2. RecordInv'
      BY <1>12 DEF CreateError, Create, IssueFamily, Return
  <2>3. HandlerInv'
      BY <1>12 DEF CreateError, Create, IssueFamily, Return
  <2>4. ClaimInv'
      BY <1>12 DEF CreateError, Create, IssueFamily, Return
  <2>5. AtMostOneLiveToken'
      BY <1>12 DEF CreateError, Create, IssueFamily, Return
  <2>6. SingleExchange'
      BY <1>12 DEF CreateError, Create, IssueFamily, Return
  <2>7. SubjectPreserved'
      BY <1>12 DEF CreateError, Create, IssueFamily, Return
  <2> QED BY <2>1, <2>2, <2>3, <2>4, <2>5, <2>6, <2>7
<1>13. ASSUME NEW h \in Handler, IssueError(h)
      PROVE  Inv'
    BY <1>13 DEF IssueError, Return, Outcome
<1>14. ASSUME NEW c \in Token \cup Code, Expire(c) PROVE Inv'
    BY <1>14 DEF Expire
<1>15. CASE UNCHANGED vars
    BY <1>15 DEF vars
<1> HIDE DEF Inv
<1> QED
    BY <1>1, <1>2, <1>3, <1>4, <1>5, <1>6, <1>7, <1>8, <1>9, <1>10, <1>11, <1>12, <1>13, <1>14, <1>15, Zenon
    DEF Next, Grant, StoreCall

\* The invariant holds in every reachable state.
LEMMA Invariance == Spec => []Inv
<1>1. Init => Inv
    BY InitInv, Zenon
<1>2. Inv /\ [Next]_vars => Inv'
    BY StepInv, Zenon
<1> QED BY <1>1, <1>2, PTL DEF Spec

\* The grants and the stores keep every variable within its type.
THEOREM TypeCorrect == Spec => []TypeOK
<1>1. Inv => TypeOK
    BY Zenon DEF Inv
<1> QED BY <1>1, Invariance, PTL

\* Every reachable state of the grants satisfies the inductive invariant: the
\* records, the handlers and the claims on families agree.
THEOREM Inductive == Spec => []IndInv
<1>1. Inv => IndInv
    BY Zenon DEF Inv
<1> QED BY <1>1, Invariance, PTL

\* No interleaving of refreshes leaves two usable tokens in one family.
THEOREM OneLiveToken == Spec => []AtMostOneLiveToken
<1>1. Inv => AtMostOneLiveToken
    BY Zenon DEF Inv, IndInv
<1> QED BY <1>1, Invariance, PTL

\* A code or a refresh token is exchanged for at most one refresh token.
THEOREM ExchangedOnce == Spec => []SingleExchange
<1>1. Inv => SingleExchange
    BY Zenon DEF Inv, IndInv
<1> QED BY <1>1, Invariance, PTL

\* Whatever is issued belongs to the user of what it was exchanged for.
THEOREM SubjectKept == Spec => []SubjectPreserved
<1>1. Inv => SubjectPreserved
    BY Zenon DEF Inv, IndInv
<1> QED BY <1>1, Invariance, PTL

-----------------------------------------------------------------------------
(* Refinement of TokenFamilies.                                            *)

LiveIn(f) == {t \in stored \ revoked : familyOf[t] = f}

\* What the refinement mapping shows of each family, without its CHOOSE.
HolderSpec ==
    /\ Holder \in [Family -> Token \cup {"unborn", "rotating", "dead"}]
    /\ \A f \in Family :
        /\ \A t \in Token : Holder[f] = t <=> t \in LiveIn(f)
        /\ Holder[f] = "rotating" <=> LiveIn(f) = {} /\ RotationOf(f) # {}
        /\ Holder[f] = "dead" <=>
             LiveIn(f) = {} /\ RotationOf(f) = {} /\ InFamily(f) # {}
        /\ Holder[f] = "unborn" <=>
             LiveIn(f) = {} /\ RotationOf(f) = {} /\ InFamily(f) = {}

\* Under the invariant the mapping is determined by the family's tokens.
LEMMA HolderMapping == Inv => HolderSpec
<1> SUFFICES ASSUME Inv PROVE HolderSpec
    OBVIOUS
<1>1. ASSUME NEW f \in Family, NEW t \in LiveIn(f)
      PROVE  Holder[f] = t
  <2>1. t \in InFamily(f) /\ Live(t)
      BY <1>1, Zenon DEF LiveIn, InFamily, Live
  <2>2. \A s \in InFamily(f) : Live(s) => s = t
      BY <1>1, <2>1, Zenon DEF Inv, IndInv, AtMostOneLiveToken, InFamily
  <2> QED BY <1>1, <2>1, <2>2, Zenon DEF Holder
<1>2. ASSUME NEW f \in Family, LiveIn(f) = {}
      PROVE  Holder[f] = IF RotationOf(f) # {} THEN "rotating"
                         ELSE IF InFamily(f) # {} THEN "dead" ELSE "unborn"
    BY <1>2, Zenon DEF Holder, LiveIn, InFamily, Live
<1>3. \A f \in Family : LiveIn(f) \subseteq Token
    BY Zenon DEF LiveIn, Inv, TypeOK
<1>4. \A f \in Family : Holder[f] \in Token \cup {"unborn", "rotating", "dead"}
    BY <1>1, <1>2, <1>3, Zenon
<1>5. Holder \in [Family -> Token \cup {"unborn", "rotating", "dead"}]
    BY <1>4, Zenon DEF Holder
<1> QED BY <1>1, <1>2, <1>3, <1>5 DEF HolderSpec

\* A step that leaves a family's tokens and rotations alone, maps to no
\* change of its holder.
LEMMA HolderSame ==
    ASSUME HolderSpec, HolderSpec', NEW f \in Family,
           LiveIn(f)' = LiveIn(f), InFamily(f)' = InFamily(f),
           RotationOf(f)' = {} <=> RotationOf(f) = {}
    PROVE  Holder'[f] = Holder[f]
<1>1. Holder[f] \in Token \cup {"unborn", "rotating", "dead"}
    BY Zenon DEF HolderSpec
<1>2. Holder'[f] \in Token \cup {"unborn", "rotating", "dead"}
    BY Zenon DEF HolderSpec
<1> QED BY <1>1, <1>2, Zenon DEF HolderSpec

\* Holder changes at most at f, to the value v.
LEMMA HolderExcept ==
    ASSUME HolderSpec, HolderSpec', NEW f \in Family, NEW v,
           \A g \in Family \ {f} : Holder'[g] = Holder[g],
           Holder'[f] = v
    PROVE  Holder' = [Holder EXCEPT ![f] = v]
BY Zenon DEF HolderSpec

\* Every step of the grants is a step of TokenFamilies or a stutter.
LEMMA MappedStep ==
    ASSUME Inv, Inv', HolderSpec, HolderSpec', [Next]_vars
    PROVE  [Families!Next]_<<Holder, revoked>>
<1>1. ASSUME UNCHANGED <<stored, familyOf, revoked>>,
             \A f \in Family : RotationOf(f)' = {} <=> RotationOf(f) = {}
      PROVE  UNCHANGED <<Holder, revoked>>
  <2>1. \A f \in Family : LiveIn(f)' = LiveIn(f) /\ InFamily(f)' = InFamily(f)
      BY <1>1, Zenon DEF LiveIn, InFamily
  <2>2. \A f \in Family : Holder'[f] = Holder[f]
      BY <1>1, <2>1, HolderSame, Zenon
  <2> QED BY <1>1, <2>2 DEF HolderSpec
<1>2. ASSUME NEW h \in Handler, NEW t \in Token, NEW f \in Family,
             pc[h] = "issue", Create(h, t, f), pc' = [pc EXCEPT ![h] = "idle"],
             fam' = [fam EXCEPT ![h] = None]
      PROVE  Families!Open(f, t) \/ Families!Renew(f, t)
  <2>1. LiveIn(f)' = LiveIn(f) \cup {t} /\ t \in LiveIn(f)'
      BY <1>2 DEF LiveIn, Create, Inv, TypeOK
  <2>2. \A g \in Family \ {f} :
          /\ LiveIn(g)' = LiveIn(g) /\ InFamily(g)' = InFamily(g)
          /\ RotationOf(g)' = RotationOf(g)
      BY <1>2 DEF LiveIn, InFamily, RotationOf, Create, IssueFamily, Inv, TypeOK
  <2>3. Holder' = [Holder EXCEPT ![f] = t]
    <3>1. Holder'[f] = t
        BY <2>1, Zenon DEF HolderSpec
    <3>2. \A g \in Family \ {f} : Holder'[g] = Holder[g]
        BY <2>2, HolderSame, Zenon
    <3> QED BY <3>1, <3>2, HolderExcept, Zenon
  <2>4. Families!Fresh(t) /\ revoked' = revoked
      BY <1>2, Zenon DEF Families!Fresh, Create, HolderSpec, LiveIn, Inv, TypeOK
  <2>5. Holder[f] = "unborn" \/ Holder[f] = "rotating"
    <3>1. CASE fam[h] = None
        BY <1>2, <3>1 DEF Create, IssueFamily, HolderSpec, RotationOf, InFamily,
           LiveIn, Inv, IndInv, HandlerInv, TypeOK
    <3>2. CASE fam[h] # None
      <4>1. h \in RotationOf(f) /\ LiveIn(f) = {}
          BY <1>2, <3>2 DEF Create, IssueFamily, RotationOf, LiveIn, InFamily, Inv,
             IndInv, ClaimInv, HandlerInv, TypeOK
      <4> QED BY <4>1, Zenon DEF HolderSpec
    <3> QED BY <3>1, <3>2, Zenon
  <2> QED BY <2>3, <2>4, <2>5, Zenon
      DEF Families!Open, Families!Renew, Families!Unborn, Families!Rotating
<1>3. ASSUME NEW h \in Handler, IssueError(h)
      PROVE  (\E f \in Family : Families!Close(f)) \/ UNCHANGED <<Holder, revoked>>
  <2>1. CASE fam[h] = None
      BY <1>1, <1>3, <2>1 DEF IssueError, Return, store, RotationOf, Inv, TypeOK
  <2>2. CASE fam[h] # None
    <3>1. PICK f \in Family : f = fam[h]
        BY <2>2, Zenon DEF Inv, TypeOK
    <3>2. /\ LiveIn(f) = {} /\ LiveIn(f)' = {} /\ InFamily(f)' # {}
          /\ h \in RotationOf(f) /\ RotationOf(f)' = {}
        BY <1>3, <2>2, <3>1 DEF IssueError, Return, store, RotationOf, LiveIn, InFamily,
           Inv, IndInv, ClaimInv, HandlerInv, TypeOK
    <3>3. \A g \in Family \ {f} :
            /\ LiveIn(g)' = LiveIn(g) /\ InFamily(g)' = InFamily(g)
            /\ RotationOf(g)' = RotationOf(g)
        BY <1>3, <3>1, Zenon DEF IssueError, Return, store, LiveIn, InFamily, RotationOf,
           Inv, TypeOK
    <3>4. Holder[f] = "rotating" /\ Holder'[f] = "dead"
        BY <3>1, <3>2, Zenon DEF HolderSpec
    <3>5. \A g \in Family \ {f} : Holder'[g] = Holder[g]
        BY <3>3, HolderSame, Zenon
    <3>6. Holder' = [Holder EXCEPT ![f] = "dead"]
        BY <3>1, <3>4, <3>5, HolderExcept, Zenon
    <3>7. revoked' = revoked \cup ({Holder[f]} \cap Token)
        BY <1>3, <3>4, Zenon DEF IssueError, store
    <3> QED BY <3>1, <3>4, <3>6, <3>7, Zenon
        DEF Families!Close, Families!Dead, Families!Rotating
  <2> QED BY <2>1, <2>2, Zenon
<1>4. ASSUME NEW h \in Handler, Consume(h) \/ ConsumeError(h)
      PROVE  UNCHANGED <<Holder, revoked>>
    BY <1>1, <1>4 DEF Consume, ConsumeError, GoTo, Return, RotationOf, Inv, IndInv,
       HandlerInv, TypeOK
<1>5. ASSUME NEW h \in Handler,
             \/ \E u \in User, m \in BOOLEAN : PasswordGrant(h, u, m)
             \/ \E c \in Code, v \in Verifier \cup {None}, uri \in URI, cl \in Client :
                    AuthCodeGrant(h, c, v, uri, cl)
             \/ \E t \in Token : RefreshTokenGrant(h, t)
             \/ LookupError(h)
      PROVE  UNCHANGED <<Holder, revoked>>
    BY <1>1, <1>5 DEF PasswordGrant, AuthCodeGrant, RefreshTokenGrant, LookupError,
       Proceed, Return, store, RotationOf, Inv, TypeOK
<1>6. ASSUME NEW f \in Family, NEW t \in LiveIn(f),
             revoked' = revoked \cup {t}, stored' = stored, familyOf' = familyOf,
             \A g \in Family \ {f} : RotationOf(g)' = RotationOf(g)
      PROVE  Families!Claim(f) \/ Families!Close(f)
  <2>1. Holder[f] = t /\ t \in Token
      BY <1>6, Zenon DEF HolderSpec, LiveIn, Inv, TypeOK
  <2>2. LiveIn(f)' = {} /\ t \in InFamily(f)'
      BY <1>6 DEF LiveIn, InFamily, Inv, IndInv, AtMostOneLiveToken, Live
  <2>3. Holder'[f] = "rotating" \/ Holder'[f] = "dead"
      BY <2>2, Zenon DEF HolderSpec
  <2>4. \A g \in Family \ {f} :
          LiveIn(g)' = LiveIn(g) /\ InFamily(g)' = InFamily(g)
      BY <1>6, Zenon DEF LiveIn, InFamily
  <2>5. \A g \in Family \ {f} : Holder'[g] = Holder[g]
      BY <1>6, <2>4, HolderSame, Zenon
  <2>6. Holder' = [Holder EXCEPT ![f] = Holder'[f]]
      BY <2>5, HolderExcept, Zenon
  <2> QED BY <1>6, <2>1, <2>3, <2>6, Zenon
      DEF Families!Claim, Families!Close, Families!Rotating, Families!Dead
<1>7. ASSUME NEW h \in Handler, Revoke(h) \/ RevokeError(h)
      PROVE  \/ \E f \in Family : Families!Claim(f) \/ Families!Close(f)
             \/ UNCHANGED <<Holder, revoked>>
  <2>1. /\ cred[h] \in stored /\ familyOf[cred[h]] \in Family
        /\ fam[h] = familyOf[cred[h]]
      BY <1>7, Zenon DEF Revoke, RevokeError, Inv, IndInv, HandlerInv, RecordInv
  <2>2. PICK f \in Family, t \in stored : f = fam[h] /\ t = cred[h]
      BY <2>1, Zenon
  <2>3. \A g \in Family \ {f} : RotationOf(g)' = RotationOf(g)
      BY <1>7, <2>2 DEF Revoke, RevokeError, GoTo, Return, RotationOf, Inv, TypeOK
  <2>4. CASE revoked' = revoked
    <3>1. \A g \in Family : RotationOf(g)' = RotationOf(g)
        BY <1>7, <2>2, <2>4 DEF Revoke, RevokeError, GoTo, Return, RotationOf, Inv,
           TypeOK
    <3> QED BY <1>1, <1>7, <2>4, <3>1, Zenon DEF Revoke, RevokeError
  <2>5. CASE revoked' # revoked
    <3>1. t \in LiveIn(f) /\ revoked' = revoked \cup {t}
        BY <1>7, <2>1, <2>2, <2>5 DEF Revoke, RevokeError, LiveIn
    <3> QED BY <1>6, <1>7, <2>3, <3>1, Zenon DEF Revoke, RevokeError
  <2> QED BY <2>4, <2>5, Zenon
<1>8. ASSUME NEW h \in Handler, RevokeFamily(h) \/ RevokeFamilyError(h)
      PROVE  \/ \E f \in Family : Families!Claim(f) \/ Families!Close(f)
             \/ UNCHANGED <<Holder, revoked>>
  <2>1. PICK f \in Family : f = fam[h]
      BY <1>8 DEF RevokeFamily, RevokeFamilyError, Inv, IndInv, HandlerInv, RecordInv
  <2>2. /\ stored' = stored /\ familyOf' = familyOf
        /\ revoked \subseteq revoked' /\ revoked' \subseteq revoked \cup InFamily(f)
      BY <1>8, <2>1, Zenon DEF RevokeFamily, RevokeFamilyError
  <2>3. \A g \in Family : RotationOf(g)' = RotationOf(g)
      BY <1>8 DEF RevokeFamily, RevokeFamilyError, Return, RotationOf, Inv, TypeOK
  <2>4. CASE revoked' = revoked
      BY <1>1, <2>2, <2>3, <2>4, Zenon
  <2>5. CASE revoked' # revoked
    <3>1. PICK t \in LiveIn(f) : t \in revoked'
        BY <2>2, <2>5, Zenon DEF LiveIn, InFamily
    <3>2. revoked' = revoked \cup {t}
        BY <2>2, <3>1, Zenon DEF LiveIn, InFamily, Inv, IndInv, AtMostOneLiveToken, Live
    <3> QED BY <1>6, <2>2, <2>3, <3>1, <3>2, Zenon
  <2> QED BY <2>4, <2>5, Zenon
<1>9. ASSUME NEW c \in Token \cup Code, Expire(c)
      PROVE  UNCHANGED <<Holder, revoked>>
    BY <1>1, <1>9, Zenon DEF Expire, local, RotationOf
<1>10. CASE UNCHANGED vars
    BY <1>1, <1>10, Zenon DEF vars, store, local, RotationOf
<1>11. ASSUME NEW h \in Handler, NEW t \in Token, NEW f \in Family,
              Issue(h, t, f) \/ CreateError(h, t, f)
       PROVE  Families!Open(f, t) \/ Families!Renew(f, t)
    BY <1>2, <1>11, Zenon DEF Issue, CreateError, Return
<1>12. Families!Next \/ UNCHANGED <<Holder, revoked>>
    BY <1>3, <1>4, <1>5, <1>7, <1>8, <1>9, <1>10, <1>11, Zenon
    DEF Next, Grant, StoreCall, Families!Next
<1> QED BY <1>12, Zenon

\* The grants implement the family life cycle of TokenFamilies: a family is
\* opened once, holds one token at a time, and is never revived.
THEOREM Refinement == Spec => FamiliesRefined
<1>1. Init => Families!Init
  <2> SUFFICES ASSUME Init PROVE Families!Init
      OBVIOUS
  <2>1. \A f \in Family : InFamily(f) = {} /\ RotationOf(f) = {}
      BY Zenon DEF Init, InFamily, RotationOf
  <2> QED BY <2>1, Zenon DEF Init, Families!Init, Families!Unborn, Holder
<1>2. Inv /\ Inv' /\ HolderSpec /\ HolderSpec' /\ [Next]_vars
        => [Families!Next]_<<Holder, revoked>>
    BY MappedStep, Zenon
<1>3. Spec => [](Inv /\ HolderSpec)
    BY Invariance, HolderMapping, PTL
<1> QED BY <1>1, <1>2, <1>3, PTL
    DEF Spec, FamiliesRefined, Families!Spec, Families!vars

\* A family without a usable token or a rotation in flight stays so: "dead"
\* has no way out in TokenFamilies, and every step maps to a step of it.
THEOREM DeadFamily == Spec => DeadFamilyStaysDead
<1> DEFINE Stays == \A f \in Family : Died(f) => Died(f)'
<1>1. ASSUME Inv, Inv', HolderSpec, HolderSpec', [Next]_vars PROVE Stays
  <2> SUFFICES ASSUME NEW f \in Family, Died(f) PROVE Died(f)'
      OBVIOUS
  <2>1. Holder[f] = "dead"
      BY <1>1 DEF HolderSpec, Died, LiveIn, InFamily
  <2>2. [Families!Next]_<<Holder, revoked>>
      BY <1>1, MappedStep, Zenon
  <2>3. Holder'[f] = "dead"
      BY <1>1, <2>1, <2>2, DisjointAssumption, Zenon
      DEF HolderSpec, Families!Next, Families!Open, Families!Renew, Families!Claim,
          Families!Close, Families!Unborn, Families!Rotating, Families!Dead
  <2> QED BY <1>1, <2>3, Zenon DEF HolderSpec, Died, LiveIn, InFamily
<1>2. Inv /\ Inv' /\ HolderSpec /\ HolderSpec' /\ [Next]_vars => [Stays]_vars
    BY <1>1, Zenon
<1>3. Spec => [](Inv /\ HolderSpec)
    BY Invariance, HolderMapping, PTL
<1> QED BY <1>2, <1>3, PTL DEF Spec, DeadFamilyStaysDead

\* A reported reuse leaves its family dead unless a rotation of it is in
\* flight: the record that was looked up is still stored in that family.
THEOREM ReuseKills == Spec => ReuseKillsFamily
<1> DEFINE Kills ==
        \A h \in Handler, f \in Family :
            /\ pc[h] = "revokeFamily" /\ fam[h] = f
            /\ pc'[h] = "idle" /\ outcome'[h] = "ErrTokenReuseDetected"
            => Died(f)' \/ RotationOf(f)' # {}
<1>1. ASSUME Inv, Next PROVE Kills
  <2> SUFFICES ASSUME NEW h \in Handler, NEW f \in Family,
                      pc[h] = "revokeFamily", fam[h] = f, pc'[h] = "idle",
                      outcome'[h] = "ErrTokenReuseDetected", RotationOf(f)' = {}
               PROVE  Died(f)'
      BY Zenon
  <2>1. cred[h] \in InFamily(f)
      BY <1>1, Zenon DEF Inv, IndInv, HandlerInv, InFamily
  <2>2. pc \in [Handler -> PC] /\ outcome \in [Handler -> Outcome]
      BY <1>1, Zenon DEF Inv, TypeOK
  <2>3. ASSUME NEW k \in Handler, Grant(k) \/ StoreCall(k) PROVE k = h
      BY <2>2, <2>3 DEF Grant, StoreCall, PasswordGrant, AuthCodeGrant, RefreshTokenGrant,
         LookupError, Consume, ConsumeError, Revoke, RevokeError, RevokeFamily,
         RevokeFamilyError, Issue, CreateError, IssueError, GoTo, Proceed, Return
  <2>4. Grant(h) \/ StoreCall(h)
      BY <1>1, <2>3, Zenon DEF Next, Expire, local
  <2>5. RevokeFamily(h) \/ RevokeFamilyError(h)
      BY <2>4 DEF Grant, StoreCall, PasswordGrant, AuthCodeGrant, RefreshTokenGrant,
         LookupError, Consume, ConsumeError, Revoke, RevokeError, Issue, CreateError,
         IssueError
  <2>6. RevokeFamily(h)
      BY <2>2, <2>5 DEF RevokeFamilyError, Return
  <2> QED BY <2>1, <2>6, Zenon DEF RevokeFamily, Died, InFamily
<1>2. Inv /\ [Next]_vars => [Kills]_vars
    BY <1>1, Zenon
<1> QED BY <1>2, Invariance, PTL DEF Spec, ReuseKillsFamily
=============================================================================
