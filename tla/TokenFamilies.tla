--------------------------- MODULE TokenFamilies ---------------------------
(***************************************************************************)
(* What package auth/oauth promises of refresh-token families, with the    *)
(* stores, the requests and their interleavings hidden: a family holds at  *)
(* most one usable token, a token is spent once, and a family that holds   *)
(* none and has no rotation in flight never holds one again.  OAuthGrants  *)
(* implements this specification (OAuthGrants!FamiliesRefined).            *)
(***************************************************************************)
CONSTANTS Token, Family

Unborn == "unborn"
Rotating == "rotating"
Dead == "dead"

VARIABLES holder, spent

vars == <<holder, spent>>

TypeOK ==
    /\ holder \in [Family -> Token \cup {Unborn, Rotating, Dead}]
    /\ spent \in SUBSET Token

Init ==
    /\ holder = [f \in Family |-> Unborn]
    /\ spent = {}

Fresh(t) ==
    /\ t \in Token
    /\ t \notin spent
    /\ \A f \in Family : holder[f] # t

\* The first token of a family is stored.
Open(f, t) ==
    /\ holder[f] = Unborn
    /\ Fresh(t)
    /\ holder' = [holder EXCEPT ![f] = t]
    /\ UNCHANGED spent

\* A rotation claims the family's token.
Claim(f) ==
    /\ holder[f] \in Token
    /\ holder' = [holder EXCEPT ![f] = Rotating]
    /\ spent' = spent \cup {holder[f]}

\* The rotation stores the successor.
Renew(f, t) ==
    /\ holder[f] = Rotating
    /\ Fresh(t)
    /\ holder' = [holder EXCEPT ![f] = t]
    /\ UNCHANGED spent

\* The family's token is revoked, or its rotation is abandoned.
Close(f) ==
    /\ holder[f] \in Token \cup {Rotating}
    /\ holder' = [holder EXCEPT ![f] = Dead]
    /\ spent' = spent \cup ({holder[f]} \cap Token)

Next ==
    \E f \in Family :
        \/ \E t \in Token : Open(f, t) \/ Renew(f, t)
        \/ Claim(f)
        \/ Close(f)

Spec == Init /\ [][Next]_vars
=============================================================================
