--------------------------- MODULE MCOAuthGrants ---------------------------
(* OAuthGrants on a small instance.  The code c1 carries a PKCE challenge. *)
EXTENDS OAuthGrants, TLC

CONSTANTS u1, u2, v1, cl1, cl2, uri1, c1

MCAuthCode ==
    [c \in Code |->
        [user |-> u1, client |-> cl1, uri |-> uri1,
         challenge |-> IF c = c1 THEN v1 ELSE None, s256 |-> TRUE]]

\* outcome only records what a handler returned last: no action reads it.
NoOutcome == <<store, pc, cred, fam, usr, ghost>>

Symmetry == Permutations(Handler) \cup Permutations(Token)
=============================================================================
