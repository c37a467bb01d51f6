------------------------- MODULE MCChainCommitment -------------------------
(***************************************************************************)
(* Instance of ChainCommitment for TLC: two publishers that share a        *)
(* wallet, one verifier.                                                   *)
(***************************************************************************)
EXTENDS ChainCommitment

CONSTANTS p1, p2, v1, w1, r1, r2, c1, c2, x

MCWalletOf == [p \in Publisher |-> w1]
MCAttempts == [p \in Publisher |-> IF p = p1 THEN 2 ELSE 1]
MCRootOf == [p \in Publisher |-> IF p = p1 THEN r1 ELSE r2]
MCHome == [chainID |-> 1, contract |-> c1]
MCAnchor == {MCHome, [MCHome EXCEPT !.chainID = 2], [MCHome EXCEPT !.contract = c2]}
MCMembers == [r \in Root |-> IF r = r1 THEN {x} ELSE {}]
=============================================================================
