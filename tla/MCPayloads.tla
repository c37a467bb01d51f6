------------------------------ MODULE MCPayloads -------------------------------
(***************************************************************************)
(* What is put on the chain, in one instance: commitments, whose roots are *)
(* published, and the transactions a wallet signs.  The two share no       *)
(* variable and each invariant reads the variables of one, so a behaviour  *)
(* moves one and leaves the other where it began.                          *)
(***************************************************************************)
EXTENDS MCCommitments, MCTransactions

VARIABLE part

payloadVars == <<vars, txVars, part>>

PayloadInit == part \in {"commitments", "transactions"} /\ Init /\ TxInit

PayloadNext ==
    /\ UNCHANGED part
    /\ \/ part = "commitments" /\ Next /\ UNCHANGED txVars
       \/ part = "transactions" /\ TxNext /\ UNCHANGED vars

PayloadSpec == PayloadInit /\ [][PayloadNext]_payloadVars

================================================================================
