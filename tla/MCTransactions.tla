---------------------------- MODULE MCTransactions ----------------------------
(* Instance of Transactions over twelve-valued bytes: 4 of them stand for   *)
(* themselves, short forms hold one byte, lengths have up to two.           *)
EXTENDS Transactions

\* No chain id; apart from every number a chain id can be.
MCNilChain == -1

Legacy(chain, to, data) ==
    [type |-> 0, chainId |-> chain, nonce |-> 0, gasPrice |-> 3, gasLimit |-> 20, to |-> to,
     value |-> 0, data |-> data]

Entry == [address |-> <<6, 0>>, keys |-> <<<<0, 1, 2>>, <<4, 5, 6>>>>]

AccessTx == [type |-> 1, chainId |-> 1, nonce |-> 143, gasPrice |-> 5, gasLimit |-> 1,
             to |-> <<0, 9>>, value |-> 150, data |-> <<>>, accessList |-> <<Entry>>]

FeeTx(value) ==
    [type |-> 2, chainId |-> 2, nonce |-> 1, maxPriorityFeePerGas |-> 0, maxFeePerGas |-> 14,
     gasLimit |-> 30, to |-> <<>>, value |-> value, data |-> <<2>>, accessList |-> <<>>]

\* The same legacy transaction for two chains and for none; both typed forms;
\* a value, a v and a transaction that do not fit.
MCTxs == {Legacy(1, <<5, 5>>, <<>>), Legacy(2, <<5, 5>>, <<>>), Legacy(0, <<5, 5>>, <<>>),
          AccessTx, FeeTx(1), FeeTx(12^3),
          Legacy(864, <<5, 5>>, <<>>), Legacy(1, <<5, 5>>, [i \in 1..36 |-> 7])}

\* Scalars with all their bytes, an r and an s that start with a zero byte.
MCSignatures == {[r |-> 900, s |-> 400, recID |-> 1], [r |-> 30, s |-> 200, recID |-> 0],
                 [r |-> 700, s |-> 20, recID |-> 0]}

MCMessages == {<<1, 2>>}

MCDomains == {[name |-> 7, chainId |-> 1, contract |-> 4], [name |-> 7, chainId |-> 2, contract |-> 4],
              [name |-> 7, chainId |-> NilChain, contract |-> 4]}

MCStructs == {1, 2}

==============================================================================
