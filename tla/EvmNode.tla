------------------------------ MODULE EvmNode ------------------------------
(***************************************************************************)
(* The environment of chain/commitment: an EVM node and the commitment     *)
(* contract it runs.  Neither is part of the repository; the model is what *)
(* the client code relies on when it calls eth_sendRawTransaction,         *)
(* eth_getTransactionReceipt, eth_blockNumber, eth_getTransactionCount and *)
(* eth_call of root().                                                     *)
(*                                                                         *)
(* A transaction is a publishRoot call [from, nonce, root] and stands for  *)
(* its own hash.  A block lists the transactions that succeeded and those  *)
(* that reverted, and the contract's root after the block; block 0, the    *)
(* genesis, is not in the sequence.                                        *)
(***************************************************************************)
EXTENDS Naturals, Sequences, FiniteSets

CONSTANTS NoRoot,       \* the contract's root before any publication
          MaxHeight,    \* bound on the chain's length
          MaxReorgs     \* bound on reorganisations

VARIABLES chain,        \* the canonical chain
          pool,         \* accepted transactions that are not mined
          wire,         \* submitted transactions the node has not seen yet
          reorgs        \* number of reorganisations so far

nodeVars == <<chain, pool, wire, reorgs>>

Height == Len(chain)

RootAt(c, n) == IF n = 0 THEN NoRoot ELSE c[n].root

InBlock(b) == b.ok \cup b.failed

Mined(c) == UNION {InBlock(c[n]) : n \in 1..Len(c)}

BlockOf(c, t) == CHOOSE n \in 1..Len(c) : t \in InBlock(c[n])

Receipt(c, t) == [tx |-> t, ok |-> t \in c[BlockOf(c, t)].ok, block |-> BlockOf(c, t)]

\* eth_getTransactionCount at "latest" and at "pending".
LatestNonce(w) == Cardinality({t \in Mined(chain) : t.from = w})

PendingNonce(w) ==
    LET taken == {t.nonce : t \in {u \in pool : u.from = w}}
        first == LatestNonce(w)
    IN  CHOOSE n \in first..(first + Cardinality(taken)) :
            /\ n \notin taken
            /\ first..(n - 1) \subseteq taken

NodeInit ==
    /\ chain = <<>>
    /\ pool = {}
    /\ wire = {}
    /\ reorgs = 0

\* The transactions of each sender enter a block in nonce order without gaps.
Executable(S) ==
    \A t \in S :
        /\ t.nonce >= LatestNonce(t.from)
        /\ \A n \in LatestNonce(t.from)..t.nonce :
                \E u \in S : u.from = t.from /\ u.nonce = n

\* A block's root is that of the last publication that succeeded in it.
BlockRoots(ok) ==
    IF ok = {} THEN {RootAt(chain, Height)}
    ELSE {t.root : t \in {u \in ok : \A v \in ok : v.from = u.from => v.nonce <= u.nonce}}

Mine ==
    /\ Height < MaxHeight
    /\ \E S \in SUBSET pool :
        /\ Executable(S)
        /\ \E ok \in SUBSET S : \E r \in BlockRoots(ok) :
            chain' = Append(chain, [ok |-> ok, failed |-> S \ ok, root |-> r])
        /\ pool' = pool \ S
    /\ UNCHANGED <<wire, reorgs>>

\* A node evicts a transaction it has not mined.
Drop ==
    /\ \E t \in pool : pool' = pool \ {t}
    /\ UNCHANGED <<chain, wire, reorgs>>

\* The canonical chain is replaced from block n + 1 on; the transactions of
\* the abandoned blocks return to the pool or are lost.
Reorg ==
    /\ reorgs < MaxReorgs
    /\ \E n \in 0..(Height - 1) :
        /\ chain' = SubSeq(chain, 1, n)
        /\ \E back \in SUBSET (Mined(chain) \ Mined(chain')) : pool' = pool \cup back
    /\ reorgs' = reorgs + 1
    /\ UNCHANGED wire

\* What may be in the pool once the node has seen a submitted transaction.  It
\* may refuse any; it must refuse a used nonce; of two unmined transactions
\* with one nonce it keeps one (by gas price, which is not modelled).
Admitted(t) ==
    LET rivals == {u \in pool : u.from = t.from /\ u.nonce = t.nonce}
    IN  {pool} \cup IF t.nonce < LatestNonce(t.from) THEN {}
                    ELSE {(pool \ rivals) \cup {t}}

NodeNext == Mine \/ Drop \/ Reorg
=============================================================================
