----------------------- MODULE ChainCommitment_proofs -----------------------
(***************************************************************************)
(* Proofs for ChainCommitment, for any number of publishers, verifiers,    *)
(* wallets, roots and blocks: type correctness; that a kept nonce          *)
(* publishes at most once and a receipt is of the transaction that was     *)
(* signed; what an accepted proof says about the chain; and why a proof is *)
(* refused.                                                                *)
(***************************************************************************)
EXTENDS ChainCommitment, FiniteSetTheorems, TLAPS

-----------------------------------------------------------------------------
(* The node.                                                               *)

Block == [ok : SUBSET Tx, failed : SUBSET Tx, root : Root \cup {NoRoot}]

\* Pools and blocks are finite.
FiniteInv ==
    /\ IsFiniteSet(pool)
    /\ \A n \in 1..Len(chain) : IsFiniteSet(InBlock(chain[n]))

NodeOK == chain \in Seq(Block) /\ pool \in SUBSET Tx /\ FiniteInv

\* What is mined is a set of transactions, and finite.
LEMMA MinedFinite == NodeOK => Mined(chain) \subseteq Tx /\ IsFiniteSet(Mined(chain))
<1> SUFFICES ASSUME NodeOK PROVE Mined(chain) \subseteq Tx /\ IsFiniteSet(Mined(chain))
    OBVIOUS
<1>1. Len(chain) \in Nat /\ \A n \in 1..Len(chain) : chain[n] \in Block
    BY DEF NodeOK
<1>2. Mined(chain) \subseteq Tx
    BY <1>1, Zenon DEF Mined, InBlock, Block
<1> DEFINE D == 1..Len(chain)
           T == {InBlock(chain[n]) : n \in D}
           f == [n \in D |-> InBlock(chain[n])]
<1>3. IsFiniteSet(D)
    BY <1>1, FS_Interval
<1>4. f \in Surjection(D, T)
    BY Zenon DEF Surjection
<1>5. \A S \in T : IsFiniteSet(S)
    BY Zenon DEF NodeOK, FiniteInv
<1>6. Mined(chain) = UNION T
    BY Zenon DEF Mined
<1> HIDE DEF D, T, f
<1>7. IsFiniteSet(T)
    BY <1>3, <1>4, FS_Surjection, Zenon
<1> QED
    BY <1>2, <1>5, <1>6, <1>7, FS_UNION, Zenon

\* The transaction counts of eth_getTransactionCount are naturals.
LEMMA LatestNat == NodeOK => \A w : LatestNonce(w) \in Nat
<1> SUFFICES ASSUME NodeOK, NEW w PROVE LatestNonce(w) \in Nat
    OBVIOUS
<1> DEFINE M == {t \in Mined(chain) : t.from = w}
<1>1. IsFiniteSet(Mined(chain)) /\ M \in SUBSET Mined(chain)
    BY MinedFinite, Zenon
<1>2. IsFiniteSet(M)
    BY <1>1, FS_Subset, Zenon
<1>3. Cardinality(M) \in Nat
    BY <1>2, FS_CardinalityType, Zenon
<1> QED
    BY <1>3, Zenon DEF LatestNonce

\* A non-empty set of naturals has a least element.
LEMMA LeastNat ==
    ASSUME NEW S, S \subseteq Nat, S # {}
    PROVE  \E i \in S : \A j \in S : i <= j
<1>1. PICK i \in S : \A j \in S : ~(<<j, i>> \in OpToRel(<, Nat))
    BY WFMin, NatLessThanWellFounded, Zenon
<1>2. \A j \in Nat, k \in Nat : j < k => <<j, k>> \in OpToRel(<, Nat)
    BY Zenon DEF OpToRel
<1>3. \A j \in S : ~(j < i)
    BY <1>1, <1>2, Zenon
<1> QED
    BY <1>3

\* The image of a finite set of transactions under their nonces is finite and
\* no larger.
LEMMA NonceImage ==
    ASSUME NEW S, S \subseteq Tx, IsFiniteSet(S)
    PROVE  /\ IsFiniteSet({t.nonce : t \in S})
           /\ Cardinality({t.nonce : t \in S}) <= Cardinality(S)
<1> DEFINE T == {t.nonce : t \in S}
           f == [t \in S |-> t.nonce]
<1>1. f \in Surjection(S, T)
    BY Zenon DEF Surjection
<1> HIDE DEF f, T
<1>2. IsFiniteSet(T) /\ Cardinality(T) <= Cardinality(S)
    BY <1>1, FS_Surjection, Zenon
<1> QED
    BY <1>2, Zenon DEF T

\* FetchNonce's answer is a natural: some nonce is free.
LEMMA PendingNat == NodeOK => \A w : PendingNonce(w) \in Nat
<1> SUFFICES ASSUME NodeOK, NEW w PROVE PendingNonce(w) \in Nat
    OBVIOUS
<1> DEFINE U == {u \in pool : u.from = w}
           taken == {t.nonce : t \in U}
           first == LatestNonce(w)
           k == Cardinality(taken)
           free == {n \in first..(first + k) : n \notin taken}
<1>1. first \in Nat
    BY LatestNat, Zenon
<1>2. U \in SUBSET pool /\ U \subseteq Tx /\ IsFiniteSet(pool)
    BY Zenon DEF NodeOK, FiniteInv
<1>3. IsFiniteSet(U)
    BY <1>2, FS_Subset, Zenon
<1>4. IsFiniteSet(taken)
    BY <1>2, <1>3, NonceImage, Zenon
<1>5. k \in Nat
    BY <1>4, FS_CardinalityType, Zenon
<1>6. free # {}
  <2> SUFFICES ASSUME free = {} PROVE FALSE
      OBVIOUS
  <2> HIDE DEF taken, first, k
  <2>1. first..(first + k) \in SUBSET taken
      OBVIOUS
  <2>2. Cardinality(first..(first + k)) <= Cardinality(taken)
      BY <2>1, <1>4, FS_Subset, Zenon
  <2>3. Cardinality(first..(first + k)) = k + 1
      BY <1>1, <1>5, FS_Interval
  <2> QED
      BY <2>2, <2>3, <1>5 DEF k
<1>7. free \subseteq Nat
  <2> HIDE DEF taken, first, k
  <2> QED BY <1>1, <1>5
<1>8. PICK n \in free : \A j \in free : n <= j
  <2> HIDE DEF free
  <2> QED BY <1>6, <1>7, LeastNat, Zenon
<1>9. n \in first..(first + k) /\ n \notin taken /\ first..(n - 1) \subseteq taken
  <2> HIDE DEF taken, first, k
  <2>1. n \in Nat /\ n <= first + k /\ first <= n /\ n \notin taken
      BY <1>1, <1>5, <1>7
  <2>2. ASSUME NEW i \in first..(n - 1) PROVE i \in taken
    <3>1. i \in first..(first + k) /\ i < n
        BY <1>1, <1>5, <2>1
    <3>2. i \in Nat
        BY <1>1
    <3> QED
        BY <3>1, <3>2, <1>8, <2>1
  <2> QED
      BY <2>1, <2>2, <1>1, <1>5, Zenon
<1>10. PendingNonce(w) \in first..(first + k)
    BY <1>9, Zenon DEF PendingNonce
<1> QED
  <2> HIDE DEF first, k
  <2> QED BY <1>1, <1>5, <1>10

-----------------------------------------------------------------------------
(* The client.                                                             *)

\* A call returns the node's answer to the caller's own request, or nothing of
\* use: responses under another id are errors.
LEMMA OwnAnswer ==
    ASSUME NEW p, NEW reply \in Replies(p)
    PROVE  \/ Call(p, reply) = Answer(p)
           \/ Call(p, reply) = Malformed \/ Call(p, reply) = Err
           \/ Call(p, reply) = Null /\ pc[p] \notin {"receipt", "poll"}
BY DEF Replies, Call, Unusable

\* Data and a quantity come from the node.
LEMMA OwnData ==
    ASSUME NEW p, NEW reply \in Replies(p), Call(p, reply).kind \in {"data", "quantity"}
    PROVE  Call(p, reply) = Answer(p)
BY OwnAnswer DEF Err, Null, Malformed

\* A receipt describes a mined transaction and its block.
LEMMA ReceiptTrue ==
    ASSUME NodeOK, NEW t \in Mined(chain)
    PROVE  /\ Receipt(chain, t).tx = t
           /\ Receipt(chain, t).block \in 1..Len(chain)
           /\ t \in InBlock(chain[Receipt(chain, t).block])
           /\ Receipt(chain, t).ok = (t \in chain[Receipt(chain, t).block].ok)
           /\ Receipt(chain, t) \in Receipts
<1>1. \E n \in 1..Len(chain) : t \in InBlock(chain[n])
    BY Zenon DEF Mined
<1>2. BlockOf(chain, t) \in 1..Len(chain) /\ t \in InBlock(chain[BlockOf(chain, t)])
    BY <1>1, Zenon DEF BlockOf
<1>3. t \in Tx /\ Len(chain) \in Nat
    BY MinedFinite DEF NodeOK
<1> QED
    BY <1>2, <1>3 DEF Receipt, Receipts

\* What the code has in hand when eth_getTransactionReceipt has answered.
LEMMA ReceiptCall ==
    ASSUME NodeOK, NEW p, NEW reply \in Replies(p), NEW t,
           Answer(p) = ReceiptAnswer(t),
           ParseReceipt(Call(p, reply)) # Err
    PROVE  /\ t \in Mined(chain)
           /\ Call(p, reply) = [kind |-> "receipt", value |-> Receipt(chain, t)]
BY OwnAnswer DEF ParseReceipt, ReceiptAnswer, Err, Null, Malformed

\* The types, the finiteness of pools and blocks, and that a caller of Publish
\* that got no error has a receipt.
Typed ==
    /\ TypeOK
    /\ FiniteInv
    /\ \A p \in Publisher : pc[p] = "published" => receipt[p] \in Receipts

\* A proof that reaches a verifier has the type of one.
LEMMA ReceivedProofs == Typed => Received \subseteq Proofs
<1> SUFFICES ASSUME Typed PROVE Received \subseteq Proofs
    OBVIOUS
<1>1. proofs \subseteq Proofs
  <2>1. ASSUME NEW r \in Root, NEW p \in Publisher, pc[p] = "published"
        PROVE  Proof(r, receipt[p]) \in Proofs
      BY ProcAssumption, <2>1, Zenon DEF Typed, Proof, Proofs, Receipts
  <2> QED BY <2>1 DEF proofs
<1>2. ASSUME NEW p \in Proofs, NEW q \in Altered(p) PROVE q \in Proofs
  <2>1. ASSUME NEW b \in 0..MaxHeight PROVE [p EXCEPT !.block = b, !.sig = "other"] \in Proofs
    <3>1. b \in Nat
        OBVIOUS
    <3> QED BY <3>1, Zenon DEF Proofs
  <2>2. ASSUME NEW a \in Anchor PROVE [p EXCEPT !.anchor = a, !.sig = "other"] \in Proofs
      BY Zenon DEF Proofs
  <2>3. [p EXCEPT !.sig = "malformed"] \in Proofs
      BY Zenon DEF Proofs
  <2> QED BY <2>1, <2>2, <2>3, Zenon DEF Altered
<1>3. ASSUME NEW q \in Received PROVE q \in proofs \/ \E p \in proofs : q \in Altered(p)
    BY Zenon DEF Received
<1> QED BY <1>1, <1>2, <1>3, Zenon

\* The node's part of Typed.
LEMMA TypedNode == Typed => NodeOK
BY Zenon DEF Typed, TypeOK, NodeOK, Block

\* Init has the types.
LEMMA InitTyped == Init => Typed
<1> SUFFICES ASSUME Init PROVE Typed
    OBVIOUS
<1>1. chain = <<>> /\ Len(chain) = 0
    BY Zenon DEF Init, NodeInit
<1>2. FiniteInv
    BY <1>1, FS_EmptySet DEF Init, NodeInit, FiniteInv
<1>3. TypeOK
    BY ProcAssumption, <1>1 DEF Init, NodeInit, TypeOK, Answers
<1> QED
    BY <1>2, <1>3, Zenon DEF Init, Typed, Proc

\* A block that the node mines is a block; the contract's root in it is the
\* previous one, or that of a transaction that succeeded.
LEMMA MinedBlock ==
    ASSUME NodeOK, NEW S \in SUBSET pool, NEW ok \in SUBSET S, NEW r \in BlockRoots(ok)
    PROVE  /\ r \in Root \cup {NoRoot}
           /\ ok # {} => \E u \in ok : u.root = r
<1>1. CASE ok = {}
  <2>1. r = RootAt(chain, Len(chain)) /\ Len(chain) \in Nat
      BY <1>1 DEF BlockRoots, Height, NodeOK
  <2>2. Len(chain) # 0 => chain[Len(chain)] \in Block
      BY <2>1 DEF NodeOK
  <2> QED BY <1>1, <2>1, <2>2, Zenon DEF RootAt, Block
<1>2. CASE ok # {}
    BY <1>2 DEF BlockRoots, NodeOK, Tx
<1> QED BY <1>1, <1>2, Zenon

\* The steps of the node keep chain and pool well-typed and finite.
LEMMA NodeStep ==
    ASSUME NodeOK, NodeNext
    PROVE  NodeOK'
<1> USE DEF NodeOK, FiniteInv
<1>1. CASE Mine
  <2>1. PICK S \in SUBSET pool :
            /\ \E ok \in SUBSET S : \E r \in BlockRoots(ok) :
                chain' = Append(chain, [ok |-> ok, failed |-> S \ ok, root |-> r])
            /\ pool' = pool \ S
      BY <1>1, Zenon DEF Mine
  <2>2. PICK ok \in SUBSET S : \E r \in BlockRoots(ok) :
            chain' = Append(chain, [ok |-> ok, failed |-> S \ ok, root |-> r])
      BY <2>1, Zenon
  <2>22. PICK r \in BlockRoots(ok) :
            chain' = Append(chain, [ok |-> ok, failed |-> S \ ok, root |-> r])
      BY <2>2, Zenon
  <2> DEFINE b == [ok |-> ok, failed |-> S \ ok, root |-> r]
  <2>3. b \in Block
      BY MinedBlock, Zenon DEF Block
  <2>4. IsFiniteSet(S) /\ InBlock(b) = S
      BY FS_Subset, Zenon DEF InBlock
  <2>5. IsFiniteSet(pool \ S)
      BY FS_Subset, Zenon
  <2> HIDE DEF b
  <2>6. \A n \in 1..Len(chain') : IF n = Len(chain) + 1 THEN chain'[n] = b
                                  ELSE n \in 1..Len(chain) /\ chain'[n] = chain[n]
      BY <2>22, <2>3 DEF b
  <2>7. \A n \in 1..Len(chain') : IsFiniteSet(InBlock(chain'[n]))
      BY <2>4, <2>6, Zenon
  <2>8. chain' \in Seq(Block) /\ pool' \in SUBSET Tx /\ IsFiniteSet(pool')
      BY <2>1, <2>22, <2>3, <2>5 DEF b
  <2> QED BY <2>7, <2>8, Zenon DEF InBlock
<1>2. CASE Drop
  <2>1. PICK t \in pool : pool' = pool \ {t}
      BY <1>2, Zenon DEF Drop
  <2>2. IsFiniteSet(pool')
      BY <2>1, FS_RemoveElement, Zenon
  <2> QED BY <1>2, <2>1, <2>2, Zenon DEF Drop, InBlock
<1>3. CASE Reorg
  <2>1. PICK n \in 0..(Len(chain) - 1) :
            /\ chain' = SubSeq(chain, 1, n)
            /\ \E back \in SUBSET (Mined(chain) \ Mined(chain')) : pool' = pool \cup back
      BY <1>3, Zenon DEF Reorg, Height
  <2>2. PICK back \in SUBSET Mined(chain) : pool' = pool \cup back
      BY <2>1, Zenon
  <2>3. back \subseteq Tx /\ IsFiniteSet(back)
      BY MinedFinite, FS_Subset, Zenon
  <2>4. IsFiniteSet(pool') /\ pool' \in SUBSET Tx
      BY <2>2, <2>3, FS_Union, Zenon
  <2>5. chain' \in Seq(Block) /\ Len(chain') = n
          /\ \A i \in 1..n : i \in 1..Len(chain) /\ chain'[i] = chain[i]
      BY <2>1
  <2> QED BY <2>4, <2>5, Zenon DEF InBlock
<1> QED BY <1>1, <1>2, <1>3, Zenon DEF NodeNext

\* Where a caller may be.
PCs == Calling \cup {"idle", "published", "failed", "accepted", "refused"}

\* A caller's step issues a request, polls again, or returns other than with
\* the receipt of a publication.
Moves(p) == Poll(p) \/ \E o \in PCs \ {"published"} : Go(p, o)

\* Such a step keeps the types of pc and tick, and changes nobody else's.
LEMMA MovesTyped ==
    ASSUME Typed, NEW p \in Proc, Moves(p)
    PROVE  /\ pc' \in [Proc -> PCs] /\ tick' \in [Proc -> 0..1]
           /\ \A q \in Proc : q # p => pc'[q] = pc[q]
           /\ pc'[p] = "published" => pc[p] = "published"
<1>1. pc \in [Proc -> PCs] /\ tick \in [Proc -> 0..1]
    BY Zenon DEF Typed, TypeOK, PCs
<1>2. CASE Poll(p)
  <2>1. 1 - tick[p] \in 0..1
      BY <1>1
  <2> QED BY <1>1, <1>2, <2>1, Zenon DEF Poll, Set
<1>3. ASSUME NEW o \in PCs \ {"published"}, Go(p, o)
      PROVE  /\ pc' \in [Proc -> PCs] /\ tick' \in [Proc -> 0..1]
             /\ \A q \in Proc : q # p => pc'[q] = pc[q]
             /\ pc'[p] # "published"
    BY <1>1, <1>3 DEF Go, Set
<1> QED BY <1>2, <1>3, Zenon DEF Moves

\* The moves of each action.
LEMMA ActionMoves ==
    /\ \A p \in Publisher :
        /\ Begin(p) \/ FetchParams(p) \/ FetchNonce(p) \/ SendTx(p) \/ CancelPublish(p) => Moves(p)
        /\ WaitForReceipt(p) => Moves(p) \/ Go(p, "published")
    /\ \A v \in Verifier : Verify(v) \/ VerifierStep(v) \/ CancelVerify(v) => Moves(v)
<1> USE DEF PCs, Calling, Moves
<1>1. ASSUME NEW p, Begin(p) PROVE Moves(p)
    BY <1>1, Zenon DEF Begin, Publish
<1>2. ASSUME NEW p, FetchParams(p) PROVE Moves(p)
    BY <1>2, Zenon DEF FetchParams
<1>3. ASSUME NEW p, FetchNonce(p) PROVE Moves(p)
    BY <1>3, Zenon DEF FetchNonce, Publish
<1>4. ASSUME NEW p, SendTx(p) PROVE Moves(p)
    BY <1>4, Zenon DEF SendTx
<1>5. ASSUME NEW p, WaitForReceipt(p) PROVE Moves(p) \/ Go(p, "published")
    BY <1>5, Zenon DEF WaitForReceipt
<1>6. ASSUME NEW p, CancelPublish(p) PROVE Moves(p)
    BY <1>6, Zenon DEF CancelPublish
<1>7. ASSUME NEW v, Verify(v) PROVE Moves(v)
    BY <1>7 DEF Verify, OfflineChecks, Refuse
<1>8. ASSUME NEW v, ReadHead(v) PROVE Moves(v)
    BY <1>8, Zenon DEF ReadHead, Refuse
<1>9. ASSUME NEW v, ReadReceipt(v) PROVE Moves(v)
    BY <1>9, Zenon DEF ReadReceipt, Refuse
<1>10. ASSUME NEW v, ReadRoot(v) PROVE Moves(v)
    BY <1>10, Zenon DEF ReadRoot, Confirmed, Refuse
<1>11. ASSUME NEW v, CancelVerify(v) PROVE Moves(v)
    BY <1>11, Zenon DEF CancelVerify, Refuse
<1> HIDE DEF Moves
<1> QED
    BY <1>1, <1>2, <1>3, <1>4, <1>5, <1>6, <1>7, <1>8, <1>9, <1>10, <1>11, Zenon
       DEF VerifierStep

\* What Verify may be called with.
Arguments == [proof : Received, root : Root,
              mode : {"offline", "verify", "checker"}, leaves : SUBSET Leaf]

\* Verify checks one choice of arguments.
LEMMA VerifyArguments ==
    \A v : Verify(v) =>
        \E j \in Arguments : OfflineChecks(v, j) /\ (j.mode # "checker" => j.leaves = {})
BY DEF Verify, Arguments

\* The checks of Verify that need no call end it, or go on to the head with
\* arguments that name one root.
LEMMA OfflineOutcome ==
    ASSUME NEW v, NEW j, OfflineChecks(v, j)
    PROVE  \/ /\ job' = job
              /\ Go(v, "refused") \/ Go(v, "accepted")
           \/ /\ job' = Set(job, v, j)
              /\ Go(v, "head")
              /\ j.mode # "offline" /\ j.proof.root = j.root
BY Zenon DEF OfflineChecks, Refuse

\* Every step keeps the types.
LEMMA StepTyped == Typed /\ [Next]_vars => Typed'
<1> SUFFICES ASSUME Typed, [Next]_vars PROVE Typed'
    OBVIOUS
<1>0. NodeOK
    BY TypedNode, Zenon
<1> USE DEF Typed, TypeOK, Go, Set, Poll, Refuse, Calling
<1>1. CASE Node
  <2>1. NodeOK'
      BY <1>0, <1>1, NodeStep, Zenon DEF Node
  <2>2. wire' = wire /\ reorgs' \in 0..MaxReorgs /\ since' = since
      BY ProcAssumption, <1>1 DEF Node, NodeNext, Mine, Drop, Reorg, clientVars
  <2> QED BY <1>1, <2>1, <2>2, Zenon DEF Node, clientVars, NodeOK, Block
<1>2. CASE Arrive
  <2>1. PICK m \in wire : \E P \in Admitted(m.tx) :
            /\ pool' = P
            /\ ack' = IF pc[m.by] # "send" \/ tx[m.by] # m.tx THEN ack
                      ELSE Set(ack, m.by, IF m.tx \in P THEN [kind |-> "hash", value |-> m.tx] ELSE Err)
      BY <1>2, Zenon DEF Arrive
  <2>2. m.tx \in Tx /\ m.by \in Publisher
      OBVIOUS
  <2>3. pool' \in SUBSET Tx /\ IsFiniteSet(pool')
    <3> DEFINE rivals == {u \in pool : u.from = m.tx.from /\ u.nonce = m.tx.nonce}
               rest == pool \ rivals
    <3>1. pool' = pool \/ pool' = rest \cup {m.tx}
        BY <2>1, Zenon DEF Admitted
    <3>2. IsFiniteSet(rest)
        BY FS_Subset, Zenon DEF FiniteInv
    <3>3. IsFiniteSet(rest \cup {m.tx})
        BY <3>2, FS_AddElement, Zenon
    <3> QED BY <2>2, <3>1, <3>3, Zenon DEF FiniteInv
  <2>4. ack' \in [Publisher -> Answers]
      BY <2>1, <2>2 DEF Answers
  <2>5. FiniteInv'
      BY <1>2, <2>3, Zenon DEF Arrive, FiniteInv, InBlock
  <2> QED BY <1>2, <2>3, <2>4, <2>5 DEF Arrive
<1> HIDE DEF Go, Poll, Refuse, Calling
<1> USE DEF PCs, Calling
<1>3. ASSUME NEW p \in Proc, Moves(p), UNCHANGED <<chain, pool, reorgs>>,
             wire' \in SUBSET [by : Publisher, tx : Tx],
             tx' \in [Publisher -> Tx \cup {NoTx}],
             hash' \in [Publisher -> Tx \cup {NoTx}],
             ack' \in [Publisher -> Answers],
             receipt' = receipt,
             attempts' \in [Publisher -> Nat],
             job' \in [Verifier -> Jobs \cup {NoJob}],
             since' \in [Proc -> 0..MaxReorgs]
      PROVE  Typed'
  <2>1. /\ pc' \in [Proc -> PCs] /\ tick' \in [Proc -> 0..1]
        /\ \A q \in Publisher : pc'[q] = "published" => pc[q] = "published"
      BY <1>3, MovesTyped, Zenon DEF Proc
  <2>2. FiniteInv'
      BY <1>3, Zenon DEF FiniteInv, InBlock
  <2> QED BY <1>3, <2>1, <2>2, Zenon
<1> HIDE DEF PCs, Calling
<1>4. ASSUME NEW p \in Publisher, NEW n \in Nat, NEW complete, Publish(p, n, complete)
      PROVE  /\ wire' \in SUBSET [by : Publisher, tx : Tx]
             /\ tx' \in [Publisher -> Tx \cup {NoTx}]
             /\ ack' \in [Publisher -> Answers]
             /\ since' \in [Proc -> 0..MaxReorgs]
  <2> DEFINE t == [from |-> WalletOf[p], nonce |-> n, root |-> RootOf[p]]
  <2>1. t \in Tx /\ [by |-> p, tx |-> t] \in [by : Publisher, tx : Tx] /\ p \in Proc
      BY ProcAssumption, Zenon DEF Tx, Proc
  <2> HIDE DEF t
  <2>2. \/ UNCHANGED <<tx, wire, ack, since>>
        \/ /\ tx' = Set(tx, p, t) /\ wire' = wire \cup {[by |-> p, tx |-> t]}
           /\ ack' = Set(ack, p, NoAnswer) /\ since' = Set(since, p, reorgs)
      BY <1>4, Zenon DEF Publish, t
  <2>3. NoAnswer \in Answers
      BY Zenon DEF Answers
  <2>4. tx' \in [Publisher -> Tx \cup {NoTx}] /\ ack' \in [Publisher -> Answers]
    <3>1. CASE UNCHANGED <<tx, wire, ack, since>>
        BY <3>1, Zenon
    <3>2. CASE tx' = Set(tx, p, t) /\ ack' = Set(ack, p, NoAnswer)
        BY <2>1, <2>3, <3>2, Zenon
    <3> QED BY <2>2, <3>1, <3>2, Zenon
  <2>5. wire' \in SUBSET [by : Publisher, tx : Tx]
      BY <2>1, <2>2
  <2>6. since' \in [Proc -> 0..MaxReorgs]
      BY <2>1, <2>2, Zenon
  <2> QED BY <2>4, <2>5, <2>6, Zenon
<1>5. ASSUME NEW p \in Publisher, Begin(p) PROVE Typed'
  <2>1. /\ wire' \in SUBSET [by : Publisher, tx : Tx]
        /\ tx' \in [Publisher -> Tx \cup {NoTx}]
        /\ ack' \in [Publisher -> Answers]
        /\ since' \in [Proc -> 0..MaxReorgs]
    <3>1. CASE p \in Keep /\ tx[p] # NoTx
      <4>1. tx[p].nonce \in Nat
          BY <3>1, Zenon DEF Tx
      <4> QED BY <1>4, <1>5, <3>1, <4>1, Zenon DEF Begin
    <3>2. CASE ~(p \in Keep /\ tx[p] # NoTx)
        BY <1>5, <3>2, Zenon DEF Begin
    <3> QED BY <3>1, <3>2, Zenon
  <2>2. attempts' \in [Publisher -> Nat]
      BY <1>5 DEF Begin
  <2> QED BY <1>3, <1>5, <2>1, <2>2, ActionMoves, Zenon DEF Begin, Proc
<1>6. ASSUME NEW p \in Publisher, FetchParams(p) PROVE Typed'
    BY <1>3, <1>6, ActionMoves, Zenon DEF FetchParams, nodeVars, Proc
<1>7. ASSUME NEW p \in Publisher, FetchNonce(p) PROVE Typed'
  <2>1. PICK reply \in Replies(p), complete \in BOOLEAN :
            IF Call(p, reply).kind # "quantity"
            THEN Go(p, "failed") /\ UNCHANGED <<tx, wire, ack, since>>
            ELSE Publish(p, Call(p, reply).value, complete)
      BY <1>7, Zenon DEF FetchNonce
  <2>2. Answer(p) = Quantity(PendingNonce(WalletOf[p]))
      BY <1>7, Zenon DEF FetchNonce, Answer
  <2>3. Call(p, reply).kind = "quantity" => Call(p, reply).value \in Nat
    <3>1. PendingNonce(WalletOf[p]) \in Nat
        BY <1>0, PendingNat, Zenon
    <3>2. \/ Call(p, reply) = Quantity(PendingNonce(WalletOf[p]))
          \/ Call(p, reply) \in {Malformed, Err, Null}
        BY <2>2, OwnAnswer, Zenon
    <3> QED BY <3>1, <3>2 DEF Err, Malformed, Null, Quantity
  <2>4. /\ wire' \in SUBSET [by : Publisher, tx : Tx]
        /\ tx' \in [Publisher -> Tx \cup {NoTx}]
        /\ ack' \in [Publisher -> Answers]
        /\ since' \in [Proc -> 0..MaxReorgs]
      BY <1>4, <2>1, <2>3, Zenon
  <2> QED BY <1>3, <1>7, <2>4, ActionMoves, Zenon DEF FetchNonce, Proc
<1>8. ASSUME NEW p \in Publisher, SendTx(p) PROVE Typed'
  <2>1. PICK reply \in Replies(p) :
            LET r == Call(p, reply)
            IN  CASE r.kind = "hash" -> Go(p, "receipt") /\ hash' = Set(hash, p, r.value)
                  [] r.kind = "null" -> Go(p, "receipt") /\ hash' = Set(hash, p, NoTx)
                  [] OTHER           -> Go(p, "failed") /\ UNCHANGED hash
      BY <1>8, Zenon DEF SendTx
  <2>2. Answer(p) \in Answers
      BY <1>8, Zenon DEF SendTx, Answer
  <2>3. Call(p, reply).kind = "hash" => Call(p, reply).value \in Tx
    <3>1. Call(p, reply) \in Answers \cup {Malformed, Err, Null}
        BY <2>2, OwnAnswer, Zenon
    <3> QED BY <3>1 DEF Answers, Err, Malformed, Null, NoAnswer
  <2>4. hash' \in [Publisher -> Tx \cup {NoTx}]
      BY <2>1, <2>3, Zenon
  <2>5. ack' \in [Publisher -> Answers]
      BY <1>8, Zenon DEF SendTx, Answers
  <2> QED BY <1>3, <1>8, <2>4, <2>5, ActionMoves, Zenon DEF SendTx, nodeVars, Proc
<1>9. ASSUME NEW p \in Publisher, WaitForReceipt(p) PROVE Typed'
  <2>1. PICK reply \in Replies(p) :
            LET r == Call(p, reply)
            IN  CASE r.kind = "null" -> Poll(p) /\ UNCHANGED receipt
                  [] ParseReceipt(r) # Err /\ r.value.ok ->
                        Go(p, "published") /\ receipt' = Set(receipt, p, r.value)
                  [] OTHER -> Go(p, "failed") /\ UNCHANGED receipt
      BY <1>9, Zenon DEF WaitForReceipt
  <2>2. Answer(p) = ReceiptAnswer(hash[p])
      BY <1>9, Zenon DEF WaitForReceipt, Answer
  <2>3. ParseReceipt(Call(p, reply)) # Err => Call(p, reply).value \in Receipts
      BY <1>0, <2>2, ReceiptCall, ReceiptTrue
  <2>4. CASE receipt' = receipt /\ Moves(p)
      BY <1>3, <1>9, <2>4, Zenon DEF WaitForReceipt, nodeVars, Proc
  <2>5. CASE Go(p, "published") /\ receipt' = Set(receipt, p, Call(p, reply).value)
             /\ Call(p, reply).value \in Receipts
    <3>1. /\ pc' \in [Proc -> PCs] /\ tick' \in [Proc -> 0..1]
          /\ \A q \in Publisher : q # p => pc'[q] = pc[q]
        BY <2>5 DEF Go, PCs, Calling, Proc
    <3>2. receipt' \in [Publisher -> Receipts \cup {NoReceipt}] /\ receipt'[p] \in Receipts
          /\ \A q \in Publisher : q # p => receipt'[q] = receipt[q]
        BY <2>5, Zenon
    <3>3. UNCHANGED <<nodeVars, tx, hash, ack, attempts, job, since>>
        BY <1>9, Zenon DEF WaitForReceipt
    <3>4. FiniteInv'
        BY <3>3, Zenon DEF FiniteInv, InBlock, nodeVars
    <3>5. \A q \in Publisher : pc'[q] = "published" => receipt'[q] \in Receipts
        BY <3>1, <3>2, Zenon
    <3> QED BY <3>1, <3>2, <3>3, <3>4, <3>5, Zenon DEF nodeVars, PCs
  <2> QED BY <2>1, <2>3, <2>4, <2>5, Zenon DEF Moves, PCs
<1>10. ASSUME NEW p \in Publisher, CancelPublish(p) PROVE Typed'
    BY <1>3, <1>10, ActionMoves, Zenon DEF CancelPublish, nodeVars, Proc
<1>11. ASSUME NEW v \in Verifier, Verify(v) PROVE Typed'
  <2>1. job' \in [Verifier -> Jobs \cup {NoJob}]
    <3>1. PICK j \in Arguments : OfflineChecks(v, j)
        BY <1>11, VerifyArguments, Zenon
    <3>2. j.mode # "offline" => j \in Jobs
        BY ReceivedProofs, Zenon DEF Arguments, Jobs
    <3>3. job' = job \/ (j.mode # "offline" /\ job' = Set(job, v, j))
        BY <3>1, OfflineOutcome, Zenon
    <3> QED BY <3>2, <3>3, Zenon
  <2>2. since' \in [Proc -> 0..MaxReorgs]
      BY <1>11, Zenon DEF Verify, Proc
  <2> QED BY <1>3, <1>11, <2>1, <2>2, ActionMoves, Zenon DEF Verify, nodeVars, Proc
<1>12. ASSUME NEW v \in Verifier, VerifierStep(v) \/ CancelVerify(v) PROVE Typed'
  <2>1. UNCHANGED verifyOnly
      BY <1>12, Zenon DEF VerifierStep, ReadHead, ReadReceipt, ReadRoot, CancelVerify
  <2> QED BY <1>3, <1>12, <2>1, ActionMoves, Zenon DEF verifyOnly, nodeVars, Proc
<1>13. CASE UNCHANGED vars
    BY <1>13, Zenon DEF vars, clientVars, nodeVars, FiniteInv, InBlock
<1> HIDE DEF Typed
<1> QED
    BY <1>1, <1>2, <1>5, <1>6, <1>7, <1>8, <1>9, <1>10, <1>11, <1>12, <1>13, Zenon
       DEF Next, PublisherStep

\* The variables keep their types.
THEOREM TypeCorrect == Spec => []Typed
BY InitTyped, StepTyped, PTL DEF Spec

-----------------------------------------------------------------------------
(* What the steps do to the chain, and to the transactions that exist.     *)

\* c is a prefix of d.
Extends(d, c) == Len(c) <= Len(d) /\ \A n \in 1..Len(c) : d[n] = c[n]

\* Only the node mines or reorganises.
LEMMA ChainMoves ==
    ASSUME [Next]_vars
    PROVE  Mine \/ UNCHANGED <<chain, reorgs>> \/ (Reorg /\ UNCHANGED clientVars)
<1>1. CASE Node
    BY <1>1, Zenon DEF Node, NodeNext, Drop
<1>2. CASE Arrive
    BY <1>2, Zenon DEF Arrive
<1>3. ASSUME NEW p \in Publisher, Begin(p) \/ PublisherStep(p) \/ CancelPublish(p)
      PROVE  UNCHANGED <<chain, reorgs>>
    BY <1>3, Zenon DEF Begin, PublisherStep, FetchParams, FetchNonce, SendTx, WaitForReceipt,
                CancelPublish, nodeVars
<1>4. ASSUME NEW v \in Verifier, Verify(v) \/ VerifierStep(v) \/ CancelVerify(v)
      PROVE  UNCHANGED <<chain, reorgs>>
    BY <1>4, Zenon DEF Verify, VerifierStep, ReadHead, ReadReceipt, ReadRoot, CancelVerify,
                verifyOnly, nodeVars
<1>5. CASE UNCHANGED vars
    BY <1>5, Zenon DEF vars, nodeVars
<1> QED BY <1>1, <1>2, <1>3, <1>4, <1>5, Zenon DEF Next

\* A step extends the chain, or is a reorganisation.
LEMMA ChainStep ==
    ASSUME Typed, [Next]_vars
    PROVE  \/ reorgs' = reorgs /\ Extends(chain', chain)
           \/ Reorg /\ UNCHANGED clientVars
<1>0. chain \in Seq(Block) /\ Len(chain) \in Nat
    BY TypedNode DEF NodeOK
<1>1. CASE Mine
  <2>1. PICK b : chain' = Append(chain, b)
      BY <1>1, Zenon DEF Mine
  <2>2. Extends(chain', chain)
      BY <1>0, <2>1 DEF Extends
  <2> QED BY <1>1, <2>2, Zenon DEF Mine
<1>2. CASE UNCHANGED <<chain, reorgs>>
    BY <1>0, <1>2 DEF Extends
<1> QED BY <1>1, <1>2, ChainMoves, Zenon

\* Mined transactions stay mined while the chain only grows.
LEMMA MinedGrows ==
    ASSUME Typed, Typed', NEW S, NEW b, InBlock(b) = S, chain' = Append(chain, b)
    PROVE  Mined(chain') = Mined(chain) \cup S
<1>1. chain \in Seq(Block) /\ Len(chain) \in Nat /\ Len(chain') = Len(chain) + 1
    BY TypedNode DEF NodeOK
<1>2. \A n \in 1..Len(chain) : chain'[n] = chain[n]
    BY <1>1
<1>3. chain'[Len(chain) + 1] = b
    BY <1>1
<1>4. \A n \in 1..Len(chain') : n \in 1..Len(chain) \/ n = Len(chain) + 1
    BY <1>1
<1>5. ASSUME NEW t \in Mined(chain') PROVE t \in Mined(chain) \cup S
    BY <1>2, <1>3, <1>4, Zenon DEF Mined
<1>6. ASSUME NEW t \in Mined(chain) PROVE t \in Mined(chain')
    BY <1>1, <1>2 DEF Mined
<1>7. ASSUME NEW t \in S PROVE t \in Mined(chain')
    BY <1>1, <1>3 DEF Mined
<1> QED BY <1>5, <1>6, <1>7, Zenon

\* The transactions on their way, waiting or mined.
Existing == {m.tx : m \in wire} \cup pool \cup Mined(chain)

\* Only Publish brings a transaction into existence.
LEMMA NodeCreatesNothing ==
    ASSUME Typed, Typed', Node \/ Arrive
    PROVE  Existing' \subseteq Existing
<1>0. chain \in Seq(Block) /\ Len(chain) \in Nat
    BY TypedNode DEF NodeOK
<1>1. CASE Mine /\ UNCHANGED clientVars
  <2>1. PICK S \in SUBSET pool : /\ \E b : InBlock(b) = S /\ chain' = Append(chain, b)
                                 /\ pool' = pool \ S
      BY <1>1, Zenon DEF Mine, InBlock
  <2>2. Mined(chain') = Mined(chain) \cup S
      BY <2>1, MinedGrows, Zenon
  <2> QED BY <1>1, <2>1, <2>2, Zenon DEF Existing, Mine
<1>2. CASE Drop
    BY <1>2, Zenon DEF Drop, Existing
<1>3. CASE Reorg
  <2>1. PICK n \in 0..(Len(chain) - 1) : chain' = SubSeq(chain, 1, n)
      BY <1>3, Zenon DEF Reorg, Height
  <2>2. Len(chain') = n /\ \A i \in 1..n : i \in 1..Len(chain) /\ chain'[i] = chain[i]
      BY <1>0, <2>1
  <2>3. Mined(chain') \subseteq Mined(chain)
      BY <2>2, Zenon DEF Mined
  <2>4. pool' \subseteq pool \cup Mined(chain) /\ wire' = wire
      BY <1>3, Zenon DEF Reorg
  <2> QED BY <2>3, <2>4, Zenon DEF Existing
<1>4. CASE Arrive
  <2>1. chain' = chain
      BY <1>4, Zenon DEF Arrive
  <2>2. PICK m \in wire : wire' = wire \ {m} /\ pool' \in Admitted(m.tx)
      BY <1>4, Zenon DEF Arrive
  <2>3. pool' \subseteq pool \cup {m.tx}
      BY <2>2, Zenon DEF Admitted
  <2> QED BY <2>1, <2>2, <2>3, Zenon DEF Existing
<1> QED BY <1>1, <1>2, <1>3, <1>4, Zenon DEF Node, NodeNext

-----------------------------------------------------------------------------
(* A kept nonce.                                                           *)

\* A publisher's transaction carries its wallet and its root; while one that
\* keeps its nonce asks for one it has signed nothing; and a transaction in
\* existence with the root of such a publisher is the one it signed.
KeepInv ==
    /\ \A p \in Publisher : tx[p] # NoTx => tx[p].from = WalletOf[p] /\ tx[p].root = RootOf[p]
    /\ \A p \in Keep : pc[p] \in {"fees", "nonce"} => tx[p] = NoTx
    /\ \A p \in Keep : \A t \in Existing : t.root = RootOf[p] => t = tx[p]

\* Init satisfies KeepInv.
LEMMA InitKeep == Init => KeepInv
<1> SUFFICES ASSUME Init PROVE KeepInv
    OBVIOUS
<1>1. Existing = {}
    BY DEF Init, NodeInit, Existing, Mined
<1> QED BY ProcAssumption, <1>1, Zenon DEF Init, KeepInv, Proc

\* Submitting a transaction keeps KeepInv if the publisher had none, or signs
\* the same one again.
LEMMA PublishKeep ==
    ASSUME Typed, KeepInv, NEW p \in Publisher, NEW n \in Nat, NEW complete,
           Publish(p, n, complete), UNCHANGED <<chain, pool>>,
           p \in Keep => tx[p] = NoTx \/ tx[p].nonce = n
    PROVE  KeepInv'
<1> DEFINE t == [from |-> WalletOf[p], nonce |-> n, root |-> RootOf[p]]
<1>0. pc \in [Proc -> PCs] /\ tx \in [Publisher -> Tx \cup {NoTx}] /\ p \in Proc /\ Keep \subseteq Publisher
      /\ Publisher \subseteq Proc
    BY ProcAssumption, Zenon DEF Typed, TypeOK, PCs, Proc
<1>1. CASE ~complete
  <2>1. pc' = [pc EXCEPT ![p] = "failed"] /\ UNCHANGED <<tx, wire>>
      BY <1>1, Zenon DEF Publish, Go, Set
  <2>2. Existing' = Existing
      BY <2>1, Zenon DEF Existing
  <2> QED BY <1>0, <2>1, <2>2, Zenon DEF KeepInv
<1>2. CASE complete
  <2>1. /\ pc' = [pc EXCEPT ![p] = "send"]
        /\ tx' = [tx EXCEPT ![p] = t]
        /\ wire' = wire \cup {[by |-> p, tx |-> t]}
      BY <1>2, Zenon DEF Publish, Go, Set
  <2>2. t \in Tx /\ t.from = WalletOf[p] /\ t.root = RootOf[p] /\ t.nonce = n
      BY ProcAssumption, Zenon DEF Tx
  <2>3. tx[p] # NoTx /\ p \in Keep => tx[p] = t
      BY <1>0, Zenon DEF KeepInv, Tx
  <2> HIDE DEF t
  <2>4. Existing' \subseteq Existing \cup {t}
    <3>1. Mined(chain') = Mined(chain)
        BY Zenon DEF Mined
    <3>2. \A m \in wire' : m \in wire \/ m.tx = t
        BY <2>1
    <3> QED BY <3>1, <3>2, Zenon DEF Existing
  <2>5. NoTx \notin Existing
    <3>1. Mined(chain) \subseteq Tx
        BY TypedNode, MinedFinite, Zenon
    <3> QED BY TxAssumption, <3>1 DEF Existing, Typed, TypeOK
  <2>6. ASSUME NEW q \in Keep, NEW u \in Existing', u.root = RootOf[q]
        PROVE  u = tx'[q]
    <3>1. CASE q = p
        BY <1>0, <2>1, <2>2, <2>3, <2>4, <2>5, <2>6, <3>1, Zenon DEF KeepInv
    <3>2. CASE q # p
        BY TxAssumption, <1>0, <2>1, <2>2, <2>4, <2>6, <3>2 DEF KeepInv
    <3> QED BY <3>1, <3>2, Zenon
  <2>7. \A q \in Publisher : tx'[q] # NoTx => tx'[q].from = WalletOf[q] /\ tx'[q].root = RootOf[q]
      BY <1>0, <2>1, <2>2, Zenon DEF KeepInv
  <2>8. \A q \in Keep : pc'[q] \in {"fees", "nonce"} => tx'[q] = NoTx
      BY <1>0, <2>1, Zenon DEF KeepInv
  <2> QED BY <2>6, <2>7, <2>8, Zenon DEF KeepInv
<1> QED BY <1>1, <1>2, Zenon

\* Every step keeps KeepInv.
LEMMA StepKeep == Typed /\ Typed' /\ KeepInv /\ [Next]_vars => KeepInv'
<1> SUFFICES ASSUME Typed, Typed', KeepInv, [Next]_vars PROVE KeepInv'
    OBVIOUS
<1>0. pc \in [Proc -> PCs] /\ tx \in [Publisher -> Tx \cup {NoTx}] /\ Keep \subseteq Publisher
      /\ Publisher \subseteq Proc /\ Verifier \subseteq Proc /\ Publisher \cap Verifier = {}
    BY ProcAssumption, Zenon DEF Typed, TypeOK, PCs, Proc
<1>1. CASE Node \/ Arrive
  <2>1. Existing' \subseteq Existing
      BY <1>1, NodeCreatesNothing, Zenon
  <2>2. pc' = pc /\ tx' = tx
      BY <1>1, Zenon DEF Node, Arrive, clientVars
  <2> QED BY <2>1, <2>2, Zenon DEF KeepInv
<1>2. ASSUME UNCHANGED <<chain, pool, wire, tx>>,
             \A p \in Keep : pc'[p] \in {"fees", "nonce"} => pc[p] \in {"fees", "nonce"} \/ tx[p] = NoTx
      PROVE  KeepInv'
  <2>1. Existing' = Existing
      BY <1>2, Zenon DEF Existing, Mined
  <2> QED BY <1>2, <2>1, Zenon DEF KeepInv
<1>3. ASSUME NEW p \in Publisher, Begin(p) PROVE KeepInv'
  <2>1. CASE p \in Keep /\ tx[p] # NoTx
    <3>1. tx[p].nonce \in Nat /\ Publish(p, tx[p].nonce, TRUE) /\ UNCHANGED <<chain, pool>>
        BY <1>0, <1>3, <2>1, Zenon DEF Begin, Tx
    <3> QED BY <3>1, PublishKeep, Zenon
  <2>2. CASE ~(p \in Keep /\ tx[p] # NoTx)
    <3>1. pc' = [pc EXCEPT ![p] = "fees"] /\ UNCHANGED <<chain, pool, wire, tx>>
        BY <1>3, <2>2, Zenon DEF Begin, Go, Set
    <3> QED BY <1>0, <1>2, <2>2, <3>1, Zenon
  <2> QED BY <2>1, <2>2, Zenon
<1>4. ASSUME NEW p \in Publisher, FetchParams(p) PROVE KeepInv'
  <2>1. UNCHANGED <<chain, pool, wire, tx>> /\ pc[p] = "fees"
      BY <1>4, Zenon DEF FetchParams, nodeVars
  <2>2. \A q \in Publisher : q # p => pc'[q] = pc[q]
      BY <1>0, <1>4, ActionMoves, MovesTyped, Zenon
  <2> QED BY <1>0, <1>2, <2>1, <2>2, Zenon
<1>5. ASSUME NEW p \in Publisher, FetchNonce(p) PROVE KeepInv'
  <2>0. pc[p] = "nonce" /\ UNCHANGED <<chain, pool>>
      BY <1>5, Zenon DEF FetchNonce
  <2>1. PICK reply \in Replies(p), complete \in BOOLEAN :
            IF Call(p, reply).kind # "quantity"
            THEN Go(p, "failed") /\ UNCHANGED <<tx, wire, ack, since>>
            ELSE Publish(p, Call(p, reply).value, complete)
      BY <1>5, Zenon DEF FetchNonce
  <2>2. CASE Call(p, reply).kind # "quantity"
    <3>1. pc' = [pc EXCEPT ![p] = "failed"] /\ UNCHANGED <<chain, pool, wire, tx>>
        BY <2>0, <2>1, <2>2, Zenon DEF Go, Set
    <3> QED BY <1>0, <1>2, <3>1, Zenon
  <2>3. CASE Call(p, reply).kind = "quantity"
    <3>1. Call(p, reply).value \in Nat
      <4>1. PendingNonce(WalletOf[p]) \in Nat
          BY TypedNode, PendingNat, Zenon
      <4>2. \/ Call(p, reply) = Quantity(PendingNonce(WalletOf[p]))
            \/ Call(p, reply) \in {Malformed, Err, Null}
          BY <2>0, OwnAnswer, Zenon DEF Answer
      <4> QED BY <2>3, <4>1, <4>2 DEF Err, Malformed, Null, Quantity
    <3>2. p \in Keep => tx[p] = NoTx
        BY <2>0, Zenon DEF KeepInv
    <3> QED BY <2>0, <2>1, <2>3, <3>1, <3>2, PublishKeep, Zenon
  <2> QED BY <2>2, <2>3, Zenon
<1>6. ASSUME NEW p \in Publisher, SendTx(p) \/ WaitForReceipt(p) \/ CancelPublish(p) PROVE KeepInv'
  <2>1. UNCHANGED <<chain, pool, wire, tx>>
      BY <1>6, Zenon DEF SendTx, WaitForReceipt, CancelPublish, nodeVars
  <2>2. pc' \in [Proc -> PCs] /\ (\A q \in Publisher : q # p => pc'[q] = pc[q])
        /\ pc'[p] \notin {"fees", "nonce"}
    <3>1. \E o \in {"receipt", "failed", "published"} : pc' = [pc EXCEPT ![p] = o]
      <4>1. CASE SendTx(p)
          BY <1>0, <4>1, Zenon DEF SendTx, Go, Set
      <4>2. CASE WaitForReceipt(p)
        <5>1. pc[p] = "receipt"
            BY <4>2, Zenon DEF WaitForReceipt
        <5>2. pc' = pc => pc' = [pc EXCEPT ![p] = "receipt"]
            BY <1>0, <5>1, Zenon
        <5> QED BY <4>2, <5>2, Zenon DEF WaitForReceipt, Go, Set, Poll
      <4>3. CASE CancelPublish(p)
          BY <4>3, Zenon DEF CancelPublish, Go, Set
      <4> QED BY <1>6, <4>1, <4>2, <4>3, Zenon
    <3> QED BY <1>0, <3>1, Zenon DEF PCs, Calling
  <2> QED BY <1>0, <1>2, <2>1, <2>2, Zenon
<1>7. ASSUME NEW v \in Verifier, Verify(v) \/ VerifierStep(v) \/ CancelVerify(v) PROVE KeepInv'
  <2>1. UNCHANGED <<chain, pool, wire, tx>>
      BY <1>7, Zenon DEF Verify, VerifierStep, ReadHead, ReadReceipt, ReadRoot, CancelVerify,
                  verifyOnly, nodeVars
  <2>2. \A q \in Publisher : pc'[q] = pc[q]
      BY <1>0, <1>7, ActionMoves, MovesTyped, Zenon
  <2> QED BY <1>0, <1>2, <2>1, <2>2, Zenon
<1>8. CASE UNCHANGED vars
    BY <1>2, <1>8, Zenon DEF vars, nodeVars, clientVars
<1> QED
    BY <1>1, <1>3, <1>4, <1>5, <1>6, <1>7, <1>8, Zenon DEF Next, PublisherStep

\* A caller that retries Publish with the nonce of its first attempt has its
\* root mined at most once.
THEOREM KeptNonceIsOnce == Spec => []KeptNonceOnce
<1>1. KeepInv => KeptNonceOnce
    BY Zenon DEF KeepInv, KeptNonceOnce, Existing
<1> QED
    BY <1>1, InitTyped, StepTyped, InitKeep, StepKeep, PTL DEF Spec

-----------------------------------------------------------------------------
(* What Publish returns.                                                   *)

\* The publisher p waits for the receipt of its own transaction, or of none.
PubInvOf(p) ==
    /\ pc[p] \in {"send", "receipt", "published"} => tx[p] \in Tx
    /\ pc[p] = "send" /\ ack[p].kind = "hash" => ack[p].value = tx[p]
    /\ pc[p] = "receipt" => hash[p] \in {tx[p], NoTx}
    /\ pc[p] = "published" =>
        /\ receipt[p].tx = tx[p]
        /\ since[p] = reorgs => /\ receipt[p].block \in 1..Len(chain)
                                /\ tx[p] \in chain[receipt[p].block].ok

PubInv ==
    /\ \A p \in Proc : since[p] <= reorgs
    /\ \A p \in Publisher : PubInvOf(p)

\* Init satisfies PubInv.
LEMMA InitPub == Init => PubInv
BY DEF Init, NodeInit, PubInv, PubInvOf, Proc

\* Another caller's step and the node's steps leave p's part true.
LEMMA PubFrame ==
    ASSUME Typed, Typed', PubInv, [Next]_vars, NEW p \in Publisher,
           UNCHANGED <<pc[p], tx[p], hash[p], receipt[p], since[p]>>,
           ack'[p] = ack[p] \/ (ack'[p].kind = "hash" => ack'[p].value = tx[p])
    PROVE  PubInvOf(p)'
<1>1. PubInvOf(p) /\ since[p] <= reorgs /\ reorgs \in Nat /\ since[p] \in Nat /\ Len(chain) \in Nat
      /\ Len(chain') \in Nat /\ p \in Proc
    BY DEF PubInv, Typed, TypeOK, Proc
<1>2. \/ reorgs' = reorgs /\ Extends(chain', chain)
      \/ reorgs' = reorgs + 1
    BY ChainStep, Zenon DEF Reorg
<1>3. CASE pc[p] # "published"
    BY <1>1, <1>3, Zenon DEF PubInvOf
<1>4. CASE pc[p] = "published"
  <2>1. receipt'[p].tx = tx'[p] /\ tx'[p] \in Tx
      BY <1>1, <1>4, Zenon DEF PubInvOf
  <2>2. since'[p] = reorgs' => /\ receipt[p].block \in 1..Len(chain) /\ receipt[p].block \in 1..Len(chain')
                               /\ chain'[receipt[p].block] = chain[receipt[p].block]
                               /\ tx[p] \in chain[receipt[p].block].ok
      BY <1>1, <1>2, <1>4 DEF PubInvOf, Extends
  <2> QED BY <1>4, <2>1, <2>2, Zenon DEF PubInvOf
<1> QED BY <1>3, <1>4, Zenon

\* Every step keeps PubInv.
LEMMA StepPub == Typed /\ Typed' /\ PubInv /\ [Next]_vars => PubInv'
<1> SUFFICES ASSUME Typed, Typed', PubInv, [Next]_vars PROVE PubInv'
    OBVIOUS
<1>0. /\ pc \in [Proc -> PCs] /\ tx \in [Publisher -> Tx \cup {NoTx}]
      /\ hash \in [Publisher -> Tx \cup {NoTx}] /\ ack \in [Publisher -> Answers]
      /\ receipt \in [Publisher -> Receipts \cup {NoReceipt}]
      /\ reorgs \in Nat /\ since \in [Proc -> Nat]
      /\ Publisher \subseteq Proc /\ Verifier \subseteq Proc /\ Publisher \cap Verifier = {}
    BY ProcAssumption DEF Typed, TypeOK, PCs, Proc
<1>1. ASSUME UNCHANGED <<pc, tx, hash, receipt, since>>, reorgs' \in Nat, reorgs' >= reorgs,
             \A p \in Publisher : ack'[p] = ack[p] \/ (ack'[p].kind = "hash" => ack'[p].value = tx[p])
      PROVE  PubInv'
  <2>1. \A p \in Proc : since'[p] <= reorgs'
      BY <1>0, <1>1 DEF PubInv
  <2>2. \A p \in Publisher : PubInvOf(p)'
      BY <1>1, PubFrame, Zenon
  <2> QED BY <2>1, <2>2, Zenon DEF PubInv
<1>2. CASE Node
  <2>1. reorgs' = reorgs \/ reorgs' = reorgs + 1
      BY <1>2, Zenon DEF Node, NodeNext, Mine, Drop, Reorg
  <2> QED BY <1>0, <1>1, <1>2, <2>1 DEF Node, clientVars
<1>3. CASE Arrive
  <2>1. PICK m \in wire : ack' = IF pc[m.by] # "send" \/ tx[m.by] # m.tx THEN ack
                                 ELSE Set(ack, m.by, IF m.tx \in pool' THEN [kind |-> "hash", value |-> m.tx] ELSE Err)
      BY <1>3, Zenon DEF Arrive
  <2>2. \A p \in Publisher : ack'[p] = ack[p] \/ (ack'[p].kind = "hash" => ack'[p].value = tx[p])
      BY <1>0, <2>1, Zenon DEF Set, Err
  <2>3. reorgs' = reorgs /\ pc' = pc /\ tx' = tx /\ hash' = hash /\ receipt' = receipt /\ since' = since
      BY <1>3, Zenon DEF Arrive
  <2>4. reorgs' \in Nat /\ reorgs' >= reorgs
      BY <1>0, <2>3
  <2> QED BY <1>1, <2>2, <2>3, <2>4, Zenon
<1>4. ASSUME NEW p \in Publisher, reorgs' = reorgs, PubInvOf(p)',
             \A q \in Proc \ {p} : pc'[q] = pc[q] /\ since'[q] = since[q],
             \A q \in Publisher \ {p} : UNCHANGED <<tx[q], hash[q], receipt[q], ack[q]>>,
             since'[p] \in {since[p], reorgs}
      PROVE  PubInv'
  <2>1. \A q \in Publisher \ {p} : PubInvOf(q)'
      BY <1>0, <1>4, PubFrame, Zenon
  <2>2. \A q \in Proc : since'[q] <= reorgs'
      BY <1>0, <1>4 DEF PubInv
  <2> QED BY <1>4, <2>1, <2>2, Zenon DEF PubInv
<1>5. ASSUME NEW p \in Publisher, NEW n, NEW complete, Publish(p, n, complete),
             UNCHANGED <<reorgs, hash, receipt>>
      PROVE  PubInv'
  <2>1. /\ \A q \in Proc \ {p} : pc'[q] = pc[q] /\ since'[q] = since[q]
        /\ \A q \in Publisher \ {p} : tx'[q] = tx[q] /\ ack'[q] = ack[q]
        /\ since'[p] \in {since[p], reorgs}
      BY <1>0, <1>5, Zenon DEF Publish, Go, Set
  <2>2. PubInvOf(p)'
    <3>1. pc'[p] = "failed" \/ (pc'[p] = "send" /\ tx'[p] # NoTx /\ ack'[p] = NoAnswer)
      <4>1. CASE ~complete
          BY <1>0, <1>5, <4>1, Zenon DEF Publish, Go, Set
      <4>2. CASE complete
        <5> DEFINE t == [from |-> WalletOf[p], nonce |-> n, root |-> RootOf[p]]
        <5>1. pc'[p] = "send" /\ tx'[p] = t /\ ack'[p] = NoAnswer
            BY <1>0, <1>5, <4>2, Zenon DEF Publish, Go, Set
        <5>2. [by |-> p, tx |-> t] \in wire'
            BY <1>5, <4>2, Zenon DEF Publish
        <5>3. t \in Tx
            BY <5>2, Zenon DEF Typed, TypeOK
        <5> QED BY TxAssumption, <5>1, <5>3, Zenon
      <4> QED BY <4>1, <4>2, Zenon
    <3>2. tx'[p] \in Tx \cup {NoTx}
        BY Zenon DEF Typed, TypeOK
    <3>3. NoAnswer.kind # "hash"
        BY Zenon DEF NoAnswer
    <3>4. CASE pc'[p] = "failed"
      <4>1. /\ pc'[p] \notin {"send", "receipt", "published"}
            /\ pc'[p] # "send" /\ pc'[p] # "receipt" /\ pc'[p] # "published"
          BY <3>4, Zenon
      <4> QED BY <4>1, Zenon DEF PubInvOf
    <3>5. CASE pc'[p] = "send" /\ tx'[p] # NoTx /\ ack'[p] = NoAnswer
      <4>1. pc'[p] # "receipt" /\ pc'[p] # "published"
          BY <3>5, Zenon
      <4>2. tx'[p] \in Tx
          BY <3>2, <3>5, Zenon
      <4>3. ack'[p].kind # "hash"
          BY <3>3, <3>5, Zenon
      <4> QED BY <4>1, <4>2, <4>3, Zenon DEF PubInvOf
    <3> QED BY <3>1, <3>4, <3>5, Zenon
  <2> QED BY <1>4, <1>5, <2>1, <2>2, Zenon
<1>6. ASSUME NEW p \in Publisher, NEW o \in PCs \ {"send", "receipt", "published"},
             Go(p, o), UNCHANGED <<reorgs, tx, hash, receipt, since>>,
             \A q \in Publisher \ {p} : ack'[q] = ack[q]
      PROVE  PubInv'
  <2>1. pc'[p] = o /\ \A q \in Proc \ {p} : pc'[q] = pc[q]
      BY <1>0, <1>6, Zenon DEF Go, Set
  <2>2. PubInvOf(p)'
      BY <1>6, <2>1, Zenon DEF PubInvOf
  <2> QED BY <1>4, <1>6, <2>1, <2>2, Zenon
<1> USE DEF PCs, Calling
<1>7. ASSUME NEW p \in Publisher, Begin(p) PROVE PubInv'
    BY <1>5, <1>6, <1>7, Zenon DEF Begin
<1>8. ASSUME NEW p \in Publisher, FetchParams(p) PROVE PubInv'
  <2>1. Go(p, "nonce") \/ Go(p, "failed")
      BY <1>8, Zenon DEF FetchParams
  <2>2. UNCHANGED <<reorgs, tx, hash, receipt, since, ack>>
      BY <1>8, Zenon DEF FetchParams, nodeVars
  <2> QED BY <1>6, <2>1, <2>2, Zenon
<1>9. ASSUME NEW p \in Publisher, FetchNonce(p) PROVE PubInv'
  <2>1. \/ Go(p, "failed") /\ UNCHANGED <<tx, ack, since>>
        \/ \E n, complete : Publish(p, n, complete)
      BY <1>9, Zenon DEF FetchNonce
  <2>2. UNCHANGED <<reorgs, hash, receipt>>
      BY <1>9, Zenon DEF FetchNonce
  <2> QED BY <1>5, <1>6, <2>1, <2>2, Zenon
<1>10. ASSUME NEW p \in Publisher, CancelPublish(p) PROVE PubInv'
    BY <1>6, <1>10, Zenon DEF CancelPublish, nodeVars
<1>11. ASSUME NEW p \in Publisher, SendTx(p) PROVE PubInv'
  <2>1. PICK reply \in Replies(p) :
            LET r == Call(p, reply)
            IN  CASE r.kind = "hash" -> Go(p, "receipt") /\ hash' = Set(hash, p, r.value)
                  [] r.kind = "null" -> Go(p, "receipt") /\ hash' = Set(hash, p, NoTx)
                  [] OTHER           -> Go(p, "failed") /\ UNCHANGED hash
      BY <1>11, Zenon DEF SendTx
  <2>2. pc[p] = "send" /\ UNCHANGED <<reorgs, tx, receipt, since>> /\ ack' = Set(ack, p, NoAnswer)
      BY <1>11, Zenon DEF SendTx, nodeVars
  <2>3. Answer(p) = ack[p] /\ tx[p] \in Tx /\ (ack[p].kind = "hash" => ack[p].value = tx[p])
      BY <2>2, Zenon DEF Answer, PubInv, PubInvOf
  <2>4. Call(p, reply).kind = "hash" => Call(p, reply).value = tx[p]
    <3>1. Call(p, reply) \in {ack[p], Malformed, Err, Null}
        BY <2>3, OwnAnswer, Zenon
    <3> QED BY <2>3, <3>1 DEF Malformed, Err, Null
  <2>5. \/ Go(p, "receipt") /\ (hash' = Set(hash, p, tx[p]) \/ hash' = Set(hash, p, NoTx))
        \/ Go(p, "failed") /\ UNCHANGED hash
      BY <2>1, <2>4, Zenon
  <2>6. pc'[p] \in {"receipt", "failed"} /\ (pc'[p] = "receipt" => hash'[p] \in {tx[p], NoTx})
        /\ (\A q \in Proc \ {p} : pc'[q] = pc[q])
        /\ (\A q \in Publisher \ {p} : hash'[q] = hash[q] /\ ack'[q] = ack[q])
      BY <1>0, <2>2, <2>5, Zenon DEF Go, Set
  <2>7. PubInvOf(p)'
      BY <2>2, <2>3, <2>6, Zenon DEF PubInvOf
  <2> QED BY <1>4, <2>2, <2>6, <2>7, Zenon
<1>12. ASSUME NEW p \in Publisher, WaitForReceipt(p) PROVE PubInv'
  <2>1. PICK reply \in Replies(p) :
            LET r == Call(p, reply)
            IN  CASE r.kind = "null" -> Poll(p) /\ UNCHANGED receipt
                  [] ParseReceipt(r) # Err /\ r.value.ok ->
                        Go(p, "published") /\ receipt' = Set(receipt, p, r.value)
                  [] OTHER -> Go(p, "failed") /\ UNCHANGED receipt
      BY <1>12, Zenon DEF WaitForReceipt
  <2>2. pc[p] = "receipt" /\ UNCHANGED <<chain, reorgs, tx, hash, ack, since>>
      BY <1>12, Zenon DEF WaitForReceipt, nodeVars
  <2>3. Answer(p) = ReceiptAnswer(hash[p]) /\ tx[p] \in Tx /\ hash[p] \in {tx[p], NoTx}
      BY <2>2, Zenon DEF Answer, PubInv, PubInvOf
  <2>4. CASE Go(p, "failed") /\ UNCHANGED receipt
      BY <1>6, <2>2, <2>4, Zenon
  <2>5. CASE Poll(p) /\ UNCHANGED receipt
      BY <1>0, <1>1, <2>2, <2>5 DEF Poll
  <2>6. CASE ParseReceipt(Call(p, reply)) # Err /\ Call(p, reply).value.ok
             /\ Go(p, "published") /\ receipt' = Set(receipt, p, Call(p, reply).value)
    <3>1. hash[p] \in Mined(chain) /\ Call(p, reply).value = Receipt(chain, hash[p])
        BY <2>3, <2>6, TypedNode, ReceiptCall
    <3>2. hash[p] = tx[p]
      <4>1. Mined(chain) \subseteq Tx
          BY TypedNode, MinedFinite, Zenon
      <4> QED BY TxAssumption, <2>3, <3>1, <4>1, Zenon
    <3>3. pc'[p] = "published" /\ receipt'[p] = Receipt(chain, tx[p])
          /\ (\A q \in Proc \ {p} : pc'[q] = pc[q])
          /\ (\A q \in Publisher \ {p} : receipt'[q] = receipt[q])
        BY <1>0, <2>6, <3>1, <3>2, Zenon DEF Go, Set
    <3>4. /\ Receipt(chain, tx[p]).tx = tx[p]
          /\ Receipt(chain, tx[p]).block \in 1..Len(chain)
          /\ tx[p] \in chain[Receipt(chain, tx[p]).block].ok
        BY <2>6, <3>1, <3>2, TypedNode, ReceiptTrue, Zenon
    <3>5. PubInvOf(p)'
        BY <2>2, <2>3, <3>3, <3>4, Zenon DEF PubInvOf
    <3> QED BY <1>4, <2>2, <3>3, <3>5, Zenon
  <2> QED BY <2>1, <2>4, <2>5, <2>6, Zenon
<1>13. ASSUME NEW v \in Verifier, Verify(v) \/ VerifierStep(v) \/ CancelVerify(v) PROVE PubInv'
  <2>1. UNCHANGED <<reorgs, tx, hash, ack, receipt>>
        /\ (UNCHANGED since \/ since' = Set(since, v, reorgs))
      BY <1>13, Zenon DEF Verify, VerifierStep, ReadHead, ReadReceipt, ReadRoot, CancelVerify,
                   verifyOnly, nodeVars
  <2>2. \A q \in Publisher : pc'[q] = pc[q] /\ since'[q] = since[q]
      BY <1>0, <1>13, <2>1, ActionMoves, MovesTyped DEF Set
  <2>3. \A q \in Publisher : PubInvOf(q)'
      BY <2>1, <2>2, PubFrame, Zenon
  <2>4. \A q \in Proc : since'[q] <= reorgs'
      BY <1>0, <2>1 DEF PubInv, Set
  <2> QED BY <2>3, <2>4, Zenon DEF PubInv
<1>14. CASE UNCHANGED vars
    BY <1>0, <1>1, <1>14 DEF vars, nodeVars, clientVars
<1> QED
    BY <1>2, <1>3, <1>7, <1>8, <1>9, <1>10, <1>11, <1>12, <1>13, <1>14, Zenon DEF Next, PublisherStep

\* The receipt that Publish returns is that of the transaction it signed, and
\* tells where the transaction is unless the chain reorganised.
THEOREM PublishedOnChain == Spec => []PublishedIsOnChain
<1>1. PubInv => PublishedIsOnChain
    BY Zenon DEF PubInv, PubInvOf, PublishedIsOnChain, Height
<1> QED
    BY <1>1, InitTyped, StepTyped, InitPub, StepPub, PTL DEF Spec

-----------------------------------------------------------------------------
(* What Verify accepts.                                                    *)

\* What the verifier v has established so far.
VerInvOf(v) ==
    /\ pc[v] = "idle" => job[v] = NoJob
    /\ pc[v] \in {"head", "poll", "root"} => job[v] # NoJob
    /\ job[v] # NoJob => /\ job[v].root = job[v].proof.root
                         /\ job[v].mode # "checker" => job[v].leaves = {}
    /\ pc[v] = "root" /\ since[v] = reorgs =>
        /\ job[v].proof.block \in 1..Len(chain)
        /\ job[v].proof.tx \in chain[job[v].proof.block].ok
    /\ pc[v] = "accepted" /\ job[v] # NoJob =>
        /\ job[v].leaves \subseteq Members[job[v].root]
        /\ since[v] = reorgs => OnChain(job[v].proof)

VerInv == \A v \in Verifier : VerInvOf(v)

\* Init satisfies VerInv.
LEMMA InitVer == Init => VerInv
BY Zenon DEF Init, VerInv, VerInvOf, Proc

\* Other callers' and the node's steps leave v's part true.
LEMMA VerFrame ==
    ASSUME Typed, Typed', PubInv, VerInv, [Next]_vars, NEW v \in Verifier,
           UNCHANGED <<pc[v], job[v], since[v]>>
    PROVE  VerInvOf(v)'
<1>1. VerInvOf(v) /\ since[v] <= reorgs /\ reorgs \in Nat /\ since[v] \in Nat /\ Len(chain) \in Nat
      /\ Len(chain') \in Nat
    BY DEF PubInv, VerInv, Typed, TypeOK, Proc
<1>2. \/ reorgs' = reorgs /\ Extends(chain', chain)
      \/ reorgs' = reorgs + 1
    BY ChainStep, Zenon DEF Reorg
<1>3. since[v] = reorgs' => since[v] = reorgs /\ Extends(chain', chain)
    BY <1>1, <1>2
<1>4. pc[v] = "root" /\ since[v] = reorgs' =>
        /\ job[v].proof.block \in 1..Len(chain')
        /\ job[v].proof.tx \in chain'[job[v].proof.block].ok
    BY <1>1, <1>3 DEF VerInvOf, Extends
<1>5. pc[v] = "accepted" /\ job[v] # NoJob /\ since[v] = reorgs' =>
        /\ job[v].proof.block \in 1..Len(chain')
        /\ job[v].proof.tx \in chain'[job[v].proof.block].ok
        /\ chain'[job[v].proof.block].root = job[v].proof.root
    BY <1>1, <1>3 DEF VerInvOf, Extends, OnChain, Height
<1> QED BY <1>1, <1>4, <1>5, Zenon DEF VerInvOf, OnChain, Height

\* Every step keeps VerInv.
LEMMA StepVer == Typed /\ Typed' /\ PubInv /\ VerInv /\ [Next]_vars => VerInv'
<1> SUFFICES ASSUME Typed, Typed', PubInv, VerInv, [Next]_vars PROVE VerInv'
    OBVIOUS
<1>0. /\ pc \in [Proc -> PCs] /\ job \in [Verifier -> Jobs \cup {NoJob}] /\ since \in [Proc -> Nat]
      /\ Len(chain) \in Nat
      /\ Publisher \subseteq Proc /\ Verifier \subseteq Proc /\ Publisher \cap Verifier = {}
    BY ProcAssumption DEF Typed, TypeOK, PCs, Proc
<1>1. ASSUME \A v \in Verifier : UNCHANGED <<pc[v], job[v], since[v]>>
      PROVE  VerInv'
    BY <1>1, VerFrame, Zenon DEF VerInv
<1>2. CASE Node \/ Arrive \/ UNCHANGED vars
    BY <1>1, <1>2, Zenon DEF Node, Arrive, vars, clientVars
<1>3. ASSUME NEW p \in Publisher, Begin(p) \/ PublisherStep(p) \/ CancelPublish(p) PROVE VerInv'
  <2>1. job' = job /\ (UNCHANGED since \/ since' = Set(since, p, reorgs))
      BY <1>3, Zenon DEF Begin, PublisherStep, Publish, FetchParams, FetchNonce, SendTx, WaitForReceipt,
                  CancelPublish
  <2>2. Moves(p) \/ Go(p, "published")
      BY <1>3, ActionMoves, Zenon DEF PublisherStep
  <2>3. \A v \in Verifier : pc'[v] = pc[v]
    <3>1. CASE Moves(p)
        BY <1>0, <3>1, MovesTyped, Zenon
    <3>2. CASE Go(p, "published")
        BY <1>0, <3>2, Zenon DEF Go, Set
    <3> QED BY <2>2, <3>1, <3>2, Zenon
  <2>4. \A v \in Verifier : since'[v] = since[v]
      BY <1>0, <2>1, Zenon DEF Set
  <2> QED BY <1>1, <2>1, <2>3, <2>4, Zenon
<1>4. ASSUME NEW v \in Verifier, VerInvOf(v)',
             \A w \in Verifier \ {v} : UNCHANGED <<pc[w], job[w], since[w]>>
      PROVE  VerInv'
    BY <1>4, VerFrame, Zenon DEF VerInv
<1>5. ASSUME NEW v \in Verifier, Verify(v) PROVE VerInv'
  <2>1. PICK j \in Arguments : OfflineChecks(v, j) /\ (j.mode # "checker" => j.leaves = {})
      BY <1>5, VerifyArguments, Zenon
  <2>2. pc[v] = "idle" /\ since' = Set(since, v, reorgs) /\ job[v] = NoJob
      BY <1>5, Zenon DEF Verify, VerInv, VerInvOf
  <2>3. \/ job' = job /\ (Go(v, "refused") \/ Go(v, "accepted"))
        \/ job' = Set(job, v, j) /\ Go(v, "head") /\ j.proof.root = j.root
      BY <2>1, OfflineOutcome, Zenon
  <2>4. j # NoJob
      BY DEF Arguments, NoJob
  <2>5. \/ job'[v] = NoJob /\ pc'[v] \in {"refused", "accepted"}
        \/ job'[v] = j /\ pc'[v] = "head" /\ j.proof.root = j.root
      BY <1>0, <2>2, <2>3, Zenon DEF Go, Set
  <2>6. \A w \in Verifier \ {v} : UNCHANGED <<pc[w], job[w], since[w]>>
      BY <1>0, <2>2, <2>3, Zenon DEF Go, Set
  <2>7. VerInvOf(v)'
      BY <2>1, <2>4, <2>5, Zenon DEF VerInvOf
  <2> QED BY <1>4, <2>6, <2>7, Zenon
<1>6. ASSUME NEW v \in Verifier, NEW o \in {"refused", "poll"}, Go(v, o),
             pc[v] \in {"head", "poll", "root"}, UNCHANGED <<job, since>>
      PROVE  VerInv'
  <2>1. pc'[v] = o /\ \A w \in Verifier \ {v} : UNCHANGED <<pc[w], job[w], since[w]>>
      BY <1>0, <1>6, Zenon DEF Go, Set
  <2>2. VerInvOf(v)'
      BY <1>6, <2>1, Zenon DEF VerInv, VerInvOf
  <2> QED BY <1>4, <2>1, <2>2, Zenon
<1>7. ASSUME NEW v \in Verifier, ReadHead(v) \/ CancelVerify(v) PROVE VerInv'
  <2>1. UNCHANGED <<job, since>> /\ pc[v] \in {"head", "poll"}
      BY <1>7, Zenon DEF ReadHead, CancelVerify, verifyOnly
  <2>2. Go(v, "refused") \/ Go(v, "poll")
      BY <1>7, Zenon DEF ReadHead, CancelVerify, Refuse
  <2> QED BY <1>6, <2>1, <2>2, Zenon
<1>8. ASSUME NEW v \in Verifier, ReadReceipt(v) PROVE VerInv'
  <2>1. UNCHANGED <<chain, reorgs, job, since>> /\ pc[v] = "poll" /\ job[v] # NoJob
      BY <1>8, Zenon DEF ReadReceipt, verifyOnly, nodeVars, VerInv, VerInvOf
  <2>2. PICK reply \in Replies(v) :
            LET r == Call(v, reply)
            IN  CASE r.kind = "null" -> Poll(v) /\ UNCHANGED why
                  [] ParseReceipt(r) # Err ->
                        IF ~r.value.ok THEN Refuse(v, "unconfirmed")
                        ELSE IF r.value.tx # job[v].proof.tx \/ r.value.block # job[v].proof.block
                        THEN Refuse(v, "receipt")
                        ELSE Go(v, "root") /\ UNCHANGED why
                  [] OTHER -> Refuse(v, "rpc")
      BY <1>8, Zenon DEF ReadReceipt
  <2>3. CASE Poll(v)
      BY <1>1, <2>1, <2>3, Zenon DEF Poll
  <2>4. CASE Go(v, "refused")
      BY <1>6, <2>1, <2>4, Zenon
  <2>5. CASE /\ ParseReceipt(Call(v, reply)) # Err
             /\ Call(v, reply).value.ok
             /\ Call(v, reply).value.tx = job[v].proof.tx
             /\ Call(v, reply).value.block = job[v].proof.block
             /\ Go(v, "root")
    <3> DEFINE t == job[v].proof.tx
    <3>1. Answer(v) = ReceiptAnswer(t)
        BY <2>1, Zenon DEF Answer
    <3>2. t \in Mined(chain) /\ Call(v, reply).value = Receipt(chain, t)
        BY <2>5, <3>1, TypedNode, ReceiptCall
    <3>3. Receipt(chain, t).block \in 1..Len(chain) /\ t \in chain[Receipt(chain, t).block].ok
        BY <2>5, <3>2, TypedNode, ReceiptTrue, Zenon
    <3>4. pc'[v] = "root" /\ \A w \in Verifier \ {v} : UNCHANGED <<pc[w], job[w], since[w]>>
        BY <1>0, <2>1, <2>5, Zenon DEF Go, Set
    <3>5. VerInvOf(v)'
        BY <2>1, <2>5, <3>2, <3>3, <3>4, Zenon DEF VerInv, VerInvOf
    <3> QED BY <1>4, <3>4, <3>5, Zenon
  <2> QED BY <2>2, <2>3, <2>4, <2>5, Zenon DEF Refuse
<1>9. ASSUME NEW v \in Verifier, ReadRoot(v) PROVE VerInv'
  <2>1. UNCHANGED <<chain, reorgs, job, since>> /\ pc[v] = "root" /\ job[v] # NoJob
      BY <1>9, Zenon DEF ReadRoot, verifyOnly, nodeVars, VerInv, VerInvOf
  <2>2. PICK reply \in Replies(v) :
            LET r == Call(v, reply)
            IN  IF r.kind # "data" THEN Refuse(v, "rpc")
                ELSE IF r.value # job[v].root THEN Refuse(v, "root")
                ELSE Confirmed(v, job[v])
      BY <1>9, Zenon DEF ReadRoot
  <2>3. CASE Go(v, "refused")
      BY <1>6, <2>1, <2>3, Zenon
  <2>4. CASE /\ Call(v, reply).kind = "data" /\ Call(v, reply).value = job[v].root
             /\ job[v].mode = "checker" => job[v].leaves \subseteq Members[job[v].root]
             /\ Go(v, "accepted")
    <3>1. Call(v, reply) = Answer(v)
        BY <2>4, OwnData, Zenon
    <3>2. since[v] = reorgs => OnChain(job[v].proof)
      <4> SUFFICES ASSUME since[v] = reorgs PROVE OnChain(job[v].proof)
          OBVIOUS
      <4> DEFINE b == job[v].proof.block
      <4>1. b \in 1..Len(chain) /\ job[v].proof.tx \in chain[b].ok /\ job[v].root = job[v].proof.root
          BY <2>1, Zenon DEF VerInv, VerInvOf
      <4>2. Answer(v) = [kind |-> "data", value |-> RootAt(chain, b)]
          BY <1>0, <2>1, <4>1 DEF Answer, Tag, Height
      <4>3. RootAt(chain, b) = chain[b].root
          BY <1>0, <4>1 DEF RootAt
      <4>4. Answer(v).value = RootAt(chain, b)
          BY <4>2
      <4>5. chain[b].root = job[v].proof.root
          BY <2>4, <3>1, <4>1, <4>3, <4>4, Zenon
      <4> QED BY <4>1, <4>5, Zenon DEF OnChain, Height
    <3>3. pc'[v] = "accepted" /\ \A w \in Verifier \ {v} : UNCHANGED <<pc[w], job[w], since[w]>>
        BY <1>0, <2>1, <2>4, Zenon DEF Go, Set
    <3>4. job[v].leaves \subseteq Members[job[v].root]
        BY <2>1, <2>4, Zenon DEF VerInv, VerInvOf
    <3>5. VerInvOf(v)'
        BY <2>1, <3>2, <3>3, <3>4, Zenon DEF VerInv, VerInvOf, OnChain, Height
    <3> QED BY <1>4, <3>3, <3>5, Zenon
  <2> QED BY <2>2, <2>3, <2>4, Zenon DEF Refuse, Confirmed
<1> QED
    BY <1>2, <1>3, <1>5, <1>7, <1>8, <1>9, Zenon DEF Next, VerifierStep

\* Without a reorganisation during the call, what Verify and Checker accept is
\* true of the chain, although head, receipt and root are read one by one.
THEOREM AcceptedOnChain == Spec => []AcceptedIsOnChain
<1>1. VerInv => AcceptedIsOnChain
    BY Zenon DEF VerInv, VerInvOf, AcceptedIsOnChain
<1> QED
    BY <1>1, InitTyped, StepTyped, InitPub, StepPub, InitVer, StepVer, PTL DEF Spec

-----------------------------------------------------------------------------
(* The order in which a chain that never reorganised uses up nonces.       *)

\* The contract's root after a block is one that the block published.
RootInv ==
    \A n \in 1..Len(chain) : chain[n].ok # {} => \E u \in chain[n].ok : u.root = chain[n].root

\* Before any reorganisation: nonces are used up in order, and no transaction
\* is in two blocks.
OrderInv ==
    reorgs = 0 =>
        /\ \A t \in Mined(chain) : t.nonce < LatestNonce(t.from)
        /\ \A m, n \in 1..Len(chain) : \A t \in InBlock(chain[m]) \cap InBlock(chain[n]) : m = n

\* Init satisfies both.
LEMMA InitOrder == Init => RootInv /\ OrderInv
<1> SUFFICES ASSUME Init PROVE RootInv /\ OrderInv
    OBVIOUS
<1>1. Len(chain) = 0
    BY Zenon DEF Init, NodeInit
<1>2. Mined(chain) = {}
    BY <1>1 DEF Mined
<1> QED BY <1>1, <1>2 DEF RootInv, OrderInv

\* Mining executable transactions uses up their nonces.
LEMMA NoncesUsed ==
    ASSUME Typed, Typed', NEW S \in SUBSET pool, Executable(S), Mined(chain') = Mined(chain) \cup S,
           \A t \in Mined(chain) : t.nonce < LatestNonce(t.from)
    PROVE  /\ \A t \in Mined(chain') : t.nonce < LatestNonce(t.from)'
           /\ S \cap Mined(chain) = {}
<1>0. S \subseteq Tx /\ IsFiniteSet(S) /\ Mined(chain) \subseteq Tx /\ IsFiniteSet(Mined(chain))
  <2>1. NodeOK
      BY TypedNode, Zenon
  <2> QED BY <2>1, MinedFinite, FS_Subset, Zenon DEF NodeOK, FiniteInv
<1>1. \A w : LatestNonce(w) \in Nat /\ LatestNonce(w)' \in Nat
  <2>1. NodeOK
      BY TypedNode
  <2>2. ASSUME NEW w PROVE LatestNonce(w)' \in Nat
    <3> DEFINE M == {t \in Mined(chain') : t.from = w}
    <3>1. IsFiniteSet(M)
      <4>1. IsFiniteSet(Mined(chain) \cup S)
          BY <1>0, FS_Union, Zenon
      <4>2. IsFiniteSet(Mined(chain')) /\ M \in SUBSET Mined(chain')
          BY <4>1, Zenon
      <4> HIDE DEF M
      <4> QED BY <4>2, FS_Subset, Zenon
    <3>2. Cardinality(M) \in Nat
        BY <3>1, FS_CardinalityType, Zenon
    <3> QED BY <3>2, Zenon DEF LatestNonce
  <2> QED BY <2>1, <2>2, LatestNat, Zenon
<1>2. S \cap Mined(chain) = {}
  <2> SUFFICES ASSUME NEW t \in S, t \in Mined(chain) PROVE FALSE
      OBVIOUS
  <2>1. t.nonce >= LatestNonce(t.from) /\ t.nonce < LatestNonce(t.from) /\ t.nonce \in Nat
      BY <1>0, Zenon DEF Executable, Tx
  <2> QED BY <1>1, <2>1
<1>3. ASSUME NEW t \in Mined(chain') PROVE t.nonce < LatestNonce(t.from)'
  <2> DEFINE w == t.from
             A == {u \in Mined(chain) : u.from = w}
             B == {u \in S : u.from = w}
  <2>1. IsFiniteSet(A) /\ IsFiniteSet(B) /\ A \cap B = {} /\ B \subseteq Tx
    <3>1. A \in SUBSET Mined(chain) /\ B \in SUBSET S /\ A \cap B = {} /\ B \subseteq Tx
        BY <1>0, <1>2, Zenon
    <3> HIDE DEF A, B
    <3> QED BY <1>0, <3>1, FS_Subset, Zenon
  <2>2. LatestNonce(w) = Cardinality(A)
      BY Zenon DEF LatestNonce
  <2>3. LatestNonce(w)' = Cardinality(A \cup B)
    <3>1. {u \in Mined(chain') : u.from = w} = A \cup B
      <4> HIDE DEF w
      <4>1. \A u : u \in Mined(chain') <=> u \in Mined(chain) \/ u \in S
          OBVIOUS
      <4> QED BY <4>1, Zenon
    <3> QED BY <3>1, Zenon DEF LatestNonce
  <2>4. t \in Tx /\ t.nonce \in Nat
      BY <1>0 DEF Tx
  <2>5. t \in B => \A n \in LatestNonce(w)..t.nonce : \E u \in B : u.nonce = n
      BY DEF Executable
  <2>6. t \in A => t.nonce < LatestNonce(w)
      OBVIOUS
  <2>7. t \in A \/ t \in B
      OBVIOUS
  <2>8. t \in B => t.nonce >= LatestNonce(w)
      BY Zenon DEF Executable
  <2> HIDE DEF w, A, B
  <2>9. Cardinality(A \cup B) = Cardinality(A) + Cardinality(B)
        /\ Cardinality(A) \in Nat /\ Cardinality(B) \in Nat
    <3>1. Cardinality(A \cap B) = 0
        BY <2>1, FS_EmptySet, Zenon
    <3>2. Cardinality(A) \in Nat /\ Cardinality(B) \in Nat
        BY <2>1, FS_CardinalityType, Zenon
    <3>3. Cardinality(A \cup B) = Cardinality(A) + Cardinality(B) - Cardinality(A \cap B)
        BY <2>1, FS_Union, Zenon
    <3> QED BY <3>1, <3>2, <3>3
  <2>10. CASE t \in A
      BY <1>1, <2>2, <2>3, <2>4, <2>6, <2>9, <2>10 DEF w
  <2>11. CASE t \in B
    <3> DEFINE I == LatestNonce(w)..t.nonce
               N == {u.nonce : u \in B}
    <3>1. IsFiniteSet(N) /\ Cardinality(N) <= Cardinality(B)
        BY <2>1, NonceImage, Zenon
    <3>2. I \in SUBSET N
        BY <2>5, <2>11, Zenon
    <3>3. Cardinality(I) = t.nonce - LatestNonce(w) + 1
      <4>1. LatestNonce(w) \in Int /\ t.nonce \in Int /\ ~(LatestNonce(w) > t.nonce)
          BY <1>1, <2>4, <2>8, <2>11
      <4> QED BY <4>1, FS_Interval, Zenon
    <3> HIDE DEF I, N
    <3>4. Cardinality(I) <= Cardinality(N) /\ Cardinality(N) \in Nat
        BY <3>1, <3>2, FS_Subset, FS_CardinalityType, Zenon
    <3>5. LatestNonce(w) \in Nat
        BY <1>1, Zenon
    <3>6. Cardinality(A) + Cardinality(B) >= t.nonce + 1
        BY <2>2, <2>4, <2>9, <3>1, <3>3, <3>4, <3>5
    <3>7. t.nonce < LatestNonce(w)'
        BY <2>3, <2>4, <2>9, <3>6
    <3> QED BY <3>7, Zenon DEF w
  <2> QED BY <2>7, <2>10, <2>11, Zenon
<1> QED BY <1>2, <1>3, Zenon

\* Every step keeps RootInv and OrderInv.
LEMMA StepOrder == Typed /\ Typed' /\ RootInv /\ OrderInv /\ [Next]_vars => RootInv' /\ OrderInv'
<1> SUFFICES ASSUME Typed, Typed', RootInv, OrderInv, [Next]_vars PROVE RootInv' /\ OrderInv'
    OBVIOUS
<1>0. NodeOK /\ chain \in Seq(Block) /\ Len(chain) \in Nat
    BY TypedNode DEF NodeOK
<1>1. CASE Mine
  <2>1. PICK S \in SUBSET pool :
            /\ Executable(S)
            /\ \E ok \in SUBSET S : \E r \in BlockRoots(ok) :
                chain' = Append(chain, [ok |-> ok, failed |-> S \ ok, root |-> r])
      BY <1>1, Zenon DEF Mine
  <2>2. PICK ok \in SUBSET S : \E r \in BlockRoots(ok) :
            chain' = Append(chain, [ok |-> ok, failed |-> S \ ok, root |-> r])
      BY <2>1, Zenon
  <2>3. PICK r \in BlockRoots(ok) :
            chain' = Append(chain, [ok |-> ok, failed |-> S \ ok, root |-> r])
      BY <2>2, Zenon
  <2> DEFINE b == [ok |-> ok, failed |-> S \ ok, root |-> r]
  <2>4. InBlock(b) = S /\ (b.ok # {} => \E u \in b.ok : u.root = b.root)
      BY <1>0, MinedBlock DEF InBlock
  <2>5. chain' = Append(chain, b) /\ reorgs' = reorgs
      BY <1>1, <2>3, Zenon DEF Mine
  <2> HIDE DEF b
  <2>6. Mined(chain') = Mined(chain) \cup S
      BY <2>4, <2>5, MinedGrows, Zenon
  <2>7. /\ Len(chain') = Len(chain) + 1
        /\ \A n \in 1..Len(chain') : \/ n \in 1..Len(chain) /\ chain'[n] = chain[n]
                                     \/ n = Len(chain) + 1 /\ chain'[n] = b
      BY <1>0, <2>5
  <2>8. RootInv'
      BY <2>4, <2>7, Zenon DEF RootInv
  <2>9. ASSUME reorgs = 0
        PROVE  /\ \A t \in Mined(chain') : t.nonce < LatestNonce(t.from)'
               /\ S \cap Mined(chain) = {}
    <3>1. \A t \in Mined(chain) : t.nonce < LatestNonce(t.from)
        BY <2>9, Zenon DEF OrderInv
    <3> QED BY <2>1, <2>6, <3>1, NoncesUsed, Zenon
  <2>10. ASSUME reorgs = 0, NEW m \in 1..Len(chain'), NEW n \in 1..Len(chain'),
                NEW t \in InBlock(chain'[m]) \cap InBlock(chain'[n])
         PROVE  m = n
    <3>1. \A k \in 1..Len(chain) : InBlock(chain[k]) \subseteq Mined(chain)
        BY Zenon DEF Mined
    <3>2. CASE m \in 1..Len(chain) /\ n \in 1..Len(chain)
      <4>1. chain'[m] = chain[m] /\ chain'[n] = chain[n]
          BY <1>0, <2>7, <3>2
      <4>2. t \in InBlock(chain[m]) \cap InBlock(chain[n])
          BY <2>10, <4>1, Zenon
      <4> QED BY <2>10, <3>2, <4>2, Zenon DEF OrderInv
    <3>3. CASE m = Len(chain) + 1 /\ n = Len(chain) + 1
        BY <3>3, Zenon
    <3>4. CASE m \in 1..Len(chain) /\ n = Len(chain) + 1
        BY <1>0, <2>4, <2>7, <2>9, <2>10, <3>1, <3>4
    <3>5. CASE n \in 1..Len(chain) /\ m = Len(chain) + 1
        BY <1>0, <2>4, <2>7, <2>9, <2>10, <3>1, <3>5
    <3> QED BY <2>7, <3>2, <3>3, <3>4, <3>5, Zenon
  <2>11. OrderInv'
      BY <2>5, <2>9, <2>10, Zenon DEF OrderInv
  <2> QED BY <2>8, <2>11, Zenon
<1>2. CASE UNCHANGED <<chain, reorgs>>
  <2>1. \A w : LatestNonce(w)' = LatestNonce(w)
      BY <1>2, Zenon DEF LatestNonce
  <2>2. Mined(chain') = Mined(chain)
      BY <1>2, Zenon
  <2>3. RootInv'
      BY <1>2, Zenon DEF RootInv
  <2>4. OrderInv'
      BY <1>2, <2>1, <2>2, Zenon DEF OrderInv, InBlock
  <2> QED BY <2>3, <2>4, Zenon
<1>3. CASE Reorg
  <2>1. PICK n \in 0..(Len(chain) - 1) : chain' = SubSeq(chain, 1, n)
      BY <1>3, Zenon DEF Reorg, Height
  <2>2. Len(chain') = n /\ \A i \in 1..n : i \in 1..Len(chain) /\ chain'[i] = chain[i]
      BY <1>0, <2>1
  <2>3. RootInv'
      BY <2>2, Zenon DEF RootInv
  <2>4. reorgs' # 0
      BY <1>3 DEF Reorg, Typed, TypeOK
  <2> QED BY <2>3, <2>4, Zenon DEF OrderInv
<1> QED BY <1>1, <1>2, <1>3, ChainMoves, Zenon

-----------------------------------------------------------------------------
(* Why Verify refuses.                                                     *)

\* On a chain that never reorganised the genuine proof that v holds is true,
\* and v refuses it only for a reason that RefusalExplained allows.
RefInvOf(v) ==
    reorgs = 0 /\ job[v] # NoJob /\ job[v].proof.sig = "intact" =>
        /\ job[v].proof.block \in 1..Len(chain)
        /\ job[v].proof.tx \in chain[job[v].proof.block].ok
        /\ pc[v] = "refused" /\ job[v].proof.root = job[v].proof.tx.root =>
            \/ why[v] \in {"rpc", "binding"}
            \/ /\ why[v] = "root"
               /\ \E u \in chain[job[v].proof.block].ok :
                    u.root = chain[job[v].proof.block].root /\ u # job[v].proof.tx

Reasons == {"none", "anchor", "signature", "proofroot", "rpc", "unconfirmed", "receipt", "root", "binding"}

RefInv == why \in [Verifier -> Reasons] /\ \A v \in Verifier : RefInvOf(v)

\* The invariants that the proof of RefInv rests on.
Ground == Typed /\ PubInv /\ VerInv /\ RootInv /\ OrderInv

\* Init satisfies RefInv.
LEMMA InitRef == Init => RefInv
BY DEF Init, RefInv, RefInvOf, Reasons

\* Before any reorganisation a proof as signed is true of the chain.
LEMMA GenuineProof ==
    ASSUME Ground, reorgs = 0, NEW q \in Received, q.sig = "intact"
    PROVE  q.block \in 1..Len(chain) /\ q.tx \in chain[q.block].ok
<1>1. q \in proofs
  <2>1. ASSUME NEW p \in Proofs, q \in Altered(p) PROVE q.sig # "intact"
    <3>1. ASSUME NEW b, q = [p EXCEPT !.block = b, !.sig = "other"] PROVE q.sig = "other"
        BY <3>1, Zenon DEF Proofs
    <3>2. ASSUME NEW a, q = [p EXCEPT !.anchor = a, !.sig = "other"] PROVE q.sig = "other"
        BY <3>2, Zenon DEF Proofs
    <3>3. ASSUME q = [p EXCEPT !.sig = "malformed"] PROVE q.sig = "malformed"
        BY <3>3, Zenon DEF Proofs
    <3> QED BY <2>1, <3>1, <3>2, <3>3, Zenon DEF Altered
  <2>2. Received \subseteq Proofs
      BY ReceivedProofs, Zenon DEF Ground
  <2>3. proofs \subseteq Proofs
      BY <2>2, Zenon DEF Received
  <2> QED BY <2>1, <2>3, Zenon DEF Received
<1>2. PICK r \in Root, p \in Publisher : pc[p] = "published" /\ q = Proof(r, receipt[p])
    BY <1>1 DEF proofs
<1>3. since[p] <= reorgs /\ since[p] \in Nat /\ PubInvOf(p)
    BY DEF Ground, PubInv, Typed, TypeOK, Proc
<1>4. since[p] = reorgs
    BY <1>3
<1> QED BY <1>2, <1>3, <1>4, Zenon DEF PubInvOf, Proof

\* Steps that leave v's call alone leave its part true.
LEMMA RefFrame ==
    ASSUME Ground, Typed', RefInv, [Next]_vars, NEW v \in Verifier,
           UNCHANGED <<pc[v], job[v], why[v]>>
    PROVE  RefInvOf(v)'
<1>1. RefInvOf(v) /\ reorgs \in Nat /\ Len(chain) \in Nat /\ Len(chain') \in Nat
    BY DEF Ground, RefInv, Typed, TypeOK
<1>2. \/ reorgs' = reorgs /\ Extends(chain', chain)
      \/ reorgs' = reorgs + 1
    BY ChainStep, Zenon DEF Reorg, Ground
<1>3. reorgs' = 0 => reorgs = 0 /\ Extends(chain', chain)
    BY <1>1, <1>2
<1>4. CASE reorgs' = 0 /\ job[v] # NoJob /\ job[v].proof.sig = "intact"
  <2>1. job[v].proof.block \in 1..Len(chain')
        /\ chain'[job[v].proof.block] = chain[job[v].proof.block]
      BY <1>1, <1>3, <1>4 DEF RefInvOf, Extends
  <2> QED BY <1>1, <1>3, <1>4, <2>1, Zenon DEF RefInvOf
<1> QED BY <1>4, Zenon DEF RefInvOf

\* Every step keeps RefInv.
LEMMA StepRef == Ground /\ Typed' /\ RefInv /\ [Next]_vars => RefInv'
<1> SUFFICES ASSUME Ground, Typed', RefInv, [Next]_vars PROVE RefInv'
    OBVIOUS
<1>0. /\ pc \in [Proc -> PCs] /\ job \in [Verifier -> Jobs \cup {NoJob}]
      /\ why \in [Verifier -> Reasons]
      /\ Len(chain) \in Nat /\ reorgs \in Nat /\ Typed /\ NodeOK
      /\ Publisher \subseteq Proc /\ Verifier \subseteq Proc /\ Publisher \cap Verifier = {}
    BY ProcAssumption, TypedNode DEF Ground, RefInv, Typed, TypeOK, PCs, Proc
<1>1. ASSUME UNCHANGED why, \A v \in Verifier : UNCHANGED <<pc[v], job[v]>>
      PROVE  RefInv'
    BY <1>0, <1>1, RefFrame, Zenon DEF RefInv
<1>2. CASE Node \/ Arrive \/ UNCHANGED vars
    BY <1>1, <1>2, Zenon DEF Node, Arrive, vars, clientVars
<1>3. ASSUME NEW p \in Publisher, Begin(p) \/ PublisherStep(p) \/ CancelPublish(p) PROVE RefInv'
  <2>1. UNCHANGED <<job, why>>
      BY <1>3, Zenon DEF Begin, PublisherStep, FetchParams, FetchNonce, SendTx, WaitForReceipt,
                  CancelPublish
  <2>2. Moves(p) \/ Go(p, "published")
      BY <1>3, ActionMoves, Zenon DEF PublisherStep
  <2>3. \A v \in Verifier : pc'[v] = pc[v]
    <3>1. CASE Moves(p)
        BY <1>0, <3>1, MovesTyped, Zenon
    <3>2. CASE Go(p, "published")
        BY <1>0, <3>2, Zenon DEF Go, Set
    <3> QED BY <2>2, <3>1, <3>2, Zenon
  <2> QED BY <1>1, <2>1, <2>3, Zenon
<1>4. ASSUME NEW v \in Verifier, RefInvOf(v)', why' \in [Verifier -> Reasons],
             \A w \in Verifier \ {v} : UNCHANGED <<pc[w], job[w], why[w]>>
      PROVE  RefInv'
    BY <1>4, RefFrame, Zenon DEF RefInv
<1>5. ASSUME NEW v \in Verifier, Verify(v) PROVE RefInv'
  <2>1. PICK j \in Arguments : OfflineChecks(v, j)
      BY <1>5, VerifyArguments, Zenon
  <2>2. UNCHANGED <<chain, reorgs>> /\ job[v] = NoJob
      BY <1>5, Zenon DEF Verify, nodeVars, Ground, VerInv, VerInvOf
  <2>3. \/ job' = job /\ (Go(v, "refused") \/ Go(v, "accepted"))
        \/ job' = Set(job, v, j) /\ Go(v, "head")
      BY <2>1, OfflineOutcome, Zenon
  <2>4. UNCHANGED why \/ \E e \in Reasons : why' = Set(why, v, e)
      BY <2>1, Zenon DEF OfflineChecks, Refuse, Reasons
  <2>5. \/ job'[v] = NoJob
        \/ job'[v] = j /\ pc'[v] = "head"
      BY <1>0, <2>2, <2>3, Zenon DEF Go, Set
  <2>6. why' \in [Verifier -> Reasons] /\ \A w \in Verifier \ {v} : UNCHANGED <<pc[w], job[w], why[w]>>
      BY <1>0, <2>3, <2>4, Zenon DEF Go, Set
  <2>7. reorgs = 0 /\ j.proof.sig = "intact" =>
            j.proof.block \in 1..Len(chain) /\ j.proof.tx \in chain[j.proof.block].ok
      BY GenuineProof, Zenon DEF Arguments
  <2>8. RefInvOf(v)'
      BY <2>2, <2>5, <2>7, Zenon DEF RefInvOf
  <2> QED BY <1>4, <2>6, <2>8, Zenon
<1>6. ASSUME NEW v \in Verifier, NEW o \in PCs, Go(v, o), UNCHANGED <<chain, reorgs, job>>,
             \/ o # "refused" /\ UNCHANGED why
             \/ \E e \in Reasons :
                    /\ why' = Set(why, v, e)
                    /\ \/ e \in {"rpc", "binding"}
                       \/ ~(reorgs = 0 /\ job[v].proof.sig = "intact" /\ job[v].proof.root = job[v].proof.tx.root)
                       \/ /\ e = "root"
                          /\ \E u \in chain[job[v].proof.block].ok :
                                u.root = chain[job[v].proof.block].root /\ u # job[v].proof.tx
      PROVE  RefInv'
  <2>1. pc'[v] = o /\ why' \in [Verifier -> Reasons]
        /\ \A w \in Verifier \ {v} : UNCHANGED <<pc[w], job[w], why[w]>>
      BY <1>0, <1>6, Zenon DEF Go, Set
  <2>2. RefInvOf(v)
      BY Zenon DEF RefInv
  <2>3. CASE o # "refused"
      BY <1>4, <1>6, <2>1, <2>2, <2>3, Zenon DEF RefInvOf
  <2>4. CASE o = "refused"
    <3>1. PICK e \in Reasons :
                    /\ why' = Set(why, v, e)
                    /\ \/ e \in {"rpc", "binding"}
                       \/ ~(reorgs = 0 /\ job[v].proof.sig = "intact" /\ job[v].proof.root = job[v].proof.tx.root)
                       \/ /\ e = "root"
                          /\ \E u \in chain[job[v].proof.block].ok :
                                u.root = chain[job[v].proof.block].root /\ u # job[v].proof.tx
        BY <1>6, <2>4, Zenon
    <3>2. why'[v] = e
        BY <1>0, <3>1, Zenon DEF Set
    <3>3. RefInvOf(v)'
        BY <1>6, <2>2, <3>1, <3>2, Zenon DEF RefInvOf
    <3> QED BY <1>4, <2>1, <3>3, Zenon
  <2> QED BY <2>3, <2>4, Zenon
<1>7. ASSUME NEW v \in Verifier, pc[v] \in {"head", "poll", "root"}, reorgs = 0,
             job[v].proof.sig = "intact"
      PROVE  /\ job[v].proof.block \in 1..Len(chain)
             /\ job[v].proof.tx \in chain[job[v].proof.block].ok
    BY <1>7, Zenon DEF RefInv, RefInvOf, Ground, VerInv, VerInvOf
<1> USE DEF PCs, Calling, Reasons
<1>8. ASSUME NEW v \in Verifier, CancelVerify(v) PROVE RefInv'
    BY <1>6, <1>8, Zenon DEF CancelVerify, Refuse, verifyOnly, nodeVars
<1>9. ASSUME NEW v \in Verifier, ReadHead(v) PROVE RefInv'
  <2>1. UNCHANGED <<chain, reorgs, job>> /\ pc[v] = "head"
      BY <1>9, Zenon DEF ReadHead, verifyOnly, nodeVars
  <2>2. PICK reply \in Replies(v) :
            LET r == Call(v, reply)
            IN  IF r.kind # "quantity" THEN Refuse(v, "rpc")
                ELSE IF r.value < job[v].proof.block THEN Refuse(v, "unconfirmed")
                ELSE Go(v, "poll") /\ UNCHANGED why
      BY <1>9, Zenon DEF ReadHead
  <2>3. CASE Refuse(v, "rpc") \/ (Go(v, "poll") /\ UNCHANGED why)
      BY <1>6, <2>1, <2>3, Zenon DEF Refuse
  <2>4. CASE Call(v, reply).kind = "quantity" /\ Call(v, reply).value < job[v].proof.block
             /\ Refuse(v, "unconfirmed")
    <3>1. Call(v, reply) = Quantity(Len(chain))
      <4>1. Answer(v) = Quantity(Len(chain))
          BY <2>1, Zenon DEF Answer, Height
      <4> QED BY <2>4, <4>1, OwnData, Zenon
    <3>2. Len(chain) < job[v].proof.block
        BY <2>4, <3>1 DEF Quantity
    <3>3. ~(reorgs = 0 /\ job[v].proof.sig = "intact")
        BY <1>0, <1>7, <2>1, <3>2
    <3> QED BY <1>6, <2>1, <2>4, <3>3, Zenon DEF Refuse
  <2> QED BY <2>2, <2>3, <2>4, Zenon
<1>10. ASSUME NEW v \in Verifier, ReadReceipt(v) PROVE RefInv'
  <2>1. UNCHANGED <<chain, reorgs, job>> /\ pc[v] = "poll"
      BY <1>10, Zenon DEF ReadReceipt, verifyOnly, nodeVars
  <2>2. PICK reply \in Replies(v) :
            LET r == Call(v, reply)
            IN  CASE r.kind = "null" -> Poll(v) /\ UNCHANGED why
                  [] ParseReceipt(r) # Err ->
                        IF ~r.value.ok THEN Refuse(v, "unconfirmed")
                        ELSE IF r.value.tx # job[v].proof.tx \/ r.value.block # job[v].proof.block
                        THEN Refuse(v, "receipt")
                        ELSE Go(v, "root") /\ UNCHANGED why
                  [] OTHER -> Refuse(v, "rpc")
      BY <1>10, Zenon DEF ReadReceipt
  <2>3. CASE Refuse(v, "rpc") \/ (Go(v, "root") /\ UNCHANGED why)
      BY <1>6, <2>1, <2>3, Zenon DEF Refuse
  <2>4. CASE Poll(v) /\ UNCHANGED why
      BY <1>1, <2>1, <2>4, Zenon DEF Poll
  <2>5. CASE /\ ParseReceipt(Call(v, reply)) # Err
             /\ \/ ~Call(v, reply).value.ok /\ Refuse(v, "unconfirmed")
                \/ /\ \/ Call(v, reply).value.tx # job[v].proof.tx
                      \/ Call(v, reply).value.block # job[v].proof.block
                   /\ Refuse(v, "receipt")
    <3> DEFINE t == job[v].proof.tx
               b == job[v].proof.block
               R == Receipt(chain, t)
    <3>1. Answer(v) = ReceiptAnswer(t)
        BY <2>1, Zenon DEF Answer
    <3>2. t \in Mined(chain) /\ Call(v, reply).value = R
        BY <1>0, <2>5, <3>1, ReceiptCall
    <3>3. R.tx = t /\ R.block \in 1..Len(chain) /\ t \in InBlock(chain[R.block])
          /\ R.ok = (t \in chain[R.block].ok)
        BY <1>0, <3>2, ReceiptTrue, Zenon
    <3>4. ~(reorgs = 0 /\ job[v].proof.sig = "intact")
      <4> SUFFICES ASSUME reorgs = 0, job[v].proof.sig = "intact" PROVE FALSE
          OBVIOUS
      <4>1. b \in 1..Len(chain) /\ t \in chain[b].ok
          BY <1>7, <2>1, Zenon
      <4>2. t \in InBlock(chain[b])
          BY <4>1, Zenon DEF InBlock
      <4>3. R.block = b
          BY <3>3, <4>1, <4>2, Zenon DEF Ground, OrderInv
      <4> QED BY <2>5, <3>2, <3>3, <4>1, <4>3, Zenon
    <3> HIDE DEF t, b, R
    <3> QED BY <1>6, <2>1, <2>5, <3>4, Zenon DEF Refuse
  <2> QED BY <2>2, <2>3, <2>4, <2>5, Zenon
<1>11. ASSUME NEW v \in Verifier, ReadRoot(v) PROVE RefInv'
  <2>1. UNCHANGED <<chain, reorgs, job>> /\ pc[v] = "root" /\ job[v].root = job[v].proof.root
      BY <1>11, Zenon DEF ReadRoot, verifyOnly, nodeVars, Ground, VerInv, VerInvOf
  <2>2. PICK reply \in Replies(v) :
            LET r == Call(v, reply)
            IN  IF r.kind # "data" THEN Refuse(v, "rpc")
                ELSE IF r.value # job[v].root THEN Refuse(v, "root")
                ELSE Confirmed(v, job[v])
      BY <1>11, Zenon DEF ReadRoot
  <2>3. CASE Refuse(v, "rpc") \/ Confirmed(v, job[v])
      BY <1>6, <2>1, <2>3, Zenon DEF Refuse, Confirmed
  <2>4. CASE Call(v, reply).kind = "data" /\ Call(v, reply).value # job[v].root /\ Refuse(v, "root")
    <3> DEFINE t == job[v].proof.tx
               b == job[v].proof.block
    <3>1. Call(v, reply) = Answer(v)
        BY <2>4, OwnData, Zenon
    <3>2. ASSUME reorgs = 0, job[v].proof.sig = "intact", job[v].proof.root = t.root
          PROVE  \E u \in chain[b].ok : u.root = chain[b].root /\ u # t
      <4>1. b \in 1..Len(chain) /\ t \in chain[b].ok
          BY <1>7, <2>1, <3>2, Zenon
      <4>2. Answer(v) = [kind |-> "data", value |-> RootAt(chain, b)]
          BY <1>0, <2>1, <4>1 DEF Answer, Tag, Height
      <4>3. RootAt(chain, b) = chain[b].root
          BY <1>0, <4>1 DEF RootAt
      <4>4. PICK u \in chain[b].ok : u.root = chain[b].root
          BY <4>1, Zenon DEF Ground, RootInv
      <4>5. Answer(v).value = RootAt(chain, b)
          BY <4>2
      <4>6. chain[b].root # t.root
          BY <2>1, <2>4, <3>1, <3>2, <4>3, <4>5, Zenon
      <4>7. u # t
          BY <4>4, <4>6, Zenon
      <4> QED BY <4>4, <4>7, Zenon
    <3> QED BY <1>6, <2>1, <2>4, <3>2, Zenon DEF Refuse
  <2> QED BY <2>2, <2>3, <2>4, Zenon
<1> QED
    BY <1>2, <1>3, <1>5, <1>8, <1>9, <1>10, <1>11, Zenon DEF Next, VerifierStep

\* On a chain that never reorganised, a proof of a confirmed publication is
\* refused only when a later publication of the same block replaced its root,
\* a call failed, or the objects are not under the root.
THEOREM RefusalIsExplained == Spec => []RefusalExplained
<1>1. RefInv => RefusalExplained
  <2>1. \A v : job[v].proof # NoProof => job[v] # NoJob
    <3>1. NoJob.proof = NoProof
        BY Zenon DEF NoJob
    <3> QED BY <3>1, Zenon
  <2> QED BY <2>1, Zenon DEF RefInv, RefInvOf, RefusalExplained
<1>2. Ground /\ RefInv /\ [Next]_vars => Ground' /\ RefInv'
    BY StepTyped, StepPub, StepVer, StepOrder, StepRef, Zenon DEF Ground
<1>3. Init => Ground /\ RefInv
    BY InitTyped, InitPub, InitVer, InitOrder, InitRef, Zenon DEF Ground
<1> QED
    BY <1>1, <1>2, <1>3, PTL DEF Spec
=============================================================================
