-------------------------- MODULE ChainCommitment --------------------------
(***************************************************************************)
(* chain/commitment over chain/broadcast and chain/rpc: callers that fetch *)
(* transaction parameters, Publish a Merkle root and sign a commitment     *)
(* proof for it, and callers that Verify such a proof against the chain,   *)
(* directly or through the verification engine's Checker.                  *)
(*                                                                         *)
(* Every JSON-RPC call is a request that is outstanding while pc names its *)
(* method; a step returns the call, runs the code up to the next call and  *)
(* issues it.  The node (EvmNode) moves between the steps.                 *)
(***************************************************************************)
EXTENDS EvmNode

CONSTANTS Publisher, Verifier,
          Wallet, WalletOf,     \* the wallet each publisher signs with
          Root, RootOf,         \* the root each publisher publishes
          Keep,                 \* publishers that retry with their first nonce
          MaxAttempts,          \* bound on the calls of Publish per publisher
          Leaf, Members,        \* the objects committed under a root
          Anchor, Home,         \* anchors, and the one publishers use
          ZeroAddress, MaxChainID,
          NoTx, NoProof, NoReceipt

Proc == Publisher \cup Verifier

\* Anchor.Validate: a chain ID that is positive and fits its width, and a
\* contract address.  NewAnchor returns only anchors that pass.
Validate(a) == a.chainID \in 1..MaxChainID /\ a.contract # ZeroAddress

ASSUME ProcAssumption ==
    /\ Publisher \cap Verifier = {}
    /\ IsFiniteSet(Proc)
    /\ Keep \subseteq Publisher
    /\ WalletOf \in [Publisher -> Wallet]
    /\ RootOf \in [Publisher -> Root]
    /\ Members \in [Root -> SUBSET Leaf]
    /\ NoRoot \notin Root
    /\ Home \in Anchor /\ Validate(Home)
    /\ MaxHeight \in Nat /\ MaxReorgs \in Nat /\ MaxAttempts \in [Publisher -> Nat]

VARIABLES pc,       \* the RPC method a caller waits for, or its outcome
          tick,     \* a caller's polls of a receipt so far, modulo 2
          tx,       \* the transaction a publisher signed
          hash,     \* the transaction hash polled for
          ack,      \* the node's answer to eth_sendRawTransaction
          receipt,  \* the receipt Publish returned
          attempts, \* calls of Publish so far
          job,      \* a verifier's arguments
          why,      \* the error a verifier returned
          since     \* ghost: reorganisations when the call began

clientVars == <<pc, tick, tx, hash, ack, receipt, attempts, job, why, since>>

vars == <<nodeVars, clientVars>>

-----------------------------------------------------------------------------
(* chain/rpc: one call.                                                    *)

Calling == {"fees", "nonce", "send", "receipt", "head", "poll", "root"}

Outstanding == {p \in Proc : pc[p] \in Calling}

Err == [kind |-> "error"]
Null == [kind |-> "null"]
Malformed == [kind |-> "malformed"]
NoAnswer == [kind |-> "none"]

Quantity(n) == [kind |-> "quantity", value |-> n]

\* eth_getTransactionReceipt: null until the transaction is mined.
ReceiptAnswer(t) ==
    IF t \in Mined(chain) THEN [kind |-> "receipt", value |-> Receipt(chain, t)]
    ELSE IF t = NoTx THEN Err ELSE Null

\* Mutant of Tag: root() is read at the head.
TagLatest(v) == Height

\* The block at which Verify reads root().
Tag(v) == job[v].proof.block

\* What the node says to p's outstanding request now.
Answer(p) ==
    CASE pc[p] = "fees"    -> Quantity(1)
      [] pc[p] = "nonce"   -> Quantity(PendingNonce(WalletOf[p]))
      [] pc[p] = "send"    -> ack[p]
      [] pc[p] = "receipt" -> ReceiptAnswer(hash[p])
      [] pc[p] = "head"    -> Quantity(Height)
      [] pc[p] = "poll"    -> ReceiptAnswer(job[p].proof.tx)
      [] pc[p] = "root"    ->
            IF Tag(p) \in 0..Height
            THEN [kind |-> "data", value |-> RootAt(chain, Tag(p))] ELSE Err

\* A result that does not decode.  JSON null decodes into the empty string
\* where a string is expected, and means "not mined" for a receipt.
Unusable(p) == IF pc[p] \in {"receipt", "poll"} THEN {Malformed} ELSE {Null, Malformed}

\* The responses that may arrive on p's connection: the answer to its own
\* request or to another one in flight, one without a usable result, or a
\* failure (transport, HTTP status, size, timeout, JSON-RPC error object).
Replies(p) ==
    {[to |-> q, result |-> Answer(q)] : q \in {o \in Outstanding : Answer(o) # NoAnswer}}
    \cup {[to |-> p, result |-> r] : r \in Unusable(p) \cup {Err}}

\* Mutant of Call: the id is not compared.
CallAnyId(p, reply) == reply.result

\* HTTPClient.call: a response is taken only under the request's own id.  The
\* client counts ids up atomically, so that each outstanding request has an id
\* of its own, and is named here by its caller.
Call(p, reply) == IF reply.to # p THEN Err ELSE reply.result

-----------------------------------------------------------------------------
(* chain/broadcast and Publish.                                            *)

Set(f, p, x) == [f EXCEPT ![p] = x]

\* p's call returns with outcome o, or goes on to the request o.
Go(p, o) == pc' = Set(pc, p, o) /\ tick' = Set(tick, p, 0)

\* The receipt is not there: p waits for the ticker and asks again.
Poll(p) == tick' = Set(tick, p, 1 - tick[p]) /\ UNCHANGED pc

\* Mutant of Publish: the nonce is the pending one, whatever the caller passed.
PublishFresh(p, n, complete) ==
    LET t == [from |-> WalletOf[p], nonce |-> PendingNonce(WalletOf[p]), root |-> RootOf[p]]
    IN  /\ Go(p, "send")
        /\ tx' = Set(tx, p, t)
        /\ wire' = wire \cup {[by |-> p, tx |-> t]}
        /\ ack' = Set(ack, p, NoAnswer)
        /\ since' = Set(since, p, reorgs)

\* Publish up to SendTx: the arguments are checked, the transaction is built
\* with the caller's nonce, signed and submitted.
Publish(p, n, complete) ==
    LET t == [from |-> WalletOf[p], nonce |-> n, root |-> RootOf[p]]
    IN  IF ~complete
        THEN Go(p, "failed") /\ UNCHANGED <<tx, wire, ack, since>>
        ELSE /\ Go(p, "send")
             /\ tx' = Set(tx, p, t)
             /\ wire' = wire \cup {[by |-> p, tx |-> t]}
             /\ ack' = Set(ack, p, NoAnswer)
             /\ since' = Set(since, p, reorgs)

\* The caller starts, or starts again after an error: it asks for fees, gas
\* and a nonce, or keeps the nonce of its first attempt.
Begin(p) ==
    /\ pc[p] \in {"idle", "failed"}
    /\ attempts[p] < MaxAttempts[p]
    /\ attempts' = Set(attempts, p, attempts[p] + 1)
    /\ IF p \in Keep /\ tx[p] # NoTx
       THEN Publish(p, tx[p].nonce, TRUE)
       ELSE Go(p, "fees") /\ UNCHANGED <<tx, wire, ack, since>>
    /\ UNCHANGED <<chain, pool, reorgs, hash, receipt, job, why>>

\* FetchFees and EstimateGasLimit: three calls whose answers depend on nothing
\* modelled; the first that fails ends the attempt.
FetchParams(p) ==
    /\ pc[p] = "fees"
    /\ \E reply \in Replies(p) :
        Go(p, IF Call(p, reply).kind = "quantity" THEN "nonce" ELSE "failed")
    /\ UNCHANGED <<nodeVars, tx, hash, ack, receipt, attempts, job, why, since>>

\* FetchNonce at "pending", then Publish with that nonce.
FetchNonce(p) ==
    /\ pc[p] = "nonce"
    /\ \E reply \in Replies(p), complete \in BOOLEAN :
        LET r == Call(p, reply)
        IN  IF r.kind # "quantity"
            THEN Go(p, "failed") /\ UNCHANGED <<tx, wire, ack, since>>
            ELSE Publish(p, r.value, complete)
    /\ UNCHANGED <<chain, pool, reorgs, hash, receipt, attempts, job, why>>

\* The node sees a submitted transaction, perhaps after the caller gave up.
Arrive ==
    \E m \in wire :
        /\ wire' = wire \ {m}
        /\ \E P \in Admitted(m.tx) :
            /\ pool' = P
            /\ ack' = IF pc[m.by] # "send" \/ tx[m.by] # m.tx THEN ack
                      ELSE Set(ack, m.by, IF m.tx \in P THEN [kind |-> "hash", value |-> m.tx] ELSE Err)
        /\ UNCHANGED <<chain, reorgs, pc, tick, tx, hash, receipt, attempts, job, why, since>>

\* SendTx returns; Publish asks for the receipt of the hash it was given.
SendTx(p) ==
    /\ pc[p] = "send"
    /\ \E reply \in Replies(p) :
        LET r == Call(p, reply)
        IN  CASE r.kind = "hash" -> Go(p, "receipt") /\ hash' = Set(hash, p, r.value)
              [] r.kind = "null" -> Go(p, "receipt") /\ hash' = Set(hash, p, NoTx)
              [] OTHER           -> Go(p, "failed") /\ UNCHANGED hash
    /\ ack' = Set(ack, p, NoAnswer)
    /\ UNCHANGED <<nodeVars, tx, receipt, attempts, job, why, since>>

\* parseReceipt: an object with every required field, each of its type.
ParseReceipt(raw) == IF raw.kind = "receipt" THEN raw ELSE Err

\* WaitForReceipt and the end of Publish: poll again on null, refuse a receipt
\* that does not parse, and one whose status is not 1.
WaitForReceipt(p) ==
    /\ pc[p] = "receipt"
    /\ \E reply \in Replies(p) :
        LET r == Call(p, reply)
        IN  CASE r.kind = "null" -> Poll(p) /\ UNCHANGED receipt
              [] ParseReceipt(r) # Err /\ r.value.ok ->
                    Go(p, "published") /\ receipt' = Set(receipt, p, r.value)
              [] OTHER -> Go(p, "failed") /\ UNCHANGED receipt
    /\ UNCHANGED <<nodeVars, tx, hash, ack, attempts, job, why, since>>

\* Mutant of CancelPublish: the wait does not select on ctx.Done.
NeverCancelled(p) == FALSE /\ UNCHANGED vars

\* ctx.Done while waiting for the ticker.
CancelPublish(p) ==
    /\ pc[p] = "receipt"
    /\ Go(p, "failed")
    /\ UNCHANGED <<nodeVars, tx, hash, ack, receipt, attempts, job, why, since>>

\* Proof: a caller signs a confirmed receipt's transaction and block together
\* with a root of its choice.
Proof(r, rcpt) == [root |-> r, anchor |-> Home, tx |-> rcpt.tx, block |-> rcpt.block, sig |-> "intact"]

proofs == {Proof(r, receipt[p]) : r \in Root, p \in {q \in Publisher : pc[q] = "published"}}

-----------------------------------------------------------------------------
(* Verify and Checker.Verify.                                              *)

\* A proof with a field changed.  A well-formed signature over other content
\* recovers to another address.
Altered(p) ==
    {[p EXCEPT !.block = b, !.sig = "other"] : b \in 0..MaxHeight}
    \cup {[p EXCEPT !.anchor = a, !.sig = "other"] : a \in Anchor}
    \cup {[p EXCEPT !.sig = "malformed"]}

\* A proof as it may reach a verifier: as signed, or altered.
Received == proofs \cup UNION {Altered(p) : p \in {q \in proofs : q.root = q.tx.root}}

\* VerifyCommitmentProof fails only if no address can be recovered; Verify
\* does not compare the address.
VerifyCommitmentProof(p) == p.sig # "malformed"

Refuse(v, e) == Go(v, "refused") /\ why' = Set(why, v, e)

\* The root is confirmed; Checker goes on to the two inclusion proofs.
Confirmed(v, j) ==
    IF j.mode = "checker" /\ ~(j.leaves \subseteq Members[j.root])
    THEN Refuse(v, "binding")
    ELSE Go(v, "accepted") /\ UNCHANGED why

\* The checks before the first call, in their order.
OfflineChecks(v, j) ==
    IF j.proof.anchor.chainID # Home.chainID \/ j.proof.anchor.contract # Home.contract
    THEN Refuse(v, "anchor") /\ UNCHANGED job
    ELSE IF ~VerifyCommitmentProof(j.proof) THEN Refuse(v, "signature") /\ UNCHANGED job
    ELSE IF j.proof.root # j.root THEN Refuse(v, "proofroot") /\ UNCHANGED job
    ELSE IF j.mode = "offline" THEN Go(v, "accepted") /\ UNCHANGED <<why, job>>
    ELSE Go(v, "head") /\ job' = Set(job, v, j) /\ UNCHANGED why

\* Verify up to its first call.  Checker passes the root the proof names.
Verify(v) ==
    /\ pc[v] = "idle"
    /\ \E p \in Received, r \in Root, m \in {"offline", "verify", "checker"}, L \in SUBSET Leaf :
        /\ m = "checker" => r = p.root
        /\ (m = "checker") = (L # {})
        /\ OfflineChecks(v, [proof |-> p, root |-> r, mode |-> m, leaves |-> L])
    /\ since' = Set(since, v, reorgs)
    /\ UNCHANGED <<nodeVars, tx, hash, ack, receipt, attempts>>

verifyOnly == <<nodeVars, tx, hash, ack, receipt, attempts, job, since>>

\* BlockNumber: the head must have reached the proof's block.
ReadHead(v) ==
    /\ pc[v] = "head"
    /\ \E reply \in Replies(v) :
        LET r == Call(v, reply)
        IN  IF r.kind # "quantity" THEN Refuse(v, "rpc")
            ELSE IF r.value < job[v].proof.block THEN Refuse(v, "unconfirmed")
            ELSE Go(v, "poll") /\ UNCHANGED why
    /\ UNCHANGED verifyOnly

\* Mutant of ReadReceipt: the block is not compared.
ReadReceiptAnyBlock(v) ==
    /\ pc[v] = "poll"
    /\ \E reply \in Replies(v) :
        LET r == Call(v, reply)
        IN  CASE r.kind = "null" -> Poll(v) /\ UNCHANGED why
              [] ParseReceipt(r) # Err ->
                    IF ~r.value.ok THEN Refuse(v, "unconfirmed")
                    ELSE IF r.value.tx # job[v].proof.tx
                    THEN Refuse(v, "receipt")
                    ELSE Go(v, "root") /\ UNCHANGED why
              [] OTHER -> Refuse(v, "rpc")
    /\ UNCHANGED verifyOnly

\* Mutant of ReadReceipt: a receipt of a reverted transaction counts as none.
ReadReceiptPollFailed(v) ==
    /\ pc[v] = "poll"
    /\ \E reply \in Replies(v) :
        LET r == Call(v, reply)
        IN  CASE r.kind = "null" -> Poll(v) /\ UNCHANGED why
              [] ParseReceipt(r) # Err ->
                    IF ~r.value.ok THEN Poll(v) /\ UNCHANGED why
                    ELSE IF r.value.tx # job[v].proof.tx \/ r.value.block # job[v].proof.block
                    THEN Refuse(v, "receipt")
                    ELSE Go(v, "root") /\ UNCHANGED why
              [] OTHER -> Refuse(v, "rpc")
    /\ UNCHANGED verifyOnly

\* Receipt: status, transaction and block are compared with the proof.
ReadReceipt(v) ==
    /\ pc[v] = "poll"
    /\ \E reply \in Replies(v) :
        LET r == Call(v, reply)
        IN  CASE r.kind = "null" -> Poll(v) /\ UNCHANGED why
              [] ParseReceipt(r) # Err ->
                    IF ~r.value.ok THEN Refuse(v, "unconfirmed")
                    ELSE IF r.value.tx # job[v].proof.tx \/ r.value.block # job[v].proof.block
                    THEN Refuse(v, "receipt")
                    ELSE Go(v, "root") /\ UNCHANGED why
              [] OTHER -> Refuse(v, "rpc")
    /\ UNCHANGED verifyOnly

\* ctx.Done while waiting for the ticker.  Checker passes context.Background().
CancelVerify(v) ==
    /\ pc[v] = "poll"
    /\ job[v].mode = "verify"
    /\ Refuse(v, "rpc")
    /\ UNCHANGED verifyOnly

\* Root at the proof's block.
ReadRoot(v) ==
    /\ pc[v] = "root"
    /\ \E reply \in Replies(v) :
        LET r == Call(v, reply)
        IN  IF r.kind # "data" THEN Refuse(v, "rpc")
            ELSE IF r.value # job[v].root THEN Refuse(v, "root")
            ELSE Confirmed(v, job[v])
    /\ UNCHANGED verifyOnly

-----------------------------------------------------------------------------
NoJob == [proof |-> NoProof, root |-> NoRoot, mode |-> "none", leaves |-> {}]

Init ==
    /\ NodeInit
    /\ pc = [p \in Proc |-> "idle"]
    /\ tick = [p \in Proc |-> 0]
    /\ tx = [p \in Publisher |-> NoTx]
    /\ hash = [p \in Publisher |-> NoTx]
    /\ ack = [p \in Publisher |-> NoAnswer]
    /\ receipt = [p \in Publisher |-> NoReceipt]
    /\ attempts = [p \in Publisher |-> 0]
    /\ job = [v \in Verifier |-> NoJob]
    /\ why = [v \in Verifier |-> "none"]
    /\ since = [p \in Proc |-> 0]

PublisherStep(p) ==
    \/ FetchParams(p) \/ FetchNonce(p) \/ SendTx(p) \/ WaitForReceipt(p)

VerifierStep(v) == ReadHead(v) \/ ReadReceipt(v) \/ ReadRoot(v)

Node == NodeNext /\ UNCHANGED clientVars

Next ==
    \/ Node
    \/ Arrive
    \/ \E p \in Publisher : Begin(p) \/ PublisherStep(p) \/ CancelPublish(p)
    \/ \E v \in Verifier : Verify(v) \/ VerifierStep(v) \/ CancelVerify(v)

Spec == Init /\ [][Next]_vars

\* Calls end: an HTTP call by its timeout, a wait under a deadline when the
\* deadline passes.
Fairness ==
    /\ \A p \in Publisher : WF_vars(PublisherStep(p)) /\ WF_vars(CancelPublish(p))
    /\ \A v \in Verifier : WF_vars(VerifierStep(v)) /\ WF_vars(CancelVerify(v))

FairSpec == Spec /\ Fairness

-----------------------------------------------------------------------------
Tx == [from : Wallet, nonce : Nat, root : Root]

\* NoTx is no transaction, and nobody else publishes the root of a publisher
\* that keeps its nonce.
ASSUME TxAssumption ==
    /\ NoTx \notin Tx
    /\ \A p \in Keep, q \in Publisher : RootOf[q] = RootOf[p] => q = p

Receipts == [tx : Tx, ok : BOOLEAN, block : Nat]

Proofs == [root : Root, anchor : Anchor, tx : Tx, block : Nat,
           sig : {"intact", "other", "malformed"}]

Jobs == [proof : Proofs, root : Root, mode : {"verify", "checker"},
         leaves : SUBSET Leaf]

Answers == {Err, NoAnswer} \cup [kind : {"hash"}, value : Tx]

\* The variables have the types the code gives them.
TypeOK ==
    /\ chain \in Seq([ok : SUBSET Tx, failed : SUBSET Tx, root : Root \cup {NoRoot}])
    /\ pool \in SUBSET Tx
    /\ wire \in SUBSET [by : Publisher, tx : Tx]
    /\ reorgs \in 0..MaxReorgs
    /\ pc \in [Proc -> Calling \cup {"idle", "published", "failed", "accepted", "refused"}]
    /\ tick \in [Proc -> 0..1]
    /\ tx \in [Publisher -> Tx \cup {NoTx}]
    /\ hash \in [Publisher -> Tx \cup {NoTx}]
    /\ ack \in [Publisher -> Answers]
    /\ receipt \in [Publisher -> Receipts \cup {NoReceipt}]
    /\ attempts \in [Publisher -> Nat]
    /\ job \in [Verifier -> Jobs \cup {NoJob}]
    /\ since \in [Proc -> 0..MaxReorgs]

\* A root that a proof names is on the chain as the proof says.
OnChain(p) ==
    /\ p.block \in 1..Height
    /\ p.tx \in chain[p.block].ok
    /\ chain[p.block].root = p.root

\* Head, receipt and root are three separate reads (verify.go 39-72).  If no
\* reorganisation happened since the call began, a proof that Verify accepts
\* is true of the chain: its transaction succeeded in its block and the
\* contract's root there is the expected one; and the objects that Checker
\* was given are committed under that root.
AcceptedIsOnChain ==
    \A v \in Verifier :
        pc[v] = "accepted" /\ job[v] # NoJob /\ since[v] = reorgs =>
            /\ OnChain(job[v].proof)
            /\ job[v].root = job[v].proof.root
            /\ job[v].leaves \subseteq Members[job[v].root]

\* The receipt that Publish returns is that of the transaction it signed, and
\* the transaction is where the receipt says unless the chain reorganised.
PublishedIsOnChain ==
    \A p \in Publisher :
        pc[p] = "published" =>
            /\ receipt[p].tx = tx[p]
            /\ since[p] = reorgs => /\ receipt[p].block \in 1..Height
                                    /\ tx[p] \in chain[receipt[p].block].ok

\* On a chain that never reorganised, a proof of a publication that Publish
\* confirmed is refused for one reason only: another publication that came
\* later in the same block replaced the root (or the call itself failed, or
\* the objects are not under the root).
RefusalExplained ==
    \A v \in Verifier :
        LET p == job[v].proof
        IN  pc[v] = "refused" /\ p # NoProof /\ reorgs = 0 /\ p.sig = "intact"
              /\ p.root = p.tx.root /\ job[v].root = p.root =>
                \/ why[v] \in {"rpc", "binding"}
                \/ why[v] = "root" /\ \E u \in chain[p.block].ok :
                        u.root = chain[p.block].root /\ u # p.tx

\* A caller that retries Publish with the nonce of its first attempt has its
\* root mined at most once, whatever was lost, late or reported as an error.
KeptNonceOnce ==
    \A p \in Keep : \A t, u \in Mined(chain) :
        t.root = RootOf[p] /\ u.root = RootOf[p] => t = u

\* A call under a context with a deadline returns.
CallsReturn ==
    /\ \A p \in Publisher : pc[p] \in Calling ~> pc[p] \notin Calling
    /\ \A v \in Verifier : pc[v] \in Calling /\ job[v].mode = "verify" ~> pc[v] \notin Calling

\* Checker.Verify has no deadline (checker.go 37): it waits for ever only for
\* a transaction that stays unmined.
CheckerWaitsForMining ==
    \A v \in Verifier :
        <>[](pc[v] \in Calling) => <>[](job[v] # NoJob /\ job[v].proof.tx \notin Mined(chain))

====
