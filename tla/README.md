# TLA+ models of the trust library

The library is a set of Go packages that check, offline, that an attestation
was made under an authority delegated from a root, that commit to sets of
objects and anchor the commitment on a chain, and that issue and rotate OAuth2
tokens. This directory holds TLA+ modules for its stateful and
rule-heavy parts, TLC configurations for small instances, and TLAPS proofs.

## 1. Inventory

| Part | Packages | State and operations | What is hard about it |
|---|---|---|---|
| OAuth2 grants | `auth/oauth` | token and code records in stores of the embedding application; three grants | handlers interleave at every store call; a call may fail after taking effect |
| Verification engine | `verification` | per-call result, failures, clock instant; thirteen ordered checks | what local checks say about a whole chain; two clocks; skipped checks |
| Authority, delegation, attestation, claim | `authority`, `delegation`, `attestation`, `claim` | records hashed, signed, derived, compared | empty means unconstrained; depth bounds; re-signing changes a hash |
| Evidence, canonical encoding | `evidence`, `canonical` | pure | order and number rules |
| Merkle tree, commitments | `merkle`, `commitment` | pure; sorted leaves, proofs | split at powers of two; proof shape |
| Chain commitment, broadcast, RPC | `chain/commitment`, `chain/broadcast`, `chain/rpc` | publish, poll, verify against a remote chain | retries, reorganisation, polling without a deadline |
| Codecs | `chain/rlp`, `chain/abi`, `chain/eip712`, `chain/wallet`, `attestation/eat*.go` | pure | length and resolution boundaries |
| JWT claims, password, session, token | `auth/*` | pure, or a random draw | time boundaries |
| Identity, key binder | `identity/*`, `verification/binder*.go` | parsers; two lookups through a resolver | key forms that fit two algorithms; documents that change between lookups |
| KMS, signatures, primitives | `kms`, `signature`, `crypto` | calls to a signer | a remote call fails half way; primitives are idealised |

`PROJECT.json` lists each part with its status, and the hazards by line.

## 2. Modules and the code

**TokenFamilies** is the abstract specification of a refresh-token family:
unborn, held by one token, rotating, dead.

**OAuthGrants** models `auth/oauth`. A handler's step ends at each store call;
the checks on a looked-up record are part of the lookup's step, because they
read the copy it returned. `stored`, `familyOf`, `userOf`, `revoked` are the
fields of `RefreshToken`, `consumed` is `AuthCode.ConsumedAt`, `expired` the
credentials past `ExpiresAt`. `pc`, `cred`, `fam`, `usr` are what a handler
keeps across a store call. `origin` and `reused` are ghosts. A store call that
returns an error may have taken effect; the interfaces do not say. `Revoke`
and `Consume` are atomic check-and-sets because the interfaces demand it
(`interfaces.go` 56-60 and 89-93): a store that breaks that contract is outside
the model.

**TrustObjects** holds the pure rules of `authority`, `delegation` and
`attestation`. A hash is the hashed content and a signature the pair of key and
content: hashes are taken as injective and signatures as unforgeable. Sorted
slices without duplicates are sets. Limits are integers; `Monetary.Limit` is a
float64 in the code, of which only the order is used.

**VerificationEngine** models `Engine.Verify`. `pc` is the position in the
pipeline; each check is a step, `checkChainLink` one step per hop. `wall` is
`time.Now()` and advances between steps; `now` is the instant resolved at the
start. The resolver serves fixed documents, and the commitment checker's
verdicts are inputs. `Lossy` holds the integers that no double holds exactly, on
which a canonical hash, and with it `BuildProvenance`, fails. The rotation
history is a set: of two entries with equal version and instant the code takes
the first listed.

**EvmNode** is the environment of `chain/commitment`, not part of the
repository: a pool, blocks and the contract's root after each block; it mines in
nonce order, drops, replaces and reorganises.

**ChainCommitment** models `Publish`, `NewProof`, `Verify` and `Checker.Verify`
over `chain/broadcast` and `chain/rpc`. A step ends at each JSON-RPC call: `pc`
names the call that is outstanding, and the node moves meanwhile. Any call can
fail, and a submission can take effect and still be reported as an error.
`Keep` are the callers that retry with the nonce of their first attempt; the
others ask for a new one. `wire` holds transactions that are submitted and not
yet at the node, `since` the reorganisation count at the start of a call (a
ghost). A proof can be altered before a verifier gets it.

**MerkleTree** holds `merkle`: the tree level by level, audit paths,
consistency proofs and their verification, with the integer width as a
constant. **Commitments** composes it with `commitment`: a publisher builds
commitments, a holder makes proofs from one it has, a document arrives as sent
or altered in one field, and a relying party checks it against the published
roots. A digest is the term that was hashed.

**Rlp** holds `chain/rlp` over a byte whose size follows from three constants
(`Single`, `ShortMax`, `LenBytes`; 128, 55 and 8 in the code), so that every
prefix range and the wrap of a length occur in a few bytes.
**Transactions** composes it with `chain/wallet` and `chain/eip712`: a wallet
signs transactions of three types, messages and typed data; the bytes are
rewritten or arbitrary; a receiver decodes, recovers the sender and validates.

**SigningKeys** holds `signature` and the public half of `identity/jwk`: which
algorithm a key has and its form as a JWK. **KeyBinding** models the binder and
the two lookups of `checkKeyBinding`, between which a subject may publish
another document. **Tokens** models `identity/jwk/jws.go` and `auth/claims`:
two issuers, a bearer who may change a token, a clock, and two verifiers over
one signature check. **SignedObjects** extends TrustObjects with `SignAuthority`
and `SignAttestation` as the sequence of assignments and failing calls they
are, `Derive`, changes of status, and the EAT token in both directions.

The `MC` modules give the constants of the runs. `MCTrustObjects` puts the engine,
signed objects, the key binder and tokens side by side in one run, `MCPayloads`
commitments and transactions: the parts share no variable and each invariant reads
the variables of one part, so a behaviour moves one part; moving two would multiply
states without adding a case. Some names carry a prefix for that (`VerifyNext`,
`TxInit`, `checkKeyBindingAt`). The `_proofs` modules hold
the proofs. Definitions whose comment begins with "Mutant" are deliberately wrong
variants used to confirm that a property can fail.

## 3. Runs

| Run | Expect | Shows |
|---|---|---|
| `oauth_race` | pass | one live token per family, one exchange per credential, users kept, dead families stay dead, a reported reuse kills its family, `TokenFamilies` refined; 322,238 states |
| `trust_objects` | pass | what a valid result means for the whole chain, and what a signature, a link, a token and a bound key mean; 555,464 states |
| `chain` | pass | what a receipt, an accepted proof and a refusal say about the chain; a kept nonce publishes once; 1,837,760 states |
| `chain_live` | pass | calls under a deadline return; `Checker.Verify`, which has none, waits only for a transaction that stays unmined; 5,850 states |
| `payloads` | pass | roots against RFC 6962, proofs complete and sound; what decoding and validation conclude from bytes; 1,269,981 states |
| `oauth_reuse_race` | violation | a rotation already in flight leaves a live token in a family just revoked for reuse |
| `engine_clock` | violation | results differ for a fixed `Now` as the wall clock moves |
| `engine_depth` | violation | a child of depth -1 is accepted below depth 0 |
| `engine_version` | violation | the key version in effect is the one bound last, not the highest one bound |
| `consistency_loop` | violation | `VerifyConsistency` does not return for a claimed size above a quarter of the integer range |
| `scalar_padding` | violation | `DecodeTransaction` refuses a transaction of `SignTx` with a scalar that starts with a zero byte |
| `length_wrap` | violation | `Decode` panics on a length so near 2^64 that its bound wraps |

The violations are places where a comment or a test states more than the code
does; `findings` in `PROJECT.json` quotes each line. Three more findings have no
run of their own. An empty claim dimension passes under a constrained authority,
which the comment on `scopeSubset` denies (in the other direction the code refuses
a non-empty claim dimension under an empty authority dimension, which the same
comment calls unconstrained). A proof is accepted under a wrong tree size that
gives its index the same sides. A `KMSSigner` on its EVM path signs what no
verifier of authorities and attestations accepts.

**Bounds.** `oauth_race`: two handlers, three tokens, two families, one code
with a PKCE challenge, two users. Two handlers give every pairwise race; three
tokens allow two rotations, or a rotation beside a second family. Codes without
a challenge, or with a method other than S256, do not occur. Handlers and tokens
are symmetric, and the view leaves out `outcome`, which no action reads: its
type is proved, and `ReuseKillsFamily` reads it only in the step that sets it.
`trust_objects`, the engine: one call, inputs in seven families (scope, depth,
time, tampering, key history, evidence, inexact limits), chains of one to three
hops, clock 1 to 3. Three hops are the least at which an authority is neither
adjacent to the leaf nor the leaf. Two of the six string dimensions are
instantiated, one always empty, and time windows and monetary limits are always
nil; the proofs cover them. `engine_clock` uses two calls on one input.

`chain`: two publishers that share a wallet, one of which keeps its nonce and
retries once, one verifier, two blocks, one reorganisation. `chain_live`: one
publisher and one verifier on the same node. Two blocks are the least with a
transaction before and after another, and with a block to lose. `payloads`, the
commitments: up to two commitments out of thirteen lists of at most seven
objects, among them every tree shape up to seven leaves, a repeated and a nil
object; integers of five bits, and claimed sizes over the trees and both ends of
the range. A document differs from a genuine one in one field (or in its leaves
with the size and root to match). The transactions: bytes with twelve values,
words of three bytes, lists of up to 60 bytes, at most two signatures of one
wallet, raw inputs of up to four bytes beside the rewritten transactions;
scalars with and without a leading zero byte; among the transactions one whose
value, one whose v and one whose length does not fit. `trust_objects`, the other
parts: three signers (a local one and a remote one on each of its paths), words
of four bits with a two-bit mantissa, documents with one or two methods in every
form the binder tells apart, tokens over a clock of 0 to 2.

**Fairness.** `chain_live` assumes weak fairness of the return of an outstanding
JSON-RPC call, which the HTTP client's timeout gives, and of the end of a wait under
a context with a deadline. `Checker.Verify` uses `context.Background()`
(`checker.go` 37) and gets no such assumption. No fairness is assumed of new
requests, of mining or of success.

**Deadlock** is checked in the OAuth and `payloads` runs and in the violations
on their modules. In the others calls return and the clock, the chain and the
attempts are bounded, so behaviours end.

**What the properties record at the edges.** `SignedDecodes` is about scalars with
all their bytes (`scalar_padding` is about the others) and about transactions that
fit: `SignTx` sets no limit to the amounts, the v it computes from the chain id or
the length, which `DecodeTransaction` does (a uint256, `MaxInputLen`).
`KeyVersionInEffect` reads "in effect" as `rotation_test.go` 360-361 does: bound
last, the highest of those bound together.
`InclusionSound` ties the index to the leaf under the true tree size only.
`AcceptedIsOnChain` is about calls during which the chain did not reorganise.
`ConsistencyComplete`: since leaves are sorted, a consistency proof exists only
when all new objects sort after the old. `EatFaithful`: an attestation with a
fraction of a second, a zone, an empty evidence list, no issuer or an unknown
status does not come back from its token; a key version above int64 does, since the
conversion is undone exactly. `NoMixedProof`: signatures of `KMSSigner` on its EVM
path do not verify. `VerifiersAgree`: the two JWT verifiers differ on zero times,
on times that are no numbers and on audience entries that are no strings, which
`claims.Sign` never writes.

## 4. Proofs

All hold for every value of the constants under the modules' named assumptions.

`OAuthGrants_proofs`, from `AuthCodeAssumption`, `NoneAssumption` and
`DisjointAssumption`: `TypeCorrect`, `OneLiveToken`, `ExchangedOnce`,
`SubjectKept`, `Refinement`, `DeadFamily`, `ReuseKills`, `Inductive`.
`AtMostOneLiveToken` is not inductive: a handler about to issue must know its
family has no live token. `IndInv` adds that what was exchanged is used up
(`RecordInv`), that a handler's memory agrees with the store (`HandlerInv`) and
that a claim is exclusive (`ClaimInv`). The refinement maps a family to its live
token, or to its rotation, dead or unborn state; `DeadFamily` follows because
`dead` has no way out in `TokenFamilies`. `ReuseKills` needs that the record a
handler looked up is still stored in the family it remembers.

`VerificationEngine_proofs`, from `TimeAssumption` and `InputAssumption` (which
state what the Go types give): `TypeCorrect`, `PipelineInvariant`, `AllPassed`,
`Permitted`, `Depth`, `VersionInEffect`, `ProvenanceParents`, for chains and
rotation histories of any length. `PipelineInv` records what each
passed check establishes and that the walk of `checkChainLink` keeps the leaf
narrower than every hop behind it. The step is transitivity of the comparison in
each dimension (`ScopeTransitive`), which needs the rule that an empty child
under a constrained parent is refused.

`VersionInEffect` and `ProvenanceParents` rest on `TraceInv`: the provenance is
the one built from the inputs, every hop passed references the hash of the
authority above it, and while no check has failed the key version check passed
at the resolved instant.

`ChainCommitment_proofs`, from `ProcAssumption` (finitely many callers, the
bounds are naturals) and `TxAssumption` (nobody else publishes the root of a
caller that keeps its nonce): `TypeCorrect`, `KeptNonceIsOnce`,
`PublishedOnChain`, `AcceptedOnChain`, `RefusalIsExplained`, for any number of
callers, wallets, roots and blocks. `KeepInv` says that any transaction in
existence with a keeper's root is the one the keeper signed. `PubInv` and
`VerInv` say that what a call has read is still true of the chain unless it
reorganised since the call began. `RootInv` and `OrderInv` say that a block's
root was published in it and that, before any reorganisation, no transaction is
in two blocks; with them `RefInv` explains every refusal.

`SignedObjects_proofs` has four parts, one for each group of variables.

- From `SignerAssumption` and `DraftAssumption`: `ProofsUnmixed`,
  `LinkIsIdentity`, for any signers and drafts. `NoMixedProof` is not inductive:
  the signature must also be known to cover the whole object but for a later
  change of status, and to come from a signer of the named algorithm
  (`AuthoritySigned`, `AttestationSigned`); the child's reference is the root
  with the identity it had at `Derive` (`AtDerive`).
- From `AttestationAssumption` (the fields of a draft have their Go types):
  `EatIsFaithful`, at any word width. The invariant says what was sent; the rest
  is that each conversion of `eatClaims` and `attFromClaims` is undone by the
  other on the attestations the token can carry.
- From `BindingAssumption`: `KeyIsUnique`, for any documents and any order of
  their changes. The invariant says that every accepted key is `Bind`'s answer
  for its document and matches the supplied key; the lemmas show that a match
  fixes the key and that a method which binds leaves exactly one algorithm.
- From `TokenAssumption` (the types that have a JWK, the forms of a JSON value):
  `TokenVerifiersAgree`, for any keys, claims, payloads, options and instants. The
  invariant ties the signature to the claims it was made for and the verdict to
  the token and the instant. The lemmas: a key comes back from its JWK
  (`JwkInverse`), claims come back from their JSON (`ClaimsInverse`), and the two
  readings of a time, an issuer and an audience are one (`SameRead`, `NullRead`).
  Times are integers there. In Go they pass through a float64, so the theorem
  speaks of times below 2^53 seconds.

**Recursive definitions.** The tree, its proofs, sorting, binary search and the
RLP codec are loops or recursions over lists of any length. Each is a function on
the natural numbers whose value at n is given by an operator of n and of the
values below n (`LevelDef`, `FoldDef`, `VerifyDef`, `UintDef`, `ListsDef`, ...).
`MerkleTree_proofs` and `TxEncoding_proofs` begin by collecting these operators in
one (`Step`) and proving that the functions exist (`Recursive`) and that a set closed
under its step holds every number (`Induction`, `InductionNext`); an induction is
then over a set `{n \in Nat : P(n)}` and needs no operator parameter. The mutual
recursion of `decodeItem` and `decodeListItems` becomes one recursion over the
number of bytes, since the payload of a list and what follows an item are shorter
than the input.

`MerkleTree_proofs`, from `IntBitsAssumption` only: `RootIsReference` (the levels
give RFC 6962's hash), `RootInjective`, `VerifiedIsCommitted` and
`VerifiedAtIndex` (what an accepted audit path shows), `ProofVerifies`,
`AcceptedIsPrefix`, `ProofConsistent` and `PrefixVerifies` (consistency proofs),
`LoopsAbove` (when `VerifyConsistency` returns), for every list of leaves, every
claimed index and size, every path and every integer width. The main lemma is
that node p of level j is the hash of the leaves from p * 2^j on, as many of the
2^j as there are (`LevelNode`). Soundness goes down the hash from the root: what
a path recomputes at each step is the hash of a range of the tree (`InTree`).

`Commitments_proofs`, from `ListingsAssumption` (no list
in memory is as long as a quarter of the integer range) and `ClaimsAssumption` (a
claimed integer fits an int): the seven properties of commitments in `payloads`, for
any lists, claims and alterations. The inductive invariant (`Inv`) says that the
log holds only what `Build` makes from sorted, distinct leaves (`LogOk`), that the
document under way has integers and hashes a decoder lets through (`WireOk`), and
that the last result is the verdict on that document (`OutcomeOk`). With it each
property follows from the theorems about trees.

`TxEncoding_proofs`, from `RlpAssumption` (the three layout constants are positive,
and the longest input is below half the word range): `ItemDecoded` (what `decodeItem`
returns is a value and its encoding at the head of the input, and it leaves its
input only where a length wraps) and `RoundTrip` (`Decode` inverts the encoding),
for nested lists of any shape and inputs of every length. Both are inductions over
the length, with the depth limit as a parameter. Beneath them: a number is its
minimal digits and only those (`Number` and `uintToBytes` invert each other), and a
prefix determines which of the four forms follows. On them it builds what the next
module needs of transactions: their fields as RLP values, and what the encodings
and preimages of the three types tell apart.

`Transactions_proofs`: the five properties of transactions in `payloads`
(`SignedTransactionsDecode`, `SendersSigned`, `EncodingsAreUnique`,
`TransactionsStayOnChain`, `DecodeIsCanonical`), and the exact extent of two of
the violations: `ShortScalarsRefused` (`SignTx`'s output is decoded exactly when
it fits and both scalars are full) and `DecodeReturns` (`Decode` panics only
where a length wraps), for any transactions, data, access lists, messages,
domains, signatures and bytes under way. `LoopsAbove` above is the third. The
assumptions, besides `RlpAssumption`:

- `CurveAssumption`: the group order is odd and below the word, which holds at
  least a uint64; lists may nest four deep (an access list in a transaction does);
  no key is one of the other answers of recovery.
- `SignaturesAssumption`: the signer returns scalars in range, a low s and a
  recovery id of 0 or 1. `SignRecoverable` can return 2 or 3 only for an r above
  the order, which has a negligible share of all points.
- `TxsAssumption`, `DigestsAssumption`: fields have their Go types, and no byte
  slice is longer than an int. Amounts and chain ids are not negative: a big.Int
  can be, and `encodeBig` drops the sign.

None of the properties is inductive. `TxInv` says that every signature was made
for a transaction, a message or a struct in a domain that the wallet was asked to
sign, with the digest of that very thing, and that no two signatures share r
(`SigsOk`); that a signed origin has left its signature and its bytes (`OriginOk`);
and that the last result is the verdict on the bytes and signatures of now
(`ResultOk`). `SenderSigned` then needs that the three kinds of digest never
coincide and that a preimage determines its fields: the fields of a transaction are
an RLP value, so `RoundTrip` and `ItemDecoded` give both directions. `OneEncoding`
adds that of s and N - s one is low (N is odd), and that the recovery id, and with
it v, follows. `ChainBound` rests on the digest as well: a preimage with a chain id
has three items more than one without.

Only model-checked. `CallsReturn` and `CheckerWaitsForMining` are liveness under
fairness, which the prover does not handle.

## 5. Not modelled

- **Primitives** (`crypto`, the closures of `signature`, `kms/der`,
  `kms/recovery.go`): idealised; their correctness is mathematics over large
  fields, not state.
- **Parsers without state**: `identity/did`, `identity/didpkh`,
  `identity/x509`, `identity/jwk/cose.go`, the private-key forms of
  `identity/jwk`, `chain/ethereum/address.go`, `chain/abi`. They are grammars
  over characters and bytes; where a modelled part calls one, its verdict is an
  input.
- **Validation of single records**: `authority/validate.go`, `claim`,
  `evidence`: one-step predicates; the engine takes their verdicts as inputs.
- **Canonical JSON** beyond the rule for exact integers: taken as injective.
- **`auth/session`, `auth/password`, `cmd/attestation`**: pure constructors, a
  hash, and a command that prints one statement.
- **A secp256k1 JWK whose point is off its curve**: what the library does with
  it is outside the repository; the documents of the model hold points on their
  curves.
