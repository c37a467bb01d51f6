SPECIFICATION PayloadSpec
CONSTANTS
    IntBits = 5
    Nil = Nil
    NilObject = Nil
    Listings <- MCListings
    Claims <- MCClaims
    MaxLog = 2
    Single = 4
    ShortMax = 1
    LenBytes = 2
    MaxInputLen = 60
    MaxNestingDepth = 4
    WordLen = 3
    AddrLen = 2
    N = 1001
    Keys = {k1}
    Stranger = Stranger
    NilChain <- MCNilChain
    Txs <- MCTxs
    Messages <- MCMessages
    Domains <- MCDomains
    Structs <- MCStructs
    Signatures <- MCSignatures
    Chains = {1, 2}
    MaxSigs = 2
    MaxFeed = 4
INVARIANTS
    RootIsRFC6962
    SameObjectsSameRoot
    VerifiedIsBuilt
    InclusionComplete
    InclusionSound
    ConsistencyComplete
    ConsistencySound
    SignedDecodes
    SenderSigned
    OneEncoding
    ChainBound
    RlpCanonical
