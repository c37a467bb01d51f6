SPECIFICATION TxSpec
CONSTANTS
    Single = 4
    ShortMax = 1
    LenBytes = 2
    MaxInputLen = 60
    MaxNestingDepth = 4
    WordLen = 3
    AddrLen = 2
    N = 1001
    Keys = {k1}
    Stranger = Stranger
    NilChain <- MCNilChain
    Txs <- MCTxs
    Messages <- MCMessages
    Domains <- MCDomains
    Structs <- MCStructs
    Signatures <- MCSignatures
    Chains = {1, 2}
    MaxSigs = 2
    MaxFeed = 4
INVARIANT EverySignatureDecodes
