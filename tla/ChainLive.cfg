SPECIFICATION FairSpec
CONSTANTS
    p1 = p1
    p2 = p2
    v1 = v1
    w1 = w1
    r1 = r1
    r2 = r2
    c1 = c1
    c2 = c2
    x = x
    Publisher = {p1}
    Verifier = {v1}
    Wallet = {w1}
    WalletOf <- MCWalletOf
    Root = {r1}
    RootOf <- MCRootOf
    Keep = {p1}
    MaxAttempts <- MCAttempts
    Leaf = {x}
    Members <- MCMembers
    Anchor <- MCAnchor
    Home <- MCHome
    ZeroAddress = ZeroAddress
    MaxChainID = 2
    NoRoot = NoRoot
    NoTx = NoTx
    NoProof = NoProof
    NoReceipt = NoReceipt
    MaxHeight = 2
    MaxReorgs = 1
CHECK_DEADLOCK FALSE
PROPERTIES
    CallsReturn
    CheckerWaitsForMining
