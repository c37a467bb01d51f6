SPECIFICATION Spec
CONSTANTS
    Nil = Nil
    k1 = k1  k2 = k2  k3 = k3  k4 = k4
    Dim <- MCDim
    AlgorithmOf <- AllAlgorithmOf
    Call = {v1}
    Input <- MCInput
    Time <- MCTime
    MaxTime = 3
    Lossy = {9}
    Signer <- MCSigner
    SignerID = {Nil, "id1"}
    RootDraft <- MCRootDraft
    DelegationSpec <- MCDelegationSpec
    Draft <- MCDraft
    WordBits = 4
    Mantissa = 2
    Subject <- MCSubject
    Document <- MCDocument
    KeyID <- MCKeyID
    PublicKey <- MCPublicKey
    TokenKey <- MCTokenKey
    ClaimSet <- MCClaimSet
    ForeignPayload <- MCForeignPayload
    TokenOption <- MCTokenOption
    MaxClock = 2
INVARIANTS
    TypeOK PipelineInv ValidMeansAllPassed ValidMeansPermitted DepthRespected
    ProvenanceFollowsParents KeyVersionInEffect
    NoMixedProof LinkFollowsIdentity EatFaithful OneKeyPerID VerifiersAgree
CHECK_DEADLOCK FALSE
