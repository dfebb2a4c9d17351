SPECIFICATION Spec
CONSTANTS
    v1 = v1
    v2 = v2
    SlotsPerEpoch = 2
    Roots <- MCRoots
    Anchor = 1
    Parent <- MCParent
    Slot <- MCSlot
    Chain <- MCChain
    Justified <- MCJustified
    Finalized <- MCFinalized
    UnrealizedJ <- MCUnrealizedJ
    UnrealizedF <- MCUnrealizedF
    Exec <- MCRoots
    Validators <- MCValidators
    Balance <- MCBalance
    ProposerScore = 10
    Votes <- MCVotes
    Equivocators <- MCEquivocators
    Judged <- MCJudged
    MaxSlot = 6
    MaxDelay = 1
    MaxLag = 1
INVARIANTS
    TypeOK
    
    
    PulledUp
    BoostIsFresh
    HeadIsSound
PROPERTIES
    FinalityNeverReverts
