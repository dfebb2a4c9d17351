SPECIFICATION Spec
CONSTANTS
    i1 = i1
    i2 = i2
    SlotsPerEpoch = 1
    Roots <- MCRoots
    Anchor = 1
    Parent <- MCParent
    Slot <- MCSlot
    Chain <- MCChain
    Justified <- MCJustified
    Finalized <- MCFinalized
    UnrealizedJ <- MCUnrealizedJ
    UnrealizedF <- MCUnrealizedF
    Exec <- MCRoots
    Validators <- MCValidators
    Balance <- MCBalance
    ProposerScore = 0
    Now = 3
    Importers <- MCImporters
    Fetched <- MCFetched
    QueueSize = 1
    Bad <- MCBad
INVARIANTS
    TypeOK
    VerdictsAreTrue
    
PROPERTIES
    InvalidHeadIsReplaced
CHECK_DEADLOCK FALSE
