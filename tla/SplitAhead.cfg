SPECIFICATION Spec
CONSTANTS
    i1 = i1
    i2 = i2
    SlotsPerEpoch = 2
    Roots <- MCRoots
    Anchor = 1
    Parent <- MCParent
    Slot <- MCSlot
    Chain <- MCChain
    Justified <- MCJustified
    Finalized <- MCFinalized
    UnrealizedJ <- MCUnrealizedJ
    UnrealizedF <- MCUnrealizedF
    Exec <- MCRoots
    Validators <- MCValidators
    Balance <- MCBalance
    ProposerScore = 0
    Importers <- MCImporters
    Fetched <- MCFetched
    SyncedAt = 6
    MaxSlot = 8
    MaxCrashes = 1
    RestoreInterval = 2
    GenesisStatePath = TRUE
INVARIANTS
    SplitNotAboveFinalized
CHECK_DEADLOCK FALSE
