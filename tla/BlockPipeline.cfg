SPECIFICATION Spec
CONSTANTS
    p1 = p1
    random = random
    b1 = b1
    Roots <- MCRoots
    Parent <- MCParent
    Peers <- MCPeers
    RandomPeer = random
    MaxPerPeer = 2
    MaxPending = 2
    Anchor = 1
    Slot <- MCSlot
    Canonical <- MCCanonical
    Gossiped <- MCGossiped
    From <- MCFrom
    Blobs <- MCBlobs
    Sidecars <- MCSidecars
    QueueSize = 1
    MaxDepth = 1
    StartSlot = 3
    MaxSlot = 5
INVARIANTS
    TypeOK
    PendingConsistent
    
    NoOtherLostWakeUp
PROPERTIES
    HeldIsImported
    PendingIsReplayed
    
CHECK_DEADLOCK FALSE
