CONSTANTS
    k1 = k1
    k2 = k2
    r1 = r1
    r2 = r2
    s1 = s1
    s2 = s2
    Missing = Missing
    Torn = Torn
    Initial = Initial
    Keygen <- Keygens
    Signing <- OneSigning
    Resharing <- OneResharing
    Session <- SessionOf
    Schemes <- BothSchemes
    Lonely <- SilentPeers
    DiskFails = TRUE
    MaxCrashes = 1
SPECIFICATION FairSpec
INVARIANTS
    LockSound
    ReadsWhole
    ResharingKeepsKey
    PendingOwned
PROPERTIES
    HandlersReturn
    ImplementsStore
\* Every handler returns in the end: the relayer is idle again.
CHECK_DEADLOCK FALSE
