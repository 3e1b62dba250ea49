CONSTANTS
    k1 = k1
    k2 = k2
    r1 = r1
    r2 = r2
    s1 = s1
    s2 = s2
    Missing = Missing
    Torn = Torn
    Initial = Initial
    Keygen <- OneKeygen
    Signing <- NoCalls
    Resharing <- NoCalls
    Session <- SessionOf
    Schemes <- Ecdsa
    Lonely <- SilentToKeygen
    DiskFails = FALSE
    MaxCrashes = 0
SPECIFICATION Spec
INVARIANTS
    UnlocksMatched
\* Every handler returns in the end: the relayer is idle again.
CHECK_DEADLOCK FALSE
