CONSTANTS
    k1 = k1
    k2 = k2
    r1 = r1
    r2 = r2
    s1 = s1
    s2 = s2
    Missing = Missing
    Torn = Torn
    Initial = Initial
    Keygen <- NoCalls
    Signing <- Signings
    Resharing <- NoCalls
    Session <- SessionOf
    Schemes <- Ecdsa
    Lonely <- AllAnswer
    DiskFails = FALSE
    MaxCrashes = 0
SPECIFICATION Spec
INVARIANTS
    OnePerSession
\* Every handler returns in the end: the relayer is idle again.
CHECK_DEADLOCK FALSE
