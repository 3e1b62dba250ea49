CONSTANTS
    a = a
    b = b
    c = c
    d = d
    NoPeer = NoPeer
    Peer <- ThreePeers
    KeyPeers <- ThreePeers
    Rank <- SessionRank
    Threshold = 1
    Kind = "signing"
    Scheme = "ecdsa"
    PoolUnwraps = TRUE
    MaxRetries = 2
    Faults <- RetryFaults
SPECIFICATION Spec
INVARIANTS
    SubsetVolunteered
    OneStartPerTry
    OneSignatureReturned
PROPERTIES
    ImplementsSession
\* Every Execute returns in the end: the session stops.
CHECK_DEADLOCK FALSE
