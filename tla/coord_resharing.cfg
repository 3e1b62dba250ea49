CONSTANTS
    a = a
    b = b
    c = c
    d = d
    NoPeer = NoPeer
    Peer <- ThreePeers
    KeyPeers <- OldPeers
    Rank <- SessionRank
    Threshold = 1
    Kind = "resharing"
    Scheme = "ecdsa"
    PoolUnwraps = TRUE
    MaxRetries = 0
    Faults <- RunFaults
SPECIFICATION EagerSpec
INVARIANTS
    NobodyStartsAlone
PROPERTIES
    SessionStarts
\* Every Execute returns in the end: the session stops.
CHECK_DEADLOCK FALSE
