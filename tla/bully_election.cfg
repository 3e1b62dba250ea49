CONSTANTS
    a = a
    b = b
    c = c
    NoPeer = NoPeer
    Peer <- ThreePeers
    Rank <- SessionRank
    Lists <- SomeLists
    MaxActive = 2
SPECIFICATION FairSpec
INVARIANTS
    TypeOK
    AliveFindsList
    BelievesProclaimed
    HeadNamesItself
    Agreement
PROPERTIES
    ElectionsEnd
    ForwardedIsHandled
\* Every election ends in silence.
CHECK_DEADLOCK FALSE
