\* Every process of both schemes, two messages sent and two received per try.
SPECIFICATION FairSpec
CONSTANTS
    MaxSends = 2
    MaxCalls = 2
INVARIANTS
    TypeOK
    NilMeansResult
    HangsAfterFailure
    FrostSentAll
    SecondResult
PROPERTIES
    ImplementsRun
    CancelledEnds
    DeliveredReturns
    SigningGivesUp
CHECK_DEADLOCK FALSE
