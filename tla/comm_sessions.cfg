CONSTANTS
    keygen = keygen
    sign = sign
    initiate = initiate
    round = round
    i1 = i1
    i2 = i2
    g1 = g1
    u1 = u1
    u2 = u2
    v1 = v1
    None = None
    Session <- Sessions
    Topic <- Topics
    Send <- Sends
    Subscriber <- Subscribers
    SessionOf <- TopicSession
    Dashed <- DashedSessions
    SentOn <- SendTopic
    After <- SendOrder
    ListensOn <- SubscriberTopic
    MaxCloses = 1
    MaxBreaks = 1
SYMMETRY Alike
SPECIFICATION Spec
INVARIANTS
    CurrentIsSubscribed
    NoneLost
PROPERTIES
    ImplementsMailbox
\* Everything is sent and everybody gone in the end.
CHECK_DEADLOCK FALSE
