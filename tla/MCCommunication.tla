--------------------------- MODULE MCCommunication ---------------------------
(* Instances of Communication for TLC: a signing session, whose id contains *)
(* dashes, and the session "keygen".                                        *)
EXTENDS Communication, TLC

CONSTANTS
    keygen, sign,     \* sessions
    initiate, round,  \* a message type of sign, and one of keygen
    i1, i2, g1,       \* two initiates and a message of a keygen round
    u1, u2, v1        \* subscribers of two tries of sign, and one of keygen

Sessions    == {keygen, sign}
Topics      == {initiate, round}
Sends       == {i1, i2, g1}
Subscribers == {u1, u2, v1}
DashedSessions  == {sign}
TopicSession    == [t \in Topics |-> IF t = round THEN keygen ELSE sign]
SendTopic       == [m \in Sends |-> IF m = g1 THEN round ELSE initiate]
SubscriberTopic == [u \in Subscribers |-> IF u = v1 THEN round ELSE initiate]

(* The ticker's initiates are sent in goroutines and may overlap.           *)
SendOrder == [m \in Sends |-> IF m = g1 THEN {i1, i2} ELSE {}]

(* The two initiates are alike, and so are their two subscribers.           *)
Alike == Permutations({i1, i2}) \cup Permutations({u1, u2})
=============================================================================
