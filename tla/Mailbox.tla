------------------------------ MODULE Mailbox ------------------------------
(***************************************************************************)
(* What the messages of one relayer to another promise to the processes    *)
(* that send and receive them, without streams, subscriptions or           *)
(* goroutines.                                                             *)
(*                                                                         *)
(* Messages are unordered and may be lost, but each reaches a receiver     *)
(* once at most, and only if its sending did not fail.  A receiver is      *)
(* reached from its arrival until it leaves or a rival takes its place;    *)
(* while it is reached only a reset of a connection loses its messages.    *)
(***************************************************************************)
CONSTANTS
    Message, Receiver, Connection,
    Audience,   \* [Message -> SUBSET Receiver]: whom a message is for
    Rivals      \* [Receiver -> SUBSET Receiver]: whose place an arrival takes

VARIABLES
    fate,       \* of each message: "unsent", "sent" or "failed"
    presence,   \* of each receiver: "expected", "here" or "left"
    reached,    \* the receivers that lose nothing but to a reset
    inTransit,  \* pairs of a receiver and a message it may still get
    received,   \* the messages each receiver got
    down        \* the connections that were reset

mailbox == <<fate, presence, reached, inTransit, received, down>>

Init ==
    /\ fate      = [m \in Message |-> "unsent"]
    /\ presence  = [u \in Receiver |-> "expected"]
    /\ reached   = {}
    /\ inTransit = {}
    /\ received  = [u \in Receiver |-> {}]
    /\ down      = {}

Post(m) ==
    /\ fate[m] = "unsent"
    /\ fate' = [fate EXCEPT ![m] = "sent"]
    /\ inTransit' = inTransit \cup (Audience[m] \X {m})
    /\ UNCHANGED <<presence, reached, received, down>>

(* The sender is told; nobody gets the message.                             *)
Fail(m) ==
    /\ fate[m] = "unsent"
    /\ fate' = [fate EXCEPT ![m] = "failed"]
    /\ UNCHANGED <<presence, reached, inTransit, received, down>>

Arrive(u) ==
    /\ presence[u] = "expected"
    /\ presence' = [presence EXCEPT ![u] = "here"]
    /\ reached'  = (reached \ Rivals[u]) \cup {u}
    /\ UNCHANGED <<fate, inTransit, received, down>>

Quit(u) ==
    /\ presence[u] = "here"
    /\ presence' = [presence EXCEPT ![u] = "left"]
    /\ reached'  = reached \ {u}
    /\ UNCHANGED <<fate, inTransit, received, down>>

Take(u, m) ==
    /\ presence[u] = "here" /\ <<u, m>> \in inTransit
    /\ inTransit' = inTransit \ {<<u, m>>}
    /\ received'  = [received EXCEPT ![u] = @ \cup {m}]
    /\ UNCHANGED <<fate, presence, reached, down>>

(* A message finds no receiver.                                             *)
Miss ==
    /\ UNCHANGED <<fate, presence, reached, received, down>>
    /\ inTransit' \subseteq inTransit
    /\ (inTransit \ inTransit') \cap (reached \X Message) = {}

Reset(k) ==
    /\ k \notin down
    /\ down' = down \cup {k}
    /\ inTransit' \subseteq inTransit
    /\ UNCHANGED <<fate, presence, reached, received>>

Next ==
    \/ Miss
    \/ \E m \in Message : Post(m) \/ Fail(m)
    \/ \E u \in Receiver : Arrive(u) \/ Quit(u) \/ \E m \in Message : Take(u, m)
    \/ \E k \in Connection : Reset(k)

Spec == Init /\ [][Next]_mailbox
=============================================================================
