--------------------------- MODULE Communication ---------------------------
(***************************************************************************)
(* The messages one relayer sends to another: Broadcast calls sendMessage  *)
(* for the peer in a goroutine, sendMessage finds or opens the stream of   *)
(* the session, the stream handler of the receiver reads the stream and    *)
(* starts a goroutine that hands the message to each channel subscribed    *)
(* to its session and message type.                                        *)
(*                                                                         *)
(* Streams of different peers never meet in the code, so one sender and    *)
(* one receiver show all of it.  A stream is named by the call of          *)
(* sendMessage that opened it.  A topic is a message type of a session.    *)
(***************************************************************************)
EXTENDS Naturals, Sequences

CONSTANTS
    Session, Topic, Send, Subscriber,
    SessionOf,   \* [Topic -> Session]
    Dashed,      \* the session ids that contain a "-", as "sid-sign-<hash>"
    SentOn,      \* [Send -> Topic]
    After,       \* [Send -> SUBSET Send], sends that return before this starts
    ListensOn,   \* [Subscriber -> Topic]
    MaxCloses,   \* bound on the calls of CloseSession explored
    MaxBreaks,   \* bound on the connection failures explored
    None         \* no stream, no channel
ASSUME CommunicationAssumption ==
    /\ SessionOf \in [Topic -> Session]
    /\ Dashed \subseteq Session
    /\ SentOn \in [Send -> Topic]
    /\ After \in [Send -> SUBSET Send]
    /\ ListensOn \in [Subscriber -> Topic]
    /\ MaxCloses \in Nat /\ MaxBreaks \in Nat
    /\ None \notin Send \cup Subscriber

VARIABLES
    call,        \* where each sendMessage is
    via,         \* the stream it uses
    streams,     \* streamsBySessionID of the sender, for this receiver
    stream,      \* state of each stream
    wire,        \* what is written to each stream and not read yet
    listener,    \* where each subscriber is
    subscribers, \* subscribersMap of the receiver
    delivering,  \* goroutines that wait to hand a message to a channel
    received,    \* what each subscriber took from its channel
    closes, breaks,
    lost,        \* history: streams whose AddStream found another one registered
    latest,      \* history: the last to subscribe to each topic
    due          \* history: who relied on a subscription when a message was written

sender   == <<call, via, streams, stream, closes, lost>>
receiver == <<listener, subscribers, delivering, received, latest>>
vars     == <<sender, wire, breaks, receiver, due>>

SessionOfSend(m) == SessionOf[SentOn[m]]

(* SubscriptionID is "<session>-<type>-<identifier>", and Unwrap wants      *)
(* exactly three parts.                                                     *)
Unwraps(u) == SessionOf[ListensOn[u]] \notin Dashed

(* SubscriptionIdentifier is "" when the id cannot be unwrapped.            *)
SubscriptionIdentifier(u) == IF Unwraps(u) THEN u ELSE None
Identifier == Subscriber \cup {None}

(* The subscription a caller relies on: it listens, and in a dashed session *)
(* nobody has subscribed to its topic since.                                *)
Current(u) ==
    listener[u] = "on" /\ (Unwraps(u) \/ latest[ListensOn[u]] = u)
Relying(t) == { u \in Subscriber : ListensOn[u] = t /\ Current(u) }

(* Message m is written to stream k and not read yet.                       *)
OnWire(m, k) == \E i \in 1..Len(wire[k]) : wire[k][i] = m

-----------------------------------------------------------------------------
Init ==
    /\ call        = [m \in Send |-> "idle"]
    /\ via         = [m \in Send |-> None]
    /\ streams     = [s \in Session |-> None]
    /\ stream      = [k \in Send |-> "none"]
    /\ wire        = [k \in Send |-> <<>>]
    /\ listener    = [u \in Subscriber |-> "off"]
    /\ subscribers = [t \in Topic |-> [i \in Identifier |-> None]]
    /\ delivering  = {}
    /\ received    = [u \in Subscriber |-> {}]
    /\ closes = 0 /\ breaks = 0
    /\ lost   = {}
    /\ latest = [t \in Topic |-> None]
    /\ due    = {}

Returned(m) == call[m] \in {"sent", "failed"}

(* Broadcast starts a goroutine for the peer.                               *)
Started(m) == call[m] = "idle" /\ \A n \in After[m] : Returned(n)

(* resolveDNS, Connect or NewStream fails: a CommunicationError.            *)
Unreachable(m) ==
    /\ Started(m) \/ call[m] = "open"
    /\ breaks < MaxBreaks
    /\ breaks' = breaks + 1
    /\ call' = [call EXCEPT ![m] = "failed"]
    /\ UNCHANGED <<via, streams, stream, closes, lost, wire, receiver, due>>

(* StreamManager.Stream, once the address is resolved: the stream of the    *)
(* session, or none.                                                        *)
Stream(m) ==
    /\ Started(m)
    /\ LET k == streams[SessionOfSend(m)] IN
         IF k = None
         THEN call' = [call EXCEPT ![m] = "open"] /\ UNCHANGED via
         ELSE /\ call' = [call EXCEPT ![m] = "write"]
              /\ via'  = [via EXCEPT ![m] = k]
    /\ UNCHANGED <<streams, stream, closes, lost, wire, breaks, receiver, due>>

(* NewStream, outside of the lock of the stream manager.                    *)
NewStream(m) ==
    /\ call[m] = "open"
    /\ call'   = [call EXCEPT ![m] = "add"]
    /\ via'    = [via EXCEPT ![m] = m]
    /\ stream' = [stream EXCEPT ![m] = "open"]
    /\ UNCHANGED <<streams, closes, lost, wire, breaks, receiver, due>>

(* AddStream: the first to register a stream wins; the other one is used    *)
(* for its message, and nobody will close it.                               *)
AddStream(m) ==
    /\ call[m] = "add"
    /\ call' = [call EXCEPT ![m] = "write"]
    /\ IF streams[SessionOfSend(m)] = None
       THEN streams' = [streams EXCEPT ![SessionOfSend(m)] = m] /\ UNCHANGED lost
       ELSE lost' = lost \cup {m} /\ UNCHANGED streams
    /\ UNCHANGED <<via, stream, closes, wire, breaks, receiver, due>>

(* A plausible bug in WriteStream: what is left in the buffer when the      *)
(* flush reports an error goes out with the next one.                       *)
WriteStreamLater(m) ==
    /\ call[m] = "write"
    /\ IF stream[via[m]] = "open"
       THEN /\ \E result \in {"sent", "failed"} : call' = [call EXCEPT ![m] = result]
            /\ wire' = [wire EXCEPT ![via[m]] = Append(@, m)]
            /\ due'  = due \cup (Relying(SentOn[m]) \X {m})
       ELSE call' = [call EXCEPT ![m] = "failed"] /\ UNCHANGED <<wire, due>>
    /\ UNCHANGED <<via, streams, stream, closes, lost, breaks, receiver>>

(* WriteStream.  A stream that is closed or broken stays registered: every  *)
(* later message of the session fails on it.                                *)
WriteStream(m) ==
    /\ call[m] = "write"
    /\ IF stream[via[m]] = "open"
       THEN /\ call' = [call EXCEPT ![m] = "sent"]
            /\ wire' = [wire EXCEPT ![via[m]] = Append(@, m)]
            /\ due'  = due \cup (Relying(SentOn[m]) \X {m})
       ELSE call' = [call EXCEPT ![m] = "failed"] /\ UNCHANGED <<wire, due>>
    /\ UNCHANGED <<via, streams, stream, closes, lost, breaks, receiver>>

(* CloseSession, at the end of Execute, whatever goroutines still send.     *)
(* ReleaseStreams returns at once if the session has no stream.             *)
CloseSession(s) ==
    /\ streams[s] # None
    /\ closes < MaxCloses
    /\ closes'  = closes + 1
    /\ streams' = [streams EXCEPT ![s] = None]
    /\ stream'  = [k \in Send |-> IF k = streams[s] /\ stream[k] = "open"
                                  THEN "closed" ELSE stream[k]]
    /\ UNCHANGED <<call, via, lost, wire, breaks, receiver, due>>

(* The connection is reset: what was not read is gone.                      *)
Break(k) ==
    /\ stream[k] = "open" /\ breaks < MaxBreaks
    /\ breaks' = breaks + 1
    /\ stream' = [stream EXCEPT ![k] = "broken"]
    /\ wire'   = [wire EXCEPT ![k] = <<>>]
    /\ UNCHANGED <<call, via, streams, closes, lost, receiver, due>>

-----------------------------------------------------------------------------
(* SubscribeTo: under the key "" of the topic for a dashed session, where   *)
(* it replaces the channel of an earlier subscription.                      *)
SubscribeTo(u) ==
    /\ listener[u] = "off"
    /\ listener'    = [listener EXCEPT ![u] = "on"]
    /\ subscribers' =
         [subscribers EXCEPT ![ListensOn[u]][SubscriptionIdentifier(u)] = u]
    /\ latest'      = [latest EXCEPT ![ListensOn[u]] = u]
    /\ UNCHANGED <<delivering, received, sender, wire, breaks, due>>

(* The subscriber leaves its receive loop ...                               *)
Leave(u) ==
    /\ listener[u] = "on"
    /\ listener' = [listener EXCEPT ![u] = "leaving"]
    /\ UNCHANGED <<subscribers, delivering, received, latest, sender, wire, breaks, due>>

(* A plausible bug in UnSubscribeFrom: the entry is looked up by the key    *)
(* that SubscribeTo computed for it, "" in a dashed session, whatever       *)
(* channel it holds by now.                                                 *)
UnSubscribeByIdentifier(u) ==
    /\ listener[u] = "leaving"
    /\ listener' = [listener EXCEPT ![u] = "gone"]
    /\ subscribers' =
         [subscribers EXCEPT ![ListensOn[u]][SubscriptionIdentifier(u)] = None]
    /\ UNCHANGED <<delivering, received, latest, sender, wire, breaks, due>>

(* ... and unsubscribes: without effect if the id cannot be unwrapped.      *)
UnSubscribeFrom(u) ==
    /\ listener[u] = "leaving"
    /\ listener' = [listener EXCEPT ![u] = "gone"]
    /\ subscribers' = IF Unwraps(u) THEN [subscribers EXCEPT ![ListensOn[u]][u] = None]
                                    ELSE subscribers
    /\ UNCHANGED <<delivering, received, latest, sender, wire, breaks, due>>

(* GetSubscribers.                                                          *)
GetSubscribers(t) == { subscribers[t][i] : i \in Identifier } \ {None}

(* A plausible bug in ProcessMessagesFromStream: a channel that is not      *)
(* ready for the message does without it.                                   *)
ProcessMessageIfReady(k) ==
    /\ wire[k] # <<>>
    /\ wire' = [wire EXCEPT ![k] = Tail(@)]
    /\ LET m == Head(wire[k]) IN
         \E ready \in SUBSET GetSubscribers(SentOn[m]) :
             delivering' = delivering \cup (ready \X {m})
    /\ UNCHANGED <<listener, subscribers, received, latest, sender, breaks, due>>

(* ProcessMessagesFromStream: a goroutine for every channel subscribed now; *)
(* without one the message is dropped.                                      *)
ProcessMessage(k) ==
    /\ wire[k] # <<>>
    /\ wire' = [wire EXCEPT ![k] = Tail(@)]
    /\ LET m == Head(wire[k]) IN
         delivering' = delivering \cup (GetSubscribers(SentOn[m]) \X {m})
    /\ UNCHANGED <<listener, subscribers, received, latest, sender, breaks, due>>

(* The subscriber takes a message: of those that wait, in any order.        *)
Receive(u, m) ==
    /\ listener[u] = "on" /\ <<u, m>> \in delivering
    /\ delivering' = delivering \ {<<u, m>>}
    /\ received'   = [received EXCEPT ![u] = @ \cup {m}]
    /\ UNCHANGED <<listener, subscribers, latest, sender, wire, breaks, due>>

-----------------------------------------------------------------------------
SendStep(m) ==
    \/ Unreachable(m) \/ Stream(m) \/ NewStream(m) \/ AddStream(m) \/ WriteStream(m)

Next ==
    \/ \E m \in Send : SendStep(m) \/ Break(m) \/ ProcessMessage(m)
    \/ \E s \in Session : CloseSession(s)
    \/ \E u \in Subscriber :
         SubscribeTo(u) \/ Leave(u) \/ UnSubscribeFrom(u) \/ \E m \in Send : Receive(u, m)

Spec == Init /\ [][Next]_vars

-----------------------------------------------------------------------------
(* Type invariant.                                                          *)
TypeOK ==
    /\ call \in [Send -> {"idle", "open", "add", "write", "sent", "failed"}]
    /\ via \in [Send -> Send \cup {None}]
    /\ streams \in [Session -> Send \cup {None}]
    /\ stream \in [Send -> {"none", "open", "closed", "broken"}]
    /\ wire \in [Send -> Seq(Send)]
    /\ listener \in [Subscriber -> {"off", "on", "leaving", "gone"}]
    /\ subscribers \in [Topic -> [Identifier -> Subscriber \cup {None}]]
    /\ delivering \subseteq Subscriber \X Send
    /\ received \in [Subscriber -> SUBSET Send]
    /\ closes \in Nat /\ breaks \in Nat
    /\ lost \subseteq Send
    /\ latest \in [Topic -> Subscriber \cup {None}]
    /\ due \subseteq Subscriber \X Send

(* However subscriptions of earlier tries linger, overwrite each other and  *)
(* are removed late, who relies on a subscription is found by the stream    *)
(* handler.                                                                 *)
CurrentIsSubscribed ==
    \A u \in Subscriber : Current(u) => u \in GetSubscribers(ListensOn[u])

(* A subscriber takes no message twice, whichever streams it came by.       *)
ReceivedOnce ==
    \A u \in Subscriber : \A m \in received[u] :
        <<u, m>> \notin delivering /\ \A k \in Send : ~OnWire(m, k)

(* A message written while somebody relies on a subscription is not lost   *)
(* on its way there, if the connection holds and the subscriber stays: it   *)
(* is in the stream, in a goroutine, or received.                           *)
NoneLost ==
    \A m \in Send, u \in Subscriber :
        (<<u, m>> \in due /\ Current(u) /\ stream[via[m]] # "broken")
        => \/ m \in received[u]
           \/ <<u, m>> \in delivering
           \/ OnWire(m, via[m])

(* "UnSubscribe unsubscribes from subscription defined by provided          *)
(* SubscriptionID" (comm/communication.go:28): the channel of a subscriber  *)
(* that has unsubscribed is not found any more.                             *)
UnsubscribedIsGone ==
    \A u \in Subscriber :
        listener[u] = "gone" => u \notin GetSubscribers(ListensOn[u])

(* The mailbox that Mailbox speaks of.                                      *)
Fate == [m \in Send |-> IF Returned(m) THEN call[m] ELSE "unsent"]
Presence ==
    [u \in Subscriber |-> CASE listener[u] = "off" -> "expected"
                             [] listener[u] = "on"  -> "here"
                             [] OTHER               -> "left"]
Reached == { u \in Subscriber : Current(u) }
AudienceOf == [m \in Send |-> { u \in Subscriber : ListensOn[u] = SentOn[m] }]
InTransit ==
    delivering \cup UNION { AudienceOf[m] \X {m} :
                            m \in { n \in Send : \E k \in Send : OnWire(n, k) } }
Broken == { k \in Send : stream[k] = "broken" }

RivalsOf ==
    [u \in Subscriber |->
        { w \in Subscriber : ListensOn[w] = ListensOn[u] /\ ~Unwraps(u) }]

Abstract == INSTANCE Mailbox WITH
    Message <- Send, Receiver <- Subscriber, Connection <- Send,
    Audience <- AudienceOf, Rivals <- RivalsOf,
    fate <- Fate, presence <- Presence, reached <- Reached,
    inTransit <- InTransit, down <- Broken

(* The relayers keep the promise of Mailbox to the processes: whatever      *)
(* streams are shared, lost in the race of AddStream, closed under a writer *)
(* or reset, and however subscriptions replace each other, a message gets   *)
(* to a subscriber of its own topic, once at most, never if its sender got  *)
(* an error, and it is lost to a reset connection or for want of a current  *)
(* subscription only.                                                       *)
ImplementsMailbox == Abstract!Spec
-----------------------------------------------------------------------------
(* The inductive strengthening.                                             *)

(* What is subscribed listens to the topic it is found under.               *)
Addressed ==
    \A t \in Topic, i \in Identifier :
        subscribers[t][i] # None => ListensOn[subscribers[t][i]] = t

(* Under the identifier of a subscription there is no other channel.        *)
Keyed ==
    \A t \in Topic, u \in Subscriber : subscribers[t][u] \in {None, u}

(* Before it is written a message is nowhere; afterwards its stream is      *)
(* settled, and who was to get it has subscribed to its topic.              *)
Written ==
    /\ \A m \in Send : call[m] # "sent" =>
         /\ \A k \in Send : ~OnWire(m, k)
         /\ \A u \in Subscriber :
              m \notin received[u] /\ <<u, m>> \notin delivering /\ <<u, m>> \notin due
    /\ \A m \in Send : call[m] \in {"add", "write", "sent"} => via[m] \in Send
    /\ \A u \in Subscriber, m \in Send :
         <<u, m>> \in due => listener[u] # "off" /\ ListensOn[u] = SentOn[m]

(* An open stream is registered, so that a later CloseSession would find    *)
(* it, is about to be, or lost the race in AddStream and is never closed.   *)
(* One that is registered after the last CloseSession of its session stays  *)
(* open, too.                                                               *)
OpenStreamsAccounted ==
    \A k \in Send :
        stream[k] = "open" =>
            streams[SessionOfSend(k)] = k \/ call[k] = "add" \/ k \in lost

(* A stream that is not open yet is nobody's.                               *)
Unopened ==
    \A k \in Send : call[k] \in {"idle", "open"} =>
        /\ stream[k] = "none"
        /\ \A n \in Send : via[n] # k
        /\ \A s \in Session : streams[s] # k

(* A message is in one place of one stream, and nowhere once it is read.    *)
OnePlace ==
    /\ \A m, k, l \in Send : OnWire(m, k) /\ OnWire(m, l) => k = l
    /\ \A k \in Send : \A i, j \in 1..Len(wire[k]) :
         wire[k][i] = wire[k][j] => i = j
    /\ \A u \in Subscriber, m, k \in Send :
         (m \in received[u] \/ <<u, m>> \in delivering) => ~OnWire(m, k)

Inductive == /\ CurrentIsSubscribed /\ ReceivedOnce /\ OpenStreamsAccounted /\ NoneLost
             /\ Addressed /\ Keyed /\ Unopened /\ Written /\ OnePlace
=============================================================================
