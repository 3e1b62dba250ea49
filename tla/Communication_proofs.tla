------------------------ MODULE Communication_proofs ------------------------
(***************************************************************************)
(* Theorems about Communication for any number of messages, sessions,      *)
(* subscribers, closed sessions and broken connections.                    *)
(***************************************************************************)
EXTENDS Communication, TLAPS

-----------------------------------------------------------------------------
(* Types.                                                                   *)
LEMMA Typing == Spec => []TypeOK
<1> USE CommunicationAssumption
<1>1. Init => TypeOK
  BY DEF Init, TypeOK, Identifier
<1>2. TypeOK /\ [Next]_vars => TypeOK'
  <2> SUFFICES ASSUME TypeOK, [Next]_vars  PROVE TypeOK'
    OBVIOUS
  <2> USE DEF TypeOK, sender, receiver
  <2>1. ASSUME NEW m \in Send, Unreachable(m)  PROVE TypeOK'
    BY <2>1 DEF Unreachable
  <2>2. ASSUME NEW m \in Send, Stream(m)  PROVE TypeOK'
    BY <2>2 DEF Stream, SessionOfSend
  <2>3. ASSUME NEW m \in Send, NewStream(m)  PROVE TypeOK'
    BY <2>3 DEF NewStream
  <2>4. ASSUME NEW m \in Send, AddStream(m)  PROVE TypeOK'
    BY <2>4 DEF AddStream, SessionOfSend
  <2>5. ASSUME NEW m \in Send, WriteStream(m)  PROVE TypeOK'
    <3>1. wire' \in [Send -> Seq(Send)]
      <4>1. CASE wire' = [wire EXCEPT ![via[m]] = Append(@, m)]
        <5>1. \A k \in Send : Append(wire[k], m) \in Seq(Send)
          OBVIOUS
        <5> QED  BY <4>1, <5>1
      <4> QED  BY <2>5, <4>1 DEF WriteStream
    <3>2. due' \subseteq Subscriber \X Send
      BY <2>5 DEF WriteStream, Relying
    <3>3. /\ call' \in [Send -> {"idle", "open", "add", "write", "sent", "failed"}]
          /\ UNCHANGED <<via, streams, stream, closes, lost, breaks, receiver>>
      BY <2>5 DEF WriteStream
    <3> QED  BY <3>1, <3>2, <3>3
  <2>6. ASSUME NEW k \in Send, Break(k)  PROVE TypeOK'
    BY <2>6 DEF Break
  <2>7. ASSUME NEW k \in Send, ProcessMessage(k)  PROVE TypeOK'
    <3>1. Head(wire[k]) \in Send /\ Tail(wire[k]) \in Seq(Send)
      BY <2>7 DEF ProcessMessage
    <3>2. GetSubscribers(SentOn[Head(wire[k])]) \subseteq Subscriber
      BY <3>1 DEF GetSubscribers
    <3>3. wire' \in [Send -> Seq(Send)]
      BY <2>7, <3>1 DEF ProcessMessage
    <3>4. delivering' \subseteq Subscriber \X Send
      BY <2>7, <3>1, <3>2 DEF ProcessMessage
    <3>5. UNCHANGED <<listener, subscribers, received, latest, sender, breaks, due>>
      BY <2>7 DEF ProcessMessage
    <3> QED  BY <3>3, <3>4, <3>5
  <2>8. ASSUME NEW s \in Session, CloseSession(s)  PROVE TypeOK'
    BY <2>8 DEF CloseSession
  <2>9. ASSUME NEW u \in Subscriber, SubscribeTo(u)  PROVE TypeOK'
    <3>1. SubscriptionIdentifier(u) \in Identifier /\ ListensOn[u] \in Topic
      BY DEF SubscriptionIdentifier, Identifier
    <3>2. subscribers' \in [Topic -> [Identifier -> Subscriber \cup {None}]]
      BY <2>9, <3>1 DEF SubscribeTo
    <3>3. /\ listener' \in [Subscriber -> {"off", "on", "leaving", "gone"}]
          /\ latest' \in [Topic -> Subscriber \cup {None}]
      BY <2>9 DEF SubscribeTo
    <3>4. UNCHANGED <<delivering, received, sender, wire, breaks, due>>
      BY <2>9 DEF SubscribeTo
    <3> QED  BY <3>2, <3>3, <3>4
  <2>10. ASSUME NEW u \in Subscriber, Leave(u) \/ UnSubscribeFrom(u)  PROVE TypeOK'
    <3>1. subscribers' \in [Topic -> [Identifier -> Subscriber \cup {None}]]
      <4>1. ListensOn[u] \in Topic /\ None \in Subscriber \cup {None}
        OBVIOUS
      <4>2. [subscribers EXCEPT ![ListensOn[u]][u] = None]
            \in [Topic -> [Identifier -> Subscriber \cup {None}]]
        BY <4>1
      <4> QED  BY <2>10, <4>2 DEF Leave, UnSubscribeFrom
    <3>2. /\ listener' \in [Subscriber -> {"off", "on", "leaving", "gone"}]
          /\ UNCHANGED <<delivering, received, latest, sender, wire, breaks, due>>
      BY <2>10 DEF Leave, UnSubscribeFrom
    <3> QED  BY <3>1, <3>2
  <2>11. ASSUME NEW u \in Subscriber, NEW m \in Send, Receive(u, m)  PROVE TypeOK'
    BY <2>11 DEF Receive
  <2>12. CASE UNCHANGED vars
    BY <2>12 DEF vars
  <2> QED
    BY <2>1, <2>2, <2>3, <2>4, <2>5, <2>6, <2>7, <2>8, <2>9, <2>10, <2>11, <2>12
    DEF Next, SendStep
<1> QED  BY <1>1, <1>2, PTL DEF Spec

-----------------------------------------------------------------------------
(* Streams: who opens one registers it, or loses the race; CloseSession     *)
(* closes the one that is registered.                                       *)
LEMMA LeakStep ==
    ASSUME TypeOK, OpenStreamsAccounted, [Next]_vars
    PROVE  OpenStreamsAccounted'
<1> USE CommunicationAssumption DEF TypeOK, OpenStreamsAccounted, SessionOfSend
<1>1. ASSUME NEW m \in Send, Unreachable(m) \/ Stream(m) \/ WriteStream(m)
      PROVE  OpenStreamsAccounted'
  <2>1. /\ UNCHANGED <<streams, stream, lost>>
        /\ \A k \in Send : call[k] = "add" => call'[k] = "add"
    BY <1>1 DEF Unreachable, Stream, WriteStream, Started
  <2> QED  BY <2>1
<1>2. ASSUME NEW m \in Send, NewStream(m)  PROVE OpenStreamsAccounted'
  BY <1>2 DEF NewStream
<1>3. ASSUME NEW m \in Send, AddStream(m)  PROVE OpenStreamsAccounted'
  BY <1>3 DEF AddStream
<1>4. ASSUME NEW m \in Send, Break(m)  PROVE OpenStreamsAccounted'
  BY <1>4 DEF Break
<1>5. ASSUME NEW s \in Session, CloseSession(s)  PROVE OpenStreamsAccounted'
  BY <1>5 DEF CloseSession
<1>6. CASE UNCHANGED sender
  BY <1>6 DEF sender
<1>7. ASSUME NEW u \in Subscriber,
             SubscribeTo(u) \/ Leave(u) \/ UnSubscribeFrom(u)
             \/ \E m \in Send : Receive(u, m)
      PROVE  UNCHANGED sender
  BY <1>7 DEF SubscribeTo, Leave, UnSubscribeFrom, Receive
<1>8. ASSUME NEW k \in Send, ProcessMessage(k)  PROVE UNCHANGED sender
  BY <1>8 DEF ProcessMessage
<1> QED
  BY <1>1, <1>2, <1>3, <1>4, <1>5, <1>6, <1>7, <1>8 DEF Next, SendStep, vars

(* The stream manager knows every open stream (AddStream, ReleaseStreams),  *)
(* except one that is on its way to AddStream or lost the race there.       *)
THEOREM LeaksExplained == Spec => []OpenStreamsAccounted
<1>1. Init => OpenStreamsAccounted
  BY DEF Init, OpenStreamsAccounted
<1> QED  BY <1>1, LeakStep, Typing, PTL DEF Spec

-----------------------------------------------------------------------------
(* Subscriptions.  What SubscribeTo and UnSubscribeFrom change.             *)
LEMMA Subscribed ==
    ASSUME TypeOK, NEW u \in Subscriber, SubscribeTo(u)
    PROVE  \A t \in Topic, i \in Identifier :
             subscribers'[t][i] = IF t = ListensOn[u] /\ i = SubscriptionIdentifier(u)
                                  THEN u ELSE subscribers[t][i]
<1>1. SubscriptionIdentifier(u) \in Identifier /\ ListensOn[u] \in Topic
  BY CommunicationAssumption DEF SubscriptionIdentifier, Identifier
<1> QED  BY <1>1 DEF SubscribeTo, TypeOK

LEMMA UnSubscribed ==
    ASSUME TypeOK, NEW u \in Subscriber, UnSubscribeFrom(u)
    PROVE  \A t \in Topic, i \in Identifier :
             subscribers'[t][i] = IF t = ListensOn[u] /\ i = u /\ Unwraps(u)
                                  THEN None ELSE subscribers[t][i]
  BY CommunicationAssumption DEF UnSubscribeFrom, TypeOK, Identifier

(* Every other step leaves subscriptions alone.                             *)
LEMMA Unsubscribing ==
    ASSUME [Next]_vars
    PROVE  \/ UNCHANGED <<listener, subscribers, latest>>
           \/ \E u \in Subscriber : SubscribeTo(u) \/ Leave(u) \/ UnSubscribeFrom(u)
<1> USE DEF receiver, sender
<1>1. ASSUME NEW m \in Send, SendStep(m) \/ Break(m)
      PROVE  UNCHANGED <<listener, subscribers, latest>>
  BY <1>1 DEF SendStep, Unreachable, Stream, NewStream, AddStream, WriteStream, Break
<1>2. ASSUME NEW m \in Send, ProcessMessage(m) \/ \E u \in Subscriber : Receive(u, m)
      PROVE  UNCHANGED <<listener, subscribers, latest>>
  BY <1>2 DEF ProcessMessage, Receive
<1>3. ASSUME NEW s \in Session, CloseSession(s)
      PROVE  UNCHANGED <<listener, subscribers, latest>>
  BY <1>3 DEF CloseSession
<1>4. CASE UNCHANGED vars
  BY <1>4 DEF vars
<1> QED  BY <1>1, <1>2, <1>3, <1>4 DEF Next

LEMMA KeyedStep ==
    ASSUME TypeOK, Keyed, [Next]_vars
    PROVE  Keyed'
<1> USE CommunicationAssumption DEF Keyed, Identifier
<1>1. ASSUME NEW u \in Subscriber, SubscribeTo(u)  PROVE Keyed'
  <2>1. \A w \in Subscriber : w = SubscriptionIdentifier(u) => w = u
    BY DEF SubscriptionIdentifier
  <2> QED  BY <1>1, <2>1, Subscribed
<1>2. ASSUME NEW u \in Subscriber, UnSubscribeFrom(u)  PROVE Keyed'
  BY <1>2, UnSubscribed
<1>3. ASSUME NEW u \in Subscriber, Leave(u)  PROVE Keyed'
  BY <1>3 DEF Leave
<1> QED  BY <1>1, <1>2, <1>3, Unsubscribing

LEMMA CurrentStep ==
    ASSUME TypeOK, Keyed, CurrentIsSubscribed, [Next]_vars
    PROVE  CurrentIsSubscribed'
<1> USE CommunicationAssumption DEF TypeOK, CurrentIsSubscribed, GetSubscribers
<1>1. ASSUME NEW u \in Subscriber, SubscribeTo(u), NEW w \in Subscriber, Current(w)'
      PROVE  (w \in GetSubscribers(ListensOn[w]))'
  <2> DEFINE id == SubscriptionIdentifier(u)
  <2>1. id \in Identifier /\ ListensOn[u] \in Topic /\ ListensOn[w] \in Topic
    BY DEF SubscriptionIdentifier, Identifier
  <2>2. CASE w = u
    <3>1. subscribers'[ListensOn[u]][id] = u
      BY <1>1, <2>1, Subscribed
    <3> QED  BY <2>1, <2>2, <3>1
  <2>3. CASE w # u
    <3>1. Current(w)
      BY <1>1, <2>3 DEF SubscribeTo, Current, Unwraps
    <3>2. PICK i \in Identifier : subscribers[ListensOn[w]][i] = w
      BY <3>1
    <3>3. ~(ListensOn[w] = ListensOn[u] /\ i = id)
      <4>1. CASE Unwraps(u)
        BY <2>1, <2>3, <3>2, <4>1 DEF Keyed, SubscriptionIdentifier
      <4>2. CASE ~Unwraps(u)
        BY <1>1, <2>1, <2>3, <4>2 DEF Current, SubscribeTo, Unwraps
      <4> QED  BY <4>1, <4>2
    <3>4. subscribers'[ListensOn[w]][i] = w
      BY <1>1, <2>1, <3>2, <3>3, Subscribed
    <3> QED  BY <3>2, <3>4
  <2> QED  BY <2>2, <2>3
<1>2. ASSUME NEW u \in Subscriber, UnSubscribeFrom(u), NEW w \in Subscriber, Current(w)'
      PROVE  (w \in GetSubscribers(ListensOn[w]))'
  <2>1. Current(w) /\ w # u
    BY <1>2 DEF UnSubscribeFrom, Current, Unwraps
  <2>2. PICK i \in Identifier : subscribers[ListensOn[w]][i] = w
    BY <2>1
  <2>3. i # u
    BY <2>1, <2>2 DEF Keyed
  <2>4. subscribers'[ListensOn[w]][i] = w
    BY <1>2, <2>2, <2>3, UnSubscribed
  <2> QED  BY <2>2, <2>4
<1>3. ASSUME NEW u \in Subscriber, Leave(u)  PROVE CurrentIsSubscribed'
  BY <1>3 DEF Leave, Current, Unwraps
<1>4. CASE UNCHANGED <<listener, subscribers, latest>>
  BY <1>4 DEF Current, Unwraps
<1>5. ASSUME \A w \in Subscriber : Current(w)' => (w \in GetSubscribers(ListensOn[w]))'
      PROVE  CurrentIsSubscribed'
  BY <1>5
<1> QED  BY <1>1, <1>2, <1>3, <1>4, <1>5, Unsubscribing

(* Who relies on a subscription is found by the stream handler, whatever    *)
(* other subscriptions of the topic come and go.                            *)
THEOREM SubscriptionsHold == Spec => []CurrentIsSubscribed
<1>1. Init => Keyed /\ CurrentIsSubscribed
  BY CommunicationAssumption
  DEF Init, Keyed, CurrentIsSubscribed, Current, Identifier
<1>2. TypeOK /\ Keyed /\ CurrentIsSubscribed /\ [Next]_vars
      => Keyed' /\ CurrentIsSubscribed'
  BY KeyedStep, CurrentStep
<1> QED  BY <1>1, <1>2, Typing, PTL DEF Spec

-----------------------------------------------------------------------------
(* Streams: what a write appends and what a read takes off.                 *)
LEMMA Appended ==
    ASSUME NEW S, NEW q \in Seq(S), NEW e \in S
    PROVE  /\ Len(Append(q, e)) = Len(q) + 1 /\ Len(q) \in Nat
           /\ \A i \in 1..Len(q) : Append(q, e)[i] = q[i]
           /\ Append(q, e)[Len(q) + 1] = e
  OBVIOUS

LEMMA TakenOff ==
    ASSUME NEW S, NEW q \in Seq(S), q # <<>>
    PROVE  /\ Len(q) \in Nat /\ Len(q) > 0 /\ Len(Tail(q)) = Len(q) - 1
           /\ Head(q) = q[1] /\ Head(q) \in S
           /\ \A i \in 1..(Len(q) - 1) : Tail(q)[i] = q[i + 1]
  OBVIOUS

LEMMA WireWritten ==
    ASSUME TypeOK, Written, OnePlace, NEW m \in Send, WriteStream(m), call'[m] = "sent"
    PROVE  /\ \A n, k \in Send : OnWire(n, k)' <=> OnWire(n, k) \/ (n = m /\ k = via[m])
           /\ \A k \in Send : \A i, j \in 1..Len(wire'[k]) :
                wire'[k][i] = wire'[k][j] => i = j
<1> DEFINE q == wire[via[m]]
<1>1. via[m] \in Send /\ q \in Seq(Send)
  BY DEF TypeOK, Written, WriteStream
<1>2. /\ wire' = [wire EXCEPT ![via[m]] = Append(q, m)]
      /\ call[m] # "sent"
  BY DEF WriteStream, TypeOK
<1>3. /\ wire'[via[m]] = Append(q, m)
      /\ \A k \in Send : k # via[m] => wire'[k] = wire[k]
  BY <1>1, <1>2 DEF TypeOK
<1>4. /\ Len(wire'[via[m]]) = Len(q) + 1 /\ Len(q) \in Nat
      /\ \A i \in 1..Len(q) : wire'[via[m]][i] = q[i]
      /\ wire'[via[m]][Len(q) + 1] = m
  BY <1>1, <1>3, Appended
<1>5. \A k \in Send : \A i \in 1..Len(wire[k]) : wire[k][i] # m
  BY <1>2 DEF Written, OnWire
<1>6. ASSUME NEW n \in Send
      PROVE  OnWire(n, via[m])' <=> OnWire(n, via[m]) \/ n = m
  <2>1. 1..Len(wire'[via[m]]) = 1..Len(q) \cup {Len(q) + 1}
    BY <1>4
  <2> QED  BY <1>4, <2>1 DEF OnWire, WriteStream
<1>7. ASSUME NEW n \in Send, NEW k \in Send, k # via[m]
      PROVE  OnWire(n, k)' <=> OnWire(n, k)
  BY <1>3, <1>7 DEF OnWire
<1>8. ASSUME NEW k \in Send, NEW i \in 1..Len(wire'[k]), NEW j \in 1..Len(wire'[k]),
             wire'[k][i] = wire'[k][j]
      PROVE  i = j
  <2>1. CASE k = via[m]
    <3>1. \A x, y \in 1..Len(q) : q[x] = q[y] => x = y
      BY <1>1 DEF OnePlace
    <3>2. \A x \in 1..Len(q) : q[x] # m
      BY <1>1, <1>5
    <3>3. i \in 1..Len(q) \cup {Len(q) + 1} /\ j \in 1..Len(q) \cup {Len(q) + 1}
      BY <1>4, <2>1
    <3> QED  BY <1>4, <1>8, <2>1, <3>1, <3>2, <3>3
  <2>2. CASE k # via[m]
    BY <1>3, <1>8, <2>2 DEF OnePlace
  <2> QED  BY <2>1, <2>2
<1> QED  BY <1>6, <1>7, <1>8 DEF WriteStream

LEMMA WireRead ==
    ASSUME TypeOK, OnePlace, NEW k \in Send, ProcessMessage(k)
    PROVE  /\ Head(wire[k]) \in Send /\ OnWire(Head(wire[k]), k)
           /\ \A n, l \in Send :
                OnWire(n, l)' <=> OnWire(n, l) /\ ~(l = k /\ n = Head(wire[k]))
           /\ \A l \in Send : \A i, j \in 1..Len(wire'[l]) :
                wire'[l][i] = wire'[l][j] => i = j
<1> DEFINE q == wire[k]
<1>1. q \in Seq(Send) /\ q # <<>>
  BY DEF TypeOK, ProcessMessage
<1>2. /\ wire'[k] = Tail(q)
      /\ \A l \in Send : l # k => wire'[l] = wire[l]
  BY DEF TypeOK, ProcessMessage
<1>3. /\ Len(q) \in Nat /\ Len(q) > 0 /\ Len(wire'[k]) = Len(q) - 1
      /\ Head(q) = q[1] /\ Head(q) \in Send
      /\ \A i \in 1..(Len(q) - 1) : wire'[k][i] = q[i + 1]
  BY <1>1, <1>2, TakenOff
<1>4. OnWire(Head(q), k)
  BY <1>3 DEF OnWire
<1>5. \A i, j \in 1..Len(q) : q[i] = q[j] => i = j
  BY DEF OnePlace
<1>6. ASSUME NEW n \in Send
      PROVE  OnWire(n, k)' <=> OnWire(n, k) /\ n # Head(q)
  <2>1. ASSUME NEW i \in 1..Len(wire'[k]), wire'[k][i] = n
        PROVE  OnWire(n, k) /\ n # Head(q)
    BY <1>3, <1>5, <2>1 DEF OnWire
  <2>2. ASSUME NEW i \in 1..Len(q), q[i] = n, n # Head(q)  PROVE OnWire(n, k)'
    <3>1. i - 1 \in 1..Len(wire'[k]) /\ wire'[k][i - 1] = n
      BY <1>3, <2>2
    <3> QED  BY <3>1 DEF OnWire
  <2> QED  BY <2>1, <2>2 DEF OnWire
<1>7. ASSUME NEW n \in Send, NEW l \in Send, l # k  PROVE OnWire(n, l)' <=> OnWire(n, l)
  BY <1>2, <1>7 DEF OnWire
<1>8. ASSUME NEW l \in Send, NEW i \in 1..Len(wire'[l]), NEW j \in 1..Len(wire'[l]),
             wire'[l][i] = wire'[l][j]
      PROVE  i = j
  <2>1. CASE l = k
    BY <1>3, <1>5, <1>8, <2>1
  <2>2. CASE l # k
    BY <1>2, <1>8, <2>2 DEF OnePlace
  <2> QED  BY <2>1, <2>2
<1> QED  BY <1>3, <1>4, <1>6, <1>7, <1>8

(* Every other step leaves the streams and what was read alone.             *)
LEMMA WireKept ==
    ASSUME TypeOK, UNCHANGED wire
    PROVE  /\ \A n, k \in Send : OnWire(n, k)' <=> OnWire(n, k)
           /\ \A k \in Send : \A i, j \in 1..Len(wire'[k]) :
                wire'[k][i] = wire'[k][j] <=> wire[k][i] = wire[k][j]
  BY DEF OnWire

-----------------------------------------------------------------------------
(* No message is read twice, and none that is due is lost.                  *)
Flow == Unopened /\ Written /\ OnePlace /\ ReceivedOnce /\ NoneLost

LEMMA FlowInit == Init => Flow
<1> SUFFICES ASSUME Init  PROVE Flow
  OBVIOUS
<1>1. \A m, k \in Send : ~OnWire(m, k)
  BY DEF Init, OnWire
<1> QED
  BY <1>1, CommunicationAssumption
  DEF Init, Flow, Unopened, Written, OnePlace, ReceivedOnce, NoneLost

LEMMA UnopenedStep ==
    ASSUME TypeOK, Unopened, [Next]_vars
    PROVE  Unopened'
<1> USE CommunicationAssumption DEF TypeOK, Unopened
<1>1. ASSUME NEW m \in Send, Unreachable(m)  PROVE Unopened'
  BY <1>1 DEF Unreachable
<1>2. ASSUME NEW m \in Send, Stream(m)  PROVE Unopened'
  BY <1>2 DEF Stream, SessionOfSend, Started
<1>3. ASSUME NEW m \in Send, NewStream(m)  PROVE Unopened'
  BY <1>3 DEF NewStream
<1>4. ASSUME NEW m \in Send, AddStream(m)  PROVE Unopened'
  BY <1>4 DEF AddStream, SessionOfSend
<1>5. ASSUME NEW m \in Send, WriteStream(m)  PROVE Unopened'
  BY <1>5 DEF WriteStream
<1>6. ASSUME NEW m \in Send, Break(m)  PROVE Unopened'
  BY <1>6 DEF Break
<1>7. ASSUME NEW s \in Session, CloseSession(s)  PROVE Unopened'
  BY <1>7 DEF CloseSession
<1>8. CASE UNCHANGED sender
  BY <1>8 DEF sender
<1>9. ASSUME NEW u \in Subscriber,
             SubscribeTo(u) \/ Leave(u) \/ UnSubscribeFrom(u)
             \/ \E m \in Send : Receive(u, m)
      PROVE  UNCHANGED sender
  BY <1>9 DEF SubscribeTo, Leave, UnSubscribeFrom, Receive
<1>10. ASSUME NEW k \in Send, ProcessMessage(k)  PROVE UNCHANGED sender
  BY <1>10 DEF ProcessMessage
<1> QED
  BY <1>1, <1>2, <1>3, <1>4, <1>5, <1>6, <1>7, <1>8, <1>9, <1>10
  DEF Next, SendStep, vars

(* A step of a sender that writes nothing, and CloseSession.                *)
LEMMA FlowOpening ==
    ASSUME TypeOK, Flow, UNCHANGED <<wire, due, receiver>>,
           \A n \in Send : call'[n] = "sent" <=> call[n] = "sent",
           \A n \in Send : call[n] = "sent" => via'[n] = via[n],
           \A n \in Send : call'[n] \in {"add", "write", "sent"} => via'[n] \in Send,
           \A n \in Send : call[n] = "sent" /\ stream[via[n]] = "broken"
                             => stream'[via[n]] = "broken"
    PROVE  (Written /\ OnePlace /\ ReceivedOnce /\ NoneLost)'
<1>1. \A n, k \in Send : OnWire(n, k)' <=> OnWire(n, k)
  BY WireKept DEF Flow
<1>2. Written'
  BY <1>1 DEF Flow, Written, receiver
<1>3. OnePlace'
  BY <1>1 DEF Flow, OnePlace, receiver
<1>4. ReceivedOnce'
  BY <1>1 DEF Flow, ReceivedOnce, receiver, TypeOK
<1>5. NoneLost'
  <2> SUFFICES ASSUME NEW m \in Send, NEW u \in Subscriber,
                      <<u, m>> \in due, Current(u)', stream'[via'[m]] # "broken"
               PROVE  (m \in received[u] \/ <<u, m>> \in delivering \/ OnWire(m, via[m]))'
    BY DEF NoneLost
  <2>1. call[m] = "sent" /\ via'[m] = via[m] /\ via[m] \in Send
    BY DEF Flow, Written, TypeOK
  <2>2. Current(u)
    BY DEF Current, Unwraps, receiver
  <2>3. m \in received[u] \/ <<u, m>> \in delivering \/ OnWire(m, via[m])
    BY <2>1, <2>2 DEF Flow, NoneLost
  <2>4. OnWire(m, via[m]) => OnWire(m, via[m])'
    BY <2>1 DEF OnWire
  <2> QED  BY <2>3, <2>4 DEF receiver
<1> QED  BY <1>2, <1>3, <1>4, <1>5

(* WriteStream.  What is written was nowhere before.                        *)
LEMMA FlowWrite ==
    ASSUME TypeOK, Flow, NEW m \in Send, WriteStream(m), call'[m] = "sent"
    PROVE  (Written /\ OnePlace /\ ReceivedOnce /\ NoneLost)'
<1>1. /\ via[m] \in Send /\ call[m] # "sent" /\ \A n \in Send \ {m} : call'[n] = call[n]
      /\ due' = due \cup (Relying(SentOn[m]) \X {m})
      /\ UNCHANGED <<via, stream, receiver>>
  BY DEF WriteStream, TypeOK, Flow, Written
<1>2. /\ \A n, k \in Send : OnWire(n, k)' <=> OnWire(n, k) \/ (n = m /\ k = via[m])
      /\ \A k \in Send : \A i, j \in 1..Len(wire'[k]) : wire'[k][i] = wire'[k][j] => i = j
  BY WireWritten DEF Flow
<1>3. /\ \A k \in Send : ~OnWire(m, k)
      /\ \A u \in Subscriber :
           m \notin received[u] /\ <<u, m>> \notin delivering /\ <<u, m>> \notin due
  BY <1>1 DEF Flow, Written
<1>4. \A u \in Subscriber, n \in Send :
        <<u, n>> \in due' => <<u, n>> \in due \/ (n = m /\ u \in Relying(SentOn[m]))
  BY <1>1
<1>5. Written'
  <2>1. ASSUME NEW n \in Send, call'[n] # "sent"
        PROVE  /\ \A k \in Send : ~OnWire(n, k)'
               /\ \A u \in Subscriber :
                    /\ n \notin received'[u] /\ <<u, n>> \notin delivering'
                    /\ <<u, n>> \notin due'
    BY <1>1, <1>2, <1>4, <2>1 DEF Flow, Written, receiver
  <2>2. \A n \in Send : call'[n] \in {"add", "write", "sent"} => via'[n] \in Send
    BY <1>1 DEF Flow, Written
  <2>3. \A u \in Subscriber, n \in Send :
          <<u, n>> \in due' => listener'[u] # "off" /\ ListensOn[u] = SentOn[n]
    BY <1>1, <1>4 DEF Flow, Written, Relying, Current, receiver
  <2> QED  BY <2>1, <2>2, <2>3 DEF Written
<1>6. OnePlace'
  BY <1>1, <1>2, <1>3 DEF Flow, OnePlace, receiver
<1>7. ReceivedOnce'
  <2> SUFFICES ASSUME NEW u \in Subscriber, NEW n \in received[u]
               PROVE  <<u, n>> \notin delivering /\ \A k \in Send : ~OnWire(n, k)'
    BY <1>1 DEF ReceivedOnce, receiver
  <2>1. n \in Send /\ n # m
    BY <1>3 DEF TypeOK
  <2> QED  BY <1>2, <2>1 DEF Flow, ReceivedOnce
<1>8. NoneLost'
  <2> SUFFICES ASSUME NEW n \in Send, NEW u \in Subscriber,
                      <<u, n>> \in due', Current(u)', stream'[via'[n]] # "broken"
               PROVE  (n \in received[u] \/ <<u, n>> \in delivering \/ OnWire(n, via[n]))'
    BY DEF NoneLost
  <2>2. CASE n = m
    <3>1. \E i \in 1..Len(wire'[via[m]]) : wire'[via[m]][i] = m
      BY <1>1, <1>2 DEF OnWire
    <3> QED  BY <1>1, <2>2, <3>1 DEF OnWire
  <2>3. CASE n # m
    <3>1. <<u, n>> \in due /\ Current(u) /\ stream[via[n]] # "broken" /\ via[n] \in Send
      BY <1>1, <1>4, <2>3 DEF Current, Unwraps, receiver, Flow, Written, TypeOK
    <3>2. n \in received[u] \/ <<u, n>> \in delivering \/ OnWire(n, via[n])
      BY <3>1 DEF Flow, NoneLost
    <3> QED  BY <1>1, <1>2, <3>1, <3>2 DEF OnWire, receiver
  <2> QED  BY <2>2, <2>3
<1> QED  BY <1>5, <1>6, <1>7, <1>8

(* ProcessMessage.  What is read goes to everybody it is due to.            *)
LEMMA FlowRead ==
    ASSUME TypeOK, Flow, CurrentIsSubscribed, NEW k \in Send, ProcessMessage(k)
    PROVE  (Written /\ OnePlace /\ ReceivedOnce /\ NoneLost)'
<1>0. PICK h \in Send : h = Head(wire[k])
  BY WireRead DEF Flow
<1>1. /\ OnWire(h, k)
      /\ \A n, l \in Send : OnWire(n, l)' <=> OnWire(n, l) /\ ~(l = k /\ n = h)
      /\ \A l \in Send : \A i, j \in 1..Len(wire'[l]) : wire'[l][i] = wire'[l][j] => i = j
  BY <1>0, WireRead DEF Flow
<1>2. /\ delivering' = delivering \cup (GetSubscribers(SentOn[h]) \X {h})
      /\ UNCHANGED <<listener, subscribers, received, latest, call, via, stream, due>>
  BY <1>0 DEF ProcessMessage, sender
<1>3. \A l \in Send : ~OnWire(h, l)'
  BY <1>1 DEF Flow, OnePlace
<1>4. /\ call[h] = "sent"
      /\ \A u \in Subscriber : h \notin received[u] /\ <<u, h>> \notin delivering
  BY <1>1 DEF Flow, Written, OnePlace
<1>5. \A u \in Subscriber, n \in Send :
        <<u, n>> \in delivering' => <<u, n>> \in delivering \/ n = h
  BY <1>2
<1>6. Written'
  BY <1>1, <1>2, <1>4, <1>5 DEF Flow, Written
<1>7. OnePlace'
  BY <1>1, <1>2, <1>3, <1>5 DEF Flow, OnePlace
<1>8. ReceivedOnce'
  <2> SUFFICES ASSUME NEW u \in Subscriber, NEW n \in received[u]
               PROVE  <<u, n>> \notin delivering' /\ \A l \in Send : ~OnWire(n, l)'
    BY <1>2 DEF ReceivedOnce
  <2>1. n \in Send /\ n # h
    BY <1>4 DEF TypeOK
  <2> QED  BY <1>1, <1>5, <2>1 DEF Flow, ReceivedOnce
<1>9. NoneLost'
  <2> SUFFICES ASSUME NEW n \in Send, NEW u \in Subscriber,
                      <<u, n>> \in due', Current(u)', stream'[via'[n]] # "broken"
               PROVE  (n \in received[u] \/ <<u, n>> \in delivering \/ OnWire(n, via[n]))'
    BY DEF NoneLost
  <2>2. <<u, n>> \in due /\ Current(u) /\ stream[via[n]] # "broken"
    BY <1>2 DEF Current, Unwraps
  <2>3. ListensOn[u] = SentOn[n] /\ call[n] = "sent" /\ via[n] \in Send
    BY <2>2 DEF Flow, Written
  <2>4. CASE n = h
    <3>1. u \in GetSubscribers(SentOn[h])
      BY <2>2, <2>3, <2>4 DEF CurrentIsSubscribed
    <3> QED  BY <1>2, <2>4, <3>1
  <2>5. CASE n # h
    <3>1. n \in received[u] \/ <<u, n>> \in delivering \/ OnWire(n, via[n])
      BY <2>2 DEF Flow, NoneLost
    <3> QED  BY <1>1, <1>2, <2>3, <2>5, <3>1 DEF OnWire
  <2> QED  BY <2>4, <2>5
<1> QED  BY <1>6, <1>7, <1>8, <1>9

LEMMA ReceivedTyped ==
    ASSUME TypeOK, NEW u \in Subscriber,
           UNCHANGED received \/ \E m \in Send : Receive(u, m)
    PROVE  received' \in [Subscriber -> SUBSET Send]
<1>1. CASE UNCHANGED received
  BY <1>1 DEF TypeOK
<1>2. ASSUME NEW m \in Send, Receive(u, m)
      PROVE  received' \in [Subscriber -> SUBSET Send]
  <2>1. received[u] \cup {m} \in SUBSET Send
    BY DEF TypeOK
  <2> QED  BY <1>2, <2>1 DEF TypeOK, Receive
<1> QED  BY <1>1, <1>2

(* A step of the receiver that reads no stream.                             *)
LEMMA FlowListening ==
    ASSUME TypeOK, Flow, UNCHANGED <<wire, due, sender>>, NEW u \in Subscriber,
           \/ /\ UNCHANGED <<delivering, received>>
              /\ SubscribeTo(u) \/ Leave(u) \/ UnSubscribeFrom(u)
           \/ \E m \in Send : Receive(u, m)
    PROVE  (Written /\ OnePlace /\ ReceivedOnce /\ NoneLost)'
<1>1. /\ \A n, k \in Send : OnWire(n, k)' <=> OnWire(n, k)
      /\ UNCHANGED <<call, via, stream>>
  BY WireKept DEF sender
<1>2. \A w \in Subscriber : listener[w] # "off" =>
        /\ listener'[w] # "off"
        /\ Current(w)' => Current(w)
  <2>1. CASE SubscribeTo(u)
    BY <2>1, CommunicationAssumption DEF SubscribeTo, Current, Unwraps, TypeOK
  <2>2. CASE Leave(u) \/ UnSubscribeFrom(u)
    BY <2>2 DEF Leave, UnSubscribeFrom, Current, Unwraps, TypeOK
  <2>3. ASSUME NEW m \in Send, Receive(u, m)  PROVE UNCHANGED <<listener, latest>>
    BY <2>3 DEF Receive
  <2> QED  BY <2>1, <2>2, <2>3 DEF Current, Unwraps
<1>3. \A w \in Subscriber, n \in Send :
        /\ n \in received'[w] \/ <<w, n>> \in delivering' =>
             n \in received[w] \/ <<w, n>> \in delivering
        /\ n \in received[w] \/ <<w, n>> \in delivering =>
             n \in received'[w] \/ <<w, n>> \in delivering'
        /\ n \in received'[w] /\ <<w, n>> \in delivering' =>
             n \in received[w] /\ <<w, n>> \in delivering
  <2>1. ASSUME NEW m \in Send, Receive(u, m)
        PROVE  /\ <<u, m>> \in delivering /\ delivering' = delivering \ {<<u, m>>}
               /\ received' = [received EXCEPT ![u] = @ \cup {m}]
    BY <2>1 DEF Receive
  <2>2. CASE \E m \in Send : Receive(u, m)
    <3>1. PICK m \in Send : Receive(u, m)
      BY <2>2
    <3>2. \A w \in Subscriber, n \in Send :
            n \in received'[w] <=> n \in received[w] \/ (w = u /\ n = m)
      <4>1. received' = [w \in Subscriber |-> IF w = u THEN received[u] \cup {m}
                                              ELSE received[w]]
        BY <2>1, <3>1, Zenon DEF TypeOK
      <4> QED  BY <4>1
    <3>3. \A w \in Subscriber, n \in Send :
            <<w, n>> \in delivering' <=> <<w, n>> \in delivering /\ ~(w = u /\ n = m)
      BY <2>1, <3>1
    <3> QED  BY <2>1, <3>1, <3>2, <3>3
  <2> QED  BY <2>2
<1>4. Written'
  BY <1>1, <1>2, <1>3 DEF Flow, Written
<1>5. OnePlace'
  BY <1>1, <1>3 DEF Flow, OnePlace
<1>6. ReceivedOnce'
  <2> SUFFICES ASSUME NEW w \in Subscriber, NEW n \in received'[w]
               PROVE  <<w, n>> \notin delivering' /\ \A k \in Send : ~OnWire(n, k)'
    BY DEF ReceivedOnce
  <2>1. n \in Send
    BY ReceivedTyped
  <2> QED  BY <1>1, <1>3, <2>1 DEF Flow, ReceivedOnce, OnePlace
<1>7. NoneLost'
  <2> SUFFICES ASSUME NEW n \in Send, NEW w \in Subscriber,
                      <<w, n>> \in due', Current(w)', stream'[via'[n]] # "broken"
               PROVE  (n \in received[w] \/ <<w, n>> \in delivering \/ OnWire(n, via[n]))'
    BY DEF NoneLost
  <2>1. Current(w) /\ via[n] \in Send
    BY <1>2 DEF Flow, Written
  <2>2. n \in received[w] \/ <<w, n>> \in delivering \/ OnWire(n, via[n])
    BY <1>1, <2>1 DEF Flow, NoneLost
  <2> QED  BY <1>1, <1>3, <2>2 DEF OnWire
<1> QED  BY <1>4, <1>5, <1>6, <1>7

(* The connection is reset: nothing of the stream is due any more.          *)
LEMMA FlowBreak ==
    ASSUME TypeOK, Flow, NEW k \in Send, Break(k)
    PROVE  (Written /\ OnePlace /\ ReceivedOnce /\ NoneLost)'
<1>1. /\ UNCHANGED <<call, via, due, listener, subscribers, delivering, received, latest>>
      /\ \A l \in Send : l # k => stream'[l] = stream[l] /\ wire'[l] = wire[l]
      /\ stream'[k] = "broken" /\ wire'[k] = <<>>
  BY DEF Break, receiver, TypeOK
<1>2. \A n, l \in Send : OnWire(n, l)' <=> OnWire(n, l) /\ l # k
  BY <1>1 DEF OnWire
<1>3. \A l \in Send : \A i, j \in 1..Len(wire'[l]) : wire'[l][i] = wire'[l][j] => i = j
  <2> SUFFICES ASSUME NEW l \in Send
               PROVE  \A i, j \in 1..Len(wire'[l]) : wire'[l][i] = wire'[l][j] => i = j
    OBVIOUS
  <2>1. CASE l = k
    BY <1>1, <2>1
  <2>2. CASE l # k
    BY <1>1, <2>2 DEF Flow, OnePlace
  <2> QED  BY <2>1, <2>2
<1>4. Written'
  BY <1>1, <1>2 DEF Flow, Written
<1>5. OnePlace'
  BY <1>1, <1>2, <1>3 DEF Flow, OnePlace
<1>6. ReceivedOnce'
  BY <1>1, <1>2 DEF Flow, ReceivedOnce, TypeOK
<1>7. NoneLost'
  <2> SUFFICES ASSUME NEW n \in Send, NEW w \in Subscriber,
                      <<w, n>> \in due', Current(w)', stream'[via'[n]] # "broken"
               PROVE  (n \in received[w] \/ <<w, n>> \in delivering \/ OnWire(n, via[n]))'
    BY DEF NoneLost
  <2>1. Current(w) /\ via[n] \in Send /\ via[n] # k
    BY <1>1 DEF Flow, Written, Current, Unwraps
  <2>2. n \in received[w] \/ <<w, n>> \in delivering \/ OnWire(n, via[n])
    BY <1>1, <2>1 DEF Flow, NoneLost
  <2> QED  BY <1>1, <2>1, <2>2 DEF OnWire
<1> QED  BY <1>4, <1>5, <1>6, <1>7

LEMMA FlowStep ==
    ASSUME TypeOK, Flow, CurrentIsSubscribed, [Next]_vars
    PROVE  Flow'
<1> SUFFICES (Written /\ OnePlace /\ ReceivedOnce /\ NoneLost)'
  BY UnopenedStep DEF Flow
<1>1. ASSUME NEW m \in Send,
             Unreachable(m) \/ Stream(m) \/ NewStream(m) \/ AddStream(m)
             \/ (WriteStream(m) /\ call'[m] # "sent")
      PROVE  (Written /\ OnePlace /\ ReceivedOnce /\ NoneLost)'
  <2>1. UNCHANGED <<wire, due, receiver>>
    BY <1>1 DEF Unreachable, Stream, NewStream, AddStream, WriteStream, TypeOK
  <2>2. \A n \in Send : call'[n] = "sent" <=> call[n] = "sent"
    BY <1>1 DEF Unreachable, Stream, NewStream, AddStream, WriteStream, Started, TypeOK
  <2>3. \A n \in Send : call[n] = "sent" => via'[n] = via[n]
    BY <1>1 DEF Unreachable, Stream, NewStream, AddStream, WriteStream, Started, TypeOK
  <2>4. \A n \in Send : call'[n] \in {"add", "write", "sent"} => via'[n] \in Send
    BY <1>1, CommunicationAssumption
    DEF Unreachable, Stream, NewStream, AddStream, WriteStream, Started, TypeOK, Flow,
        Written, SessionOfSend
  <2>5. \A n \in Send : call[n] = "sent" /\ stream[via[n]] = "broken"
                       => stream'[via[n]] = "broken"
    <3>1. CASE NewStream(m)
      BY <3>1 DEF NewStream, Flow, Unopened, TypeOK
    <3>2. CASE UNCHANGED stream
      BY <3>2
    <3> QED  BY <1>1, <3>1, <3>2 DEF Unreachable, Stream, AddStream, WriteStream
  <2> QED  BY <2>1, <2>2, <2>3, <2>4, <2>5, FlowOpening
<1>2. ASSUME NEW s \in Session, CloseSession(s)
      PROVE  (Written /\ OnePlace /\ ReceivedOnce /\ NoneLost)'
  <2>1. /\ UNCHANGED <<wire, due, receiver, call, via>>
        /\ \A k \in Send : stream[k] = "broken" => stream'[k] = "broken"
    BY <1>2 DEF CloseSession, TypeOK
  <2> QED  BY <2>1, FlowOpening DEF Flow, Written
<1>3. ASSUME NEW u \in Subscriber,
             SubscribeTo(u) \/ Leave(u) \/ UnSubscribeFrom(u)
             \/ \E m \in Send : Receive(u, m)
      PROVE  (Written /\ OnePlace /\ ReceivedOnce /\ NoneLost)'
  <2>1. UNCHANGED <<wire, due, sender>>
    BY <1>3 DEF SubscribeTo, Leave, UnSubscribeFrom, Receive
  <2>2. SubscribeTo(u) \/ Leave(u) \/ UnSubscribeFrom(u) => UNCHANGED <<delivering, received>>
    BY DEF SubscribeTo, Leave, UnSubscribeFrom
  <2> QED  BY <1>3, <2>1, <2>2, FlowListening
<1>4. CASE UNCHANGED vars
  BY <1>4, FlowOpening DEF vars, sender, Flow, Written
<1> QED
  BY <1>1, <1>2, <1>3, <1>4, FlowWrite, FlowRead, FlowBreak DEF Next, SendStep

LEMMA Flowing == Spec => []Flow
<1>1. Spec => []CurrentIsSubscribed
  BY SubscriptionsHold
<1> QED  BY <1>1, FlowInit, FlowStep, Typing, PTL DEF Spec

(* A subscriber takes no message twice, whichever streams it came by.       *)
THEOREM NoneTwice == Spec => []ReceivedOnce
<1>1. Flow => ReceivedOnce
  BY DEF Flow
<1> QED  BY <1>1, Flowing, PTL

(* A message written while somebody relies on a subscription is on its way  *)
(* there or received, unless its connection broke or the subscriber left.   *)
THEOREM DueArrives == Spec => []NoneLost
<1>1. Flow => NoneLost
  BY DEF Flow
<1> QED  BY <1>1, Flowing, PTL

-----------------------------------------------------------------------------
(* The refinement of Mailbox.  What is subscribed listens to its topic.     *)
LEMMA AddressedStep ==
    ASSUME TypeOK, Addressed, [Next]_vars
    PROVE  Addressed'
<1> USE CommunicationAssumption DEF Addressed
<1>1. ASSUME NEW u \in Subscriber, SubscribeTo(u)  PROVE Addressed'
  BY <1>1, Subscribed
<1>2. ASSUME NEW u \in Subscriber, UnSubscribeFrom(u)  PROVE Addressed'
  BY <1>2, UnSubscribed
<1>3. ASSUME NEW u \in Subscriber, Leave(u)  PROVE Addressed'
  BY <1>3 DEF Leave
<1> QED  BY <1>1, <1>2, <1>3, Unsubscribing

LEMMA AddressedAlways == Spec => []Addressed
<1>1. Init => Addressed
  BY DEF Init, Addressed
<1> QED  BY <1>1, AddressedStep, Typing, PTL DEF Spec

(* A message may still reach u if a goroutine holds it for u, or it is in a *)
(* stream and on the topic of u.                                            *)
TransitIs ==
    /\ InTransit \subseteq Subscriber \X Send
    /\ \A u \in Subscriber, m \in Send :
         <<u, m>> \in InTransit <=>
           \/ <<u, m>> \in delivering
           \/ ListensOn[u] = SentOn[m] /\ \E k \in Send : OnWire(m, k)

LEMMA InTransitIs == TypeOK => TransitIs
<1> SUFFICES ASSUME TypeOK  PROVE TransitIs
  OBVIOUS
<1> DEFINE Wired == UNION { AudienceOf[m] \X {m} :
                             m \in { n \in Send : \E k \in Send : OnWire(n, k) } }
<1>1. \A m \in Send : AudienceOf[m] = { u \in Subscriber : ListensOn[u] = SentOn[m] }
  BY DEF AudienceOf
<1>2. \A um : um \in Wired <=>
        \E m \in Send, u \in Subscriber :
          um = <<u, m>> /\ ListensOn[u] = SentOn[m] /\ \E k \in Send : OnWire(m, k)
  BY <1>1
<1>3. InTransit = delivering \cup Wired
  BY DEF InTransit
<1> HIDE DEF Wired
<1> QED  BY <1>2, <1>3 DEF TypeOK, TransitIs

(* Before and after a step, what is in transit is for a receiver.            *)
LEMMA TransitTypes ==
    ASSUME TypeOK, TypeOK'
    PROVE  /\ InTransit' \subseteq Subscriber \X Send
           /\ InTransit \subseteq Subscriber \X Send
<1>1. TypeOK' => TransitIs'
  BY InTransitIs, PTL
<1> QED  BY <1>1, InTransitIs DEF TransitIs

(* A function that changes at one argument.                                 *)
LEMMA OneChanged ==
    ASSUME NEW S, NEW f, NEW g, NEW a, NEW v,
           f = [x \in S |-> f[x]], g = [x \in S |-> g[x]],
           \A x \in S : g[x] = IF x = a THEN v ELSE f[x]
    PROVE  g = [f EXCEPT ![a] = v]
  OBVIOUS

(* What a step does to the sender's side of the mailbox.                    *)
LEMMA FateKept ==
    ASSUME TypeOK, TypeOK', \A n \in Send : Returned(n) \/ Returned(n)' => call'[n] = call[n]
    PROVE  UNCHANGED Fate
  BY DEF Fate, Returned

LEMMA FateSettled ==
    ASSUME TypeOK, TypeOK', NEW m \in Send, NEW f \in {"sent", "failed"},
           ~Returned(m), call' = [call EXCEPT ![m] = f]
    PROVE  Fate[m] = "unsent" /\ Fate' = [Fate EXCEPT ![m] = f]
<1>1. \A n \in Send : call'[n] = IF n = m THEN f ELSE call[n]
  BY DEF TypeOK
<1>2. \A n \in Send : Fate'[n] = IF n = m THEN f ELSE Fate[n]
  BY <1>1 DEF Fate, Returned
<1>3. Fate = [n \in Send |-> Fate[n]] /\ Fate' = [n \in Send |-> Fate'[n]]
  BY DEF Fate
<1>4. Fate' = [Fate EXCEPT ![m] = f]
  <2> HIDE DEF Fate
  <2> QED  BY <1>2, <1>3, OneChanged
<1> QED  BY <1>4 DEF Fate

LEMMA BrokenKept ==
    ASSUME TypeOK, TypeOK', \A k \in Send : stream'[k] = "broken" <=> stream[k] = "broken"
    PROVE  UNCHANGED Broken
  BY DEF Broken

LEMMA ReceiverKept ==
    ASSUME UNCHANGED <<listener, latest, received>>
    PROVE  UNCHANGED <<Presence, Reached, received>>
  BY DEF Presence, Reached, Current, Unwraps

(* One subscriber comes or goes.                                            *)
LEMMA PresenceChanged ==
    ASSUME TypeOK, NEW u \in Subscriber, NEW l \in {"on", "leaving"},
           listener' = [listener EXCEPT ![u] = l]
    PROVE  Presence' = [Presence EXCEPT ![u] = IF l = "on" THEN "here" ELSE "left"]
<1>1. \A w \in Subscriber : listener'[w] = IF w = u THEN l ELSE listener[w]
  BY DEF TypeOK
<1>2. \A w \in Subscriber :
        Presence'[w] = IF w = u THEN IF l = "on" THEN "here" ELSE "left" ELSE Presence[w]
  BY <1>1 DEF Presence
<1>3. /\ Presence = [w \in Subscriber |-> Presence[w]]
      /\ Presence' = [w \in Subscriber |-> Presence'[w]]
  BY DEF Presence
<1> HIDE DEF Presence
<1> QED  BY <1>2, <1>3, OneChanged

LEMMA TransitKept ==
    ASSUME TypeOK, TypeOK', UNCHANGED <<delivering, wire>>
    PROVE  UNCHANGED InTransit
  BY WireKept DEF InTransit

Quiet == UNCHANGED <<Fate, Presence, Reached, InTransit, received, Broken>>

(* A sender that gets on, or fails.                                         *)
LEMMA SendRefines ==
    ASSUME TypeOK, TypeOK', Flow, NEW m \in Send,
           Unreachable(m) \/ Stream(m) \/ NewStream(m) \/ AddStream(m)
           \/ (WriteStream(m) /\ call'[m] # "sent")
    PROVE  Quiet \/ Abstract!Fail(m)
<1>1. /\ UNCHANGED <<delivering, wire, listener, latest, received>>
      /\ \A k \in Send : stream'[k] = "broken" <=> stream[k] = "broken"
  <2>1. CASE NewStream(m)
    BY <2>1 DEF NewStream, receiver, TypeOK, Flow, Unopened
  <2>2. CASE ~NewStream(m)
    BY <2>2 DEF Unreachable, Stream, AddStream, WriteStream, receiver, TypeOK
  <2> QED  BY <2>1, <2>2
<1>2. UNCHANGED <<Presence, Reached, InTransit, received, Broken>>
  BY <1>1, TransitKept, ReceiverKept, BrokenKept
<1>3. ~Returned(m)
  BY DEF Unreachable, Stream, NewStream, AddStream, WriteStream, Started, Returned
<1>4. CASE call' = [call EXCEPT ![m] = "failed"]
  BY <1>2, <1>3, <1>4, FateSettled DEF Abstract!Fail
<1>5. CASE Stream(m) \/ NewStream(m) \/ AddStream(m)
  <2>1. \A n \in Send : Returned(n) \/ Returned(n)' => call'[n] = call[n]
    BY <1>3, <1>5 DEF Stream, NewStream, AddStream, Returned, TypeOK
  <2> QED  BY <1>2, <2>1, FateKept DEF Quiet
<1> QED  BY <1>4, <1>5 DEF Unreachable, WriteStream, TypeOK

(* A message is written.                                                    *)
LEMMA WriteRefines ==
    ASSUME TypeOK, TypeOK', Flow, NEW m \in Send, WriteStream(m), call'[m] = "sent"
    PROVE  Abstract!Post(m)
<1>1. /\ call' = [call EXCEPT ![m] = "sent"] /\ ~Returned(m) /\ via[m] \in Send
      /\ UNCHANGED <<stream, listener, latest, received, delivering>>
  BY DEF WriteStream, Returned, receiver, TypeOK, Flow, Written
<1>2. \A n, k \in Send : OnWire(n, k)' <=> OnWire(n, k) \/ (n = m /\ k = via[m])
  BY WireWritten DEF Flow
<1>3. \A u \in Subscriber, n \in Send :
        <<u, n>> \in InTransit' <=>
          <<u, n>> \in InTransit \/ (n = m /\ ListensOn[u] = SentOn[m])
  <2>1. \A u \in Subscriber, n \in Send :
          <<u, n>> \in InTransit' <=>
            \/ <<u, n>> \in delivering'
            \/ ListensOn[u] = SentOn[n] /\ \E k \in Send : OnWire(n, k)'
    <3>1. TypeOK' => TransitIs'
      BY InTransitIs, PTL
    <3> QED  BY <3>1 DEF TransitIs
  <2> QED  BY <1>1, <1>2, <2>1, InTransitIs DEF TransitIs
<1>4. InTransit' = InTransit \cup (AudienceOf[m] \X {m})
  <2>1. InTransit' \subseteq Subscriber \X Send /\ InTransit \subseteq Subscriber \X Send
    BY TransitTypes
  <2>2. AudienceOf[m] = { u \in Subscriber : ListensOn[u] = SentOn[m] }
    BY DEF AudienceOf
  <2> QED  BY <1>3, <2>1, <2>2
<1>5. UNCHANGED <<Presence, Reached, received, Broken>>
  BY <1>1, ReceiverKept, BrokenKept
<1> QED  BY <1>1, <1>4, <1>5, FateSettled DEF Abstract!Post

(* The stream handler reads a message: whoever is not subscribed misses it. *)
LEMMA ReadRefines ==
    ASSUME TypeOK, TypeOK', Flow, CurrentIsSubscribed, Addressed,
           NEW k \in Send, ProcessMessage(k)
    PROVE  Abstract!Miss
<1>0. PICK h \in Send : h = Head(wire[k])
  BY WireRead DEF Flow
<1>1. /\ OnWire(h, k)
      /\ \A n, l \in Send : OnWire(n, l)' <=> OnWire(n, l) /\ ~(l = k /\ n = h)
  BY <1>0, WireRead DEF Flow
<1>2. /\ delivering' = delivering \cup (GetSubscribers(SentOn[h]) \X {h})
      /\ UNCHANGED <<listener, received, latest, call, stream>>
  BY <1>0 DEF ProcessMessage, sender
<1>3. \A u \in Subscriber : u \in GetSubscribers(SentOn[h]) => ListensOn[u] = SentOn[h]
  BY CommunicationAssumption DEF GetSubscribers, Addressed, TypeOK
<1>4. \A u \in Subscriber, n \in Send :
        <<u, n>> \in InTransit' <=>
          \/ <<u, n>> \in delivering'
          \/ ListensOn[u] = SentOn[n] /\ \E l \in Send : OnWire(n, l)'
  <2>1. TypeOK' => TransitIs'
    BY InTransitIs, PTL
  <2> QED  BY <2>1 DEF TransitIs
<1>5. InTransit' \subseteq Subscriber \X Send /\ InTransit \subseteq Subscriber \X Send
  BY TransitTypes
<1>6. InTransit' \subseteq InTransit
  <2>1. ASSUME NEW u \in Subscriber, NEW n \in Send, <<u, n>> \in InTransit'
        PROVE  <<u, n>> \in InTransit
    BY <1>1, <1>2, <1>3, <1>4, <2>1, InTransitIs DEF TransitIs
  <2> QED  BY <1>5, <2>1
<1>7. ASSUME NEW u \in Reached, NEW n \in Send, <<u, n>> \in InTransit
      PROVE  <<u, n>> \in InTransit'
  <2>1. u \in Subscriber /\ u \in GetSubscribers(ListensOn[u])
    BY DEF Reached, CurrentIsSubscribed
  <2>2. CASE <<u, n>> \in delivering
    BY <1>2, <1>4, <2>1, <2>2
  <2>3. CASE ListensOn[u] = SentOn[n] /\ \E l \in Send : OnWire(n, l)
    BY <1>1, <1>2, <1>4, <2>1, <2>3
  <2> QED  BY <1>7, <2>1, <2>2, <2>3, InTransitIs DEF TransitIs
<1>8. (InTransit \ InTransit') \cap (Reached \X Send) = {}
  BY <1>7
<1>9. UNCHANGED <<Fate, Presence, Reached, received, Broken>>
  BY <1>2, ReceiverKept, BrokenKept, FateKept
<1> QED  BY <1>6, <1>8, <1>9 DEF Abstract!Miss

(* The connection is reset.                                                 *)
LEMMA BreakRefines ==
    ASSUME TypeOK, TypeOK', NEW k \in Send, Break(k)
    PROVE  Abstract!Reset(k)
<1>1. /\ UNCHANGED <<call, listener, latest, received, delivering>>
      /\ stream[k] = "open" /\ stream' = [stream EXCEPT ![k] = "broken"]
      /\ \A l \in Send : l # k => wire'[l] = wire[l]
      /\ wire'[k] = <<>>
  BY DEF Break, receiver, TypeOK
<1>2. k \notin Broken /\ Broken' = Broken \cup {k}
  BY <1>1 DEF Broken, TypeOK
<1>3. \A n, l \in Send : OnWire(n, l)' => OnWire(n, l)
  BY <1>1 DEF OnWire
<1>4. InTransit' \subseteq InTransit
  BY <1>1, <1>3 DEF InTransit
<1>5. UNCHANGED <<Fate, Presence, Reached, received>>
  BY <1>1, ReceiverKept, FateKept
<1> QED  BY <1>2, <1>4, <1>5 DEF Abstract!Reset

(* A subscription: in a dashed session it takes the place of the others.    *)
LEMMA ListenRefines ==
    ASSUME TypeOK, TypeOK', NEW u \in Subscriber,
           SubscribeTo(u) \/ Leave(u) \/ UnSubscribeFrom(u)
    PROVE  Quiet \/ Abstract!Arrive(u) \/ Abstract!Quit(u)
<1>1. /\ UNCHANGED <<call, stream, wire, delivering, received>>
      /\ UNCHANGED <<Fate, InTransit, received, Broken>>
  <2>1. UNCHANGED <<call, stream, wire, delivering, received>>
    BY DEF SubscribeTo, Leave, UnSubscribeFrom, sender
  <2> QED  BY <2>1, FateKept, TransitKept, BrokenKept
<1>2. CASE SubscribeTo(u)
  <2>1. /\ listener[u] = "off" /\ listener' = [listener EXCEPT ![u] = "on"]
        /\ latest' = [latest EXCEPT ![ListensOn[u]] = u]
    BY <1>2 DEF SubscribeTo
  <2>2. \A w \in Subscriber :
          Current(w)' <=> w = u \/ (Current(w) /\ w \notin RivalsOf[u])
    <3>1. ListensOn[u] \in Topic /\ \A w \in Subscriber : ListensOn[w] \in Topic
      BY CommunicationAssumption
    <3>2. \A w \in Subscriber :
            w \in RivalsOf[u] <=> ListensOn[w] = ListensOn[u] /\ ~Unwraps(u)
      BY DEF RivalsOf
    <3> QED  BY <2>1, <3>1, <3>2 DEF Current, Unwraps, TypeOK
  <2>3. Reached' = (Reached \ RivalsOf[u]) \cup {u}
    BY <2>2 DEF Reached
  <2>4. Presence[u] = "expected" /\ Presence' = [Presence EXCEPT ![u] = "here"]
    <3>1. Presence[u] = "expected"
      BY <2>1 DEF Presence
    <3>2. Presence' = [Presence EXCEPT ![u] = "here"]
      BY <2>1, PresenceChanged
    <3> QED  BY <3>1, <3>2
  <2> QED  BY <1>1, <2>3, <2>4 DEF Abstract!Arrive
<1>3. CASE Leave(u)
  <2>1. /\ listener[u] = "on" /\ listener' = [listener EXCEPT ![u] = "leaving"]
        /\ UNCHANGED latest
    BY <1>3 DEF Leave
  <2>2. \A w \in Subscriber : listener'[w] = IF w = u THEN "leaving" ELSE listener[w]
    BY <2>1 DEF TypeOK
  <2>3. Reached' = Reached \ {u}
    BY <2>1, <2>2 DEF Reached, Current, Unwraps
  <2>4. Presence[u] = "here" /\ Presence' = [Presence EXCEPT ![u] = "left"]
    <3>1. Presence[u] = "here"
      BY <2>1 DEF Presence
    <3>2. Presence' = [Presence EXCEPT ![u] = "left"]
      BY <2>1, PresenceChanged
    <3> QED  BY <3>1, <3>2
  <2> QED  BY <1>1, <2>3, <2>4 DEF Abstract!Quit
<1>4. CASE UnSubscribeFrom(u)
  <2>1. /\ listener[u] = "leaving" /\ listener' = [listener EXCEPT ![u] = "gone"]
        /\ UNCHANGED latest
    BY <1>4 DEF UnSubscribeFrom
  <2>2. \A w \in Subscriber : listener'[w] = IF w = u THEN "gone" ELSE listener[w]
    BY <2>1 DEF TypeOK
  <2>3. UNCHANGED <<Reached, Presence>>
    BY <2>1, <2>2 DEF Reached, Current, Unwraps, Presence
  <2> QED  BY <1>1, <2>3 DEF Quiet
<1> QED  BY <1>2, <1>3, <1>4

(* A message is taken, and is then nowhere: no stream holds it as well.     *)
LEMMA TakeRefines ==
    ASSUME TypeOK, TypeOK', Flow, NEW u \in Subscriber, NEW m \in Send, Receive(u, m)
    PROVE  Abstract!Take(u, m)
<1>1. /\ listener[u] = "on" /\ <<u, m>> \in delivering
      /\ delivering' = delivering \ {<<u, m>>}
      /\ received' = [received EXCEPT ![u] = @ \cup {m}]
      /\ UNCHANGED <<listener, latest, call, stream, wire>>
  BY DEF Receive, sender
<1>2. \A k \in Send : ~OnWire(m, k)
  BY <1>1 DEF Flow, OnePlace
<1>3. \A n, k \in Send : OnWire(n, k)' <=> OnWire(n, k)
  BY <1>1, WireKept
<1>4. InTransit' = InTransit \ {<<u, m>>}
  BY <1>1, <1>2, <1>3 DEF InTransit
<1>5. <<u, m>> \in InTransit /\ Presence[u] = "here"
  BY <1>1 DEF InTransit, Presence
<1>6. UNCHANGED <<Presence, Reached>>
  BY <1>1 DEF Presence, Reached, Current, Unwraps
<1>7. UNCHANGED <<Fate, Broken>>
  BY <1>1, FateKept, BrokenKept
<1> QED  BY <1>1, <1>4, <1>5, <1>6, <1>7 DEF Abstract!Take

(* CloseSession ends streams; what is in them arrives.                      *)
LEMMA CloseRefines ==
    ASSUME TypeOK, TypeOK', NEW s \in Session, CloseSession(s)
    PROVE  Quiet
<1>1. /\ UNCHANGED <<call, wire, delivering, listener, latest, received>>
      /\ \A k \in Send : stream'[k] = "broken" <=> stream[k] = "broken"
  BY DEF CloseSession, receiver, TypeOK
<1> QED  BY <1>1, FateKept, TransitKept, BrokenKept, ReceiverKept DEF Quiet

(* The streams, the subscriptions and the goroutines of two relayers keep   *)
(* the promise of Mailbox, for any messages, sessions, subscribers, closed  *)
(* sessions and broken connections.                                         *)
THEOREM MailboxKept == Spec => ImplementsMailbox
<1>1. Init => Abstract!Init
  <2> SUFFICES ASSUME Init  PROVE Abstract!Init
    OBVIOUS
  <2>1. \A m, k \in Send : ~OnWire(m, k)
    BY DEF Init, OnWire
  <2>2. InTransit = {} /\ Broken = {} /\ Reached = {}
    BY <2>1 DEF Init, InTransit, Broken, Reached, Current
  <2>3. /\ Fate = [m \in Send |-> "unsent"]
        /\ Presence = [u \in Subscriber |-> "expected"]
    BY DEF Init, Fate, Presence, Returned
  <2> QED  BY <2>2, <2>3 DEF Init, Abstract!Init
<1>2. TypeOK /\ TypeOK' /\ Flow /\ CurrentIsSubscribed /\ Addressed /\ [Next]_vars
      => Quiet \/ Abstract!Next
  <2> SUFFICES ASSUME TypeOK, TypeOK', Flow, CurrentIsSubscribed, Addressed, [Next]_vars
               PROVE  Quiet \/ Abstract!Next
    OBVIOUS
  <2>1. ASSUME NEW m \in Send, SendStep(m)  PROVE Quiet \/ Abstract!Next
    BY <2>1, SendRefines, WriteRefines DEF SendStep, Abstract!Next
  <2>2. ASSUME NEW k \in Send, ProcessMessage(k) \/ Break(k)  PROVE Abstract!Next
    BY <2>2, ReadRefines, BreakRefines DEF Abstract!Next
  <2>3. ASSUME NEW s \in Session, CloseSession(s)  PROVE Quiet
    BY <2>3, CloseRefines
  <2>4. ASSUME NEW u \in Subscriber, SubscribeTo(u) \/ Leave(u) \/ UnSubscribeFrom(u)
        PROVE  Quiet \/ Abstract!Next
    BY <2>4, ListenRefines DEF Abstract!Next
  <2>5. ASSUME NEW u \in Subscriber, NEW m \in Send, Receive(u, m)  PROVE Abstract!Next
    BY <2>5, TakeRefines DEF Abstract!Next
  <2>6. CASE UNCHANGED vars
    BY <2>6, FateKept, TransitKept, BrokenKept, ReceiverKept
    DEF vars, sender, receiver, Quiet, Returned
  <2> QED  BY <2>1, <2>2, <2>3, <2>4, <2>5, <2>6 DEF Next
<1>3. Quiet => UNCHANGED Abstract!mailbox
  BY DEF Quiet, Abstract!mailbox
<1>4. Spec => []Flow /\ []CurrentIsSubscribed
  BY Flowing, SubscriptionsHold
<1> QED
  BY <1>1, <1>2, <1>3, <1>4, Typing, AddressedAlways, PTL
  DEF Spec, ImplementsMailbox, Abstract!Spec

=============================================================================
