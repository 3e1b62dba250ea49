------------------------ MODULE BullyElector_proofs -------------------------
(***************************************************************************)
(* Theorems about BullyElector for any number of hosts, any lists and any  *)
(* messages lost, delayed or reordered.                                    *)
(***************************************************************************)
EXTENDS BullyElector, FiniteSetTheorems, WellFoundedInduction, TLAPS

-----------------------------------------------------------------------------
(* The network.                                                             *)
LEMMA SentNet ==
  ASSUME TypeOK, NEW ms \in SUBSET Message
  PROVE  /\ Sent(ms) \in [Message -> Nat]
         /\ \A m \in Message : Sent(ms)[m] > 0 => m \in ms \/ net[m] > 0
BY DEF TypeOK, Sent

LEMMA TakenNet ==
  ASSUME TypeOK, NEW m \in Message, net[m] > 0
  PROVE  /\ Taken(m) \in [Message -> Nat]
         /\ \A k \in Message : Taken(m)[k] > 0 => net[k] > 0
BY DEF TypeOK, Taken

LEMMA MessageFields ==
  ASSUME NEW m \in Message
  PROVE  /\ m.type \in {"election", "alive", "select"}
         /\ m.from \in Peer /\ m.to \in Peer
BY DEF Message

LEMMA ElectionMsgsUp ==
  ASSUME NEW p \in Peer, NEW L \in SUBSET Peer
  PROVE  /\ ElectionMsgs(p, L) \subseteq Message
         /\ \A m \in ElectionMsgs(p, L) :
              /\ m.type = "election" /\ m.from = p
              /\ p \in L /\ m.to \in L /\ Rank[m.to] < Rank[m.from]
<1>1. ASSUME NEW q \in L, p \in L, Rank[q] < Rank[p]
      PROVE  /\ Msg("election", p, q) \in Message
             /\ Msg("election", p, q).type = "election"
             /\ Msg("election", p, q).from = p /\ Msg("election", p, q).to = q
  BY <1>1, RankAssumption DEF Msg, Message
<1> QED  BY <1>1 DEF ElectionMsgs

-----------------------------------------------------------------------------
(* The index of a peer in a list.                                           *)
LEMMA IndexNat ==
  ASSUME TypeOK, NEW p \in Peer, NEW q
  PROVE  Index(p, q) \in Nat
<1> DEFINE S == { r \in sortedPeers[p] : Rank[r] < Rank[q] }
<1>1. IsFiniteSet(S)
  <2>1. S \in SUBSET Peer
    BY DEF TypeOK
  <2> QED  BY <2>1, FS_Subset, PeerAssumption
<1>2. Cardinality(S) \in Nat
  BY <1>1, FS_CardinalityType
<1> QED  BY <1>2 DEF Index

(* The first of a list has index 0, so nobody ranks above it.               *)
LEMMA NobodyAboveHead ==
  ASSUME TypeOK, NEW p \in Peer, NEW q, NEW h \in Peer,
         \A r \in sortedPeers[p] : Rank[h] <= Rank[r]
  PROVE  ~IsPeerIDHigher(p, q, h)
<1> DEFINE S == { r \in sortedPeers[p] : Rank[r] < Rank[h] }
<1>1. S = {}
  BY RankAssumption DEF TypeOK
<1>2. Index(p, h) = 0
  <2> HIDE DEF S
  <2>1. Cardinality(S) = 0
    BY <1>1, FS_EmptySet
  <2> QED  BY <2>1 DEF Index, S
<1>3. Index(p, q) \in Nat
  BY IndexNat
<1> QED  BY <1>2, <1>3 DEF IsPeerIDHigher

(* In a list that has both, the index follows the session order.            *)
LEMMA LowerIsNotHigher ==
  ASSUME TypeOK, NEW p \in Peer, NEW q \in sortedPeers[p], NEW r \in sortedPeers[p],
         Rank[r] < Rank[q]
  PROVE  ~IsPeerIDHigher(p, q, r)
<1> DEFINE S == { k \in sortedPeers[p] : Rank[k] < Rank[q] }
           T == { k \in sortedPeers[p] : Rank[k] < Rank[r] }
<1>1. T \in SUBSET S /\ S \in SUBSET Peer
  BY RankAssumption DEF TypeOK
<1>2. Cardinality(T) <= Cardinality(S)
  <2>1. IsFiniteSet(S)
    BY <1>1, FS_Subset, PeerAssumption
  <2> QED  BY <2>1, <1>1, FS_Subset
<1>3. Index(p, q) = Cardinality(S) /\ Index(p, r) = Cardinality(T)
  BY DEF Index
<1>4. Index(p, q) \in Nat /\ Index(p, r) \in Nat
  BY IndexNat
<1> QED  BY <1>2, <1>3, <1>4 DEF IsPeerIDHigher

-----------------------------------------------------------------------------
(* Types.                                                                   *)
LEMMA InitTyped == Init => TypeOK
BY DEF Init, TypeOK, NoMsg

LEMMA StepTyped ==
  ASSUME TypeOK, [Next]_vars
  PROVE  TypeOK'
<1>1. ASSUME NEW p \in Peer, Coordinator(p)  PROVE TypeOK'
  BY <1>1 DEF Coordinator, TypeOK
<1>2. ASSUME NEW p \in Peer, Listen(p)  PROVE TypeOK'
  BY <1>2 DEF Listen, TypeOK
<1>3. ASSUME NEW p \in Peer, SortPeers(p)  PROVE TypeOK'
  <2>1. PICK L \in Lists : /\ sortedPeers' = [sortedPeers EXCEPT ![p] = L]
                           /\ net' = Sent(ElectionMsgs(p, L))
    BY <1>3 DEF SortPeers
  <2>2. L \in SUBSET Peer
    BY ListsAssumption
  <2>3. net' \in [Message -> Nat]
    BY <2>1, <2>2, ElectionMsgsUp, SentNet
  <2> QED  BY <1>3, <2>1, <2>2, <2>3 DEF SortPeers, TypeOK
<1>4. ASSUME NEW p \in Peer, EndElection(p)  PROVE TypeOK'
  <2>1. { Msg("select", p, q) : q \in sortedPeers[p] \ {p} } \in SUBSET Message
    BY DEF TypeOK, Msg, Message
  <2>2. Sent({ Msg("select", p, q) : q \in sortedPeers[p] \ {p} }) \in [Message -> Nat]
    BY <2>1, SentNet
  <2>3. net' \in [Message -> Nat]
    BY <1>4, <2>2 DEF EndElection, TypeOK
  <2>4. coordinator' \in [Peer -> Peer] /\ electionChan' \in [Peer -> BOOLEAN]
    BY <1>4 DEF EndElection, SetCoordinator, TypeOK
  <2>5. proclaimed' \subseteq Peer /\ elector' \in [Peer -> {"off", "elect", "loop"}]
    BY <1>4 DEF EndElection, TypeOK
  <2>6. UNCHANGED <<phase, sortedPeers, listener, held, chosen, active, steady>>
    BY <1>4 DEF EndElection
  <2> QED  BY <2>3, <2>4, <2>5, <2>6 DEF TypeOK
<1>5. ASSUME NEW p \in Peer, Handle(p)  PROVE TypeOK'
  <2> DEFINE alive == {Msg("alive", p, held[p].from)} \cup ElectionMsgs(p, sortedPeers[p])
  <2>1. net' \in [Message -> Nat]
    <3>1. CASE held[p].type = "election" /\ ~IsPeerIDHigher(p, held[p].from, p)
      <4>1. held[p] \in Message /\ held[p].to = p
        BY <3>1 DEF TypeOK, NoMsg
      <4>2. Msg("alive", p, held[p].from) \in Message
        BY <4>1 DEF Message, Msg
      <4>3. alive \in SUBSET Message
        BY <4>2, ElectionMsgsUp DEF TypeOK
      <4>4. net' = Sent(alive)
        BY <1>5, <3>1 DEF Handle
      <4> QED  BY <4>3, <4>4, SentNet
    <3>2. CASE ~(held[p].type = "election" /\ ~IsPeerIDHigher(p, held[p].from, p))
      BY <1>5, <3>2 DEF Handle, TypeOK
    <3> QED  BY <3>1, <3>2
  <2>2. coordinator' \in [Peer -> Peer]
    <3>1. held[p].type = "select" => held[p].from \in Peer
      BY DEF TypeOK, NoMsg, Message
    <3>2. \/ UNCHANGED coordinator
          \/ held[p].type = "select" /\ SetCoordinator(p, held[p].from)
      BY <1>5 DEF Handle
    <3> QED  BY <3>1, <3>2 DEF SetCoordinator, TypeOK
  <2>3. /\ elector' \in [Peer -> {"off", "elect", "loop"}]
        /\ listener' \in [Peer -> {"off", "select", "forward", "gone"}]
        /\ held' \in [Peer -> Message \cup {NoMsg}]
        /\ \A q \in Peer : held'[q] # NoMsg => held'[q].to = q
    BY <1>5 DEF Handle, TypeOK
  <2>4. UNCHANGED <<phase, sortedPeers, electionChan, chosen, proclaimed, active, steady>>
    BY <1>5 DEF Handle
  <2> QED  BY <2>1, <2>2, <2>3, <2>4 DEF TypeOK
<1>6. ASSUME NEW p \in Peer, Return(p)  PROVE TypeOK'
  BY <1>6 DEF Return, TypeOK
<1>7. ASSUME NEW p \in Peer, ListenerLeaves(p)  PROVE TypeOK'
  BY <1>7 DEF ListenerLeaves, TypeOK
<1>8. ASSUME NEW m \in Message, ReceiveAlive(m.to, m)  PROVE TypeOK'
  <2>1. net' \in [Message -> Nat]
    BY <1>8, TakenNet DEF ReceiveAlive
  <2> QED  BY <1>8, <2>1, MessageFields DEF ReceiveAlive, TypeOK
<1>9. ASSUME NEW m \in Message, Forward(m.to, m)  PROVE TypeOK'
  <2>1. net' \in [Message -> Nat]
    BY <1>9, TakenNet DEF Forward
  <2> QED  BY <1>9, <2>1, MessageFields DEF Forward, TypeOK
<1>10. ASSUME NEW m \in Message, Drop(m)  PROVE TypeOK'
  <2>1. net' \in [Message -> Nat]
    BY <1>10, TakenNet DEF Drop
  <2> QED  BY <1>10, <2>1 DEF Drop, TypeOK
<1>11. CASE UNCHANGED vars
  BY <1>11 DEF vars, TypeOK
<1> QED
  BY <1>1, <1>2, <1>3, <1>4, <1>5, <1>6, <1>7, <1>8, <1>9, <1>10, <1>11 DEF Next

LEMMA Typing == Spec => []TypeOK
BY InitTyped, StepTyped, PTL DEF Spec

-----------------------------------------------------------------------------
(* The inductive invariant.  Lists are never replaced and hosts that have   *)
(* proclaimed stay so, hence what a message says stays true.                *)
LEMMA BackedStaysBacked ==
  ASSUME TypeOK, NEW m \in Message, MessageBacked(m),
         proclaimed \subseteq proclaimed',
         \A p \in Peer : sortedPeers[p] # {} => sortedPeers'[p] = sortedPeers[p]
  PROVE  MessageBacked(m)'
<1>1. m.from \in Peer /\ m.to \in Peer
  BY MessageFields
<1> QED  BY <1>1 DEF MessageBacked

LEMMA InitConsistent == Init => Consistent
<1> SUFFICES ASSUME Init  PROVE Consistent
  OBVIOUS
<1>1. ASSUME NEW p \in Peer  PROVE HostConsistent(p)
  BY <1>1 DEF Init, HostConsistent
<1>2. ASSUME NEW m \in Message  PROVE ~InFlight(m)
  BY <1>2, MessageFields, PeerAssumption DEF Init, InFlight, NoMsg
<1> QED  BY <1>1, <1>2 DEF Consistent

LEMMA StepConsistent ==
  ASSUME TypeOK, Consistent, [Next]_vars
  PROVE  Consistent'
<1>1. ASSUME NEW p \in Peer, Coordinator(p)  PROVE Consistent'
  BY <1>1, MessageFields DEF Coordinator, TypeOK, Consistent, HostConsistent, InFlight, MessageBacked
<1>2. ASSUME NEW p \in Peer, Listen(p)  PROVE Consistent'
  BY <1>2, MessageFields DEF Listen, TypeOK, Consistent, HostConsistent, InFlight, MessageBacked
<1>3. ASSUME NEW p \in Peer, SortPeers(p)  PROVE Consistent'
  <2>1. PICK L \in Lists : /\ p \in L
                           /\ sortedPeers' = [sortedPeers EXCEPT ![p] = L]
                           /\ net' = Sent(ElectionMsgs(p, L))
    BY <1>3 DEF SortPeers
  <2>2. L \in SUBSET Peer
    BY ListsAssumption
  <2>3. sortedPeers[p] = {}
    BY <1>3 DEF SortPeers, Consistent, HostConsistent
  <2>4. ASSUME NEW q \in Peer  PROVE HostConsistent(q)'
    BY <1>3, <2>1, <2>4 DEF SortPeers, TypeOK, Consistent, HostConsistent
  <2>5. ASSUME NEW m \in Message, InFlight(m)'  PROVE MessageBacked(m)'
    <3>1. CASE InFlight(m)
      <4>1. MessageBacked(m)
        BY <3>1 DEF Consistent
      <4> QED  BY <4>1, <2>1, <2>3, <1>3, BackedStaysBacked DEF SortPeers, TypeOK
    <3>2. CASE ~InFlight(m)
      <4>1. m \in ElectionMsgs(p, L)
        <5>1. net[m] = 0 /\ held[m.to] # m
          BY <3>2, MessageFields DEF InFlight, TypeOK
        <5>2. held' = held
          BY <1>3 DEF SortPeers
        <5>3. net'[m] > 0
          BY <2>5, <5>1, <5>2 DEF InFlight
        <5> QED  BY <5>1, <5>3, <2>1, <2>2, ElectionMsgsUp, SentNet
      <4>2. /\ m.type = "election" /\ m.from = p
            /\ m.to \in L /\ Rank[m.to] < Rank[m.from]
        BY <4>1, <2>2, ElectionMsgsUp
      <4> QED  BY <4>2, <2>1 DEF MessageBacked, TypeOK
    <3> QED  BY <3>1, <3>2
  <2> QED  BY <2>4, <2>5 DEF Consistent
<1>4. ASSUME NEW p \in Peer, EndElection(p)  PROVE Consistent'
  <2> DEFINE ms == { Msg("select", p, q) : q \in sortedPeers[p] \ {p} }
  <2>1. ms \in SUBSET Message /\ \A m \in ms : m.type = "select" /\ m.from = p
    BY DEF TypeOK, Msg, Message
  <2>2. /\ proclaimed \subseteq proclaimed'
        /\ \A m \in Message : net'[m] > 0 => net[m] > 0 \/ (m \in ms /\ p \in proclaimed')
    <3>1. CASE net' = net /\ proclaimed' = proclaimed
      BY <3>1
    <3>2. CASE net' = Sent(ms) /\ proclaimed' = proclaimed \cup {p}
      BY <3>2, <2>1, SentNet
    <3> QED  BY <1>4, <3>1, <3>2 DEF EndElection
  <2>3. UNCHANGED <<phase, sortedPeers, listener, held>>
    BY <1>4 DEF EndElection
  <2>4. ASSUME NEW q \in Peer  PROVE HostConsistent(q)'
    <3>1. HostConsistent(q)
      BY DEF Consistent
    <3>2. elector' = [elector EXCEPT ![p] = "loop"] /\ elector[p] = "elect"
      BY <1>4 DEF EndElection
    <3>3. elector[q] = "off" <=> elector'[q] = "off"
      BY <3>2 DEF TypeOK
    <3>4. elector[q] = "off" => coordinator'[q] = coordinator[q]
      BY <1>4, <3>2 DEF EndElection, SetCoordinator, TypeOK
    <3> QED  BY <3>1, <3>3, <3>4, <2>3 DEF HostConsistent
  <2>5. ASSUME NEW m \in Message, InFlight(m)'  PROVE MessageBacked(m)'
    <3>1. CASE InFlight(m)
      <4>1. MessageBacked(m)
        BY <3>1 DEF Consistent
      <4> QED  BY <4>1, <2>2, <2>3, BackedStaysBacked
    <3>2. CASE ~InFlight(m)
      <4>1. m.type = "select" /\ m.from = p /\ p \in proclaimed'
        BY <3>2, <2>5, <2>1, <2>2, <2>3 DEF InFlight
      <4> QED  BY <4>1 DEF MessageBacked
    <3> QED  BY <3>1, <3>2
  <2> QED  BY <2>4, <2>5 DEF Consistent
<1>5. ASSUME NEW p \in Peer, Handle(p)  PROVE Consistent'
  <2> DEFINE h == held[p]
             ms == {Msg("alive", p, h.from)} \cup ElectionMsgs(p, sortedPeers[p])
  <2>1. /\ elector[p] = "loop" /\ listener[p] = "forward"
        /\ listener' = [listener EXCEPT ![p] = "select"]
        /\ held' = [held EXCEPT ![p] = NoMsg]
        /\ UNCHANGED <<phase, sortedPeers, proclaimed>>
    BY <1>5 DEF Handle
  <2>2. h \in Message /\ h.to = p /\ HostConsistent(p) /\ p \in sortedPeers[p]
    BY <2>1, MessageFields, PeerAssumption DEF Consistent, HostConsistent, TypeOK, NoMsg
  <2>3. MessageBacked(h)
    BY <2>2 DEF Consistent, InFlight
  <2>4. ms \in SUBSET Message /\ \A m \in ElectionMsgs(p, sortedPeers[p]) : MessageBacked(m)
    <3>1. sortedPeers[p] \in SUBSET Peer
      BY DEF TypeOK
    <3>2. h.from \in Peer /\ h.from # p
      BY <2>2 DEF Message
    <3>3. Msg("alive", p, h.from) \in Message
      BY <3>2 DEF Msg, Message
    <3> QED  BY <3>1, <3>3, ElectionMsgsUp DEF MessageBacked
  <2>5. h.type = "election" => MessageBacked(Msg("alive", p, h.from))
    <3>1. h.type = "election" => {h.from, p} \subseteq sortedPeers[h.from] /\ Rank[p] < Rank[h.from]
      BY <2>2, <2>3 DEF MessageBacked
    <3> QED  BY <3>1 DEF MessageBacked, Msg
  <2>6. \A m \in Message : net'[m] > 0 => net[m] > 0 \/ (m \in ms /\ h.type = "election")
    <3>1. CASE h.type = "election" /\ net' = Sent(ms)
      BY <3>1, <2>4, SentNet
    <3>2. CASE net' = net
      BY <3>2
    <3> QED  BY <1>5, <3>1, <3>2 DEF Handle
  <2>7. ASSUME NEW q \in Peer  PROVE HostConsistent(q)'
    <3>1. HostConsistent(q)
      BY DEF Consistent
    <3>2. elector' = [elector EXCEPT ![p] = "elect"] \/ elector' = elector
      BY <1>5 DEF Handle
    <3>3. elector[q] = "off" <=> elector'[q] = "off"
      BY <3>2, <2>1 DEF TypeOK
    <3>4. elector[q] = "off" => coordinator'[q] = coordinator[q]
      BY <1>5, <2>1 DEF Handle, SetCoordinator, TypeOK
    <3>5. listener'[q] = "forward" => listener[q] = "forward" /\ held'[q] = held[q]
      BY <2>1 DEF TypeOK
    <3> QED  BY <3>1, <3>3, <3>4, <3>5, <2>1 DEF HostConsistent
  <2>8. ASSUME NEW m \in Message, InFlight(m)'  PROVE MessageBacked(m)'
    <3>1. NoMsg \notin Message
      BY PeerAssumption DEF NoMsg, Message
    <3>2. held'[m.to] = m => held[m.to] = m
      BY <3>1, <2>1, MessageFields DEF TypeOK
    <3>3. MessageBacked(m)
      BY <3>2, <2>4, <2>5, <2>6, <2>8 DEF Consistent, InFlight
    <3> QED  BY <3>3, <2>1, BackedStaysBacked
  <2> QED  BY <2>7, <2>8 DEF Consistent
<1>6. ASSUME NEW p \in Peer, Return(p)  PROVE Consistent'
  BY <1>6, MessageFields DEF Return, TypeOK, Consistent, HostConsistent, InFlight, MessageBacked
<1>7. ASSUME NEW p \in Peer, ListenerLeaves(p)  PROVE Consistent'
  BY <1>7, MessageFields DEF ListenerLeaves, TypeOK, Consistent, HostConsistent, InFlight, MessageBacked
<1>8. ASSUME NEW m \in Message, ReceiveAlive(m.to, m) \/ Drop(m)  PROVE Consistent'
  <2>1. \A k \in Message : net'[k] > 0 => net[k] > 0
    BY <1>8, TakenNet DEF ReceiveAlive, Drop
  <2>2. UNCHANGED <<phase, sortedPeers, listener, held, elector, coordinator, proclaimed>>
    BY <1>8 DEF ReceiveAlive, Drop
  <2> QED  BY <2>1, <2>2 DEF Consistent, HostConsistent, InFlight, MessageBacked
<1>9. ASSUME NEW m \in Message, Forward(m.to, m)  PROVE Consistent'
  <2>1. /\ m.type \in {"election", "select"} /\ net[m] > 0 /\ m.to \in Peer
        /\ listener' = [listener EXCEPT ![m.to] = "forward"]
        /\ held' = [held EXCEPT ![m.to] = m]
        /\ UNCHANGED <<phase, sortedPeers, elector, coordinator, proclaimed>>
    BY <1>9, MessageFields DEF Forward
  <2>2. \A k \in Message : net'[k] > 0 => net[k] > 0
    BY <1>9, TakenNet DEF Forward
  <2>3. ASSUME NEW q \in Peer  PROVE HostConsistent(q)'
    <3>1. HostConsistent(q)
      BY DEF Consistent
    <3> QED  BY <3>1, <2>1 DEF HostConsistent, TypeOK
  <2>4. ASSUME NEW k \in Message, InFlight(k)'  PROVE MessageBacked(k)'
    <3>1. InFlight(k)
      BY <2>1, <2>2, <2>4, MessageFields DEF InFlight, TypeOK
    <3>2. MessageBacked(k)
      BY <3>1 DEF Consistent
    <3> QED  BY <3>2, <2>1, BackedStaysBacked
  <2> QED  BY <2>3, <2>4 DEF Consistent
<1>10. CASE UNCHANGED vars
  BY <1>10 DEF vars, Consistent, HostConsistent, InFlight, MessageBacked
<1> QED
  BY <1>1, <1>2, <1>3, <1>4, <1>5, <1>6, <1>7, <1>8, <1>9, <1>10 DEF Next

LEMMA Consistency == Spec => []Consistent
BY Typing, InitConsistent, StepConsistent, PTL DEF Spec

-----------------------------------------------------------------------------
(* The type invariant holds for any number of hosts, however often they     *)
(* elect.                                                                   *)
THEOREM ElectionTypes == Spec => []TypeOK
BY Typing

(* The listener never compares the sender of an alive message with a list   *)
(* that Coordinator has not stored yet.                                     *)
THEOREM ListBeforeAlive == Spec => []AliveFindsList
<1>1. Consistent => AliveFindsList
  BY DEF Consistent, AliveFindsList, MessageBacked, InFlight
<1> QED  BY <1>1, Consistency, PTL

(* No election is ever conceded: listen keeps no alive message, because all *)
(* of them come from higher peers, and every election ends in a select      *)
(* message.                                                                 *)
THEOREM EveryElectionProclaims == Spec => []NobodyConcedes
<1>1. Init => NobodyConcedes
  BY DEF Init, NobodyConcedes
<1>2. TypeOK /\ Consistent /\ NobodyConcedes /\ [Next]_vars => NobodyConcedes'
  <2> SUFFICES ASSUME TypeOK, Consistent, NobodyConcedes, [Next]_vars
               PROVE  NobodyConcedes'
    OBVIOUS
  <2>1. ASSUME NEW p \in Peer, EndElection(p)  PROVE NobodyConcedes'
    <3>1. electionChan' = electionChan /\ proclaimed' = proclaimed \cup {p}
      BY <2>1 DEF EndElection, NobodyConcedes
    <3> QED  BY <2>1, <3>1 DEF EndElection, NobodyConcedes, TypeOK
  <2>2. ASSUME NEW p \in Peer, Handle(p)  PROVE NobodyConcedes'
    <3>1. /\ UNCHANGED <<electionChan, proclaimed>>
          /\ elector' = [elector EXCEPT ![p] = "elect"] \/ elector' = elector
      BY <2>2 DEF Handle
    <3> QED  BY <3>1 DEF NobodyConcedes, TypeOK
  <2>3. ASSUME NEW m \in Message, ReceiveAlive(m.to, m)  PROVE NobodyConcedes'
    <3>1. MessageBacked(m) /\ m.type = "alive"
      BY <2>3 DEF ReceiveAlive, Consistent, InFlight
    <3>2. ~IsPeerIDHigher(m.to, m.to, m.from)
      BY <3>1, MessageFields, LowerIsNotHigher DEF MessageBacked
    <3>3. UNCHANGED <<electionChan, elector, proclaimed>>
      BY <2>3, <3>2 DEF ReceiveAlive
    <3> QED  BY <3>3 DEF NobodyConcedes
  <2>4. ASSUME NEW p \in Peer, SortPeers(p)  PROVE NobodyConcedes'
    BY <2>4 DEF SortPeers, NobodyConcedes, TypeOK
  <2>5. ASSUME NEW p \in Peer, Coordinator(p) \/ Listen(p) \/ Return(p) \/ ListenerLeaves(p)
        PROVE  NobodyConcedes'
    BY <2>5 DEF Coordinator, Listen, Return, ListenerLeaves, NobodyConcedes
  <2>6. ASSUME NEW m \in Message, Forward(m.to, m) \/ Drop(m)  PROVE NobodyConcedes'
    BY <2>6 DEF Forward, Drop, NobodyConcedes
  <2>7. CASE UNCHANGED vars
    BY <2>7 DEF vars, NobodyConcedes
  <2> QED  BY <2>1, <2>2, <2>3, <2>4, <2>5, <2>6, <2>7 DEF Next
<1> QED  BY <1>1, <1>2, Typing, Consistency, PTL DEF Spec

(* A host never believes in, and Coordinator never returns, a peer that has *)
(* not called itself the coordinator, other than the host itself.           *)
THEOREM OnlyProclaimedElected == Spec => []BelievesProclaimed
<1>1. Init => BelievesProclaimed
  BY DEF Init, BelievesProclaimed
<1>2. TypeOK /\ Consistent /\ BelievesProclaimed /\ [Next]_vars => BelievesProclaimed'
  <2> SUFFICES ASSUME TypeOK, Consistent, BelievesProclaimed, [Next]_vars
               PROVE  BelievesProclaimed'
    OBVIOUS
  <2>1. ASSUME NEW p \in Peer, EndElection(p)  PROVE BelievesProclaimed'
    <3>1. /\ UNCHANGED <<phase, chosen>> /\ proclaimed \subseteq proclaimed'
          /\ coordinator' = [coordinator EXCEPT ![p] = p] \/ coordinator' = coordinator
      BY <2>1 DEF EndElection, SetCoordinator
    <3> QED  BY <3>1 DEF BelievesProclaimed, TypeOK
  <2>2. ASSUME NEW p \in Peer, Handle(p)  PROVE BelievesProclaimed'
    <3>1. UNCHANGED <<phase, chosen, proclaimed>>
      BY <2>2 DEF Handle
    <3>2. \/ coordinator' = coordinator
          \/ /\ held[p].type = "select"
             /\ coordinator' = [coordinator EXCEPT ![p] = held[p].from]
      BY <2>2 DEF Handle, SetCoordinator
    <3>3. held[p].type = "select" => held[p].from \in proclaimed
      <4>1. held[p] \in Message /\ held[p].to = p
        BY <2>2, PeerAssumption, MessageFields
        DEF Handle, Consistent, HostConsistent, TypeOK, NoMsg
      <4> QED  BY <4>1 DEF Consistent, InFlight, MessageBacked
    <3> QED  BY <3>1, <3>2, <3>3 DEF BelievesProclaimed, TypeOK
  <2>3. ASSUME NEW p \in Peer, Return(p)  PROVE BelievesProclaimed'
    BY <2>3 DEF Return, BelievesProclaimed, TypeOK
  <2>4. ASSUME NEW p \in Peer, Coordinator(p) \/ SortPeers(p)  PROVE BelievesProclaimed'
    BY <2>4 DEF Coordinator, SortPeers, BelievesProclaimed, TypeOK
  <2>5. ASSUME NEW p \in Peer, Listen(p) \/ ListenerLeaves(p)  PROVE BelievesProclaimed'
    BY <2>5 DEF Listen, ListenerLeaves, BelievesProclaimed
  <2>6. ASSUME NEW m \in Message, ReceiveAlive(m.to, m) \/ Forward(m.to, m) \/ Drop(m)
        PROVE  BelievesProclaimed'
    BY <2>6 DEF ReceiveAlive, Forward, Drop, BelievesProclaimed
  <2>7. CASE UNCHANGED vars
    BY <2>7 DEF vars, BelievesProclaimed
  <2> QED  BY <2>1, <2>2, <2>3, <2>4, <2>5, <2>6, <2>7 DEF Next
<1> QED  BY <1>1, <1>2, Typing, Consistency, PTL DEF Spec

(* The first peer of its own list always ends up with itself: no select     *)
(* message, not even of an excluded peer, which has index 0 as well, ranks  *)
(* above it.                                                                *)
THEOREM HeadIsNotOverruled == Spec => []HeadNamesItself
<1>1. Init => HeadNamesItself
  BY DEF Init, HeadNamesItself
<1>2. TypeOK /\ Consistent /\ HeadNamesItself /\ [Next]_vars => HeadNamesItself'
  <2> SUFFICES ASSUME TypeOK, Consistent, HeadNamesItself, [Next]_vars
               PROVE  HeadNamesItself'
    OBVIOUS
  <2>1. ASSUME NEW p \in Peer, EndElection(p) \/ Handle(p)  PROVE HeadNamesItself'
    <3>1. /\ UNCHANGED sortedPeers
          /\ UNCHANGED coordinator \/ \E q : SetCoordinator(p, q)
      BY <2>1 DEF EndElection, Handle
    <3>2. ASSUME NEW q, SetCoordinator(p, q)  PROVE HeadNamesItself'
      <4>1. CASE \A r \in sortedPeers[p] : Rank[p] <= Rank[r]
        <5>1. sortedPeers[p] # {}
          BY <2>1 DEF Consistent, HostConsistent, EndElection, Handle
        <5>2. coordinator[p] = p
          BY <4>1, <5>1 DEF HeadNamesItself
        <5>3. ~IsPeerIDHigher(p, q, coordinator[p])
          BY <4>1, <5>2, NobodyAboveHead
        <5>4. coordinator' = coordinator
          BY <3>2, <5>2, <5>3 DEF SetCoordinator, TypeOK
        <5> QED  BY <5>4, <3>1 DEF HeadNamesItself
      <4>2. CASE ~\A r \in sortedPeers[p] : Rank[p] <= Rank[r]
        BY <3>2, <4>2, <3>1 DEF SetCoordinator, HeadNamesItself, TypeOK
      <4> QED  BY <4>1, <4>2
    <3>3. CASE UNCHANGED coordinator
      BY <3>1, <3>3 DEF HeadNamesItself
    <3> QED  BY <3>1, <3>2, <3>3
  <2>2. ASSUME NEW p \in Peer, SortPeers(p)  PROVE HeadNamesItself'
    <3>1. coordinator[p] = p /\ coordinator' = coordinator
      BY <2>2 DEF SortPeers, Consistent, HostConsistent
    <3>2. \A q \in Peer \ {p} : sortedPeers'[q] = sortedPeers[q]
      BY <2>2 DEF SortPeers, TypeOK
    <3> QED  BY <3>1, <3>2 DEF HeadNamesItself
  <2>3. ASSUME NEW p \in Peer, Coordinator(p) \/ Listen(p) \/ Return(p) \/ ListenerLeaves(p)
        PROVE  HeadNamesItself'
    BY <2>3 DEF Coordinator, Listen, Return, ListenerLeaves, HeadNamesItself
  <2>4. ASSUME NEW m \in Message, ReceiveAlive(m.to, m) \/ Forward(m.to, m) \/ Drop(m)
        PROVE  HeadNamesItself'
    BY <2>4 DEF ReceiveAlive, Forward, Drop, HeadNamesItself
  <2>5. CASE UNCHANGED vars
    BY <2>5 DEF vars, HeadNamesItself
  <2> QED  BY <2>1, <2>2, <2>3, <2>4, <2>5 DEF Next
<1> QED  BY <1>1, <1>2, Typing, Consistency, PTL DEF Spec
-----------------------------------------------------------------------------
(* Agreement.  In a list that has both peers a strictly lower rank is a     *)
(* strictly lower index.                                                    *)
LEMMA LowerRankIsHigher ==
  ASSUME TypeOK, NEW p \in Peer, NEW q \in sortedPeers[p], NEW r \in sortedPeers[p],
         Rank[q] < Rank[r]
  PROVE  IsPeerIDHigher(p, q, r)
<1> DEFINE S == { k \in sortedPeers[p] : Rank[k] < Rank[r] }
           T == { k \in sortedPeers[p] : Rank[k] < Rank[q] }
<1>1. T \in SUBSET S /\ S \in SUBSET Peer /\ q \in S \ T
  BY RankAssumption DEF TypeOK
<1>2. Cardinality(T) < Cardinality(S)
  <2>1. IsFiniteSet(S)
    BY <1>1, FS_Subset, PeerAssumption
  <2> QED  BY <2>1, <1>1, FS_Subset, FS_CardinalityType
<1>3. Index(p, r) = Cardinality(S) /\ Index(p, q) = Cardinality(T)
  BY DEF Index
<1> QED  BY <1>2, <1>3 DEF IsPeerIDHigher

(* Some active host comes first in the session order.                       *)
LEMMA HighestExists ==
  ASSUME TypeOK, active # {}
  PROVE  \E h \in active : Highest(h)
<1> DEFINE T == { Rank[q] : q \in active }
<1>1. T \subseteq Nat /\ T # {}
  BY RankAssumption DEF TypeOK
<1>2. \E x \in T : \A y \in T : ~ (<<y, x>> \in OpToRel(<, Nat))
  <2> HIDE DEF T
  <2> QED  BY <1>1, NatLessThanWellFounded, WFMin
<1>3. PICK x \in T : \A y \in T : ~ (<<y, x>> \in OpToRel(<, Nat))
  BY <1>2
<1>4. ASSUME NEW y \in T  PROVE x <= y
  <2>1. x \in Nat /\ y \in Nat
    BY <1>1
  <2>2. ~ (<<y, x>> \in { ss \in Nat \X Nat : ss[1] < ss[2] })
    BY <1>3, Zenon DEF OpToRel
  <2>3. ~ (y < x)
    <3> HIDE DEF T
    <3> QED  BY <2>1, <2>2
  <2> QED  BY <2>1, <2>3
<1> QED  BY <1>4 DEF Highest

(* Broadcast adds its messages to those that are under way.                 *)
LEMMA SentGrows ==
  ASSUME TypeOK, NEW ms \in SUBSET Message, net' = Sent(ms)
  PROVE  /\ \A m \in ms : net'[m] > 0
         /\ \A m \in Message : net[m] > 0 => net'[m] > 0
BY DEF TypeOK, Sent

LEMMA OthersNotTaken ==
  ASSUME TypeOK, NEW m \in Message, net' = Taken(m)
  PROVE  \A k \in Message \ {m} : net[k] > 0 => net'[k] > 0
BY DEF TypeOK, Taken

LEMMA NoMsgIsNone == NoMsg \notin Message
BY PeerAssumption DEF NoMsg, Message

LEMMA SelectMsg ==
  ASSUME NEW h \in Peer, NEW p \in Peer, h # p
  PROVE  /\ Msg("select", h, p) \in Message
         /\ Msg("select", h, p).type = "select"
         /\ Msg("select", h, p).from = h /\ Msg("select", h, p).to = p
BY DEF Msg, Message

-----------------------------------------------------------------------------
LEMMA InitRoutine == Init => Routine
BY DEF Init, Routine

LEMMA StepRoutine ==
  ASSUME TypeOK, Consistent, Routine, [Next]_vars
  PROVE  Routine'
<1>1. ASSUME NEW p \in Peer, Coordinator(p) \/ Listen(p) \/ SortPeers(p)
      PROVE  Routine'
  BY <1>1 DEF Coordinator, Listen, SortPeers, Routine, TypeOK
<1>2. ASSUME NEW p \in Peer, EndElection(p)  PROVE Routine'
  <2>1. elector[p] = "elect" /\ UNCHANGED <<phase, listener, held, active>>
        /\ proclaimed' \subseteq proclaimed \cup {p}
    BY <1>2 DEF EndElection
  <2>2. phase[p] # "idle"
    BY <2>1 DEF Consistent, HostConsistent
  <2> QED  BY <2>1, <2>2 DEF Routine
<1>3. ASSUME NEW p \in Peer, Handle(p)  PROVE Routine'
  <2>1. /\ listener[p] = "forward"
        /\ listener' = [listener EXCEPT ![p] = "select"]
        /\ held' = [held EXCEPT ![p] = NoMsg]
        /\ UNCHANGED <<phase, proclaimed, active>>
    BY <1>3 DEF Handle
  <2> QED  BY <2>1 DEF Routine, TypeOK
<1>4. ASSUME NEW p \in Peer, Return(p) \/ ListenerLeaves(p)  PROVE Routine'
  BY <1>4 DEF Return, ListenerLeaves, Routine, TypeOK
<1>5. ASSUME NEW m \in Message, ReceiveAlive(m.to, m) \/ Drop(m)  PROVE Routine'
  BY <1>5 DEF ReceiveAlive, Drop, Routine
<1>6. ASSUME NEW m \in Message, Forward(m.to, m)  PROVE Routine'
  BY <1>6, MessageFields DEF Forward, Routine, TypeOK
<1>7. CASE UNCHANGED vars
  BY <1>7 DEF vars, Routine
<1> QED  BY <1>1, <1>2, <1>3, <1>4, <1>5, <1>6, <1>7 DEF Next

(* The environment does not change, and no listener comes back.             *)
LEMMA Constancy ==
  ASSUME TypeOK, [Next]_vars
  PROVE  /\ active' = active /\ steady' = steady
         /\ \A p \in Peer : listener'[p] = "off" => listener[p] = "off"
<1>1. ASSUME NEW p \in Peer, \/ Coordinator(p) \/ Listen(p) \/ SortPeers(p)
                             \/ EndElection(p) \/ Return(p) \/ ListenerLeaves(p)
      PROVE  /\ active' = active /\ steady' = steady
             /\ \A q \in Peer : listener'[q] = "off" => listener[q] = "off"
  BY <1>1 DEF Coordinator, Listen, SortPeers, EndElection, Return, ListenerLeaves, TypeOK
<1>2. ASSUME NEW p \in Peer, Handle(p)
      PROVE  /\ active' = active /\ steady' = steady
             /\ \A q \in Peer : listener'[q] = "off" => listener[q] = "off"
  <2>1. UNCHANGED <<active, steady>> /\ listener' = [listener EXCEPT ![p] = "select"]
    BY <1>2 DEF Handle
  <2> QED  BY <2>1 DEF TypeOK
<1>3. ASSUME NEW m \in Message, ReceiveAlive(m.to, m) \/ Forward(m.to, m) \/ Drop(m)
      PROVE  /\ active' = active /\ steady' = steady
             /\ \A q \in Peer : listener'[q] = "off" => listener[q] = "off"
  BY <1>3, MessageFields DEF ReceiveAlive, Forward, Drop, TypeOK
<1>4. CASE UNCHANGED vars
  BY <1>4 DEF vars
<1> QED  BY <1>1, <1>2, <1>3, <1>4 DEF Next

(* Once a steady election is over nothing happens in it any more, whatever  *)
(* is still sent to hosts that never took part.                             *)
LEMMA QuietStays ==
  ASSUME TypeOK, Consistent, Routine, Quiet, [Next]_vars
  PROVE  Quiet' /\ UNCHANGED <<elector, coordinator, sortedPeers>>
<1>1. \A p \in Peer : phase[p] # "idle" => elector[p] = "loop" /\ listener[p] \in {"select", "gone"}
  BY DEF Routine, Quiet
<1>2. \A m \in Message : listener[m.to] = "select" => net[m] = 0
  BY MessageFields DEF Routine, Quiet
<1>3. ASSUME NEW p \in Peer, Coordinator(p) \/ SortPeers(p)  PROVE FALSE
  <2>1. elector[p] = "off" /\ (p \in active \/ phase[p] = "called")
    BY <1>3 DEF Coordinator, SortPeers, Consistent, HostConsistent
  <2> QED  BY <2>1, <1>1 DEF Quiet
<1>4. ASSUME NEW p \in Peer, Listen(p) \/ Handle(p) \/ EndElection(p)  PROVE FALSE
  <2>1. phase[p] # "idle"
    BY <1>4 DEF Listen, Handle, EndElection, Consistent, HostConsistent
  <2> QED  BY <1>4, <2>1, <1>1 DEF Listen, Handle, EndElection
<1>5. ASSUME NEW m \in Message, ReceiveAlive(m.to, m) \/ Forward(m.to, m)  PROVE FALSE
  BY <1>5, <1>2 DEF ReceiveAlive, Forward, TypeOK
<1>6. ASSUME NEW p \in Peer, Return(p) \/ ListenerLeaves(p)
      PROVE  Quiet' /\ UNCHANGED <<elector, coordinator, sortedPeers>>
  BY <1>6 DEF Return, ListenerLeaves, Quiet, TypeOK
<1>7. ASSUME NEW m \in Message, Drop(m)
      PROVE  Quiet' /\ UNCHANGED <<elector, coordinator, sortedPeers>>
  <2>1. \A k \in Message : net'[k] \in Nat /\ (net'[k] > 0 => net[k] > 0)
    BY <1>7, TakenNet DEF Drop
  <2>2. UNCHANGED <<elector, coordinator, sortedPeers, listener, active>>
    BY <1>7 DEF Drop
  <2> QED  BY <2>1, <2>2 DEF Quiet, TypeOK
<1>8. CASE UNCHANGED vars
  BY <1>8 DEF vars, Quiet
<1> QED  BY <1>3, <1>4, <1>5, <1>6, <1>7, <1>8 DEF Next
-----------------------------------------------------------------------------
(* What is ahead of a host stays ahead of it.  An election the highest host *)
(* is to hold is only over with its select messages.                        *)
LEMMA ElectsStays ==
  ASSUME TypeOK, Consistent, Routine, [Next]_vars,
         NEW h \in Peer, Elects(h),
         h \in sortedPeers[h] => sortedPeers[h] = Peer,
         elector[h] = "loop" => listener[h] \notin {"off", "gone"},
         ~EndElection(h)
  PROVE  Elects(h)'
<1>1. CASE elector[h] # "loop"
  <2>1. elector'[h] # "loop"
    <3>1. ASSUME NEW p \in Peer, Coordinator(p) \/ Listen(p) \/ Return(p) \/ ListenerLeaves(p)
          PROVE  elector'[h] # "loop"
      BY <1>1, <3>1 DEF Coordinator, Listen, Return, ListenerLeaves
    <3>2. ASSUME NEW p \in Peer, SortPeers(p)  PROVE elector'[h] # "loop"
      BY <1>1, <3>2 DEF SortPeers, TypeOK
    <3>3. ASSUME NEW p \in Peer, EndElection(p)  PROVE elector'[h] # "loop"
      <4>1. p # h
        BY <3>3
      <4> QED  BY <1>1, <3>3, <4>1 DEF EndElection, TypeOK
    <3>4. ASSUME NEW p \in Peer, Handle(p)  PROVE elector'[h] # "loop"
      <4>1. elector' = elector \/ elector' = [elector EXCEPT ![p] = "elect"]
        BY <3>4 DEF Handle
      <4> QED  BY <1>1, <4>1 DEF TypeOK
    <3>5. ASSUME NEW m \in Message, ReceiveAlive(m.to, m) \/ Forward(m.to, m) \/ Drop(m)
          PROVE  elector'[h] # "loop"
      BY <1>1, <3>5 DEF ReceiveAlive, Forward, Drop
    <3>6. CASE UNCHANGED vars
      BY <1>1, <3>6 DEF vars
    <3> QED  BY <3>1, <3>2, <3>3, <3>4, <3>5, <3>6 DEF Next
  <2> QED  BY <2>1 DEF Elects
<1>2. CASE elector[h] = "loop"
  <2>1. PICK m \in Message : m.type = "election" /\ m.to = h /\ InFlight(m)
    BY <1>2 DEF Elects
  <2>2. SUFFICES InFlight(m)' \/ elector'[h] # "loop"
    BY <2>1 DEF Elects
  <2>3. ASSUME NEW p \in Peer, Handle(p)  PROVE InFlight(m)' \/ elector'[h] # "loop"
    <3> DEFINE ms == {Msg("alive", p, held[p].from)} \cup ElectionMsgs(p, sortedPeers[p])
    <3>1. CASE p = h /\ held[h] = m
      <4>1. /\ MessageBacked(m) /\ h \in sortedPeers[h]
        BY <1>2, <2>1 DEF Consistent, HostConsistent
      <4>2. m.from \in Peer /\ Rank[h] < Rank[m.from] /\ sortedPeers[h] = Peer
        BY <4>1, <2>1, MessageFields DEF MessageBacked
      <4>3. ~IsPeerIDHigher(h, m.from, h)
        BY <4>2, LowerIsNotHigher
      <4> QED  BY <2>3, <3>1, <2>1, <4>3 DEF Handle, TypeOK
    <3>2. CASE held[m.to] # m
      <4>1. net[m] > 0
        BY <2>1, <3>2 DEF InFlight
      <4>2. net'[m] > 0
        <5>1. CASE net' = Sent(ms) /\ held[p].type = "election"
          <6>1. held[p] \in Message /\ held[p].to = p
            BY <5>1 DEF TypeOK, NoMsg
          <6>2. ms \in SUBSET Message
            BY <6>1, ElectionMsgsUp DEF Message, Msg, TypeOK
          <6> QED  BY <5>1, <6>2, <4>1, SentGrows
        <5>2. CASE net' = net
          BY <5>2, <4>1
        <5> QED  BY <2>3, <5>1, <5>2 DEF Handle
      <4> QED  BY <4>2 DEF InFlight
    <3>3. CASE p # h /\ held[h] = m
      <4>1. held'[h] = held[h]
        BY <2>3, <3>3 DEF Handle, TypeOK
      <4> QED  BY <4>1, <3>3, <2>1 DEF InFlight
    <3> QED  BY <3>1, <3>2, <3>3, <2>1
  <2>4. ASSUME NEW k \in Message, ReceiveAlive(k.to, k)  PROVE InFlight(m)'
    <3>1. k # m /\ UNCHANGED held
      BY <2>4, <2>1 DEF ReceiveAlive
    <3> QED  BY <3>1, <2>1, <2>4, OthersNotTaken DEF ReceiveAlive, InFlight
  <2>5. ASSUME NEW k \in Message, Forward(k.to, k)  PROVE InFlight(m)'
    <3>1. held' = [held EXCEPT ![k.to] = k] /\ net' = Taken(k) /\ held[k.to] = NoMsg
      BY <2>5, MessageFields DEF Forward, Routine
    <3>2. CASE k = m
      BY <3>1, <3>2, MessageFields DEF InFlight, TypeOK
    <3>3. CASE k # m
      <4>1. held[m.to] = m => held'[m.to] = m
        BY <3>1, NoMsgIsNone, MessageFields DEF TypeOK
      <4> QED  BY <3>1, <3>3, <4>1, <2>1, OthersNotTaken DEF InFlight
    <3> QED  BY <3>2, <3>3
  <2>6. ASSUME NEW k \in Message, Drop(k)  PROVE InFlight(m)'
    <3>1. k # m /\ UNCHANGED held /\ net' = Taken(k)
      BY <2>6, <2>1, <1>2 DEF Drop
    <3> QED  BY <3>1, <2>1, OthersNotTaken DEF InFlight
  <2>7. ASSUME NEW p \in Peer, SortPeers(p)  PROVE InFlight(m)'
    <3>1. PICK L \in Lists : net' = Sent(ElectionMsgs(p, L))
      BY <2>7 DEF SortPeers
    <3>2. ElectionMsgs(p, L) \in SUBSET Message
      BY ListsAssumption, ElectionMsgsUp
    <3>3. UNCHANGED held
      BY <2>7 DEF SortPeers
    <3> QED  BY <3>1, <3>2, <3>3, <2>1, SentGrows DEF InFlight
  <2>8. ASSUME NEW p \in Peer, EndElection(p)  PROVE InFlight(m)'
    <3>1. { Msg("select", p, q) : q \in sortedPeers[p] \ {p} } \in SUBSET Message
      BY DEF TypeOK, Msg, Message
    <3>2. net[m] > 0 => net'[m] > 0
      BY <2>8, <3>1, SentGrows DEF EndElection
    <3>3. UNCHANGED held
      BY <2>8 DEF EndElection
    <3> QED  BY <3>2, <3>3, <2>1 DEF InFlight
  <2>9. ASSUME NEW p \in Peer, Coordinator(p) \/ Listen(p) \/ Return(p) \/ ListenerLeaves(p)
        PROVE  InFlight(m)'
    BY <2>9, <2>1 DEF Coordinator, Listen, Return, ListenerLeaves, InFlight
  <2>10. CASE UNCHANGED vars
    BY <2>10, <2>1 DEF vars, InFlight
  <2> QED  BY <2>3, <2>4, <2>5, <2>6, <2>7, <2>8, <2>9, <2>10 DEF Next
<1> QED  BY <1>1, <1>2
(* A select message stays under way to a host that listens until the host   *)
(* handles it.                                                              *)
LEMMA SelectStays ==
  ASSUME TypeOK, Consistent, Routine, [Next]_vars,
         NEW m \in Message, m.type = "select", InFlight(m),
         listener[m.to] \notin {"off", "gone"}
  PROVE  InFlight(m)' \/ (Handle(m.to) /\ held[m.to] = m)
<1>1. ASSUME NEW p \in Peer, Handle(p), p # m.to \/ held[p] # m  PROVE InFlight(m)'
  <2> DEFINE ms == {Msg("alive", p, held[p].from)} \cup ElectionMsgs(p, sortedPeers[p])
  <2>1. net[m] > 0 => net'[m] > 0
    <3>1. CASE net' = Sent(ms) /\ held[p].type = "election"
      <4>1. held[p] \in Message /\ held[p].to = p
        BY <3>1 DEF TypeOK, NoMsg
      <4>2. ms \in SUBSET Message
        BY <4>1, ElectionMsgsUp DEF Message, Msg, TypeOK
      <4> QED  BY <3>1, <4>2, SentGrows
    <3>2. CASE net' = net
      BY <3>2
    <3> QED  BY <1>1, <3>1, <3>2 DEF Handle
  <2>2. held[m.to] = m => held'[m.to] = m
    BY <1>1, MessageFields DEF Handle, TypeOK
  <2> QED  BY <2>1, <2>2 DEF InFlight
<1>2. ASSUME NEW k \in Message, ReceiveAlive(k.to, k) \/ Drop(k)  PROVE InFlight(m)'
  <2>1. k # m /\ UNCHANGED held /\ net' = Taken(k)
    BY <1>2 DEF ReceiveAlive, Drop
  <2> QED  BY <2>1, OthersNotTaken DEF InFlight
<1>3. ASSUME NEW k \in Message, Forward(k.to, k)  PROVE InFlight(m)'
  <2>1. held' = [held EXCEPT ![k.to] = k] /\ net' = Taken(k) /\ held[k.to] = NoMsg
    BY <1>3, MessageFields DEF Forward, Routine
  <2>2. CASE k = m
    BY <2>1, <2>2, MessageFields DEF InFlight, TypeOK
  <2>3. CASE k # m
    <3>1. held[m.to] = m => held'[m.to] = m
      BY <2>1, NoMsgIsNone, MessageFields DEF TypeOK
    <3> QED  BY <2>1, <2>3, <3>1, OthersNotTaken DEF InFlight
  <2> QED  BY <2>2, <2>3
<1>4. ASSUME NEW p \in Peer, SortPeers(p)  PROVE InFlight(m)'
  <2>1. PICK L \in Lists : net' = Sent(ElectionMsgs(p, L))
    BY <1>4 DEF SortPeers
  <2>2. ElectionMsgs(p, L) \in SUBSET Message
    BY ListsAssumption, ElectionMsgsUp
  <2>3. UNCHANGED held
    BY <1>4 DEF SortPeers
  <2> QED  BY <2>1, <2>2, <2>3, SentGrows DEF InFlight
<1>5. ASSUME NEW p \in Peer, EndElection(p)  PROVE InFlight(m)'
  <2>1. { Msg("select", p, q) : q \in sortedPeers[p] \ {p} } \in SUBSET Message
    BY DEF TypeOK, Msg, Message
  <2>2. net[m] > 0 => net'[m] > 0
    BY <1>5, <2>1, SentGrows DEF EndElection
  <2>3. UNCHANGED held
    BY <1>5 DEF EndElection
  <2> QED  BY <2>2, <2>3 DEF InFlight
<1>6. ASSUME NEW p \in Peer, Coordinator(p) \/ Listen(p) \/ Return(p) \/ ListenerLeaves(p)
      PROVE  InFlight(m)'
  BY <1>6 DEF Coordinator, Listen, Return, ListenerLeaves, InFlight
<1>7. CASE UNCHANGED vars
  BY <1>7 DEF vars, InFlight
<1> QED  BY <1>1, <1>2, <1>3, <1>4, <1>5, <1>6, <1>7 DEF Next

-----------------------------------------------------------------------------
(* The state of an election that is not over: what the steps below may use. *)
Electing(h) ==
  /\ TypeOK /\ Consistent /\ Routine /\ NobodyConcedes /\ BelievesProclaimed
  /\ SteadyPart /\ steady
  /\ Highest(h)
  /\ \A p \in Peer : phase[p] # "returned"

LEMMA ListIsPeer ==
  ASSUME NEW h, Electing(h)
  PROVE  /\ h \in Peer
         /\ \A p \in Peer : elector[p] # "off" => sortedPeers[p] = Peer
         /\ \A p \in Peer : listener[p] # "gone"
BY DEF Electing, SteadyPart, Consistent, HostConsistent, Routine, Highest, TypeOK

(* Nobody is set to follow a host below the one it follows, and nobody      *)
(* but itself ranks above the highest.                                      *)
LEMMA SetCoordinatorSteady ==
  ASSUME NEW h, Electing(h), NEW p \in Peer, NEW q \in active,
         elector[p] # "off", p # q, SetCoordinator(p, q)
  PROVE  /\ coordinator[p] = h => coordinator' = coordinator
         /\ q = h => coordinator'[p] = h
         /\ \A r \in Peer \ {p} : coordinator'[r] = coordinator[r]
<1>1. coordinator[p] \in active /\ q \in Peer /\ coordinator[p] \in Peer
  <2>1. p \in active
    BY DEF Electing, Consistent, HostConsistent, Routine
  <2> QED  BY <2>1 DEF Electing, BelievesProclaimed, Routine, TypeOK
<1>2. sortedPeers[p] = Peer /\ TypeOK
  BY ListIsPeer DEF Electing
<1>3. Rank[h] <= Rank[q] /\ Rank[h] <= Rank[coordinator[p]] /\ h \in Peer
  BY <1>1 DEF Electing, Highest, TypeOK
<1>4. coordinator[p] = h => ~IsPeerIDHigher(p, q, coordinator[p])
  <2>1. CASE q # h
    <3>1. Rank[h] < Rank[q]
      BY <2>1, <1>1, <1>3, RankAssumption
    <3> QED  BY <3>1, <1>1, <1>2, <1>3, LowerIsNotHigher
  <2>2. CASE q = h
    <3>1. Index(p, h) \in Nat
      BY <1>2, IndexNat
    <3> QED  BY <2>2, <3>1 DEF IsPeerIDHigher
  <2> QED  BY <2>1, <2>2
<1>5. q = h /\ coordinator[p] # h => IsPeerIDHigher(p, q, coordinator[p])
  <2>1. SUFFICES ASSUME q = h, coordinator[p] # h
                 PROVE  IsPeerIDHigher(p, h, coordinator[p])
    OBVIOUS
  <2>2. Rank[h] < Rank[coordinator[p]]
    BY <2>1, <1>1, <1>3, RankAssumption
  <2> QED  BY <2>2, <1>1, <1>2, <1>3, LowerRankIsHigher
<1> QED  BY <1>2, <1>4, <1>5 DEF SetCoordinator, TypeOK
(* The steps that change what a host believes, or what its elector does.    *)
LEMMA HostSteps ==
  ASSUME TypeOK, [Next]_vars, NEW p \in Peer
  PROVE  \/ SortPeers(p) \/ EndElection(p) \/ Handle(p)
         \/ elector'[p] = elector[p] /\ coordinator'[p] = coordinator[p]
<1>1. ASSUME NEW q \in Peer \ {p}, SortPeers(q) \/ EndElection(q) \/ Handle(q)
      PROVE  elector'[p] = elector[p] /\ coordinator'[p] = coordinator[p]
  <2>1. CASE SortPeers(q)
    BY <2>1 DEF SortPeers, TypeOK
  <2>2. CASE EndElection(q)
    BY <2>2 DEF EndElection, SetCoordinator, TypeOK
  <2>3. CASE Handle(q)
    BY <2>3 DEF Handle, SetCoordinator, TypeOK
  <2> QED  BY <1>1, <2>1, <2>2, <2>3
<1>2. ASSUME NEW q \in Peer, Coordinator(q) \/ Listen(q) \/ Return(q) \/ ListenerLeaves(q)
      PROVE  elector' = elector /\ coordinator' = coordinator
  BY <1>2 DEF Coordinator, Listen, Return, ListenerLeaves
<1>3. ASSUME NEW m \in Message, ReceiveAlive(m.to, m) \/ Forward(m.to, m) \/ Drop(m)
      PROVE  elector' = elector /\ coordinator' = coordinator
  BY <1>3 DEF ReceiveAlive, Forward, Drop
<1>4. CASE UNCHANGED vars
  BY <1>4 DEF vars
<1> QED  BY <1>1, <1>2, <1>3, <1>4 DEF Next

(* What the elector goroutine handles.                                      *)
LEMMA Handled ==
  ASSUME TypeOK, Consistent, Routine, NEW p \in Peer, Handle(p)
  PROVE  /\ held[p] \in Message /\ held[p].to = p
         /\ held[p].from \in Peer \ {p}
         /\ held[p].type \in {"election", "select"}
         /\ held[p].type = "select" => held[p].from \in active
         /\ elector[p] = "loop"
<1>1. HostConsistent(p) /\ listener[p] = "forward" /\ elector[p] = "loop"
  BY DEF Handle, Consistent
<1>2. /\ held[p] \in Message /\ held[p].to = p
      /\ held[p].type \in {"election", "select"}
  BY <1>1, NoMsgIsNone DEF HostConsistent, TypeOK
<1>3. held[p].from \in Peer \ {p}
  BY <1>2 DEF Message
<1>4. held[p].type = "select" => held[p].from \in active
  BY <1>2 DEF Consistent, InFlight, MessageBacked, Routine
<1> QED  BY <1>1, <1>2, <1>3, <1>4

(* The highest active host never believes in anybody else.                  *)
LEMMA HighestKeepsItself ==
  ASSUME NEW h, Electing(h), [Next]_vars
  PROVE  coordinator'[h] = h
<1>1. coordinator[h] = h /\ h \in Peer /\ TypeOK /\ Consistent /\ Routine
  BY ListIsPeer DEF Electing, SteadyPart, Highest
<1>2. CASE SortPeers(h)
  BY <1>1, <1>2 DEF SortPeers
<1>3. CASE EndElection(h)
  <2>1. coordinator' = coordinator \/ SetCoordinator(h, h)
    BY <1>3 DEF EndElection
  <2> QED  BY <1>1, <2>1 DEF SetCoordinator, TypeOK
<1>4. CASE Handle(h)
  <2>1. coordinator' = coordinator
        \/ (held[h].type = "select" /\ SetCoordinator(h, held[h].from))
    BY <1>4 DEF Handle
  <2> QED  BY <1>1, <1>4, <2>1, Handled, SetCoordinatorSteady
<1> QED  BY <1>1, <1>2, <1>3, <1>4, HostSteps

(* The end of the highest host's election sends a select message to every   *)
(* host that has begun to elect, and all of them listen by then.            *)
LEMMA HighestProclaims ==
  ASSUME NEW h, Electing(h), EndElection(h), NEW p \in active \ {h}
  PROVE  Convinced(p, h)'
<1>1. /\ TypeOK /\ h \in Peer /\ p \in Peer /\ h # p
      /\ sortedPeers[h] = Peer /\ ~electionChan[h]
      /\ HostConsistent(p)
  <2>1. elector[h] # "off"
    BY DEF EndElection
  <2> QED  BY <2>1, ListIsPeer DEF Electing, TypeOK, NobodyConcedes, Consistent
<1>2. /\ net' = Sent({ Msg("select", h, q) : q \in sortedPeers[h] \ {h} })
      /\ elector' = [elector EXCEPT ![h] = "loop"]
      /\ UNCHANGED <<listener, held, phase>>
      /\ Prompt
  BY <1>1 DEF EndElection, Electing
<1>3. elector'[p] # "off" => listener'[p] # "off"
  BY <1>1, <1>2 DEF Prompt, HostConsistent, TypeOK
<1>4. InFlight(Msg("select", h, p))'
  <2>1. { Msg("select", h, q) : q \in sortedPeers[h] \ {h} } \in SUBSET Message
    BY <1>1, SelectMsg
  <2>2. net'[Msg("select", h, p)] > 0
    BY <1>1, <1>2, <2>1, SentGrows
  <2> QED  BY <2>2 DEF InFlight
<1> QED  BY <1>1, <1>2, <1>3, <1>4 DEF Convinced, TypeOK

(* A host that begins an election asks the highest one for another.         *)
LEMMA AsksHighest ==
  ASSUME NEW h, Electing(h), NEW p \in active \ {h}, NEW ms \in SUBSET Message,
         Msg("election", p, h) \in ms, net' = Sent(ms)
  PROVE  Elects(h)'
<1>1. h \in Peer /\ p \in Peer /\ TypeOK
  BY ListIsPeer DEF Electing, TypeOK
<1>2. /\ Msg("election", p, h) \in Message
      /\ Msg("election", p, h).type = "election" /\ Msg("election", p, h).to = h
  BY <1>1 DEF Msg, Message
<1>3. InFlight(Msg("election", p, h))'
  BY <1>1, SentGrows DEF InFlight
<1> QED  BY <1>2, <1>3 DEF Elects

LEMMA ElectionMsgToHighest ==
  ASSUME NEW h, Electing(h), NEW p \in active \ {h}
  PROVE  Msg("election", p, h) \in ElectionMsgs(p, Peer)
<1>1. h \in Peer /\ p \in Peer /\ Rank[h] < Rank[p]
  BY ListIsPeer, RankAssumption DEF Electing, Highest, TypeOK
<1> QED  BY <1>1 DEF ElectionMsgs

LEMMA ConvincedStays ==
  ASSUME NEW h, Electing(h), [Next]_vars, ~EndElection(h), NEW p \in active \ {h}
  PROVE  Convinced(p, h)'
<1>1. /\ TypeOK /\ Consistent /\ Routine /\ h \in Peer /\ p \in Peer /\ h # p
      /\ Convinced(p, h) /\ HostConsistent(p) /\ steady
      /\ \A q \in Peer : listener[q] # "gone"
      /\ \A q \in Peer : elector[q] = "loop" => listener[q] # "off"
      /\ listener'[p] = "off" => listener[p] = "off"
  <2>1. TypeOK /\ Consistent /\ Routine /\ steady /\ SteadyPart /\ Highest(h)
    BY DEF Electing
  <2>2. h \in active /\ h \in Peer /\ p \in Peer /\ \A q \in Peer : listener[q] # "gone"
    BY <2>1, ListIsPeer DEF Highest, TypeOK
  <2>3. listener'[p] = "off" => listener[p] = "off"
    BY <2>1, <2>2, Constancy
  <2> QED  BY <2>1, <2>2, <2>3 DEF SteadyPart, Consistent
<1> DEFINE sel == Msg("select", h, p)
<1>2. sel \in Message /\ sel.type = "select" /\ sel.from = h /\ sel.to = p
  BY <1>1, SelectMsg
<1>3. Elects(h) => Elects(h)'
  <2>1. h \in sortedPeers[h] => sortedPeers[h] = Peer
    BY <1>1, ListIsPeer DEF Consistent, HostConsistent
  <2> QED  BY <1>1, <2>1, ElectsStays
<1>4. InFlight(sel) /\ listener[p] # "off" => InFlight(sel)' \/ (Handle(p) /\ held[p] = sel)
  <2> HIDE DEF sel
  <2> QED  BY <1>1, <1>2, SelectStays
<1>5. CASE SortPeers(p)
  <2>1. PICK L \in Lists : /\ steady => L = Peer
                           /\ net' = Sent(ElectionMsgs(p, L))
    BY <1>5 DEF SortPeers
  <2>2. Elects(h)'
    BY <1>1, <2>1, ElectionMsgToHighest, AsksHighest, ElectionMsgsUp
  <2> QED  BY <2>2 DEF Convinced
<1>6. CASE EndElection(p)
  <2>1. elector[p] = "elect" /\ listener[p] # "off"
    BY <1>1, <1>6 DEF EndElection, Prompt, HostConsistent
  <2>2. Elects(h) \/ InFlight(sel)
    BY <1>1, <2>1 DEF Convinced
  <2>3. ~Handle(p)
    BY <2>1 DEF Handle
  <2> QED  BY <1>1, <1>3, <1>4, <2>1, <2>2, <2>3 DEF Convinced
<1>7. CASE Handle(p)
  <2>1. /\ held[p] \in Message /\ held[p].to = p /\ held[p].from \in Peer \ {p}
        /\ held[p].type \in {"election", "select"} /\ elector[p] = "loop"
        /\ held[p].type = "select" => held[p].from \in active
    BY <1>1, <1>7, Handled
  <2>2. listener[p] # "off" /\ listener'[p] # "off"
    BY <1>1, <2>1
  <2>3. CASE held[p].type = "election" /\ ~IsPeerIDHigher(p, held[p].from, p)
    <3> DEFINE ms == {Msg("alive", p, held[p].from)} \cup ElectionMsgs(p, sortedPeers[p])
    <3>1. net' = Sent(ms) /\ sortedPeers[p] = Peer
      BY <1>1, <1>7, <2>1, <2>3, ListIsPeer DEF Handle
    <3>2. ms \in SUBSET Message /\ Msg("election", p, h) \in ms
      BY <1>1, <2>1, <3>1, ElectionMsgsUp, ElectionMsgToHighest DEF Msg, Message
    <3>3. Elects(h)'
      BY <3>1, <3>2, AsksHighest
    <3> QED  BY <3>3 DEF Convinced
  <2>4. CASE ~(held[p].type = "election" /\ ~IsPeerIDHigher(p, held[p].from, p))
    <3>1. elector' = elector
      BY <1>7, <2>4 DEF Handle
    <3>2. /\ coordinator[p] = h => coordinator'[p] = h
          /\ held[p] = sel => coordinator'[p] = h
      <4>1. CASE held[p].type = "select"
        <5>1. SetCoordinator(p, held[p].from)
          BY <1>7, <4>1 DEF Handle
        <5> QED  BY <1>1, <1>2, <2>1, <4>1, <5>1, SetCoordinatorSteady
      <4>2. CASE held[p].type # "select"
        <5>1. coordinator' = coordinator /\ held[p] # sel
          BY <1>2, <1>7, <2>4, <4>2 DEF Handle
        <5> QED  BY <5>1
      <4> QED  BY <4>1, <4>2
    <3>3. coordinator'[p] # h => Elects(h)' \/ InFlight(sel)'
      BY <1>1, <1>3, <1>4, <2>1, <2>2, <3>2 DEF Convinced
    <3> QED  BY <2>1, <2>2, <3>1, <3>3 DEF Convinced
  <2> QED  BY <2>3, <2>4
<1>8. CASE /\ elector'[p] = elector[p] /\ coordinator'[p] = coordinator[p]
           /\ ~Handle(p)
  BY <1>1, <1>3, <1>4, <1>8 DEF Convinced
<1> QED  BY <1>1, <1>5, <1>6, <1>7, <1>8, HostSteps
-----------------------------------------------------------------------------
(* The lists of a steady election are complete, its electors only stop      *)
(* electing once their listeners run, and hosts return when it is over.     *)
LEMMA SteadyHosts ==
  ASSUME TypeOK, Consistent, Routine, SteadyPart, steady, [Next]_vars, NEW p \in Peer
  PROVE  /\ sortedPeers'[p] \in {{}, Peer}
         /\ elector'[p] = "loop" => listener'[p] # "off"
         /\ phase'[p] = "returned" => Quiet'
<1>1. /\ sortedPeers[p] \in {{}, Peer}
      /\ elector[p] = "loop" => listener[p] # "off"
      /\ phase[p] = "returned" => Quiet
      /\ listener'[p] = "off" => listener[p] = "off"
  BY Constancy DEF SteadyPart
<1>2. CASE SortPeers(p)
  <2>1. phase'[p] = "waiting" /\ elector'[p] = "elect" /\ sortedPeers'[p] = Peer
    BY <1>2 DEF SortPeers, TypeOK
  <2> QED  BY <2>1
<1>3. CASE EndElection(p)
  <2>1. /\ UNCHANGED <<sortedPeers, phase, listener>>
        /\ Prompt /\ elector[p] = "elect"
    BY <1>3 DEF EndElection
  <2>2. listener[p] # "off" /\ ~Quiet
    BY <2>1 DEF Prompt, Consistent, HostConsistent, Quiet, Routine
  <2> QED  BY <1>1, <2>1, <2>2
<1>4. CASE Handle(p)
  <2>1. /\ UNCHANGED <<sortedPeers, phase>> /\ listener[p] = "forward"
        /\ listener'[p] = "select"
    BY <1>4 DEF Handle, TypeOK
  <2>2. ~Quiet
    BY <2>1 DEF Quiet, Routine
  <2> QED  BY <1>1, <2>1, <2>2
<1>5. CASE Return(p)
  <2>1. Quiet /\ UNCHANGED <<sortedPeers, elector, listener>>
    BY <1>5 DEF Return
  <2> QED  BY <1>1, <2>1, QuietStays
<1>6. CASE ~SortPeers(p) /\ ~EndElection(p) /\ ~Handle(p) /\ ~Return(p)
  <2>1. elector'[p] = elector[p]
    BY <1>6, HostSteps
  <2>2. sortedPeers'[p] = sortedPeers[p] /\ (phase'[p] = "returned" => phase[p] = "returned")
    <3>1. ASSUME NEW q \in Peer, SortPeers(q) \/ Return(q)
          PROVE  sortedPeers'[p] = sortedPeers[p] /\ phase'[p] = phase[p]
      <4>1. q # p
        BY <3>1, <1>6
      <4> QED  BY <3>1, <4>1 DEF SortPeers, Return, TypeOK
    <3>2. ASSUME NEW q \in Peer, EndElection(q) \/ Handle(q)
          PROVE  sortedPeers' = sortedPeers /\ phase' = phase
      BY <3>2 DEF EndElection, Handle
    <3>3. ASSUME NEW q \in Peer, Coordinator(q) \/ Listen(q) \/ ListenerLeaves(q)
          PROVE  /\ sortedPeers' = sortedPeers
                 /\ phase'[p] = "returned" => phase[p] = "returned"
      BY <3>3 DEF Coordinator, Listen, ListenerLeaves, TypeOK
    <3>4. ASSUME NEW m \in Message, ReceiveAlive(m.to, m) \/ Forward(m.to, m) \/ Drop(m)
          PROVE  sortedPeers' = sortedPeers /\ phase' = phase
      BY <3>4 DEF ReceiveAlive, Forward, Drop
    <3>5. CASE UNCHANGED vars
      BY <3>5 DEF vars
    <3> QED  BY <3>1, <3>2, <3>3, <3>4, <3>5 DEF Next
  <2> QED  BY <1>1, <2>1, <2>2, QuietStays
<1> QED  BY <1>2, <1>3, <1>4, <1>5, <1>6

(* When a steady election is over all hosts follow the highest.             *)
LEMMA QuietAgrees ==
  ASSUME TypeOK, Routine, SteadyPart, steady, Quiet, NEW h \in active, Highest(h),
         NEW p \in active
  PROVE  coordinator[p] = h
<1>1. h \in Peer /\ p \in Peer
  BY DEF TypeOK
<1>2. \A m \in Message : m.to \in active => ~InFlight(m)
  <2>1. SUFFICES ASSUME NEW m \in Message, m.to \in active  PROVE ~InFlight(m)
    OBVIOUS
  <2>2. net[m] = 0 /\ listener[m.to] # "forward" /\ m.to \in Peer
    BY <2>1, MessageFields DEF Quiet
  <2>3. held[m.to] = NoMsg
    BY <2>2 DEF Routine
  <2> QED  BY <2>2, <2>3, NoMsgIsNone DEF InFlight
<1>3. CASE p = h
  BY <1>3 DEF SteadyPart
<1>4. CASE p # h
  <2>1. Convinced(p, h) /\ elector[p] = "loop" /\ elector[h] = "loop"
    BY <1>4 DEF SteadyPart, Quiet
  <2>2. ~Elects(h)
    BY <1>2, <2>1 DEF Elects
  <2>3. ~InFlight(Msg("select", h, p))
    BY <1>1, <1>2, <1>4, SelectMsg
  <2> QED  BY <2>1, <2>2, <2>3 DEF Convinced
<1> QED  BY <1>3, <1>4

(* What Coordinator returned does not change, and is what the host believed.*)
LEMMA ChosenOnce ==
  ASSUME TypeOK, [Next]_vars, NEW p \in Peer, phase'[p] = "returned"
  PROVE  \/ phase[p] = "returned" /\ chosen'[p] = chosen[p]
         \/ phase[p] = "waiting" /\ chosen'[p] = coordinator[p] /\ (steady => Quiet)
<1>1. ASSUME NEW q \in Peer, Return(q)
      PROVE  \/ phase[p] = "returned" /\ chosen'[p] = chosen[p]
             \/ phase[p] = "waiting" /\ chosen'[p] = coordinator[p] /\ (steady => Quiet)
  BY <1>1 DEF Return, TypeOK
<1>2. ASSUME NEW q \in Peer, Coordinator(q) \/ SortPeers(q)
      PROVE  phase[p] = "returned" /\ chosen'[p] = chosen[p]
  BY <1>2 DEF Coordinator, SortPeers, TypeOK
<1>3. ASSUME NEW q \in Peer, Listen(q) \/ EndElection(q) \/ Handle(q) \/ ListenerLeaves(q)
      PROVE  phase[p] = "returned" /\ chosen'[p] = chosen[p]
  BY <1>3 DEF Listen, EndElection, Handle, ListenerLeaves
<1>4. ASSUME NEW m \in Message, ReceiveAlive(m.to, m) \/ Forward(m.to, m) \/ Drop(m)
      PROVE  phase[p] = "returned" /\ chosen'[p] = chosen[p]
  BY <1>4 DEF ReceiveAlive, Forward, Drop
<1>5. CASE UNCHANGED vars
  BY <1>5 DEF vars
<1> QED  BY <1>1, <1>2, <1>3, <1>4, <1>5 DEF Next

LEMMA StepSteady ==
  ASSUME TypeOK, Consistent, Routine, NobodyConcedes, BelievesProclaimed, SteadyPart,
         [Next]_vars
  PROVE  SteadyPart'
<1> SUFFICES ASSUME steady  PROVE SteadyPart'
  BY Constancy DEF SteadyPart
<1>1. active' = active
  BY Constancy
<1>2. SUFFICES ASSUME NEW h \in active, Highest(h)
               PROVE  /\ coordinator'[h] = h
                      /\ \A p \in active \ {h} : Convinced(p, h)'
                      /\ \A p \in Peer : phase'[p] = "returned" => chosen'[p] = h
  BY <1>1, SteadyHosts DEF SteadyPart, Highest
<1>3. h \in Peer /\ active \subseteq Peer
  BY DEF TypeOK
<1>4. CASE \E p \in Peer : phase[p] = "returned"
  <2>1. Quiet
    BY <1>4 DEF SteadyPart
  <2>2. Quiet' /\ UNCHANGED <<elector, coordinator>>
    BY <2>1, QuietStays
  <2>3. \A p \in active : coordinator'[p] = h /\ elector'[p] = "loop"
    BY <1>2, <2>1, <2>2, QuietAgrees DEF Quiet
  <2>4. \A p \in active \ {h} : Convinced(p, h)'
    BY <2>3 DEF Convinced
  <2>5. ASSUME NEW p \in Peer, phase'[p] = "returned"  PROVE chosen'[p] = h
    <3>1. CASE phase[p] = "returned" /\ chosen'[p] = chosen[p]
      BY <1>2, <3>1 DEF SteadyPart
    <3>2. CASE phase[p] = "waiting" /\ chosen'[p] = coordinator[p]
      <4>1. p \in active
        BY <3>2 DEF Routine
      <4> QED  BY <3>2, <4>1, <2>2, <2>3
    <3> QED  BY <2>5, <3>1, <3>2, ChosenOnce
  <2> QED  BY <2>3, <2>4, <2>5
<1>5. CASE \A p \in Peer : phase[p] # "returned"
  <2>1. Electing(h)
    BY <1>2, <1>5 DEF Electing
  <2>2. coordinator'[h] = h
    BY <2>1, HighestKeepsItself
  <2>3. \A p \in active \ {h} : Convinced(p, h)'
    BY <2>1, HighestProclaims, ConvincedStays
  <2>4. ASSUME NEW p \in Peer, phase'[p] = "returned"  PROVE chosen'[p] = h
    <3>1. phase[p] = "waiting" /\ chosen'[p] = coordinator[p] /\ Quiet
      BY <1>5, <2>4, ChosenOnce
    <3>2. p \in active
      BY <3>1 DEF Routine
    <3> QED  BY <1>2, <3>1, <3>2, QuietAgrees
  <2> QED  BY <2>2, <2>3, <2>4
<1> QED  BY <1>4, <1>5

LEMMA InitSteady == Init => SteadyPart
<1> SUFFICES ASSUME Init  PROVE SteadyPart
  OBVIOUS
<1>1. \A p \in Peer : /\ sortedPeers[p] = {} /\ elector[p] = "off"
                      /\ phase[p] = "idle" /\ coordinator[p] = p
  BY DEF Init
<1>2. active \subseteq Peer
  BY DEF Init
<1> QED  BY <1>1, <1>2 DEF SteadyPart, Convinced

(* If nobody is excluded, messages are faster than ElectionWaitTime and     *)
(* BullyWaitTime outlasts the election, Coordinator returns the same peer   *)
(* on every host that retries: the first of them in the session order.  An  *)
(* election that has been asked for, a select message under way, or the     *)
(* right belief: one of them holds for every host at all times.             *)
THEOREM ElectionsAgree == Spec => []Agreement
<1>1. TypeOK /\ Routine /\ SteadyPart => Agreement
  <2> SUFFICES ASSUME TypeOK, Routine, SteadyPart, steady,
                      NEW p \in Peer, phase[p] = "returned"
               PROVE  /\ chosen[p] \in active
                      /\ \A q \in active : Rank[chosen[p]] <= Rank[q]
    BY DEF Agreement
  <2>1. active # {}
    BY DEF Routine
  <2>2. PICK h \in active : Highest(h)
    BY <2>1, HighestExists
  <2>3. chosen[p] = h
    BY <2>2 DEF SteadyPart
  <2> QED  BY <2>2, <2>3 DEF Highest
<1>2. Spec => []Routine
  BY InitRoutine, StepRoutine, Typing, Consistency, PTL DEF Spec
<1>3. Spec => []SteadyPart
  BY <1>2, InitSteady, StepSteady, Typing, Consistency, EveryElectionProclaims,
     OnlyProclaimedElected, PTL DEF Spec
<1> QED  BY <1>1, <1>2, <1>3, Typing, PTL
=============================================================================
