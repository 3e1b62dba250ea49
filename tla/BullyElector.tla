----------------------------- MODULE BullyElector ----------------------------
(***************************************************************************)
(* The bully election of one session.  Coordinator.retry of each host that *)
(* failed calls bullyCoordinatorElector.Coordinator with the key holders   *)
(* it has not excluded; the lists of two hosts may differ.  Coordinator    *)
(* starts two goroutines that outlive it, listen and                       *)
(* startBullyCoordination, waits for BullyWaitTime and returns the peer    *)
(* the host believes in at that moment.                                    *)
(*                                                                         *)
(* listen takes a message from the network and either deals with it (an    *)
(* alive message) or hands it to the elector goroutine over the unbuffered *)
(* receiveChan, on which it is blocked as long as an election lasts.       *)
(* Ping, ping response and leave messages have no sender in this program   *)
(* and are left out.  Time is abstract: ElectionWaitTime and BullyWaitTime *)
(* may end at any moment, except in a steady election (see below).         *)
(***************************************************************************)
EXTENDS Integers, FiniteSets

CONSTANTS
    Peer,     \* the hosts that may run the election
    NoPeer,   \* no peer at all
    Rank,     \* position in SortPeersForSession's order, 0 first
    Lists,    \* what the hosts may pass to Coordinator as peers
    MaxActive \* bound: how many hosts are active in an unsteady election

ASSUME PeerAssumption == IsFiniteSet(Peer) /\ Peer # {} /\ NoPeer \notin Peer
(* Session hashes do not collide.                                          *)
ASSUME RankAssumption ==
    /\ Rank \in [Peer -> Nat]
    /\ \A p, q \in Peer : Rank[p] = Rank[q] => p = q
ASSUME ListsAssumption == Lists \subseteq SUBSET Peer

VARIABLES
    phase,        \* of Coordinator: "idle", "called", "waiting", "returned"
    sortedPeers,  \* the sorted list, as the set of its members; {} before
    listener,     \* of listen: "off", "select", "forward", "gone"
    held,         \* what a listener in "forward" offers on receiveChan
    elector,      \* of startBullyCoordination: "off", "elect", "loop"
    electionChan, \* whether an alive message is buffered
    coordinator,  \* whom the host believes in
    chosen,       \* what Coordinator returned
    net,          \* [Message -> how many are under way]
    proclaimed,   \* history: the hosts that ever sent a select message
    active,       \* environment: the hosts whose session is retried
    steady        \* environment: nothing is lost and the waits are long

vars == <<phase, sortedPeers, listener, held, elector, electionChan,
          coordinator, chosen, net, proclaimed, active, steady>>

Message == { m \in [type : {"election", "alive", "select"}, from : Peer, to : Peer] :
               m.from # m.to }
NoMsg   == [type |-> "none", from |-> NoPeer, to |-> NoPeer]

Msg(t, p, q) == [type |-> t, from |-> p, to |-> q]

(* Broadcast: one more of each message is under way.                        *)
Sent(ms)    == [m \in Message |-> IF m \in ms THEN net[m] + 1 ELSE net[m]]
(* A plausible bug: a message is taken twice.                               *)
TakenTwice(m) == [net EXCEPT ![m] = @ - 2]

(* A message is taken from the network.                                     *)
Taken(m)    == [net EXCEPT ![m] = @ - 1]

-----------------------------------------------------------------------------
(* The index isPeerIDHigher computes: 0 for the first peer of the list, and *)
(* also for a peer that is not in it.                                       *)
Index(p, q) ==
    IF q \in sortedPeers[p]
    THEN Cardinality({ r \in sortedPeers[p] : Rank[r] < Rank[q] })
    ELSE 0

(* A plausible bug in isPeerIDHigher: peers of the same index win, too.     *)
IsPeerIDNotLower(p, p1, p2) == Index(p, p1) <= Index(p, p2)

IsPeerIDHigher(p, p1, p2) == Index(p, p1) < Index(p, p2)

(* setCoordinator.                                                          *)
SetCoordinator(p, q) ==
    coordinator' = IF IsPeerIDHigher(p, q, coordinator[p]) \/ q = p
                   THEN [coordinator EXCEPT ![p] = q] ELSE coordinator

(* A plausible bug in elect: it asks the lower peers.                       *)
ElectionMsgsDown(p, L) ==
    { Msg("election", p, q) : q \in { r \in L : p \in L /\ Rank[r] > Rank[p] } }

(* elect, first half: the higher peers of the list are asked.  The list is  *)
(* a parameter because the first election follows its assignment at once.   *)
ElectionMsgs(p, L) ==
    { Msg("election", p, q) : q \in { r \in L : p \in L /\ Rank[r] < Rank[p] } }

-----------------------------------------------------------------------------
(* Every host that retries is listed by itself: it holds a keyshare, and a  *)
(* host excludes others only.                                               *)
Init ==
    /\ phase        = [p \in Peer |-> "idle"]
    /\ sortedPeers  = [p \in Peer |-> {}]
    /\ listener     = [p \in Peer |-> "off"]
    /\ held         = [p \in Peer |-> NoMsg]
    /\ elector      = [p \in Peer |-> "off"]
    /\ electionChan = [p \in Peer |-> FALSE]
    /\ coordinator  = [p \in Peer |-> p]
    /\ chosen       = [p \in Peer |-> NoPeer]
    /\ net          = [m \in Message |-> 0]
    /\ proclaimed   = {}
    /\ steady \in BOOLEAN
    /\ active \in { A \in SUBSET Peer : steady \/ Cardinality(A) <= MaxActive }

(* Coordinator: go listen.                                                  *)
Coordinator(p) ==
    /\ phase[p] = "idle" /\ p \in active
    /\ phase' = [phase EXCEPT ![p] = "called"]
    /\ UNCHANGED <<sortedPeers, listener, held, elector, electionChan,
                   coordinator, chosen, net, proclaimed, active, steady>>

(* listen: the goroutine is scheduled and subscribes.                       *)
Listen(p) ==
    /\ phase[p] # "idle" /\ listener[p] = "off"
    /\ listener' = [listener EXCEPT ![p] = "select"]
    /\ UNCHANGED <<phase, sortedPeers, held, elector, electionChan,
                   coordinator, chosen, net, proclaimed, active, steady>>

(* A plausible bug in Coordinator: the host begins with the static leader.  *)
SortPeersGuessing(p) ==
    /\ phase[p] = "called"
    /\ phase'   = [phase EXCEPT ![p] = "waiting"]
    /\ elector' = [elector EXCEPT ![p] = "elect"]
    /\ net'     = Sent(ElectionMsgs(p, Peer))
    /\ sortedPeers' = [sortedPeers EXCEPT ![p] = Peer]
    /\ coordinator' = [coordinator EXCEPT
                          ![p] = CHOOSE q \in Peer : Rank[q] = 0]
    /\ UNCHANGED <<listener, held, electionChan, chosen, proclaimed, active,
                   steady>>

(* Coordinator: the list is sorted and stored while listen may already be   *)
(* handling messages, and the elector goroutine begins its first election.  *)
SortPeers(p) ==
    /\ phase[p] = "called"
    /\ phase'   = [phase EXCEPT ![p] = "waiting"]
    /\ elector' = [elector EXCEPT ![p] = "elect"]
    /\ \E L \in Lists :
         /\ p \in L
         /\ steady => L = Peer
         /\ sortedPeers' = [sortedPeers EXCEPT ![p] = L]
         /\ net' = Sent(ElectionMsgs(p, L))
    /\ UNCHANGED <<listener, held, electionChan, coordinator, chosen,
                   proclaimed, active, steady>>

(* A steady election: by the time an ElectionWaitTime ends the goroutines   *)
(* are running, what was sent has reached every listener that is free, and  *)
(* what a listener offers has been handled by every elector that is free.   *)
Prompt ==
    /\ \A q \in Peer :
         /\ phase[q] # "idle" => listener[q] # "off" /\ phase[q] # "called"
         /\ elector[q] = "loop" => listener[q] # "forward"
    /\ \A m \in Message : listener[m.to] = "select" => net[m] = 0

(* A plausible bug in elect: there is no ElectionWaitTime.                  *)
EndElectionUntimed(p) ==
    /\ elector[p] = "elect" /\ electionChan[p]
    /\ elector' = [elector EXCEPT ![p] = "loop"]
    /\ electionChan' = [electionChan EXCEPT ![p] = FALSE]
    /\ UNCHANGED <<phase, sortedPeers, listener, held, coordinator, chosen,
                   net, proclaimed, active, steady>>

(* A plausible bug in elect: the host forgets to tell anybody.              *)
EndElectionSilently(p) ==
    /\ elector[p] = "elect"
    /\ elector' = [elector EXCEPT ![p] = "loop"]
    /\ SetCoordinator(p, p)
    /\ UNCHANGED <<phase, sortedPeers, listener, held, electionChan, chosen,
                   net, proclaimed, active, steady>>

(* elect, second half: an alive message ends the election, ElectionWaitTime *)
(* makes the host the coordinator; with both at hand either may be taken.   *)
EndElection(p) ==
    /\ elector[p] = "elect"
    /\ steady => Prompt
    /\ elector' = [elector EXCEPT ![p] = "loop"]
    /\ \E conceded \in { b \in BOOLEAN : b => electionChan[p] } :
         IF conceded
         THEN /\ electionChan' = [electionChan EXCEPT ![p] = FALSE]
              /\ UNCHANGED <<coordinator, net, proclaimed>>
         ELSE /\ SetCoordinator(p, p)
              /\ net' = Sent({ Msg("select", p, q) : q \in sortedPeers[p] \ {p} })
              /\ proclaimed' = proclaimed \cup {p}
              /\ UNCHANGED electionChan
    /\ UNCHANGED <<phase, sortedPeers, listener, held, chosen, active, steady>>

(* listen: an alive message is kept if the host ranks above its sender (a   *)
(* full channel makes the listener wait and then drop it).                  *)
ReceiveAlive(p, m) ==
    /\ listener[p] = "select"
    /\ m.type = "alive" /\ m.to = p /\ net[m] > 0
    /\ net' = Taken(m)
    /\ electionChan' = IF IsPeerIDHigher(p, p, m.from)
                       THEN [electionChan EXCEPT ![p] = TRUE] ELSE electionChan
    /\ UNCHANGED <<phase, sortedPeers, listener, held, elector, coordinator,
                   chosen, proclaimed, active, steady>>

(* listen: election and select messages wait for the elector goroutine.     *)
Forward(p, m) ==
    /\ listener[p] = "select"
    /\ m.type \in {"election", "select"} /\ m.to = p /\ net[m] > 0
    /\ net'      = Taken(m)
    /\ listener' = [listener EXCEPT ![p] = "forward"]
    /\ held'     = [held EXCEPT ![p] = m]
    /\ UNCHANGED <<phase, sortedPeers, elector, electionChan, coordinator,
                   chosen, proclaimed, active, steady>>

(* A plausible bug in startBullyCoordination: the goroutine returns after   *)
(* its election.                                                            *)
HandleNever(p) == elector[p] = "loop" /\ listener[p] = "off" /\ UNCHANGED vars

(* startBullyCoordination: a peer that is not higher is told that the host  *)
(* is alive, and the host elects again; a select message is considered.     *)
(* Any other election message is ignored.                                   *)
Handle(p) ==
    /\ elector[p] = "loop" /\ listener[p] = "forward"
    /\ LET m == held[p]
       IN  IF m.type = "election" /\ ~IsPeerIDHigher(p, m.from, p)
           THEN /\ net' = Sent({Msg("alive", p, m.from)}
                               \cup ElectionMsgs(p, sortedPeers[p]))
                /\ elector' = [elector EXCEPT ![p] = "elect"]
                /\ UNCHANGED coordinator
           ELSE /\ IF m.type = "select" THEN SetCoordinator(p, m.from)
                                        ELSE UNCHANGED coordinator
                /\ UNCHANGED <<net, elector>>
    /\ listener' = [listener EXCEPT ![p] = "select"]
    /\ held'     = [held EXCEPT ![p] = NoMsg]
    /\ UNCHANGED <<phase, sortedPeers, electionChan, chosen, proclaimed,
                   active, steady>>

(* A steady election is over: BullyWaitTime outlasts it.                    *)
Quiet ==
    /\ \A q \in active : elector[q] = "loop" /\ listener[q] \in {"select", "gone"}
    /\ \A m \in Message : m.to \in active => net[m] = 0

(* A plausible bug in Coordinator: the list of the election is dropped on   *)
(* return, when listen may still be at work.                                *)
ReturnDroppingList(p) ==
    /\ phase[p] = "waiting"
    /\ steady => Quiet
    /\ phase'  = [phase EXCEPT ![p] = "returned"]
    /\ chosen' = [chosen EXCEPT ![p] = coordinator[p]]
    /\ sortedPeers' = [sortedPeers EXCEPT ![p] = {}]
    /\ UNCHANGED <<listener, held, elector, electionChan, coordinator, net,
                   proclaimed, active, steady>>

(* Coordinator: BullyWaitTime is over.                                      *)
Return(p) ==
    /\ phase[p] = "waiting"
    /\ steady => Quiet
    /\ phase'  = [phase EXCEPT ![p] = "returned"]
    /\ chosen' = [chosen EXCEPT ![p] = coordinator[p]]
    /\ UNCHANGED <<sortedPeers, listener, held, elector, electionChan,
                   coordinator, net, proclaimed, active, steady>>

(* listen: the context is cancelled when Coordinator returns; a listener    *)
(* blocked on receiveChan does not see it.                                  *)
ListenerLeaves(p) ==
    /\ phase[p] = "returned" /\ listener[p] = "select"
    /\ listener' = [listener EXCEPT ![p] = "gone"]
    /\ UNCHANGED <<phase, sortedPeers, held, elector, electionChan,
                   coordinator, chosen, net, proclaimed, active, steady>>

(* A message arrives before the listener has subscribed, or after it left.  *)
(* (One that is lost on its way, the error of the send is ignored, stays in *)
(* net for ever: without fairness nobody has to receive it.)                *)
Drop(m) ==
    /\ net[m] > 0
    /\ listener[m.to] \in {"off", "gone"}
    /\ net' = Taken(m)
    /\ UNCHANGED <<phase, sortedPeers, listener, held, elector, electionChan,
                   coordinator, chosen, proclaimed, active, steady>>

Next ==
    \/ \E p \in Peer :
         \/ Coordinator(p)
         \/ Listen(p)
         \/ SortPeers(p)
         \/ EndElection(p)
         \/ Handle(p)
         \/ Return(p)
         \/ ListenerLeaves(p)
    \/ \E m \in Message :
         \/ ReceiveAlive(m.to, m)
         \/ Forward(m.to, m)
         \/ Drop(m)

Spec == Init /\ [][Next]_vars

(* Timers end, goroutines that can run do, and a channel that has both a    *)
(* sender and a receiver passes its message on.  Only in a steady election  *)
(* is what was sent sure to arrive.                                         *)
Fairness ==
    \A p \in Peer :
        /\ WF_vars(Listen(p))
        /\ WF_vars(SortPeers(p))
        /\ WF_vars(EndElection(p))
        /\ WF_vars(Handle(p))
        /\ WF_vars(steady /\ \E m \in Message :
                     m.to = p /\ (ReceiveAlive(p, m) \/ Forward(p, m)))

FairSpec == Spec /\ Fairness

-----------------------------------------------------------------------------
(* Type invariant: the two goroutines keep to their loops, and no channel   *)
(* runs below zero.                                                         *)
TypeOK ==
    /\ phase \in [Peer -> {"idle", "called", "waiting", "returned"}]
    /\ sortedPeers \in [Peer -> SUBSET Peer]
    /\ listener \in [Peer -> {"off", "select", "forward", "gone"}]
    /\ held \in [Peer -> Message \cup {NoMsg}]
    /\ \A p \in Peer : held[p] # NoMsg => held[p].to = p
    /\ elector \in [Peer -> {"off", "elect", "loop"}]
    /\ electionChan \in [Peer -> BOOLEAN]
    /\ coordinator \in [Peer -> Peer]
    /\ chosen \in [Peer -> Peer \cup {NoPeer}]
    /\ net \in [Message -> Nat]
    /\ proclaimed \subseteq Peer
    /\ active \subseteq Peer
    /\ steady \in BOOLEAN

(* What is under way, or held by its receiver's listener.                   *)
InFlight(m) == net[m] > 0 \/ held[m.to] = m

(* Coordinator stores the sorted list after it has started listen: an alive *)
(* message nevertheless never finds the list unset.                         *)
AliveFindsList ==
    \A m \in Message :
        (m.type = "alive" /\ net[m] > 0) => m.from \in sortedPeers[m.to]

(* A host believes in itself or in a peer that called itself coordinator,   *)
(* and the latter is what Coordinator returns to retry, also when messages  *)
(* of the elections of hosts that have returned are still about.            *)
BelievesProclaimed ==
    \A p \in Peer :
        /\ coordinator[p] # p => coordinator[p] \in proclaimed
        /\ phase[p] = "returned" => chosen[p] \in proclaimed \cup {p}

(* Peers a host has excluded rank as high as the first of its list, so that *)
(* it may follow one of them; the first itself, however, is never overruled *)
(* by anybody.                                                              *)
HeadNamesItself ==
    \A p \in Peer :
        (sortedPeers[p] # {} /\ \A q \in sortedPeers[p] : Rank[p] <= Rank[q])
            => coordinator[p] = p

(* If nobody excludes anybody, messages are faster than ElectionWaitTime    *)
(* and BullyWaitTime is long enough, every host that takes part ends up     *)
(* with the highest of them, whoever lags and whoever never shows up.       *)
Agreement ==
    steady => \A p \in Peer : phase[p] = "returned" =>
        /\ chosen[p] \in active
        /\ \A q \in active : Rank[chosen[p]] <= Rank[q]

(* The elections that elections set off come to an end, whatever is lost    *)
(* and whatever the lists are.                                              *)
ElectionsEnd == <>[](\A p \in Peer : elector[p] # "elect")

(* A listener is not blocked for ever on receiveChan: no election lasts     *)
(* longer than ElectionWaitTime.                                            *)
ForwardedIsHandled ==
    \A p \in Peer : listener[p] = "forward" ~> listener[p] = "select"

-----------------------------------------------------------------------------
(* The inductive strengthening of the invariants above.                     *)

(* listen keeps an alive message only if the host ranks above its sender,   *)
(* and alive messages only come from higher peers: none is kept, and every  *)
(* host whose election is over has called itself the coordinator.  (The     *)
(* comments at bully.go:92 and 95 describe the opposite test.)              *)
NobodyConcedes ==
    \A p \in Peer :
        /\ ~electionChan[p]
        /\ elector[p] = "loop" => p \in proclaimed

(* What a message that is under way says of its sender and its receiver.    *)
MessageBacked(m) ==
    /\ m.type = "election" =>
         /\ {m.from, m.to} \subseteq sortedPeers[m.from]
         /\ Rank[m.to] < Rank[m.from]
    /\ m.type = "alive" =>
         /\ {m.from, m.to} \subseteq sortedPeers[m.to]
         /\ Rank[m.from] < Rank[m.to]
    /\ m.type = "select" => m.from \in proclaimed

(* What a host's variables say of each other.                               *)
HostConsistent(p) ==
    /\ listener[p] = "forward" =>
         /\ held[p] \in Message
         /\ held[p].type \in {"election", "select"}
    /\ elector[p] = "off" <=> phase[p] \in {"idle", "called"}
    /\ elector[p] = "off" => sortedPeers[p] = {} /\ coordinator[p] = p
    /\ elector[p] # "off" => p \in sortedPeers[p]

Consistent ==
    /\ \A p \in Peer : HostConsistent(p)
    /\ \A m \in Message : InFlight(m) => MessageBacked(m)

(* Only hosts that are active do anything, and a listener that is not       *)
(* blocked holds no message.                                                *)
Routine ==
    /\ \A p \in Peer :
         /\ phase[p] # "idle" => p \in active
         /\ listener[p] # "off" => phase[p] # "idle"
         /\ listener[p] = "gone" => phase[p] = "returned"
         /\ listener[p] # "forward" => held[p] = NoMsg
    /\ proclaimed \subseteq active

Highest(h) == h \in active /\ \A q \in active : Rank[h] <= Rank[q]

(* The host is at its election, or will be: it has not begun its first, or  *)
(* a lower host has asked it for another one.                               *)
Elects(h) ==
    \/ elector[h] # "loop"
    \/ \E m \in Message : m.type = "election" /\ m.to = h /\ InFlight(m)

(* In a steady election a host that does not follow the highest one, or is  *)
(* about to name itself again, has a select message of it under way or      *)
(* ahead; a host that does not listen yet cannot count on the former.       *)
Convinced(p, h) ==
    /\ elector[p] = "elect" /\ listener[p] = "off" => Elects(h)
    /\ elector[p] = "elect" \/ (elector[p] = "loop" /\ coordinator[p] # h)
         => Elects(h) \/ InFlight(Msg("select", h, p))

SteadyPart ==
    steady =>
        /\ \A p \in Peer :
             /\ sortedPeers[p] \in {{}, Peer}
             /\ elector[p] = "loop" => listener[p] # "off"
             /\ phase[p] = "returned" => Quiet
        /\ \A h \in active : Highest(h) =>
             /\ coordinator[h] = h
             /\ \A p \in active \ {h} : Convinced(p, h)
             /\ \A p \in Peer : phase[p] = "returned" => chosen[p] = h
=============================================================================
