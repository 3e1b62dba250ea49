--------------------------- MODULE TssCoordinator ---------------------------
(***************************************************************************)
(* One TSS session as the relayers of a topology run it: every host calls  *)
(* Coordinator.Execute for the same session id, the static elector names a *)
(* leader, the leader collects TssReadyMsg answers to its TssInitiateMsg,  *)
(* broadcasts TssStartMsg and everybody runs the process.  When a signing  *)
(* fails, Execute retries once, behind a bully election (handleError).     *)
(*                                                                         *)
(* A host is its program counter:                                          *)
(*   "idle"      Execute has not been called                               *)
(*   "initiate"  in the loop of initiate                                   *)
(*   "wait"      in the loop of waitForStart                               *)
(*   "run"       in TssProcess.Run                                         *)
(*   "elect"     in retry, inside the bully elector                        *)
(*   "held"      the retry succeeded, rp.Wait still waits for its watchdog *)
(*   "hung"      in Run, which will never return (see ProcessRun)          *)
(*   "done"      Execute has returned                                      *)
(*                                                                         *)
(* Time is abstract: a ticker of the code fires at any moment it is armed. *)
(***************************************************************************)
EXTENDS Integers, FiniteSets

CONSTANTS
    Peer,         \* the peers of every host's peerstore
    KeyPeers,     \* the Peers field of the stored keyshares
    NoPeer,       \* peer.ID("")
    Rank,         \* position in SortPeersForSession's order, 0 first
    Threshold,    \* of the keyshare
    Kind,         \* which TssProcess is executed ...
    Scheme,       \* ... and of which package, tss/ecdsa or tss/frost
    MaxRetries,   \* bound: faults are explored while fewer hosts than this retry
    PoolUnwraps,  \* pool.Wait returns a single error bare (go 1.19 build)
    Faults        \* what goes wrong in this instance, a subset of AllFaults

AllPeers  == Peer \cup KeyPeers
Kinds     == {"keygen", "resharing", "signing"}
AllFaults == {"loss", "coordinatorTimeout", "tssTimeout", "communication",
              "tss", "other", "late", "hang"}

(* A topology has at least two peers: a lone leader is never told anybody  *)
(* is ready, so initiate would not call Ready at all.                      *)
ASSUME PeerAssumption ==
    /\ IsFiniteSet(Peer) /\ IsFiniteSet(KeyPeers)
    /\ Cardinality(Peer) > 1
    /\ KeyPeers # {}
    /\ NoPeer \notin AllPeers
(* Session hashes do not collide.                                          *)
ASSUME RankAssumption ==
    /\ Rank \in [AllPeers -> Nat]
    /\ \A p, q \in AllPeers : Rank[p] = Rank[q] => p = q
(* ProcessRawTopology refuses a threshold below one.                       *)
ASSUME ThresholdAssumption == Threshold \in Nat \ {0}
ASSUME KindAssumption == Kind \in Kinds
ASSUME SchemeAssumption == Scheme \in {"ecdsa", "frost"}
ASSUME BoundAssumption == MaxRetries \in Nat
ASSUME FlagAssumption == PoolUnwraps \in BOOLEAN /\ Faults \subseteq AllFaults

VARIABLES
    pc,        \* [Peer -> program counter]
    try,       \* 1 in Execute's own pool, 2 in handleError's
    coord,     \* the coordinator the current try follows
    excluded,  \* excludedPeers of the current try
    ready,     \* readyPeers of initiate
    started,   \* the start message the current Run works for
    outcome,   \* what Execute returned
    result,    \* what the process delivered
    net,       \* messages sent and not yet consumed
    answered,  \* history: who ever sent the host a ready message
    ran        \* history: the start messages the host ever ran for

host == <<pc, try, coord, excluded, ready, started, outcome, result>>
vars == <<pc, try, coord, excluded, ready, started, outcome, result,
          net, answered, ran>>

-----------------------------------------------------------------------------
(* Messages.  "try" is the sender's try: the code does not send it, it      *)
(* keeps two sends of the same text apart.                                  *)
Start   == [from : Peer, try : 1..2, params : SUBSET AllPeers]
NoStart == [from |-> NoPeer, try |-> 1, params |-> {}]
Signal  == [type : {"initiate", "ready"}, from : Peer, to : Peer, try : 1..2]
Message == Signal \cup
           [type : {"start"}, from : Peer, to : Peer, try : 1..2,
            params : SUBSET AllPeers]

StartOf(m) == [from |-> m.from, try |-> m.try, params |-> m.params]

(* Broadcast skips the sender.                                              *)
InitiateMsgs(c, t) ==
    { [type |-> "initiate", from |-> c, to |-> q, try |-> t] : q \in Peer \ {c} }
StartMsgs(s) ==
    { [type |-> "start", from |-> s.from, to |-> q, try |-> s.try,
       params |-> s.params] : q \in Peer \ {s.from} }
ReadyMsg(q, c) == [type |-> "ready", from |-> q, to |-> c, try |-> try[q]]

(* Whether a subscription of a live loop would take a message of the type.  *)
Listening(q, type) ==
    IF type = "ready" THEN pc[q] = "initiate" ELSE pc[q] = "wait"

-----------------------------------------------------------------------------
(* The TssProcess callbacks.                                                *)
Retryable == Kind = "signing"

(* A resharing host without a keyshare has no valid coordinator at all.     *)
(* FROST's may name a key holder that has left the topology.                *)
ValidCoordinators(p) ==
    CASE Kind = "keygen"    -> Peer
      [] Kind = "signing"   -> KeyPeers
      [] Kind = "resharing" ->
             IF p \notin KeyPeers THEN {}
             ELSE IF Scheme = "ecdsa" THEN KeyPeers \cap Peer ELSE KeyPeers

(* The static elector: the head of the session order, "" of an empty list.  *)
StaticCoordinator(p) ==
    LET valid == ValidCoordinators(p)
    IN  IF valid = {} THEN NoPeer
        ELSE CHOOSE c \in valid : \A q \in valid : Rank[c] <= Rank[q]

(* readyParticipants: for signing, only peers that hold a keyshare count.   *)
ReadyParticipants(R) == IF Kind = "signing" THEN R \cap KeyPeers ELSE R

(* A plausible bug in Ready: waits for one participant too many.            *)
ReadyLate(R) ==
    IF Kind = "signing" THEN Cardinality(ReadyParticipants(R)) > Threshold + 1
                        ELSE Cardinality(R) > Cardinality(Peer)
(* A plausible bug in Ready: threshold + 1 peers are enough for any process.*)
ReadyAtThreshold(R) == Cardinality(ReadyParticipants(R)) = Threshold + 1

(* Keygen's Ready also fails when peers are excluded; keygen never retries, *)
(* so nobody is ever excluded from one.                                     *)
Ready(R) ==
    IF Kind = "signing" THEN Cardinality(ReadyParticipants(R)) = Threshold + 1
                        ELSE Cardinality(R) = Cardinality(Peer)

(* The first k peers of S in the session order.                             *)
FirstInSession(S, k) ==
    { p \in S : Cardinality({ q \in S : Rank[q] < Rank[p] }) < k }

(* A plausible bug in StartParams: the subset is drawn from all key holders.*)
StartParamsOfKey(R) == FirstInSession(KeyPeers, Threshold + 1)

(* The start parameters of FROST's resharing, public data of the key, say   *)
(* nothing of peers.                                                        *)
StartParams(R) ==
    CASE Kind = "keygen"    -> {}
      [] Kind = "resharing" -> IF Scheme = "ecdsa" THEN KeyPeers \cap Peer ELSE {}
      [] Kind = "signing"   -> FirstInSession(ReadyParticipants(R), Threshold + 1)

(* The parties Run sets up: the subset of the start message for signing,    *)
(* the whole peerstore otherwise.                                           *)
Participants(s) == IF Kind = "signing" THEN s.params ELSE Peer

(* validateStartParams of ECDSA's resharing.                                *)
ParamsAccepted(q, s) ==
    (Kind = "resharing" /\ Scheme = "ecdsa") =>
        /\ Cardinality(s.params) >= Threshold
        /\ q \in KeyPeers => s.params = KeyPeers \cap Peer

-----------------------------------------------------------------------------
Init ==
    /\ pc       = [p \in Peer |-> "idle"]
    /\ try      = [p \in Peer |-> 1]
    /\ coord    = [p \in Peer |-> NoPeer]
    /\ excluded = [p \in Peer |-> {}]
    /\ ready    = [p \in Peer |-> {}]
    /\ started  = [p \in Peer |-> NoStart]
    /\ outcome  = [p \in Peer |-> "none"]
    /\ result   = [p \in Peer |-> "none"]
    /\ net      = {}
    /\ answered = [p \in Peer |-> {}]
    /\ ran      = [p \in Peer |-> {}]

(* start: the elected host initiates, everybody else waits for it.          *)
StartWith(p, c) ==
    /\ coord' = [coord EXCEPT ![p] = c]
    /\ IF c = p
       THEN /\ pc'    = [pc EXCEPT ![p] = "initiate"]
            /\ ready' = [ready EXCEPT ![p] = {p}]
            /\ net'   = net \cup InitiateMsgs(p, try[p])
       ELSE /\ pc' = [pc EXCEPT ![p] = "wait"]
            /\ UNCHANGED <<ready, net>>
    /\ UNCHANGED <<try, excluded, started, outcome, result, answered, ran>>

(* The deferred part of Execute: the host leaves the session.               *)
Return(p, res) ==
    /\ pc'      = [pc EXCEPT ![p] = "done"]
    /\ outcome' = [outcome EXCEPT ![p] = res]
    /\ UNCHANGED <<try, coord, excluded>>

(* retry, called by handleError: into the bully elector.                    *)
Retry(p, peers) ==
    /\ pc'       = [pc EXCEPT ![p] = "elect"]
    /\ try'      = [try EXCEPT ![p] = 2]
    /\ excluded' = [excluded EXCEPT ![p] = peers]
    /\ UNCHANGED <<coord, outcome>>

(* A plausible bug in handleError: a failed retry is retried again.         *)
HandleErrorAgain(p, err, peers) ==
    IF ~Retryable \/ err = "other" THEN Return(p, "error")
    ELSE /\ pc'       = [pc EXCEPT ![p] = "elect"]
         /\ try'      = [try EXCEPT ![p] = @ + 1]
         /\ excluded' = [excluded EXCEPT ![p] = peers]
         /\ UNCHANGED <<coord, outcome>>

(* handleError for a SubsetError: wait for a start message of anyone.       *)
AwaitAnyStart(p) ==
    /\ pc'    = [pc EXCEPT ![p] = "wait"]
    /\ try'   = [try EXCEPT ![p] = 2]
    /\ coord' = [coord EXCEPT ![p] = NoPeer]
    /\ UNCHANGED <<excluded, outcome>>

(* What becomes of an error that start returns.  In the first try, a        *)
(* retryable process goes through the type switch of handleError, which     *)
(* sees the type only if the pool hands the error back unwrapped; a second  *)
(* error ends Execute.                                                      *)
HandleError(p, err, peers) ==
    IF try[p] = 2 \/ ~Retryable \/ ~PoolUnwraps \/ err = "other"
    THEN Return(p, "error")
    ELSE IF err = "subset" THEN AwaitAnyStart(p) ELSE Retry(p, peers)

(* A plausible bug in Run: a host outside the subset takes part.            *)
RunUnchecked(p, s) ==
    /\ pc'      = [pc EXCEPT ![p] = "run"]
    /\ started' = [started EXCEPT ![p] = s]
    /\ ran'     = [ran EXCEPT ![p] = @ \cup {s}]
    /\ UNCHANGED <<try, coord, excluded, outcome>>

(* Run up to the point where the local party is started.                    *)
Run(p, s) ==
    IF p \notin Participants(s)
    THEN HandleError(p, "subset", {}) /\ UNCHANGED <<started, ran>>
    ELSE IF ~ParamsAccepted(p, s)
    THEN HandleError(p, "other", {}) /\ UNCHANGED <<started, ran>>
    ELSE /\ pc'      = [pc EXCEPT ![p] = "run"]
         /\ started' = [started EXCEPT ![p] = s]
         /\ ran'     = [ran EXCEPT ![p] = @ \cup {s}]
         /\ UNCHANGED <<try, coord, excluded, outcome>>

-----------------------------------------------------------------------------
(* Coordinator.Execute is called for the session.                           *)
Execute(p) ==
    /\ pc[p] = "idle"
    /\ StartWith(p, StaticCoordinator(p))

(* A plausible bug in initiate: the ticker does not broadcast.              *)
InitiateOnce(c) == pc[c] = "initiate" /\ UNCHANGED vars

(* initiate: the ticker broadcasts the initiate message again.              *)
InitiateTick(c) ==
    /\ pc[c] = "initiate"
    /\ net' = net \cup InitiateMsgs(c, try[c])
    /\ UNCHANGED <<host, answered, ran>>

(* initiate: an excluded peer's answer is not added to readyPeers.          *)
WithReady(c, q) ==
    IF q \in excluded[c] THEN ready[c] ELSE ready[c] \cup {q}

(* A plausible bug in initiate: no return after the start message, so that  *)
(* further answers start the process anew.                                  *)
ReceiveReadyOn(c, m) ==
    /\ pc[c] = "initiate"
    /\ m \in net /\ m.type = "ready" /\ m.to = c
    /\ LET R == WithReady(c, m.from)
           s == [from |-> c, try |-> try[c], params |-> StartParams(R)]
       IN  /\ ready' = [ready EXCEPT ![c] = R]
           /\ IF Cardinality(ReadyParticipants(R)) > Threshold
              THEN net' = (net \ {m}) \cup StartMsgs(s)
              ELSE net' = net \ {m}
    /\ UNCHANGED <<pc, try, coord, excluded, started, outcome, ran, result, answered>>

(* initiate: a ready message; with the last one needed, the start message   *)
(* is broadcast and the coordinator runs the process.                       *)
ReceiveReady(c, m) ==
    /\ pc[c] = "initiate"
    /\ m \in net /\ m.type = "ready" /\ m.to = c
    /\ LET R == WithReady(c, m.from)
           s == [from |-> c, try |-> try[c], params |-> StartParams(R)]
       IN  /\ ready' = [ready EXCEPT ![c] = R]
           /\ IF Ready(R)
              THEN /\ net' = (net \ {m}) \cup StartMsgs(s)
                   /\ Run(c, s)
              ELSE /\ net' = net \ {m}
                   /\ UNCHANGED <<pc, try, coord, excluded, started, outcome, ran>>
    /\ UNCHANGED <<result, answered>>

(* waitForStart: whom the host listens to; "" stands for everybody.         *)
Follows(q, c) == coord[q] \in {NoPeer, c}

(* waitForStart: an initiate message of the coordinator is answered.        *)
ReceiveInitiate(q, m) ==
    /\ pc[q] = "wait"
    /\ m \in net /\ m.type = "initiate" /\ m.to = q
    /\ IF Follows(q, m.from)
       THEN /\ net' = (net \ {m}) \cup {ReadyMsg(q, m.from)}
            /\ answered' = [answered EXCEPT ![m.from] = @ \cup {q}]
       ELSE net' = net \ {m} /\ UNCHANGED answered
    /\ UNCHANGED <<host, ran>>

(* waitForStart: the coordinator's start message begins the process.        *)
ReceiveStart(q, m) ==
    /\ pc[q] = "wait"
    /\ m \in net /\ m.type = "start" /\ m.to = q
    /\ net' = net \ {m}
    /\ IF Follows(q, m.from)
       THEN Run(q, StartOf(m))
       ELSE UNCHANGED <<pc, try, coord, excluded, started, outcome, ran>>
    /\ UNCHANGED <<ready, result, answered>>

(* Bound on the faults explored, not a guard of the code.                   *)
MayFail == Retryable =>
    Cardinality({ q \in Peer : try[q] = 2 }) < MaxRetries

(* waitForStart: the coordinator has been silent for too long.              *)
CoordinatorTimeout(q) ==
    /\ "coordinatorTimeout" \in Faults /\ MayFail
    /\ pc[q] = "wait"
    /\ HandleError(q, "coordinator", {coord[q]})
    /\ UNCHANGED <<ready, started, result, net, answered, ran>>

(* The outcome of a process that delivered its result: the first try's      *)
(* success cancels the watchdog and Execute returns; nobody cancels the     *)
(* watchdog of the second.                                                  *)
Succeed(p) ==
    IF try[p] = 1 THEN Return(p, "ok")
    ELSE /\ pc' = [pc EXCEPT ![p] = "held"]
         /\ UNCHANGED <<try, coord, excluded, outcome>>

(* A plausible bug in processEndMessage: the ECDSA signature is delivered   *)
(* on every host, as the Taproot signature is.                              *)
DeliverEverywhere(p) ==
    IF Kind # "signing" THEN "keyshare"
    ELSE IF Scheme = "frost" THEN "taproot" ELSE "signature"

(* What processEndMessage delivers: the ECDSA signature on the coordinator, *)
(* nil elsewhere, the Taproot signature on every host, or the stored        *)
(* keyshare.                                                                *)
Deliver(p) ==
    IF Kind # "signing" THEN "keyshare"
    ELSE IF Scheme = "frost" THEN "taproot"
    ELSE IF started[p].from = p THEN "signature" ELSE "nil"

(* The rounds of tss-lib need every participant of the same subset to have  *)
(* joined.                                                                  *)
RoundsComplete(p) ==
    \A q \in Participants(started[p]) :
        \E s \in ran[q] : Participants(s) = Participants(started[p])

(* Run delivers its result, for which resultChn must have room, and returns *)
(* nil.                                                                     *)
RunSucceeds(p) ==
    /\ pc[p] = "run" /\ RoundsComplete(p)
    /\ result[p] = "none"
    /\ result' = [result EXCEPT ![p] = Deliver(p)]
    /\ Succeed(p)
    /\ UNCHANGED <<ready, started, net, answered, ran>>

(* How Run may end although its result is delivered, as TssRun allows it:   *)
(* an ECDSA host is still sending, or sees the party's next error; of a     *)
(* FROST host's goroutines another one may end with an error.               *)
LateErrors == IF Scheme = "ecdsa" THEN {"communication", "tss", "other"}
              ELSE {"other"}

(* A host has its result while its other goroutines still work: Run         *)
(* delivers it and returns the error of one of them nevertheless.           *)
RunErrsLate(p) ==
    /\ "late" \in Faults /\ MayFail
    /\ pc[p] = "run" /\ RoundsComplete(p)
    /\ result[p] = "none"
    /\ result' = [result EXCEPT ![p] = Deliver(p)]
    /\ \E err \in LateErrors,
          culprits \in SUBSET (Participants(started[p]) \ {p}) :
         /\ err # "tss" => culprits = {}
         /\ HandleError(p, err, culprits)
    /\ UNCHANGED <<ready, started, net, answered, ran>>

(* Run does not return: its goroutines block each other, or the result of   *)
(* the first try is still in resultChn and takes the place of this one's.   *)
RunHangs(p) ==
    /\ pc[p] = "run"
    /\ "hang" \in Faults \/ (RoundsComplete(p) /\ result[p] # "none")
    /\ pc' = [pc EXCEPT ![p] = "hung"]
    /\ UNCHANGED <<try, coord, excluded, outcome, ready, started, result, net,
                   answered, ran>>

(* Run returns a CommunicationError: a broadcast failed, or monitorSigning  *)
(* saw no progress.                                                         *)
RunCommunicationError(p) ==
    /\ "communication" \in Faults /\ MayFail
    /\ pc[p] = "run"
    /\ HandleError(p, "communication", {})
    /\ UNCHANGED <<ready, started, result, net, answered, ran>>

(* Run returns a tss.Error that blames some of the other participants.      *)
RunTssError(p) ==
    /\ Scheme = "ecdsa" /\ "tss" \in Faults /\ MayFail
    /\ pc[p] = "run"
    /\ \E culprits \in SUBSET (Participants(started[p]) \ {p}) :
         HandleError(p, "tss", culprits)
    /\ UNCHANGED <<ready, started, result, net, answered, ran>>

(* Run returns any other error.                                             *)
RunOtherError(p) ==
    /\ "other" \in Faults
    /\ pc[p] = "run"
    /\ HandleError(p, "other", {})
    /\ UNCHANGED <<ready, started, result, net, answered, ran>>

(* retry: the bully elector names a coordinator.  It is the host itself or  *)
(* a peer that sent a select message, excluded or not; hosts need not agree.*)
Elected(p) ==
    /\ pc[p] = "elect"
    /\ \E c \in Peer : StartWith(p, c)

(* A plausible bug: the watchdog is not started for the retry.              *)
WatchedFirstTry(p) == try[p] = 1 /\ pc[p] \in {"initiate", "wait", "run"}

(* Where watchExecution runs beside the process.  BullyWaitTime is shorter  *)
(* than TssTimeout, so the watchdog does not fire during the election.      *)
Watched(p) == pc[p] \in {"initiate", "wait", "run", "held"}

(* watchExecution: the process took longer than TssTimeout.                 *)
TssTimeout(p) ==
    /\ "tssTimeout" \in Faults
    /\ Watched(p)
    /\ Return(p, "error")
    /\ UNCHANGED <<ready, started, result, net, answered, ran>>

(* A message is lost: the send failed (the errors of these broadcasts are   *)
(* ignored), or it arrived when no loop of the host was subscribed to it.   *)
(* What is still under way to a host that has returned has no effect.       *)
Drop(m) ==
    /\ m \in net
    /\ pc[m.to] # "done"
    /\ "loss" \in Faults \/ ~Listening(m.to, m.type)
    /\ net' = net \ {m}
    /\ UNCHANGED <<host, answered, ran>>

Receive(p) ==
    \E m \in net : ReceiveReady(p, m) \/ ReceiveInitiate(p, m) \/ ReceiveStart(p, m)

RunFails(p) == RunCommunicationError(p) \/ RunTssError(p) \/ RunOtherError(p)

HostStep(p) ==
    \/ Execute(p)
    \/ InitiateTick(p)
    \/ Receive(p)
    \/ CoordinatorTimeout(p)
    \/ RunSucceeds(p)
    \/ RunErrsLate(p)
    \/ RunHangs(p)
    \/ RunFails(p)
    \/ Elected(p)
    \/ TssTimeout(p)

Next ==
    \/ \E p \in Peer : HostStep(p)
    \/ \E m \in net : Drop(m)

Spec == Init /\ [][Next]_vars

(* Tickers fire and the elector's wait time ends.                           *)
TimerFairness ==
    \A p \in Peer : WF_vars(TssTimeout(p)) /\ WF_vars(Elected(p))

(* Every host is asked to join and its loops keep receiving.                *)
StepFairness ==
    \A p \in Peer :
        /\ WF_vars(Execute(p))
        /\ WF_vars(InitiateTick(p))
        /\ \A q \in Peer :
             /\ WF_vars(\E m \in net : m.from = q /\ ReceiveReady(p, m))
             /\ WF_vars(\E m \in net : m.from = q /\ ReceiveInitiate(p, m))
             /\ WF_vars(\E m \in net : m.from = q /\ ReceiveStart(p, m))

TimedSpec == Spec /\ TimerFairness
EagerSpec == Spec /\ StepFairness

-----------------------------------------------------------------------------
(* Type invariant: program counters, tries and the believed coordinator     *)
(* keep to the values the loops of Coordinator give them.                   *)
TypeOK ==
    /\ pc \in [Peer -> {"idle", "initiate", "wait", "run", "elect", "held",
                    "hung", "done"}]
    /\ try \in [Peer -> 1..2]
    /\ coord \in [Peer -> AllPeers \cup {NoPeer}]
    /\ excluded \in [Peer -> SUBSET (AllPeers \cup {NoPeer})]
    /\ ready \in [Peer -> SUBSET Peer]
    /\ started \in [Peer -> Start \cup {NoStart}]
    /\ outcome \in [Peer -> {"none", "ok", "error"}]
    /\ result \in [Peer -> {"none", "signature", "nil", "taproot", "keyshare"}]
    /\ net \subseteq Message
    /\ answered \in [Peer -> SUBSET Peer]
    /\ ran \in [Peer -> SUBSET Start]

(* Every start message somebody could act on, still in flight or taken.     *)
Starts == { StartOf(m) : m \in { n \in net : n.type = "start" } }
          \cup UNION { ran[p] : p \in Peer }

(* Ready is not satisfied, nor stepped over, by what initiate collected.    *)
Collecting(c) ==
    IF Kind = "signing" THEN Cardinality(ready[c] \cap KeyPeers) <= Threshold
                        ELSE Cardinality(ready[c]) < Cardinality(Peer)

(* initiate compares the number of ready peers with "==": if a batch of     *)
(* answers could step over the number needed, the coordinator would collect *)
(* answers for ever and never broadcast a start message.                    *)
NeverOvershoots == \A c \in Peer : pc[c] = "initiate" => Collecting(c)

(* A coordinator decides on one subset per try: all the hosts that act on   *)
(* its start messages, however late they arrive and in whatever try the     *)
(* receivers are, run with the same parameters.                             *)
OneStartPerTry ==
    \A s, t \in Starts : (s.from = t.from /\ s.try = t.try) => s = t

(* A signing subset has exactly threshold + 1 members, all of them hold a   *)
(* keyshare, and each is the coordinator or answered its initiate message:  *)
(* nobody is drafted into a signing it never heard of.                      *)
SubsetVolunteered ==
    Kind = "signing" => \A s \in Starts :
        /\ Cardinality(s.params) = Threshold + 1
        /\ s.params \subseteq KeyPeers
        /\ s.params \subseteq answered[s.from] \cup {s.from}

(* Keygen and resharing begin nowhere before every peer of the topology has *)
(* joined the session (Ready waits for all, through messages).              *)
NobodyStartsAlone ==
    Kind # "signing" =>
        ((\E p \in Peer : pc[p] = "run") => \A q \in Peer : pc[q] # "idle")

(* "retry initiates full bully process to calculate coordinator and starts  *)
(* a new tss process after an expected error" (coordinator.go:213-214): a   *)
(* retried Execute whose new process delivered reports success.             *)
RetryReported ==
    \A p \in Peer :
        (pc[p] = "done" /\ try[p] = 2 /\ result[p] # "none") => outcome[p] = "ok"

(* At most one host of the cluster returns the ECDSA signature to its       *)
(* caller: the leader of the first try.                                     *)
OneSignatureReturned ==
    \A p, q \in Peer :
        (/\ outcome[p] = "ok" /\ result[p] = "signature"
         /\ outcome[q] = "ok" /\ result[q] = "signature") => p = q

(* Every Execute whose Run does not hang returns: whatever is lost and      *)
(* whoever is silent, watchdog and elector timers end it.                   *)
ExecuteReturns ==
    \A p \in Peer : pc[p] # "idle" ~> pc[p] \in {"done", "hung"}

(* While no message is lost and no timer fires, a session that everybody    *)
(* joins, in any order and however late, gets under way: a process starts   *)
(* for one subset on every member, also on those that still wait for the    *)
(* start message when the Run of another has failed already.                *)
SessionStarts ==
    <>(\E p \in Peer : \E s \in ran[p] :
          \A q \in Participants(s) : s \in ran[q])

(* Behind its messages, tries, elections and timers the coordinator keeps   *)
(* the promise of TssSession: whoever joins is a member of the decision and *)
(* has not returned, a decision is one for all, a result is delivered once  *)
(* and only when all members joined, and one caller at most is told it has  *)
(* the signature.                                                           *)
Session == INSTANCE TssSession WITH
    Decision <- Start,
    Members  <- [s \in Start |-> Participants(s)],
    joined   <- ran

ImplementsSession == Session!Spec

-----------------------------------------------------------------------------
(* The inductive strengthening of the invariants above.                     *)

(* What a host's own variables say of each other.                           *)
HostConsistent(p) ==
    /\ pc[p] = "idle" => try[p] = 1
    /\ pc[p] \in {"elect", "held"} => try[p] = 2
    /\ outcome[p] = "none" <=> pc[p] # "done"
    /\ try[p] = 1 /\ pc[p] # "done" => result[p] = "none"
    /\ outcome[p] = "ok" => result[p] # "none" /\ try[p] = 1
    /\ try[p] = 1 /\ result[p] = "signature" => coord[p] = p
    /\ (try[p] = 1 /\ pc[p] # "idle") => coord[p] = StaticCoordinator(p)

(* A coordinator that collects answers only counts those it was given.      *)
InitiateConsistent(p) ==
    pc[p] = "initiate" =>
        /\ coord[p] = p
        /\ p \in ready[p]
        /\ ready[p] \subseteq answered[p] \cup {p}
        /\ Collecting(p)

(* A running host works for a start message it took or sent.                *)
RunConsistent(p) ==
    pc[p] = "run" =>
        /\ p \in Participants(started[p])
        /\ started[p] \in ran[p]
        /\ started[p].from = p => coord[p] = p

(* Answers come from hosts that joined; nobody writes to itself.            *)
NetConsistent ==
    /\ \A m \in net : m.from # m.to
    /\ \A m \in net : m.type = "ready" => m.from \in answered[m.to]
    /\ \A c, q \in Peer : q \in answered[c] => pc[q] # "idle"

(* The sender of a start message is past the initiate loop of that try.     *)
StartSent(s) ==
    /\ s.from \in Peer
    /\ s.try <= try[s.from]
    /\ pc[s.from] # "idle"
    /\ s.try = try[s.from] => pc[s.from] \notin {"initiate", "elect"}

(* The peers a start message stands for all answered its sender.            *)
StartBacked(s) ==
    IF Kind = "signing"
    THEN /\ Cardinality(s.params) = Threshold + 1
         /\ s.params \subseteq KeyPeers
         /\ s.params \subseteq answered[s.from] \cup {s.from}
    ELSE Peer \subseteq answered[s.from] \cup {s.from}

Inductive ==
    /\ \A p \in Peer : HostConsistent(p)
    /\ \A p \in Peer : InitiateConsistent(p)
    /\ \A p \in Peer : RunConsistent(p)
    /\ NetConsistent
    /\ \A s \in Starts : StartSent(s)
    /\ \A s \in Starts : StartBacked(s)
    /\ OneStartPerTry
=============================================================================
