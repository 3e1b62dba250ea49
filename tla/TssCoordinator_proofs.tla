------------------------ MODULE TssCoordinator_proofs -----------------------
(***************************************************************************)
(* Theorems about TssCoordinator for any set of peers, keyshare, threshold *)
(* and process: the type invariant first, then the safety invariants that  *)
(* the TLC runs check on three peers.                                      *)
(***************************************************************************)
EXTENDS TssCoordinator, FiniteSetTheorems, WellFoundedInduction, TLAPS

-----------------------------------------------------------------------------
(* The session order has a first element on every set of peers: the static  *)
(* elector's choice exists and belongs to the peers it is given.            *)
LEMMA FirstExists ==
    ASSUME NEW S \in SUBSET AllPeers, S # {}
    PROVE  \E c \in S : \A q \in S : Rank[c] <= Rank[q]
<1> DEFINE T == { Rank[q] : q \in S }
<1>1. T \subseteq Nat /\ T # {}
  BY RankAssumption
<1>2. \E x \in T : \A y \in T : ~ (<<y, x>> \in OpToRel(<, Nat))
  <2> HIDE DEF T
  <2> QED  BY <1>1, NatLessThanWellFounded, WFMin
<1>3. PICK x \in T : \A y \in T : ~ (<<y, x>> \in OpToRel(<, Nat))
  BY <1>2
<1>4. ASSUME NEW y \in T  PROVE x <= y
  <2>1. x \in Nat /\ y \in Nat
    BY <1>1
  <2>2. ~ (<<y, x>> \in { ss \in Nat \X Nat : ss[1] < ss[2] })
    BY <1>3, Zenon DEF OpToRel
  <2>3. ~ (y < x)
    <3> HIDE DEF T
    <3> QED  BY <2>1, <2>2
  <2> QED  BY <2>1, <2>3
<1> QED  BY <1>4

LEMMA StaticCoordinatorFirst ==
    ASSUME NEW p \in Peer, ValidCoordinators(p) # {}
    PROVE  /\ StaticCoordinator(p) \in ValidCoordinators(p)
           /\ \A q \in ValidCoordinators(p) : Rank[StaticCoordinator(p)] <= Rank[q]
<1>1. ValidCoordinators(p) \subseteq AllPeers
  BY KindAssumption, SchemeAssumption DEF ValidCoordinators, AllPeers, Kinds
<1>2. \E c \in ValidCoordinators(p) : \A q \in ValidCoordinators(p) : Rank[c] <= Rank[q]
  BY <1>1, FirstExists
<1> QED  BY <1>2 DEF StaticCoordinator

LEMMA StaticCoordinatorType ==
    ASSUME NEW p \in Peer
    PROVE  StaticCoordinator(p) \in AllPeers \cup {NoPeer}
<1>1. ValidCoordinators(p) \subseteq AllPeers
  BY KindAssumption, SchemeAssumption DEF ValidCoordinators, AllPeers, Kinds
<1>2. CASE ValidCoordinators(p) # {}
  BY <1>1, <1>2, StaticCoordinatorFirst
<1>3. CASE ValidCoordinators(p) = {}
  BY <1>3 DEF StaticCoordinator
<1> QED  BY <1>2, <1>3

-----------------------------------------------------------------------------
(* What the broadcasts put on the network are messages.                     *)
LEMMA MessageTypes ==
    /\ \A c \in Peer, t \in 1..2 : InitiateMsgs(c, t) \subseteq Message
    /\ \A s \in Start : StartMsgs(s) \subseteq Message
    /\ \A m \in Message : m.from \in Peer /\ m.to \in Peer /\ m.try \in 1..2
    /\ \A m \in Message : m.type = "start" => StartOf(m) \in Start
<1>1. \A c \in Peer, t \in 1..2 : InitiateMsgs(c, t) \subseteq Message
  BY DEF InitiateMsgs, Message, Signal
<1>2. \A s \in Start : StartMsgs(s) \subseteq Message
  BY DEF StartMsgs, Message, Start
<1>3. \A m \in Message : m.from \in Peer /\ m.to \in Peer /\ m.try \in 1..2
  BY DEF Message, Signal
<1>4. \A m \in Message : m.type = "start" => StartOf(m) \in Start
  BY DEF Message, Signal, StartOf, Start
<1> QED  BY <1>1, <1>2, <1>3, <1>4

(* StartParams picks from the ready peers or the key holders.               *)
LEMMA StartParamsType ==
    ASSUME NEW R \in SUBSET Peer
    PROVE  StartParams(R) \subseteq AllPeers
BY KindAssumption, SchemeAssumption DEF StartParams, FirstInSession, ReadyParticipants, AllPeers, Kinds

(* A ready list stays a set of peers.                                       *)
LEMMA WithReadyType ==
    ASSUME TypeOK, NEW c \in Peer, NEW q \in Peer
    PROVE  WithReady(c, q) \in SUBSET Peer
BY DEF WithReady, TypeOK

(* How a Run that was started, or refused, leaves a host.                   *)
LEMMA RunType ==
    ASSUME TypeOK, NEW p \in Peer, NEW s \in Start, Run(p, s)
    PROVE  /\ pc' \in [Peer -> {"idle", "initiate", "wait", "run", "elect", "held",
                             "hung", "done"}]
           /\ try' \in [Peer -> 1..2]
           /\ coord' \in [Peer -> AllPeers \cup {NoPeer}]
           /\ excluded' \in [Peer -> SUBSET (AllPeers \cup {NoPeer})]
           /\ outcome' \in [Peer -> {"none", "ok", "error"}]
           /\ started' \in [Peer -> Start \cup {NoStart}]
           /\ ran' \in [Peer -> SUBSET Start]
<1>1. CASE p \notin Participants(s)
  BY <1>1 DEF TypeOK, Run, HandleError, Return, Retry, AwaitAnyStart
<1>2. CASE p \in Participants(s) /\ ~ParamsAccepted(p, s)
  BY <1>2 DEF TypeOK, Run, HandleError, Return, Retry, AwaitAnyStart
<1>3. CASE p \in Participants(s) /\ ParamsAccepted(p, s)
  BY <1>3 DEF TypeOK, Run
<1> QED  BY <1>1, <1>2, <1>3

(* Every host keeps to the states of the loops of Coordinator.              *)
THEOREM Typing == Spec => []TypeOK
<1>1. Init => TypeOK
  BY DEF Init, TypeOK
<1>2. TypeOK /\ [Next]_vars => TypeOK'
  <2> SUFFICES ASSUME TypeOK, [Next]_vars  PROVE TypeOK'
    OBVIOUS
  <2> USE MessageTypes
  <2>1. ASSUME NEW p \in Peer, NEW c \in AllPeers \cup {NoPeer}, StartWith(p, c)
        PROVE  TypeOK'
    BY <2>1 DEF TypeOK, StartWith
  <2>2. ASSUME NEW p \in Peer, Execute(p)  PROVE TypeOK'
    BY <2>1, <2>2, StaticCoordinatorType DEF Execute
  <2>3. ASSUME NEW p \in Peer, InitiateTick(p)  PROVE TypeOK'
    BY <2>3 DEF TypeOK, InitiateTick, host
  <2>4. ASSUME NEW p \in Peer, NEW m \in net, ReceiveReady(p, m)  PROVE TypeOK'
    <3> DEFINE R == WithReady(p, m.from)
               s == [from |-> p, try |-> try[p], params |-> StartParams(R)]
    <3>1. m.from \in Peer
      BY DEF TypeOK
    <3>2. R \in SUBSET Peer
      BY <3>1, WithReadyType
    <3>3. s \in Start
      BY <3>2, StartParamsType DEF TypeOK, Start
    <3>4. ready' \in [Peer -> SUBSET Peer] /\ UNCHANGED <<result, answered>>
      BY <2>4, <3>2 DEF TypeOK, ReceiveReady
    <3>5. net' \subseteq Message
      BY <2>4, <3>3 DEF TypeOK, ReceiveReady
    <3>6. CASE Ready(R)
      <4>1. Run(p, s)
        BY <2>4, <3>6 DEF ReceiveReady
      <4> HIDE DEF s
      <4> QED  BY <4>1, <3>3, <3>4, <3>5, RunType DEF TypeOK
    <3>7. CASE ~Ready(R)
      BY <2>4, <3>7, <3>4, <3>5 DEF TypeOK, ReceiveReady
    <3> QED  BY <3>6, <3>7
  <2>5. ASSUME NEW p \in Peer, NEW m \in net, ReceiveInitiate(p, m)  PROVE TypeOK'
    <3>1. m.from \in Peer /\ ReadyMsg(p, m.from) \in Message
      BY DEF TypeOK, ReadyMsg, Message, Signal
    <3> QED  BY <2>5, <3>1 DEF TypeOK, ReceiveInitiate, host
  <2>6. ASSUME NEW p \in Peer, NEW m \in net, ReceiveStart(p, m)  PROVE TypeOK'
    <3>1. StartOf(m) \in Start
      BY <2>6 DEF TypeOK, ReceiveStart
    <3>2. net' \subseteq Message /\ UNCHANGED <<ready, result, answered>>
      BY <2>6 DEF TypeOK, ReceiveStart
    <3>3. CASE Follows(p, m.from)
      BY <2>6, <3>1, <3>2, <3>3, RunType DEF TypeOK, ReceiveStart
    <3>4. CASE ~Follows(p, m.from)
      BY <2>6, <3>2, <3>4 DEF TypeOK, ReceiveStart
    <3> QED  BY <3>3, <3>4
  <2>7. ASSUME NEW p \in Peer, CoordinatorTimeout(p)  PROVE TypeOK'
    BY <2>7 DEF TypeOK, CoordinatorTimeout, HandleError, Return, Retry, AwaitAnyStart
  <2>8. ASSUME NEW p \in Peer, RunSucceeds(p)  PROVE TypeOK'
    BY <2>8 DEF TypeOK, RunSucceeds, Succeed, Return, Deliver
  <2>9. ASSUME NEW p \in Peer, RunErrsLate(p) \/ RunFails(p)  PROVE TypeOK'
    <3>1. CASE RunCommunicationError(p)
      BY <3>1 DEF TypeOK, RunCommunicationError, HandleError, Return, Retry, AwaitAnyStart
    <3>2. CASE RunTssError(p)
      <4>1. Participants(started[p]) \subseteq AllPeers
        BY DEF TypeOK, Participants, Start, NoStart, AllPeers
      <4>2. PICK culprits \in SUBSET (Participants(started[p]) \ {p}) :
              HandleError(p, "tss", culprits)
        BY <3>2 DEF RunTssError
      <4> QED
        BY <3>2, <4>1, <4>2 DEF TypeOK, RunTssError, HandleError, Return, Retry, AwaitAnyStart
    <3>3. CASE RunOtherError(p)
      BY <3>3 DEF TypeOK, RunOtherError, HandleError, Return, Retry, AwaitAnyStart
    <3>4. CASE RunErrsLate(p)
      <4>1. result' \in [Peer -> {"none", "signature", "nil", "taproot", "keyshare"}]
        BY <3>4 DEF TypeOK, RunErrsLate, Deliver
      <4>2. Participants(started[p]) \subseteq AllPeers
        BY DEF TypeOK, Participants, Start, NoStart, AllPeers
      <4>3. PICK err \in LateErrors, culprits \in SUBSET (Participants(started[p]) \ {p}) :
              HandleError(p, err, culprits)
        BY <3>4 DEF RunErrsLate
      <4> QED
        BY <3>4, <4>1, <4>2, <4>3
        DEF TypeOK, RunErrsLate, HandleError, Return, Retry, AwaitAnyStart
    <3> QED  BY <2>9, <3>1, <3>2, <3>3, <3>4 DEF RunFails
  <2>10. ASSUME NEW p \in Peer, Elected(p)  PROVE TypeOK'
    BY <2>1, <2>10 DEF Elected, AllPeers
  <2>11. ASSUME NEW p \in Peer, TssTimeout(p)  PROVE TypeOK'
    BY <2>11 DEF TypeOK, TssTimeout, Return
  <2>12. ASSUME NEW p \in Peer, RunHangs(p)  PROVE TypeOK'
    BY <2>12 DEF TypeOK, RunHangs
  <2>13. ASSUME NEW m \in net, Drop(m)  PROVE TypeOK'
    BY <2>13 DEF TypeOK, Drop, host
  <2>14. CASE UNCHANGED vars
    BY <2>14 DEF TypeOK, vars
  <2> QED
    BY <2>2, <2>3, <2>4, <2>5, <2>6, <2>7, <2>8, <2>9, <2>10, <2>11, <2>13, <2>14, <2>12
    DEF Next, HostStep, Receive
<1> QED  BY <1>1, <1>2, PTL DEF Spec

-----------------------------------------------------------------------------
(* Counting.                                                                *)

(* Nobody ready but the coordinator is never enough.                        *)
LEMMA AloneIsNotEnough ==
    ASSUME NEW p \in Peer
    PROVE  /\ Kind = "signing" => Cardinality({p} \cap KeyPeers) <= Threshold
           /\ Kind # "signing" => Cardinality({p}) < Cardinality(Peer)
<1>1. Cardinality({p}) = 1 /\ IsFiniteSet({p})
  BY FS_Singleton
<1>2. Cardinality({p} \cap KeyPeers) <= 1 /\ Cardinality({p} \cap KeyPeers) \in Nat
  BY <1>1, FS_Subset, FS_CardinalityType
<1>3. Cardinality(Peer) \in Nat
  BY PeerAssumption, FS_CardinalityType
<1> QED  BY <1>1, <1>2, <1>3, ThresholdAssumption, PeerAssumption

(* One more answer makes Ready true or leaves the coordinator collecting:   *)
(* the number needed is never stepped over.                                 *)
LEMMA OneMoreAnswer ==
    ASSUME TypeOK, NEW c \in Peer, NEW q \in Peer, Collecting(c),
           ~Ready(WithReady(c, q))
    PROVE  /\ Kind = "signing" =>
                Cardinality(WithReady(c, q) \cap KeyPeers) <= Threshold
           /\ Kind # "signing" =>
                Cardinality(WithReady(c, q)) < Cardinality(Peer)
<1> DEFINE R == WithReady(c, q)
<1>1. ready[c] \in SUBSET Peer /\ IsFiniteSet(ready[c]) /\ IsFiniteSet(ready[c] \cap KeyPeers)
  BY PeerAssumption, FS_Subset DEF TypeOK
<1>2. Cardinality(ready[c]) \in Nat /\ Cardinality(ready[c] \cap KeyPeers) \in Nat
      /\ Cardinality(Peer) \in Nat
  BY <1>1, PeerAssumption, FS_CardinalityType
<1>3. CASE R = ready[c]
  BY <1>2, <1>3, ThresholdAssumption DEF Collecting
<1>4. CASE R = ready[c] \cup {q}
  <2>1. Cardinality(R) \in Nat /\ Cardinality(R) <= Cardinality(ready[c]) + 1
    <3>1. Cardinality(ready[c] \cup {q}) =
            IF q \in ready[c] THEN Cardinality(ready[c]) ELSE Cardinality(ready[c]) + 1
      BY <1>1, FS_AddElement
    <3> QED  BY <1>2, <1>4, <3>1
  <2>2. R \cap KeyPeers = IF q \in KeyPeers THEN (ready[c] \cap KeyPeers) \cup {q}
                                           ELSE ready[c] \cap KeyPeers
    BY <1>4
  <2>3. /\ Cardinality(R \cap KeyPeers) \in Nat
        /\ Cardinality(R \cap KeyPeers) <= Cardinality(ready[c] \cap KeyPeers) + 1
    BY <1>1, <1>2, <2>2, FS_AddElement
  <2> QED
    <3>1. CASE Kind = "signing"
      <4>1. Cardinality(R \cap KeyPeers) # Threshold + 1
        BY <3>1 DEF Ready, ReadyParticipants
      <4>2. Cardinality(ready[c] \cap KeyPeers) <= Threshold
        BY <3>1 DEF Collecting
      <4> QED  BY <1>2, <2>3, <3>1, <4>1, <4>2, ThresholdAssumption
    <3>2. CASE Kind # "signing"
      <4>1. Cardinality(R) # Cardinality(Peer)
        BY <3>2 DEF Ready
      <4>2. Cardinality(ready[c]) < Cardinality(Peer)
        BY <3>2 DEF Collecting
      <4> QED  BY <1>2, <2>1, <3>2, <4>1, <4>2
    <3> QED  BY <3>1, <3>2
<1> QED  BY <1>3, <1>4 DEF WithReady

(* Taking the first k of k peers takes them all.                            *)
LEMMA FirstOfExactly ==
    ASSUME NEW S \in SUBSET AllPeers, IsFiniteSet(S),
           NEW k \in Nat, Cardinality(S) = k
    PROVE  FirstInSession(S, k) = S
<1> SUFFICES ASSUME NEW p \in S
             PROVE  Cardinality({ q \in S : Rank[q] < Rank[p] }) < k
  BY DEF FirstInSession
<1> DEFINE B == { q \in S : Rank[q] < Rank[p] }
<1>1. IsFiniteSet(S \ {p}) /\ Cardinality(S \ {p}) = k - 1
  BY FS_RemoveElement
<1>2. ~ (Rank[p] < Rank[p])
  BY RankAssumption
<1>3. B \in SUBSET (S \ {p})
  BY <1>2
<1>4. Cardinality(B) <= k - 1 /\ Cardinality(B) \in Nat
  BY <1>1, <1>3, FS_Subset, FS_CardinalityType
<1> QED  BY <1>4

-----------------------------------------------------------------------------
(* The inductive invariant, step by step.  A step of host p leaves the      *)
(* other hosts alone, and moves p forward: into a later try, or out of the  *)
(* initiate loop for good.                                                  *)
Others(p) ==
    \A q \in Peer \ {p} :
        /\ pc'[q] = pc[q] /\ try'[q] = try[q] /\ coord'[q] = coord[q]
        /\ ready'[q] = ready[q] /\ started'[q] = started[q]
        /\ outcome'[q] = outcome[q] /\ result'[q] = result[q] /\ ran'[q] = ran[q]

AnswersKept == \A q \in Peer : answered[q] \subseteq answered'[q]

Forward(p) ==
    \/ pc'[p] = pc[p] /\ try'[p] = try[p]
    \/ /\ pc'[p] # "idle" /\ try'[p] >= try[p]
       /\ \/ pc'[p] \notin {"initiate", "elect"}
          \/ pc[p] \in {"idle", "elect"}
          \/ try'[p] > try[p]

LEMMA StartsType ==
    ASSUME TypeOK
    PROVE  Starts \subseteq Start
BY MessageTypes DEF Starts, TypeOK

LEMMA StartsDef ==
    /\ \A s : s \in Starts <=>
              \/ \E m \in net : m.type = "start" /\ s = StartOf(m)
              \/ \E p \in Peer : s \in ran[p]
    /\ \A s : s \in Starts' <=>
              \/ \E m \in net' : m.type = "start" /\ s = StartOf(m)
              \/ \E p \in Peer : s \in ran'[p]
BY DEF Starts, StartOf

(* Start messages stay accounted for while no new one is sent.              *)
LEMMA StartsStay ==
    ASSUME TypeOK, TypeOK', Inductive, NEW p \in Peer,
           Others(p), Forward(p), AnswersKept, Starts' \subseteq Starts
    PROVE  /\ \A s \in Starts' : StartSent(s)'
           /\ \A s \in Starts' : StartBacked(s)'
           /\ OneStartPerTry'
<1>1. ASSUME NEW s \in Starts'  PROVE StartSent(s)'
  <2>1. s \in Starts /\ s \in Start /\ StartSent(s)
    BY <1>1, StartsType DEF Inductive
  <2>2. CASE s.from # p
    BY <2>1, <2>2 DEF StartSent, Others
  <2>3. CASE s.from = p
    <3>1. s.try \in 1..2 /\ try[p] \in 1..2 /\ try'[p] \in 1..2
      BY <2>1 DEF Start, TypeOK
    <3>2. s.try <= try[p] /\ pc[p] # "idle"
          /\ (s.try = try[p] => pc[p] \notin {"initiate", "elect"})
      BY <2>1, <2>3 DEF StartSent
    <3>3. s.try <= try'[p] /\ pc'[p] # "idle"
          /\ (s.try = try'[p] => pc'[p] \notin {"initiate", "elect"})
      BY <3>1, <3>2 DEF Forward
    <3> QED  BY <2>3, <3>3 DEF StartSent
  <2> QED  BY <2>2, <2>3
<1>2. ASSUME NEW s \in Starts'  PROVE StartBacked(s)'
  <2>1. s \in Start /\ StartBacked(s)
    BY <1>2, StartsType DEF Inductive
  <2>2. answered[s.from] \subseteq answered'[s.from]
    BY <2>1 DEF AnswersKept, Start
  <2> QED  BY <2>1, <2>2 DEF StartBacked
<1>3. OneStartPerTry'
  BY DEF Inductive, OneStartPerTry
<1> QED  BY <1>1, <1>2, <1>3

(* Hosts that take no step stay consistent.                                 *)
LEMMA HostsStay ==
    ASSUME TypeOK, Inductive, NEW p \in Peer, Others(p), AnswersKept,
           HostConsistent(p)', InitiateConsistent(p)', RunConsistent(p)'
    PROVE  /\ \A q \in Peer : HostConsistent(q)'
           /\ \A q \in Peer : InitiateConsistent(q)'
           /\ \A q \in Peer : RunConsistent(q)'
<1> SUFFICES ASSUME NEW q \in Peer \ {p}
             PROVE  HostConsistent(q)' /\ InitiateConsistent(q)' /\ RunConsistent(q)'
  OBVIOUS
<1>1. HostConsistent(q)'
  BY DEF Inductive, HostConsistent, Others
<1>2. InitiateConsistent(q)'
  BY DEF Inductive, InitiateConsistent, Collecting, Others, AnswersKept
<1>3. RunConsistent(q)'
  BY DEF Inductive, RunConsistent, Others
<1> QED  BY <1>1, <1>2, <1>3

(* What a step has to show when it sends no start message.                  *)
LEMMA QuietStep ==
    ASSUME TypeOK, TypeOK', Inductive, NEW p \in Peer,
           Others(p), Forward(p), AnswersKept, Starts' \subseteq Starts,
           HostConsistent(p)', InitiateConsistent(p)', RunConsistent(p)',
           NetConsistent'
    PROVE  Inductive'
BY StartsStay, HostsStay DEF Inductive

-----------------------------------------------------------------------------
(* Entering start: the host initiates or waits.                             *)
LEMMA StartWithStep ==
    ASSUME TypeOK, TypeOK', Inductive, NEW p \in Peer,
           NEW c \in AllPeers \cup {NoPeer}, StartWith(p, c),
           \/ pc[p] = "idle" /\ c = StaticCoordinator(p)
           \/ pc[p] = "elect"
    PROVE  Inductive'
<1>1. Others(p) /\ AnswersKept /\ Forward(p)
  BY DEF StartWith, Others, AnswersKept, Forward, TypeOK
<1>2. Starts' \subseteq Starts
  <2>1. ASSUME NEW m \in net', m.type = "start"  PROVE m \in net
    BY <2>1 DEF StartWith, InitiateMsgs
  <2> QED  BY <2>1, StartsDef DEF StartWith
<1>3. HostConsistent(p)'
  BY DEF StartWith, TypeOK, Inductive, HostConsistent
<1>4. InitiateConsistent(p)'
  <2>1. CASE c = p
    <3>1. ready'[p] = {p}
      BY <2>1 DEF StartWith, TypeOK
    <3>2. Collecting(p)'
      BY <3>1, AloneIsNotEnough DEF Collecting
    <3> QED  BY <2>1, <3>1, <3>2 DEF StartWith, TypeOK, InitiateConsistent
  <2>2. CASE c # p
    BY <2>2 DEF StartWith, TypeOK, InitiateConsistent
  <2> QED  BY <2>1, <2>2
<1>5. RunConsistent(p)'
  BY DEF StartWith, TypeOK, RunConsistent
<1>6. NetConsistent'
  <2>1. \A m \in net' \ net : m.from # m.to /\ m.type = "initiate"
    BY DEF StartWith, InitiateMsgs
  <2>2. \A m \in net' : m.from # m.to
    BY <2>1 DEF Inductive, NetConsistent
  <2>3. \A m \in net' : m.type = "ready" => m.from \in answered'[m.to]
    BY <2>1 DEF Inductive, NetConsistent, StartWith
  <2>4. \A d, q \in Peer : q \in answered'[d] => pc'[q] # "idle"
    BY DEF Inductive, NetConsistent, StartWith, TypeOK
  <2> QED  BY <2>2, <2>3, <2>4 DEF NetConsistent
<1> QED  BY <1>1, <1>2, <1>3, <1>4, <1>5, <1>6, QuietStep

(* What becomes of the result of a host: an erring Run may have delivered.  *)
ResultStep(p) ==
    \/ UNCHANGED result
    \/ /\ pc[p] = "run"
       /\ \E r \in {"signature", "nil", "taproot", "keyshare"} :
            /\ result' = [result EXCEPT ![p] = r]
            /\ r = "signature" => coord[p] = p

(* Leaving a loop with an error.                                            *)
LEMMA HandleErrorStep ==
    ASSUME TypeOK, TypeOK', Inductive, NEW p \in Peer,
           pc[p] \in {"initiate", "wait", "run"},
           \/ Return(p, "error")
           \/ Retryable /\ try[p] = 1 /\ (AwaitAnyStart(p) \/ \E peers : Retry(p, peers)),
           UNCHANGED <<started, ran>>, ResultStep(p)
    PROVE  /\ HostConsistent(p)' /\ InitiateConsistent(p)' /\ RunConsistent(p)'
           /\ Forward(p) /\ pc'[p] \notin {"idle", "initiate", "run"}
           /\ \A q \in Peer \ {p} :
                /\ pc'[q] = pc[q] /\ try'[q] = try[q] /\ coord'[q] = coord[q]
                /\ outcome'[q] = outcome[q] /\ result'[q] = result[q]
<1>0. /\ try[p] = 1 /\ result'[p] = "signature" => coord[p] = p
      /\ \A q \in Peer \ {p} : result'[q] = result[q]
  BY DEF ResultStep, TypeOK, Inductive, HostConsistent
<1>1. CASE Return(p, "error")
  BY <1>0, <1>1 DEF Return, TypeOK, Inductive, HostConsistent, InitiateConsistent,
              RunConsistent, Forward
<1>2. CASE try[p] = 1 /\ AwaitAnyStart(p)
  BY <1>0, <1>2 DEF AwaitAnyStart, TypeOK, Inductive, HostConsistent, InitiateConsistent,
              RunConsistent, Forward
<1>3. CASE try[p] = 1 /\ \E peers : Retry(p, peers)
  BY <1>0, <1>3 DEF Retry, TypeOK, Inductive, HostConsistent, InitiateConsistent,
              RunConsistent, Forward
<1> QED  BY <1>1, <1>2, <1>3

(* handleError falls under the previous lemma.                              *)
LEMMA HandleErrorCases ==
    ASSUME TypeOK, NEW p \in Peer, NEW err, NEW peers, HandleError(p, err, peers)
    PROVE  \/ Return(p, "error")
           \/ Retryable /\ try[p] = 1 /\ (AwaitAnyStart(p) \/ Retry(p, peers))
BY DEF HandleError, TypeOK

(* A failing host that sends nothing.                                       *)
LEMMA FailStep ==
    ASSUME TypeOK, TypeOK', Inductive, NEW p \in Peer,
           pc[p] \in {"initiate", "wait", "run"},
           \/ Return(p, "error")
           \/ Retryable /\ try[p] = 1 /\ (AwaitAnyStart(p) \/ \E peers : Retry(p, peers)),
           UNCHANGED <<ready, started, net, answered, ran>>, ResultStep(p)
    PROVE  Inductive'
<1>1. /\ HostConsistent(p)' /\ InitiateConsistent(p)' /\ RunConsistent(p)'
      /\ Forward(p) /\ Others(p) /\ pc'[p] # "idle"
  BY HandleErrorStep DEF Others
<1>2. AnswersKept /\ Starts' \subseteq Starts
  BY StartsDef DEF AnswersKept
<1>3. NetConsistent'
  BY <1>1 DEF Inductive, NetConsistent, Others
<1> QED  BY <1>1, <1>2, <1>3, QuietStep

(* Run either starts the party or is refused with an error.                 *)
LEMMA RunStep ==
    ASSUME TypeOK, TypeOK', Inductive, NEW p \in Peer, NEW s \in Start,
           pc[p] \in {"initiate", "wait"}, Run(p, s), UNCHANGED result,
           s.from = p => coord[p] = p
    PROVE  /\ HostConsistent(p)' /\ InitiateConsistent(p)' /\ RunConsistent(p)'
           /\ Forward(p) /\ pc'[p] \notin {"idle", "initiate"}
           /\ pc'[p] = "elect" => try'[p] > try[p]
           /\ try'[p] >= try[p]
           /\ ran' = ran \/ ran' = [ran EXCEPT ![p] = @ \cup {s}]
           /\ \A q \in Peer \ {p} :
                /\ pc'[q] = pc[q] /\ try'[q] = try[q] /\ coord'[q] = coord[q]
                /\ started'[q] = started[q] /\ outcome'[q] = outcome[q]
<1>1. CASE p \notin Participants(s) \/ ~ParamsAccepted(p, s)
  <2>1. UNCHANGED <<started, ran>> /\ \E err : HandleError(p, err, {})
    BY <1>1 DEF Run
  <2>2. \/ Return(p, "error")
        \/ Retryable /\ try[p] = 1 /\ (AwaitAnyStart(p) \/ \E peers : Retry(p, peers))
    BY <2>1, HandleErrorCases
  <2>3. pc'[p] = "elect" => try'[p] > try[p]
    BY <2>2 DEF Return, AwaitAnyStart, Retry, TypeOK
  <2>4. try'[p] >= try[p]
    BY <2>2 DEF Return, AwaitAnyStart, Retry, TypeOK
  <2> QED  BY <2>1, <2>2, <2>3, <2>4, HandleErrorStep DEF ResultStep
<1>2. CASE p \in Participants(s) /\ ParamsAccepted(p, s)
  <2>1. /\ pc'    = [pc EXCEPT ![p] = "run"]
        /\ started' = [started EXCEPT ![p] = s]
        /\ ran'     = [ran EXCEPT ![p] = @ \cup {s}]
        /\ UNCHANGED <<try, coord, excluded, outcome>>
    BY <1>2 DEF Run
  <2>2. HostConsistent(p)' /\ InitiateConsistent(p)' /\ Forward(p)
    BY <2>1 DEF TypeOK, Inductive, HostConsistent, InitiateConsistent, Forward
  <2>3. RunConsistent(p)'
    BY <1>2, <2>1 DEF TypeOK, RunConsistent, Participants
  <2> QED  BY <2>1, <2>2, <2>3 DEF TypeOK
<1> QED  BY <1>1, <1>2

(* A participant takes a start message.                                     *)
LEMMA ReceiveStartStep ==
    ASSUME TypeOK, TypeOK', Inductive, NEW p \in Peer, NEW m \in net,
           ReceiveStart(p, m)
    PROVE  Inductive'
<1>1. /\ StartOf(m) \in Start /\ StartOf(m) \in Starts /\ m.from # p
      /\ StartOf(m).from = m.from /\ m.type = "start" /\ pc[p] = "wait"
  BY MessageTypes, StartsDef DEF ReceiveStart, TypeOK, Inductive, NetConsistent, StartOf
<1>2. net' \subseteq net /\ UNCHANGED <<ready, result, answered>>
  BY DEF ReceiveStart
<1>3. CASE Follows(p, m.from)
  <2>1. Run(p, StartOf(m))
    BY <1>3 DEF ReceiveStart
  <2>2. /\ HostConsistent(p)' /\ InitiateConsistent(p)' /\ RunConsistent(p)'
        /\ Forward(p) /\ pc'[p] # "idle"
        /\ ran' = ran \/ ran' = [ran EXCEPT ![p] = @ \cup {StartOf(m)}]
        /\ \A q \in Peer \ {p} :
             /\ pc'[q] = pc[q] /\ try'[q] = try[q] /\ coord'[q] = coord[q]
             /\ started'[q] = started[q] /\ outcome'[q] = outcome[q]
    BY <1>1, <1>2, <2>1, RunStep
  <2>3. Others(p) /\ AnswersKept
    BY <1>2, <2>2 DEF Others, AnswersKept, TypeOK
  <2>4. Starts' \subseteq Starts
    BY <1>1, <1>2, <2>2, StartsDef DEF TypeOK
  <2>5. NetConsistent'
    BY <1>2, <2>2 DEF Inductive, NetConsistent
  <2> QED  BY <2>2, <2>3, <2>4, <2>5, QuietStep
<1>4. CASE ~Follows(p, m.from)
  <2>1. UNCHANGED <<pc, try, coord, excluded, started, outcome, ran>>
    BY <1>4 DEF ReceiveStart
  <2>2. Others(p) /\ AnswersKept /\ Forward(p) /\ Starts' \subseteq Starts
    BY <1>2, <2>1, StartsDef DEF Others, AnswersKept, Forward
  <2>3. HostConsistent(p)' /\ InitiateConsistent(p)' /\ RunConsistent(p)'
    BY <1>2, <2>1 DEF Inductive, HostConsistent, InitiateConsistent, Collecting,
                      RunConsistent
  <2>4. NetConsistent'
    BY <1>2, <2>1 DEF Inductive, NetConsistent
  <2> QED  BY <2>2, <2>3, <2>4, QuietStep
<1> QED  BY <1>3, <1>4

(* A start message that Ready allows is backed by the answers collected.    *)
LEMMA NewStartBacked ==
    ASSUME TypeOK, Inductive, NEW c \in Peer, NEW R \in SUBSET Peer,
           R \subseteq answered[c] \cup {c}, Ready(R),
           NEW s, s = [from |-> c, try |-> try[c], params |-> StartParams(R)]
    PROVE  StartBacked(s)
<1>1. CASE Kind = "signing"
  <2>1. IsFiniteSet(R \cap KeyPeers) /\ Cardinality(R \cap KeyPeers) = Threshold + 1
    BY <1>1, PeerAssumption, FS_Subset DEF Ready, ReadyParticipants
  <2>2. s.params = FirstInSession(R \cap KeyPeers, Threshold + 1)
    BY <1>1 DEF StartParams, ReadyParticipants
  <2>3. s.params = R \cap KeyPeers
    BY <2>1, <2>2, FirstOfExactly, ThresholdAssumption DEF AllPeers
  <2> QED  BY <1>1, <2>1, <2>3 DEF StartBacked
<1>2. CASE Kind # "signing"
  <2>1. R = Peer
    BY <1>2, PeerAssumption, FS_Subset DEF Ready
  <2> QED  BY <1>2, <2>1 DEF StartBacked
<1> QED  BY <1>1, <1>2

(* An answer reaches the initiate loop.                                     *)
LEMMA ReceiveReadyStep ==
    ASSUME TypeOK, TypeOK', Inductive, NEW p \in Peer, NEW m \in net,
           ReceiveReady(p, m)
    PROVE  Inductive'
<1> DEFINE R == WithReady(p, m.from)
<1>1. /\ pc[p] = "initiate" /\ coord[p] = p /\ p \in ready[p] /\ Collecting(p)
      /\ m.from \in answered[p] /\ m.from \in Peer
      /\ ready[p] \subseteq answered[p] \cup {p}
  BY DEF ReceiveReady, Inductive, InitiateConsistent, NetConsistent, TypeOK
<1>2. R \in SUBSET Peer /\ R \subseteq answered[p] \cup {p} /\ p \in R
  BY <1>1, WithReadyType DEF WithReady
<1>3. PICK s \in Start : s = [from |-> p, try |-> try[p], params |-> StartParams(R)]
  BY <1>2, StartParamsType DEF TypeOK, Start
<1>4. UNCHANGED <<result, answered>> /\ ready' = [ready EXCEPT ![p] = R]
  BY DEF ReceiveReady
<1>5. CASE ~Ready(R)
  <2>1. net' \subseteq net /\ UNCHANGED <<pc, try, coord, excluded, started, outcome, ran>>
    BY <1>5 DEF ReceiveReady
  <2>2. Others(p) /\ AnswersKept /\ Forward(p) /\ Starts' \subseteq Starts
    BY <1>4, <2>1, StartsDef DEF Others, AnswersKept, Forward, TypeOK
  <2>3. ready'[p] = R
    BY <1>4 DEF TypeOK
  <2>4. Collecting(p)'
    BY <1>1, <1>5, <2>3, OneMoreAnswer DEF Collecting
  <2>5. InitiateConsistent(p)'
    BY <1>1, <1>2, <1>4, <2>1, <2>3, <2>4 DEF InitiateConsistent
  <2>6. HostConsistent(p)' /\ RunConsistent(p)'
    BY <1>4, <2>1 DEF Inductive, HostConsistent, RunConsistent
  <2>7. NetConsistent'
    BY <1>4, <2>1 DEF Inductive, NetConsistent
  <2> QED  BY <2>2, <2>5, <2>6, <2>7, QuietStep
<1>6. CASE Ready(R)
  <2>1. Run(p, s) /\ net' = (net \ {m}) \cup StartMsgs(s)
    BY <1>3, <1>6 DEF ReceiveReady
  <2>2. StartBacked(s)
    BY <1>2, <1>3, <1>6, NewStartBacked
  <2>3. s.from = p /\ s.try = try[p]
    BY <1>3
  <2>4. /\ HostConsistent(p)' /\ InitiateConsistent(p)' /\ RunConsistent(p)'
        /\ Forward(p) /\ pc'[p] \notin {"idle", "initiate"}
        /\ pc'[p] = "elect" => try'[p] > try[p]
        /\ try'[p] >= try[p]
        /\ ran' = ran \/ ran' = [ran EXCEPT ![p] = @ \cup {s}]
        /\ \A q \in Peer \ {p} :
             /\ pc'[q] = pc[q] /\ try'[q] = try[q] /\ coord'[q] = coord[q]
             /\ started'[q] = started[q] /\ outcome'[q] = outcome[q]
    BY <1>1, <1>3, <1>4, <2>1, RunStep
  <2>5. Others(p) /\ AnswersKept
    BY <1>4, <2>4 DEF Others, AnswersKept, TypeOK
  <2>6. Starts' \subseteq Starts \cup {s}
    <3>1. ASSUME NEW n \in StartMsgs(s)  PROVE StartOf(n) = s
      BY <1>3, <2>3 DEF StartMsgs, StartOf, Start
    <3>2. ASSUME NEW t \in Starts'  PROVE t \in Starts \cup {s}
      <4>1. CASE \E n \in net' : n.type = "start" /\ t = StartOf(n)
        BY <2>1, <3>1, <4>1, StartsDef
      <4>2. CASE \E q \in Peer : t \in ran'[q]
        BY <2>4, <4>2, StartsDef DEF TypeOK
      <4> QED  BY <3>2, <4>1, <4>2, StartsDef
    <3> QED  BY <3>2
  <2>7. \A q \in Peer : HostConsistent(q)' /\ InitiateConsistent(q)' /\ RunConsistent(q)'
    BY <2>4, <2>5, HostsStay
  <2>8. NetConsistent'
    <3>1. \A n \in StartMsgs(s) : n.from # n.to /\ n.type = "start"
      BY <1>3 DEF StartMsgs, Start
    <3>2. \A n \in net' : n.from # n.to
      BY <2>1, <3>1 DEF Inductive, NetConsistent
    <3>3. \A n \in net' : n.type = "ready" => n.from \in answered'[n.to]
      BY <1>4, <2>1, <3>1 DEF Inductive, NetConsistent
    <3>4. \A d, q \in Peer : q \in answered'[d] => pc'[q] # "idle"
      BY <1>4, <2>4 DEF Inductive, NetConsistent
    <3> QED  BY <3>2, <3>3, <3>4 DEF NetConsistent
  <2>9. ASSUME NEW t \in Starts, t.from = p  PROVE t.try # try[p]
    BY <1>1, <2>9 DEF Inductive, StartSent
  <2>10. ASSUME NEW t \in Starts'  PROVE StartSent(t)' /\ StartBacked(t)'
    <3>1. CASE t = s
      <4>1. StartSent(s)'
        BY <1>3, <2>3, <2>4 DEF StartSent, TypeOK
      <4>2. StartBacked(s)'
        BY <1>4, <2>2 DEF StartBacked
      <4> QED  BY <3>1, <4>1, <4>2
    <3>2. CASE t # s
      <4>1. t \in Starts /\ t \in Start /\ StartSent(t) /\ StartBacked(t)
        BY <2>6, <2>10, <3>2, StartsType DEF Inductive
      <4>2. StartBacked(t)'
        BY <1>4, <4>1 DEF StartBacked
      <4>3. CASE t.from # p
        BY <2>5, <4>1, <4>2, <4>3 DEF StartSent, Others
      <4>4. CASE t.from = p
        <5>1. t.try \in 1..2 /\ try[p] \in 1..2 /\ try'[p] \in 1..2
          BY <4>1 DEF Start, TypeOK
        <5>2. t.try < try[p]
          BY <2>9, <4>1, <4>4, <5>1 DEF StartSent
        <5> QED  BY <2>4, <4>1, <4>2, <4>4, <5>1, <5>2 DEF StartSent
      <4> QED  BY <4>2, <4>3, <4>4
    <3> QED  BY <3>1, <3>2
  <2>11. OneStartPerTry'
    <3> SUFFICES ASSUME NEW t \in Starts', NEW u \in Starts',
                        t.from = u.from, t.try = u.try
                 PROVE  t = u
      BY DEF OneStartPerTry
    <3>1. CASE t \in Starts /\ u \in Starts
      BY <3>1 DEF Inductive, OneStartPerTry
    <3> QED  BY <2>3, <2>6, <2>9, <3>1
  <2> QED  BY <2>7, <2>8, <2>10, <2>11 DEF Inductive
<1> QED  BY <1>5, <1>6

(* An initiate message is answered.                                         *)
LEMMA ReceiveInitiateStep ==
    ASSUME TypeOK, TypeOK', Inductive, NEW p \in Peer, NEW m \in net,
           ReceiveInitiate(p, m)
    PROVE  Inductive'
<1>1. /\ UNCHANGED <<pc, try, coord, excluded, ready, started, outcome, result, ran>>
      /\ pc[p] = "wait" /\ m.from # p /\ m.from \in Peer
  BY MessageTypes DEF ReceiveInitiate, host, Inductive, NetConsistent, TypeOK
<1>2. AnswersKept
  BY DEF ReceiveInitiate, AnswersKept, TypeOK
<1>3. Others(p) /\ Forward(p)
  BY <1>1 DEF Others, Forward
<1>4. \A n \in net' \ net : n = ReadyMsg(p, m.from) /\ p \in answered'[m.from]
  BY <1>1 DEF ReceiveInitiate, TypeOK
<1>5. Starts' \subseteq Starts
  <2>1. \A n \in net' : n.type = "start" => n \in net
    BY <1>4 DEF ReadyMsg
  <2> QED  BY <1>1, <2>1, StartsDef
<1>6. HostConsistent(p)' /\ InitiateConsistent(p)' /\ RunConsistent(p)'
  BY <1>1 DEF Inductive, HostConsistent, InitiateConsistent, RunConsistent
<1>7. NetConsistent'
  <2>1. \A n \in net' : n.from # n.to
    BY <1>1, <1>4 DEF Inductive, NetConsistent, ReadyMsg
  <2>2. \A n \in net : n.type = "ready" => n.from \in answered'[n.to]
    BY <1>2, MessageTypes DEF Inductive, NetConsistent, AnswersKept, TypeOK
  <2>3. \A n \in net' : n.type = "ready" => n.from \in answered'[n.to]
    BY <1>4, <2>2 DEF ReadyMsg
  <2>4. \A d, q \in Peer : q \in answered'[d] => q \in answered[d] \/ q = p
    BY DEF ReceiveInitiate, TypeOK
  <2>5. \A d, q \in Peer : q \in answered'[d] => pc'[q] # "idle"
    BY <1>1, <2>4 DEF Inductive, NetConsistent
  <2> QED  BY <2>1, <2>3, <2>5 DEF NetConsistent
<1> QED  BY <1>2, <1>3, <1>5, <1>6, <1>7, QuietStep

(* Messages only come from the initiate ticker, or go.                      *)
LEMMA NetStep ==
    ASSUME TypeOK, TypeOK', Inductive, UNCHANGED <<host, answered, ran>>,
           \A m \in net' \ net : m.type = "initiate" /\ m.from # m.to
    PROVE  Inductive'
<1>1. UNCHANGED <<pc, try, coord, excluded, ready, started, outcome, result>>
  BY DEF host
<1>2. Starts' \subseteq Starts
  BY StartsDef
<1>3. NetConsistent'
  BY <1>1 DEF Inductive, NetConsistent
<1>4. PICK p \in Peer : TRUE
  BY PeerAssumption, FS_EmptySet
<1>5. Others(p) /\ Forward(p) /\ AnswersKept
  BY <1>1 DEF Others, Forward, AnswersKept
<1>6. HostConsistent(p)' /\ InitiateConsistent(p)' /\ RunConsistent(p)'
  BY <1>1 DEF Inductive, HostConsistent, InitiateConsistent, Collecting, RunConsistent
<1> QED  BY <1>2, <1>3, <1>5, <1>6, QuietStep

(* A process delivers its result.                                           *)
LEMMA RunSucceedsStep ==
    ASSUME TypeOK, TypeOK', Inductive, NEW p \in Peer, RunSucceeds(p)
    PROVE  Inductive'
<1>1. /\ UNCHANGED <<try, coord, excluded, ready, started, net, answered, ran>>
      /\ pc[p] = "run" /\ result' = [result EXCEPT ![p] = Deliver(p)]
      /\ IF try[p] = 1 THEN /\ pc' = [pc EXCEPT ![p] = "done"]
                            /\ outcome' = [outcome EXCEPT ![p] = "ok"]
                       ELSE pc' = [pc EXCEPT ![p] = "held"] /\ UNCHANGED outcome
  BY DEF RunSucceeds, Succeed, Return
<1>2. Deliver(p) # "none" /\ (Deliver(p) = "signature" => coord[p] = p)
  BY <1>1 DEF Deliver, Inductive, RunConsistent
<1>3. Others(p) /\ Forward(p) /\ AnswersKept
  BY <1>1 DEF TypeOK, Others, Forward, AnswersKept
<1>4. Starts' \subseteq Starts
  BY <1>1, StartsDef
<1>5. HostConsistent(p)'
  BY <1>1, <1>2 DEF TypeOK, Inductive, HostConsistent
<1>6. InitiateConsistent(p)' /\ RunConsistent(p)'
  BY <1>1 DEF TypeOK, InitiateConsistent, RunConsistent
<1>7. NetConsistent'
  BY <1>1 DEF TypeOK, Inductive, NetConsistent
<1> QED  BY <1>3, <1>4, <1>5, <1>6, <1>7, QuietStep

(* The watchdog ends Execute.                                               *)
LEMMA TssTimeoutStep ==
    ASSUME TypeOK, TypeOK', Inductive, NEW p \in Peer, TssTimeout(p)
    PROVE  Inductive'
<1>1. CASE pc[p] # "held"
  BY <1>1, FailStep DEF TssTimeout, Watched, ResultStep
<1>2. CASE pc[p] = "held"
  <2>1. /\ UNCHANGED <<try, coord, excluded, ready, started, result, net, answered, ran>>
        /\ pc' = [pc EXCEPT ![p] = "done"]
        /\ outcome' = [outcome EXCEPT ![p] = "error"]
    BY DEF TssTimeout, Return
  <2>2. Others(p) /\ Forward(p) /\ AnswersKept
    BY <2>1 DEF TypeOK, Others, Forward, AnswersKept
  <2>3. Starts' \subseteq Starts
    BY <2>1, StartsDef
  <2>4. HostConsistent(p)'
    BY <1>2, <2>1 DEF TypeOK, Inductive, HostConsistent
  <2>5. InitiateConsistent(p)' /\ RunConsistent(p)'
    BY <2>1 DEF TypeOK, InitiateConsistent, RunConsistent
  <2>6. NetConsistent'
    BY <2>1 DEF TypeOK, Inductive, NetConsistent
  <2> QED  BY <2>2, <2>3, <2>4, <2>5, <2>6, QuietStep
<1> QED  BY <1>1, <1>2

(* A process that will never return.                                        *)
LEMMA RunHangsStep ==
    ASSUME TypeOK, TypeOK', Inductive, NEW p \in Peer, RunHangs(p)
    PROVE  Inductive'
<1>1. /\ UNCHANGED <<try, coord, excluded, outcome, ready, started, result, net,
                     answered, ran>>
      /\ pc[p] = "run" /\ pc' = [pc EXCEPT ![p] = "hung"]
  BY DEF RunHangs
<1>2. Others(p) /\ Forward(p) /\ AnswersKept
  BY <1>1 DEF TypeOK, Others, Forward, AnswersKept
<1>3. Starts' \subseteq Starts
  BY <1>1, StartsDef
<1>4. HostConsistent(p)'
  BY <1>1 DEF TypeOK, Inductive, HostConsistent
<1>5. InitiateConsistent(p)' /\ RunConsistent(p)'
  BY <1>1 DEF TypeOK, InitiateConsistent, RunConsistent
<1>6. NetConsistent'
  BY <1>1 DEF TypeOK, Inductive, NetConsistent
<1> QED  BY <1>2, <1>3, <1>4, <1>5, <1>6, QuietStep

(* A process or a silent coordinator fails the try, or a process errs after *)
(* it delivered.                                                            *)
LEMMA TryFailsStep ==
    ASSUME TypeOK, TypeOK', Inductive, NEW p \in Peer,
           CoordinatorTimeout(p) \/ RunErrsLate(p) \/ RunFails(p)
    PROVE  Inductive'
<1>1. /\ pc[p] \in {"initiate", "wait", "run"}
      /\ UNCHANGED <<ready, started, net, answered, ran>>
      /\ \E err, peers : HandleError(p, err, peers)
  BY DEF CoordinatorTimeout, RunErrsLate, RunFails, RunCommunicationError,
         RunTssError, RunOtherError
<1>2. \/ Return(p, "error")
      \/ Retryable /\ try[p] = 1 /\ (AwaitAnyStart(p) \/ \E peers : Retry(p, peers))
  BY <1>1, HandleErrorCases
<1>3. ResultStep(p)
  <2>1. CASE RunErrsLate(p)
    <3>1. pc[p] = "run" /\ result' = [result EXCEPT ![p] = Deliver(p)]
      BY <2>1 DEF RunErrsLate
    <3>2. /\ Deliver(p) \in {"signature", "nil", "taproot", "keyshare"}
          /\ Deliver(p) = "signature" => coord[p] = p
      BY <3>1 DEF Deliver, Inductive, RunConsistent
    <3> QED  BY <3>1, <3>2 DEF ResultStep
  <2>2. CASE CoordinatorTimeout(p) \/ RunFails(p)
    BY <2>2 DEF CoordinatorTimeout, RunFails, RunCommunicationError, RunTssError,
                RunOtherError, ResultStep
  <2> QED  BY <2>1, <2>2
<1> QED  BY <1>1, <1>2, <1>3, FailStep

(* The invariant holds initially and in every step.                         *)
LEMMA Invariance == Spec => []Inductive
<1>1. Init => Inductive
  <2> SUFFICES ASSUME Init  PROVE Inductive
    OBVIOUS
  <2>1. Starts = {}
    BY StartsDef DEF Init
  <2> QED
    BY <2>1 DEF Init, Inductive, HostConsistent, InitiateConsistent, RunConsistent,
                NetConsistent, OneStartPerTry
<1>2. TypeOK /\ TypeOK' /\ Inductive /\ [Next]_vars => Inductive'
  <2> SUFFICES ASSUME TypeOK, TypeOK', Inductive, [Next]_vars  PROVE Inductive'
    OBVIOUS
  <2>1. ASSUME NEW p \in Peer, Execute(p)  PROVE Inductive'
    BY <2>1, StaticCoordinatorType, StartWithStep DEF Execute
  <2>2. ASSUME NEW p \in Peer, Elected(p)  PROVE Inductive'
    BY <2>2, StartWithStep DEF Elected, AllPeers
  <2>3. ASSUME NEW p \in Peer, InitiateTick(p)  PROVE Inductive'
    <3>1. \A m \in net' \ net : m.type = "initiate" /\ m.from # m.to
      BY <2>3 DEF InitiateTick, InitiateMsgs
    <3> QED  BY <2>3, <3>1, NetStep DEF InitiateTick
  <2>4. ASSUME NEW p \in Peer, NEW m \in net,
               ReceiveReady(p, m) \/ ReceiveInitiate(p, m) \/ ReceiveStart(p, m)
        PROVE  Inductive'
    BY <2>4, ReceiveReadyStep, ReceiveInitiateStep, ReceiveStartStep
  <2>5. ASSUME NEW p \in Peer, RunSucceeds(p)  PROVE Inductive'
    BY <2>5, RunSucceedsStep
  <2>6. ASSUME NEW p \in Peer, CoordinatorTimeout(p) \/ RunErrsLate(p) \/ RunFails(p)
        PROVE  Inductive'
    BY <2>6, TryFailsStep
  <2>8. ASSUME NEW p \in Peer, RunHangs(p)  PROVE Inductive'
    BY <2>8, RunHangsStep
  <2>7. ASSUME NEW p \in Peer, TssTimeout(p)  PROVE Inductive'
    BY <2>7, TssTimeoutStep
  <2>9. ASSUME NEW m \in net, Drop(m)  PROVE Inductive'
    BY <2>9, NetStep DEF Drop
  <2>10. CASE UNCHANGED vars
    BY <2>10, NetStep DEF vars, host
  <2> QED
    BY <2>1, <2>2, <2>3, <2>4, <2>5, <2>6, <2>7, <2>9, <2>10, <2>8
    DEF Next, HostStep, Receive
<1> QED  BY <1>1, <1>2, Typing, PTL DEF Spec

-----------------------------------------------------------------------------
(* initiate's "==" is never stepped over, whatever the number of peers, the *)
(* threshold and the order of the answers: answers come one at a time, and  *)
(* the loop is left at the one that completes the number.                   *)
THEOREM Overshoot == Spec => []NeverOvershoots
<1>1. Inductive => NeverOvershoots
  BY DEF Inductive, NeverOvershoots, InitiateConsistent
<1> QED  BY <1>1, Invariance, PTL

(* A coordinator broadcasts one start message per try: initiate returns     *)
(* with the process it runs, and a retry has a try of its own.              *)
THEOREM UniqueStart == Spec => []OneStartPerTry
<1>1. Inductive => OneStartPerTry
  BY DEF Inductive
<1> QED  BY <1>1, Invariance, PTL

(* Every signing subset in use has threshold + 1 members that hold a        *)
(* keyshare and answered the coordinator that chose them.                   *)
THEOREM VolunteersOnly == Spec => []SubsetVolunteered
<1>1. Inductive => SubsetVolunteered
  BY DEF Inductive, SubsetVolunteered, StartBacked
<1> QED  BY <1>1, Invariance, PTL

(* Keygen and resharing start when all peers of the topology have joined.   *)
THEOREM AllJoined == Spec => []NobodyStartsAlone
<1>1. TypeOK /\ Inductive => NobodyStartsAlone
  <2> SUFFICES ASSUME TypeOK, Inductive, Kind # "signing",
                      NEW p \in Peer, pc[p] = "run", NEW q \in Peer
               PROVE  pc[q] # "idle"
    BY DEF NobodyStartsAlone
  <2>1. started[p] \in Starts
    BY StartsDef DEF Inductive, RunConsistent
  <2>2. /\ started[p].from \in Peer /\ pc[started[p].from] # "idle"
        /\ q \in answered[started[p].from] \cup {started[p].from}
    BY <2>1 DEF Inductive, StartSent, StartBacked
  <2> QED  BY <2>2 DEF Inductive, NetConsistent
<1> QED  BY <1>1, Typing, Invariance, PTL

(* In the first try the static elector names the same coordinator           *)
(* everywhere.                                                              *)
LEMMA OneSigner == TypeOK /\ Inductive => OneSignatureReturned
<1> SUFFICES ASSUME TypeOK, Inductive, NEW p \in Peer, NEW q \in Peer,
                    outcome[p] = "ok", result[p] = "signature",
                    outcome[q] = "ok", result[q] = "signature"
             PROVE  p = q
  BY DEF OneSignatureReturned
<1>1. /\ StaticCoordinator(p) = p /\ StaticCoordinator(q) = q
  BY DEF Inductive, HostConsistent
<1>2. p # NoPeer /\ q # NoPeer
  BY PeerAssumption DEF AllPeers
<1>3. ValidCoordinators(p) # {} /\ ValidCoordinators(q) # {}
  BY <1>1, <1>2 DEF StaticCoordinator
<1>4. ValidCoordinators(p) = ValidCoordinators(q)
  BY <1>3, KindAssumption, SchemeAssumption DEF ValidCoordinators, Kinds
<1>5. /\ p \in ValidCoordinators(p) /\ q \in ValidCoordinators(p)
      /\ Rank[p] <= Rank[q] /\ Rank[q] <= Rank[p]
  BY <1>1, <1>3, <1>4, StaticCoordinatorFirst
<1> QED  BY <1>5, RankAssumption DEF AllPeers

(* Two callers never both get a signature of the session: only a            *)
(* coordinator gets one, success is of the first try, and in the first try  *)
(* the static elector names the same coordinator everywhere.                *)
THEOREM SignatureOnce == Spec => []OneSignatureReturned
<1> QED  BY OneSigner, Typing, Invariance, PTL

-----------------------------------------------------------------------------
(* The refinement of TssSession, step by step: a step of the coordinator is *)
(* a join, a delivery, an abandoned session or nothing the callers see.     *)
Quiet == UNCHANGED <<ran, outcome, result>>

LEMMA HandleErrorRefines ==
    ASSUME TypeOK, Inductive, NEW p \in Peer, pc[p] \in {"initiate", "wait", "run"},
           NEW err, NEW peers, HandleError(p, err, peers), UNCHANGED <<ran, result>>
    PROVE  Quiet \/ Session!Next
<1>1. CASE Return(p, "error")
  <2>1. outcome[p] = "none"
    BY DEF Inductive, HostConsistent
  <2>2. Session!GiveUp(p)
    BY <1>1, <2>1 DEF Session!GiveUp, Return
  <2> QED  BY <2>2 DEF Session!Next
<1>2. CASE AwaitAnyStart(p) \/ Retry(p, peers)
  BY <1>2 DEF AwaitAnyStart, Retry, Quiet
<1> QED  BY <1>1, <1>2, HandleErrorCases

LEMMA RunRefines ==
    ASSUME TypeOK, Inductive, OneStartPerTry', NEW p \in Peer, NEW s \in Start,
           pc[p] \in {"initiate", "wait"}, Run(p, s), UNCHANGED result
    PROVE  Quiet \/ Session!Next
<1>1. CASE p \notin Participants(s) \/ ~ParamsAccepted(p, s)
  <2>1. UNCHANGED ran /\ \E err : HandleError(p, err, {})
    BY <1>1 DEF Run
  <2> QED  BY <2>1, HandleErrorRefines
<1>2. CASE p \in Participants(s) /\ ParamsAccepted(p, s)
  <2>1. UNCHANGED <<outcome, result>> /\ ran' = [ran EXCEPT ![p] = @ \cup {s}]
    BY <1>2 DEF Run
  <2>2. s \in ran'[p] /\ \A q \in Peer : ran[q] \subseteq ran'[q] /\ ran[q] \subseteq Start
    BY <2>1 DEF TypeOK
  <2>3. \A q \in Peer : \A e \in ran[q] : e.from = s.from /\ e.try = s.try => e = s
    BY <2>2, StartsDef DEF OneStartPerTry
  <2>4. outcome[p] = "none"
    BY DEF Inductive, HostConsistent
  <2>5. [t \in Start |-> Participants(t)][s] = Participants(s)
    OBVIOUS
  <2>6. Session!Join(p, s)
    BY <1>2, <2>1, <2>3, <2>4, <2>5 DEF Session!Join
  <2>7. CASE s \in ran[p]
    BY <2>1, <2>7 DEF TypeOK, Quiet
  <2>8. CASE s \notin ran[p]
    BY <2>2, <2>6, <2>8 DEF Session!Next
  <2> QED  BY <2>7, <2>8
<1> QED  BY <1>1, <1>2

LEMMA DeliveryRefines ==
    ASSUME TypeOK, Inductive, OneSignatureReturned', NEW p \in Peer,
           pc[p] = "run", RoundsComplete(p), result[p] = "none",
           result' = [result EXCEPT ![p] = Deliver(p)], UNCHANGED ran,
           NEW o \in {"none", "ok", "error"}, outcome' = [outcome EXCEPT ![p] = o]
    PROVE  Session!Next
<1> DEFINE d == started[p]
           Parties == [t \in Start |-> Participants(t)]
<1>1. d \in ran[p] /\ d \in Start /\ outcome[p] = "none"
  BY DEF Inductive, RunConsistent, HostConsistent, TypeOK
<1>2. Parties[d] = Participants(d)
      /\ \A q \in Peer : \A e \in ran[q] : Parties[e] = Participants(e)
  BY <1>1 DEF TypeOK
<1>3. Participants(d) \subseteq Peer
  <2>1. d \in Starts /\ d.from \in Peer
    BY <1>1, StartsDef DEF Start
  <2>2. answered[d.from] \in SUBSET Peer /\ StartBacked(d)
    BY <2>1 DEF TypeOK, Inductive
  <2> QED  BY <2>1, <2>2 DEF StartBacked, Participants
<1>4. Session!Complete(d)
  BY <1>2, <1>3 DEF RoundsComplete, Session!Complete
<1>5. Deliver(p) \in Session!Results /\ (Deliver(p) = "signature" => d.from = p)
  BY DEF Deliver, Session!Results
<1>6. (o = "ok" /\ Deliver(p) = "signature") =>
        \A q \in Peer \ {p} : ~(outcome[q] = "ok" /\ result[q] = "signature")
  BY DEF OneSignatureReturned, TypeOK
<1>7. Session!ReturnWith(p, Deliver(p), o)
  BY <1>6 DEF Session!ReturnWith
<1>8. Session!Deliver(p)
  BY <1>1, <1>5, <1>7, <1>4 DEF Session!Deliver
<1> QED  BY <1>8 DEF Session!Next

(* The coordinator keeps the promise of TssSession for any peers, process,  *)
(* threshold and faults.                                                    *)
THEOREM SessionRefined == Spec => ImplementsSession
<1>1. Init => Session!Init
  BY DEF Init, Session!Init
<1>2. TypeOK /\ Inductive /\ OneStartPerTry' /\ OneSignatureReturned' /\ [Next]_vars
        => [Session!Next]_(Session!session)
  <2> SUFFICES ASSUME TypeOK, Inductive, OneStartPerTry', OneSignatureReturned',
                      [Next]_vars
               PROVE  Quiet \/ Session!Next
    BY DEF Quiet, Session!session
  <2>1. ASSUME NEW p \in Peer,
               \/ Execute(p) \/ InitiateTick(p) \/ Elected(p) \/ RunHangs(p)
               \/ \E m \in net : ReceiveInitiate(p, m)
        PROVE  Quiet
    BY <2>1 DEF Execute, InitiateTick, Elected, RunHangs, ReceiveInitiate, StartWith,
                host, Quiet
  <2>2. ASSUME NEW p \in Peer, NEW m \in net, ReceiveReady(p, m)
        PROVE  Quiet \/ Session!Next
    <3> DEFINE R == WithReady(p, m.from)
               s == [from |-> p, try |-> try[p], params |-> StartParams(R)]
    <3>1. m.from \in Peer /\ pc[p] = "initiate" /\ UNCHANGED result
      BY <2>2 DEF TypeOK, ReceiveReady, Message, Signal
    <3>2. s \in Start
      BY <3>1, WithReadyType, StartParamsType DEF TypeOK, Start
    <3>3. Run(p, s) \/ UNCHANGED <<ran, outcome>>
      BY <2>2 DEF ReceiveReady
    <3> HIDE DEF s
    <3> QED  BY <3>1, <3>2, <3>3, RunRefines DEF Quiet
  <2>3. ASSUME NEW p \in Peer, NEW m \in net, ReceiveStart(p, m)
        PROVE  Quiet \/ Session!Next
    <3>1. StartOf(m) \in Start /\ pc[p] = "wait" /\ UNCHANGED result
      BY <2>3, MessageTypes DEF ReceiveStart, TypeOK
    <3>2. Run(p, StartOf(m)) \/ UNCHANGED <<ran, outcome>>
      BY <2>3 DEF ReceiveStart
    <3> QED  BY <3>1, <3>2, RunRefines DEF Quiet
  <2>4. ASSUME NEW p \in Peer, CoordinatorTimeout(p) \/ RunFails(p)
        PROVE  Quiet \/ Session!Next
    <3>1. /\ pc[p] \in {"initiate", "wait", "run"} /\ UNCHANGED <<ran, result>>
          /\ \E err, peers : HandleError(p, err, peers)
      BY <2>4 DEF CoordinatorTimeout, RunFails, RunCommunicationError, RunTssError,
                  RunOtherError
    <3> QED  BY <3>1, HandleErrorRefines
  <2>5. ASSUME NEW p \in Peer, RunSucceeds(p)  PROVE Session!Next
    <3>1. \E o \in {"none", "ok"} : outcome' = [outcome EXCEPT ![p] = o]
      <4>1. outcome[p] = "none"
        BY <2>5 DEF RunSucceeds, Inductive, HostConsistent
      <4> QED  BY <2>5, <4>1 DEF RunSucceeds, Succeed, Return, TypeOK
    <3> QED  BY <2>5, <3>1, DeliveryRefines DEF RunSucceeds
  <2>6. ASSUME NEW p \in Peer, RunErrsLate(p)  PROVE Session!Next
    <3>1. \E o \in {"none", "error"} : outcome' = [outcome EXCEPT ![p] = o]
      <4>1. outcome[p] = "none"
        BY <2>6 DEF RunErrsLate, Inductive, HostConsistent
      <4>2. \E err, peers : HandleError(p, err, peers)
        BY <2>6 DEF RunErrsLate
      <4>3. Return(p, "error") \/ UNCHANGED outcome
        BY <4>2, HandleErrorCases DEF AwaitAnyStart, Retry
      <4> QED  BY <4>1, <4>3 DEF Return, TypeOK
    <3> QED  BY <2>6, <3>1, DeliveryRefines DEF RunErrsLate
  <2>7. ASSUME NEW p \in Peer, TssTimeout(p)  PROVE Session!Next
    <3>1. Session!GiveUp(p)
      BY <2>7 DEF TssTimeout, Watched, Return, Inductive, HostConsistent, Session!GiveUp
    <3> QED  BY <3>1 DEF Session!Next
  <2>8. CASE (\E m \in net : Drop(m)) \/ UNCHANGED vars
    BY <2>8 DEF Drop, host, vars, Quiet
  <2> QED
    BY <2>1, <2>2, <2>3, <2>4, <2>5, <2>6, <2>7, <2>8 DEF Next, HostStep, Receive
<1> QED
  BY <1>1, <1>2, OneSigner, UniqueStart, Typing, Invariance, PTL
  DEF Spec, ImplementsSession, Session!Spec
=============================================================================
