-------------------------- MODULE ProcessRun_proofs --------------------------
(***************************************************************************)
(* Proofs about ProcessRun: the invariants and the action property that    *)
(* the run checks, for any number of messages.                             *)
(***************************************************************************)
EXTENDS ProcessRun, TLAPS

(* What pool.Wait makes of the errors: nil only if there is none, and an    *)
(* error of the type of one of them, or of no type.                         *)
LEMMA CombinedErrors ==
    ASSUME NEW E \in SUBSET Errors
    PROVE  /\ Combined(E) \in Errors \cup {"ok"}
           /\ Combined(E) = "ok" => E = {}
           /\ Combined(E) \in Retried => Combined(E) \in E
  <1>1. CASE E = {}
    BY <1>1 DEF Combined, Retried
  <1>2. CASE E # {} /\ Cardinality(E) = 1
    <2>1. (CHOOSE e \in E : TRUE) \in E
      BY <1>2
    <2>2. QED
      BY <1>2, <2>1 DEF Combined, Errors
  <1>3. CASE E # {} /\ Cardinality(E) # 1
    BY <1>3 DEF Combined, Errors, Retried
  <1>4. QED
    BY <1>1, <1>2, <1>3

(* The invariant holds initially.                                           *)
LEMMA InitInductive == Init => Inductive
  <1> SUFFICES ASSUME Init PROVE Inductive
    OBVIOUS
  <1>1. TypeOK
    BY DEF Init, TypeOK
  <1>2. Goroutines /\ Calls /\ Contexts /\ Results
    BY DEF Init, Gone, Goroutines, Calls, Contexts, Results
  <1>3. FrostOrder /\ NilMeansResult /\ FrostSentAll /\ SecondResult
    BY DEF Init, FrostOrder, NilMeansResult, FrostSentAll, SecondResult
  <1>4. QED
    BY <1>1, <1>2, <1>3 DEF Inductive

(* Run, up to the start of its goroutines, keeps it.                        *)
LEMMA RunInductive == Inductive /\ Run => Inductive'
  <1> SUFFICES ASSUME Inductive, Run PROVE Inductive'
    OBVIOUS
  <1> USE DEF Is, Retried, Errors, Gone, pool, party, context, which, returns
  <1>1. CASE \E e \in {"other", "subset"} : main = "idle" /\ ReturnEarly(e)
    BY <1>1 DEF ReturnEarly, Inductive, TypeOK, Goroutines, Calls, Contexts,
       Results, FrostOrder, NilMeansResult, FrostSentAll, SecondResult
  <1>2. CASE main = "idle" /\ scheme = "ecdsa" /\ \E m \in {"off", "select"} : StartParty(m)
    BY <1>2 DEF StartParty, Inductive, TypeOK, Goroutines, Calls, Contexts,
       Results, FrostOrder, NilMeansResult, FrostSentAll, SecondResult
  <1>3. CASE main = "idle" /\ scheme = "frost" /\ StartHandler
    BY <1>3 DEF StartHandler, Inductive, TypeOK, Goroutines, Calls, Contexts,
       Results, FrostOrder, NilMeansResult, FrostSentAll, SecondResult
  <1>4. QED
    BY <1>1, <1>2, <1>3 DEF Run, KeygenRun, SigningRun, ResharingRun,
       FrostKeygenRun, FrostSigningRun, FrostResharingRun

(* The party keeps it.                                                      *)
LEMMA PartyInductive == Inductive /\ PartyStep => Inductive'
  <1> SUFFICES ASSUME Inductive, PartyStep PROVE Inductive'
    OBVIOUS
  <1> USE DEF Retried, Errors, Gone, pool, party, context, which, returns, Inductive,
       TypeOK, Goroutines, Calls, Contexts, Results, FrostOrder,
       NilMeansResult, FrostSentAll, SecondResult, Is
  <1>1. CASE PartySends
    BY <1>1 DEF PartySends
  <1>2. CASE PartyEnds
    BY <1>2 DEF PartyEnds
  <1>3. CASE HandlerSends
    BY <1>3 DEF HandlerSends
  <1>4. CASE HandlerEnds
    BY <1>4 DEF HandlerEnds
  <1>5. QED
    BY <1>1, <1>2, <1>3, <1>4 DEF PartyStep

(* ProcessOutboundMessages keeps it.                                        *)
LEMMA OutInductive == Inductive /\ OutStep => Inductive'
  <1> SUFFICES ASSUME Inductive, OutStep PROVE Inductive'
    OBVIOUS
  <1> USE DEF Retried, Errors, Gone, pool, party, context, which, returns, Inductive,
       TypeOK, Goroutines, Calls, Contexts, Results, FrostOrder,
       NilMeansResult, FrostSentAll, SecondResult, Is
  <1>1. CASE OutTakes
    BY <1>1 DEF OutTakes
  <1>2. CASE PauseEnds
    BY <1>2 DEF PauseEnds
  <1>3. CASE Listen
    BY <1>3 DEF Listen
  <1>4. CASE Broadcast
    <2>1. TypeOK'
      <3>1. errs' \subseteq Errors /\ cancelled' \in BOOLEAN /\ outer' \in BOOLEAN
        BY <1>4 DEF Broadcast, Fail
      <3>2. QED
        BY <1>4, <3>1 DEF Broadcast, Fail
    <2>2. Goroutines' /\ Calls' /\ Contexts'
      BY <1>4 DEF Broadcast, Fail
    <2>3. Results' /\ FrostOrder'
      BY <1>4 DEF Broadcast, Fail
    <2>4. NilMeansResult' /\ FrostSentAll' /\ SecondResult'
      BY <1>4 DEF Broadcast, Fail
    <2>5. QED
      BY <2>1, <2>2, <2>3, <2>4
  <1>5. CASE OutLeaves
    BY <1>5 DEF OutLeaves
  <1>6. QED
    BY <1>1, <1>2, <1>3, <1>4, <1>5 DEF OutStep

(* ProcessInboundMessages keeps it.                                         *)
LEMMA InInductive == Inductive /\ (InTakes \/ Malformed \/ UpdatePanics \/ InStep) => Inductive'
  <1> SUFFICES ASSUME Inductive, InTakes \/ Malformed \/ UpdatePanics \/ InStep PROVE Inductive'
    OBVIOUS
  <1> USE DEF Retried, Errors, Gone, pool, party, context, which, returns, Inductive,
       TypeOK, Goroutines, Calls, Contexts, Results, FrostOrder,
       NilMeansResult, FrostSentAll, SecondResult, Is
  <1>1. CASE InTakes
    BY <1>1 DEF InTakes
  <1>2. CASE Malformed
    BY <1>2 DEF Malformed, Fail
  <1>3. CASE UpdateBegins
    BY <1>3 DEF UpdateBegins
  <1>4. CASE UpdateReturns
    <2>1. TypeOK'
      <3>1. errs' \subseteq Errors /\ cancelled' \in BOOLEAN /\ outer' \in BOOLEAN
        BY <1>4 DEF UpdateReturns, Fail
      <3>2. QED
        BY <1>4, <3>1 DEF UpdateReturns, Fail
    <2>2. Goroutines' /\ Calls' /\ Contexts'
      BY <1>4 DEF UpdateReturns, Fail
    <2>3. Results' /\ FrostOrder'
      BY <1>4 DEF UpdateReturns, Fail
    <2>4. NilMeansResult' /\ FrostSentAll' /\ SecondResult'
      BY <1>4 DEF UpdateReturns, Fail
    <2>5. QED
      BY <2>1, <2>2, <2>3, <2>4
  <1>5. CASE InLeaves
    BY <1>5 DEF InLeaves
  <1>6. CASE UpdatePanics
    <2>1. TypeOK'
      <3>1. errs' \subseteq Errors /\ cancelled' \in BOOLEAN /\ outer' \in BOOLEAN
        BY <1>6 DEF UpdatePanics, Fail
      <3>2. QED
        BY <1>6, <3>1 DEF UpdatePanics, Fail
    <2>2. Goroutines' /\ Calls' /\ Contexts'
      BY <1>6 DEF UpdatePanics, Fail
    <2>3. Results' /\ FrostOrder'
      BY <1>6 DEF UpdatePanics, Fail
    <2>4. NilMeansResult' /\ FrostSentAll' /\ SecondResult'
      BY <1>6 DEF UpdatePanics, Fail
    <2>5. QED
      BY <2>1, <2>2, <2>3, <2>4
  <1>7. QED
    BY <1>1, <1>2, <1>3, <1>4, <1>5, <1>6 DEF InStep

(* processEndMessage keeps it.                                              *)
LEMMA EndInductive == Inductive /\ EndStep => Inductive'
  <1> SUFFICES ASSUME Inductive, EndStep PROVE Inductive'
    OBVIOUS
  <1> USE DEF Retried, Errors, Gone, pool, party, context, which, returns, Inductive,
       TypeOK, Goroutines, Calls, Contexts, Results, FrostOrder,
       NilMeansResult, FrostSentAll, SecondResult, Is
  <1>1. CASE EndTakes
    BY <1>1 DEF EndTakes
  <1>2. CASE Done
    BY <1>2 DEF Done
  <1>3. CASE EndFinishes
    <2> USE <1>3 DEF EndFinishes, EndsWell, EndsBadly, Fail
    <2>1. CASE KeygenStores
      <3>1. TypeOK'
        <4>1. /\ errs' \subseteq Errors /\ cancelled' \in BOOLEAN /\ outer' \in BOOLEAN
              /\ end' = "left" /\ delivered' \in BOOLEAN
          BY <2>1 DEF KeygenStores
        <4>2. QED
          BY <2>1, <4>1 DEF KeygenStores
      <3>2. Goroutines' /\ Calls' /\ Contexts'
        BY <2>1 DEF KeygenStores
      <3>3. Results' /\ FrostOrder'
        BY <2>1 DEF KeygenStores
      <3>4. NilMeansResult' /\ FrostSentAll' /\ SecondResult'
        BY <2>1 DEF KeygenStores
      <3>5. QED
        BY <3>1, <3>2, <3>3, <3>4
    <2>2. CASE ResharingStores
      <3>1. TypeOK'
        <4>1. /\ errs' \subseteq Errors /\ cancelled' \in BOOLEAN /\ outer' \in BOOLEAN
              /\ end' = "left" /\ delivered' \in BOOLEAN
          BY <2>2 DEF ResharingStores
        <4>2. QED
          BY <2>2, <4>1 DEF ResharingStores
      <3>2. Goroutines' /\ Calls' /\ Contexts'
        BY <2>2 DEF ResharingStores
      <3>3. Results' /\ FrostOrder'
        BY <2>2 DEF ResharingStores
      <3>4. NilMeansResult' /\ FrostSentAll' /\ SecondResult'
        BY <2>2 DEF ResharingStores
      <3>5. QED
        BY <3>1, <3>2, <3>3, <3>4
    <2>3. CASE SigningDelivers
      <3>1. TypeOK'
        <4>1. errs' \subseteq Errors /\ cancelled' \in BOOLEAN /\ outer' \in BOOLEAN
          BY <2>3 DEF SigningDelivers
        <4>2. QED
          BY <2>3, <4>1 DEF SigningDelivers
      <3>2. Goroutines' /\ Calls' /\ Contexts'
        BY <2>3 DEF SigningDelivers
      <3>3. Results' /\ FrostOrder'
        BY <2>3 DEF SigningDelivers
      <3>4. NilMeansResult' /\ FrostSentAll' /\ SecondResult'
        BY <2>3 DEF SigningDelivers
      <3>5. QED
        BY <3>1, <3>2, <3>3, <3>4
    <2>4. CASE FrostKeygenStores
      <3>1. TypeOK'
        <4>1. errs' \subseteq Errors /\ cancelled' \in BOOLEAN /\ outer' \in BOOLEAN
          BY <2>4 DEF FrostKeygenStores
        <4>2. QED
          BY <2>4, <4>1 DEF FrostKeygenStores
      <3>2. Goroutines' /\ Calls' /\ Contexts'
        BY <2>4 DEF FrostKeygenStores
      <3>3. Results' /\ FrostOrder'
        <4>1. /\ errs' \subseteq {"communication", "other"}
              /\ "communication" \in errs' => "communication" \in errs
          BY <2>4 DEF FrostKeygenStores
        <4>2. end' = "left" /\ verdict' = "none" /\ finished' /\ offer' = "none"
          BY <2>4 DEF FrostKeygenStores
        <4>3. Results'
          BY <2>4, <4>2 DEF FrostKeygenStores
        <4>4. FrostOrder'
          BY <2>4, <4>1, <4>2 DEF FrostKeygenStores
        <4>5. QED
          BY <4>3, <4>4
      <3>4. NilMeansResult' /\ FrostSentAll' /\ SecondResult'
        BY <2>4 DEF FrostKeygenStores
      <3>5. QED
        BY <3>1, <3>2, <3>3, <3>4
    <2>5. CASE FrostResharingStores
      <3>1. TypeOK'
        <4>1. errs' \subseteq Errors /\ cancelled' \in BOOLEAN /\ outer' \in BOOLEAN
          BY <2>5 DEF FrostResharingStores
        <4>2. QED
          BY <2>5, <4>1 DEF FrostResharingStores
      <3>2. Goroutines' /\ Calls' /\ Contexts'
        BY <2>5 DEF FrostResharingStores
      <3>3. Results' /\ FrostOrder'
        <4>1. /\ errs' \subseteq {"communication", "other"}
              /\ "communication" \in errs' => "communication" \in errs
          BY <2>5 DEF FrostResharingStores
        <4>2. end' = "left" /\ verdict' = "none" /\ finished' /\ offer' = "none"
          BY <2>5 DEF FrostResharingStores
        <4>3. Results'
          BY <2>5, <4>2 DEF FrostResharingStores
        <4>4. FrostOrder'
          BY <2>5, <4>1, <4>2 DEF FrostResharingStores
        <4>5. QED
          BY <4>3, <4>4
      <3>4. NilMeansResult' /\ FrostSentAll' /\ SecondResult'
        BY <2>5 DEF FrostResharingStores
      <3>5. QED
        BY <3>1, <3>2, <3>3, <3>4
    <2>6. CASE FrostSigningDelivers
      <3>1. TypeOK'
        <4>1. errs' \subseteq Errors /\ cancelled' \in BOOLEAN /\ outer' \in BOOLEAN
          BY <2>6 DEF FrostSigningDelivers
        <4>2. QED
          BY <2>6, <4>1 DEF FrostSigningDelivers
      <3>2. Goroutines' /\ Calls' /\ Contexts'
        BY <2>6 DEF FrostSigningDelivers
      <3>3. Results' /\ FrostOrder'
        <4>1. /\ errs' \subseteq {"communication", "other"}
              /\ "communication" \in errs' => "communication" \in errs
          BY <2>6 DEF FrostSigningDelivers
        <4>2. end' = "left" /\ verdict' = "none" /\ finished' /\ offer' = "none"
          BY <2>6 DEF FrostSigningDelivers
        <4>3. Results'
          BY <2>6, <4>2 DEF FrostSigningDelivers
        <4>4. FrostOrder'
          BY <2>6, <4>1, <4>2 DEF FrostSigningDelivers
        <4>5. QED
          BY <4>3, <4>4
      <3>4. NilMeansResult' /\ FrostSentAll' /\ SecondResult'
        BY <2>6 DEF FrostSigningDelivers
      <3>5. QED
        BY <3>1, <3>2, <3>3, <3>4
    <2>7. QED
      BY <2>1, <2>2, <2>3, <2>4, <2>5, <2>6
  <1>4. CASE EndLeaves
    BY <1>4 DEF EndLeaves
  <1>5. QED
    BY <1>1, <1>2, <1>3, <1>4 DEF EndStep

(* monitorSigning keeps it.                                                 *)
LEMMA MonInductive == Inductive /\ (MonStep \/ MonLeaves) => Inductive'
  <1> SUFFICES ASSUME Inductive, MonStep \/ MonLeaves PROVE Inductive'
    OBVIOUS
  <1> USE DEF Retried, Errors, Gone, pool, party, context, which, returns, Inductive,
       TypeOK, Goroutines, Calls, Contexts, Results, FrostOrder,
       NilMeansResult, FrostSentAll, SecondResult, Is
  <1>1. CASE Tick
    BY <1>1 DEF Tick
  <1>2. CASE Monitor
    <2>1. TypeOK'
      <3>1. errs' \subseteq Errors /\ cancelled' \in BOOLEAN /\ outer' \in BOOLEAN
        BY <1>2 DEF Monitor, Fail
      <3>2. QED
        BY <1>2, <3>1 DEF Monitor, Fail
    <2>2. Goroutines' /\ Calls' /\ Contexts'
      BY <1>2 DEF Monitor, Fail
    <2>3. Results' /\ FrostOrder'
      BY <1>2 DEF Monitor, Fail
    <2>4. NilMeansResult' /\ FrostSentAll' /\ SecondResult'
      BY <1>2 DEF Monitor, Fail
    <2>5. QED
      BY <2>1, <2>2, <2>3, <2>4
  <1>3. CASE MonLeaves
    BY <1>3 DEF MonLeaves
  <1>4. QED
    BY <1>1, <1>2, <1>3 DEF MonStep

(* Run's own steps, its watchdog, a second call and Stop keep it.  This is  *)
(* where the errors of the goroutines become what Run returns.              *)
LEMMA MainInductive ==
    Inductive /\ (MainStep \/ CancelSession \/ RunAgain \/ Stop) => Inductive'
  <1> SUFFICES ASSUME Inductive, MainStep \/ CancelSession \/ RunAgain \/ Stop
               PROVE  Inductive'
    OBVIOUS
  <1> USE DEF Gone, pool, party, context, which, returns, Inductive,
       TypeOK, Goroutines, Calls, Contexts, Results, FrostOrder,
       NilMeansResult, FrostSentAll, SecondResult, Is
  <1>1. CASE StartReturns
    BY <1>1 DEF StartReturns, Errors, Retried
  <1>2. CASE StartFails
    BY <1>2 DEF StartFails, Errors, Retried
  <1>3. CASE WaitReturns
    <2>1. /\ Combined(errs) \in Errors \cup {"ok"}
          /\ Combined(errs) = "ok" => errs = {}
          /\ Combined(errs) \in Retried => Combined(errs) \in errs
      BY CombinedErrors
    <2>2. end = "left" /\ cancelled
      BY <1>3 DEF WaitReturns, Ended
    <2>3. scheme = "frost" /\ delivered => verdict' \notin Retried
      BY <1>3, <2>1 DEF WaitReturns, Retried
    <2>4. QED
      <3>1. TypeOK'
        BY <1>3, <2>1, <2>2, <2>3 DEF WaitReturns, Errors
      <3>2. Goroutines' /\ Calls' /\ Contexts'
        BY <1>3, <2>1, <2>2, <2>3 DEF WaitReturns, Errors
      <3>3. Results' /\ FrostOrder'
        BY <1>3, <2>1, <2>2, <2>3 DEF WaitReturns, Errors
      <3>4. NilMeansResult' /\ FrostSentAll' /\ SecondResult'
        BY <1>3, <2>1, <2>2, <2>3 DEF WaitReturns, Errors
      <3>5. QED
        BY <3>1, <3>2, <3>3, <3>4
  <1>4. CASE CancelSession
    BY <1>4 DEF CancelSession, Errors, Retried
  <1>5. CASE RunAgain
    <2>1. TypeOK'
      BY <1>5 DEF RunAgain, Errors, Retried
    <2>2. Goroutines' /\ Calls' /\ Contexts'
      BY <1>5 DEF RunAgain, Errors, Retried
    <2>3. Results' /\ FrostOrder'
      BY <1>5 DEF RunAgain, Errors, Retried
    <2>4. NilMeansResult' /\ FrostSentAll' /\ SecondResult'
      BY <1>5 DEF RunAgain, Errors, Retried
    <2>5. QED
      BY <2>1, <2>2, <2>3, <2>4
  <1>6. CASE Stop
    BY <1>6 DEF Stop, Errors, Retried
  <1>7. QED
    BY <1>1, <1>2, <1>3, <1>4, <1>5, <1>6 DEF MainStep

(* Every step keeps the invariant.                                          *)
LEMMA NextInductive == Inductive /\ [Next]_vars => Inductive'
  <1> SUFFICES ASSUME Inductive, [Next]_vars PROVE Inductive'
    OBVIOUS
  <1>1. CASE Next
    BY <1>1, RunInductive, PartyInductive, OutInductive, InInductive,
       EndInductive, MonInductive, MainInductive DEF Next
  <1>2. CASE UNCHANGED vars
    BY <1>2 DEF vars, Gone, pool, party, context, which, returns, Inductive,
       TypeOK, Goroutines, Calls, Contexts, Results, FrostOrder,
       NilMeansResult, FrostSentAll, SecondResult, Is
  <1>3. QED
    BY <1>1, <1>2

LEMMA AlwaysInductive == Spec => []Inductive
  BY InitInductive, NextInductive, PTL DEF Spec

-----------------------------------------------------------------------------
(* Type correctness of Run and its goroutines.                              *)
THEOREM RunTypes == Spec => []TypeOK
  <1>1. Inductive => TypeOK
    BY DEF Inductive
  <1>2. QED
    BY <1>1, AlwaysInductive, PTL

(* A nil from Run, which Execute takes for success, means that the result   *)
(* was stored or sent, or that the watchdog had ended the session: no       *)
(* goroutine sees the context done for any other reason without an error.   *)
THEOREM NilIsResult == Spec => []NilMeansResult
  <1>1. Inductive => NilMeansResult
    BY DEF Inductive
  <1>2. QED
    BY <1>1, AlwaysInductive, PTL

(* The result of a FROST process comes after all its broadcasts: the Done   *)
(* channel orders the two goroutines.                                       *)
THEOREM FrostSendsFirst == Spec => []FrostSentAll
  <1>1. Inductive => FrostSentAll
    BY DEF Inductive
  <1>2. QED
    BY <1>1, AlwaysInductive, PTL

(* Only an ECDSA signing runs again with a result in resultChn.             *)
THEOREM SecondResultIsEcdsa == Spec => []SecondResult
  <1>1. Inductive => SecondResult
    BY DEF Inductive
  <1>2. QED
    BY <1>1, AlwaysInductive, PTL

(* A Run hangs only after an error of one of its goroutines, after its      *)
(* watchdog, or with an earlier result in the way.                          *)
THEOREM UndisturbedDoesNotHang == Spec => []HangsAfterFailure
  <1>1. Inductive => HangsAfterFailure
    <2> SUFFICES ASSUME Inductive, Hung PROVE errs # {} \/ outer \/ (try = 2 /\ results = 1)
      BY DEF HangsAfterFailure
    <2> USE DEF Inductive, TypeOK, Goroutines, Calls, Contexts, Results, FrostOrder
    <2>1. CASE CallStuck
      BY <2>1 DEF CallStuck, Hung
    <2>2. CASE DoneStuck
      BY <2>2 DEF DoneStuck, Hung, CallStuck
    <2>3. CASE FullStuck
      BY <2>3 DEF FullStuck, Hung
    <2>4. CASE LockStuck
      BY <2>4 DEF LockStuck
    <2>5. QED
      BY <2>1, <2>2, <2>3, <2>4 DEF Hung, Stuck
  <1>2. QED
    BY <1>1, AlwaysInductive, PTL

(* A hung Run stays hung: nobody serves the channel any more.               *)
LEMMA HungStays ==
    ASSUME Inductive, [Next]_vars, Hung
    PROVE  Hung' /\ main' = main
  <1> USE DEF pool, party, context, which, returns, Inductive, TypeOK,
       Goroutines, Calls, Results, FrostOrder, Hung, Stuck, CallStuck,
       DoneStuck, FullStuck, LockStuck
  <1>1. CASE Run
    BY <1>1 DEF Run, KeygenRun, SigningRun, ResharingRun,
       FrostKeygenRun, FrostSigningRun, FrostResharingRun
  <1>2. CASE PartyStep
    BY <1>2 DEF PartyStep, PartySends, PartyEnds, HandlerSends, HandlerEnds
  <1>3. CASE OutStep
    BY <1>3 DEF OutStep, OutTakes, PauseEnds, Listen, Broadcast, OutLeaves
  <1>4. CASE InTakes \/ Malformed \/ UpdatePanics \/ InStep
    BY <1>4 DEF InTakes, Malformed, UpdatePanics, InStep, UpdateBegins, UpdateReturns, InLeaves
  <1>5. CASE EndStep
    <2>1. CASE EndTakes
      BY <1>5, <2>1 DEF EndTakes
    <2>2. CASE Done
      BY <2>2 DEF Done
    <2>3. CASE EndLeaves
      BY <2>3 DEF EndLeaves
    <2>4. CASE EndFinishes
      BY <2>4 DEF EndFinishes, KeygenStores, ResharingStores, SigningDelivers,
         FrostKeygenStores, FrostResharingStores, FrostSigningDelivers,
         EndsWell, EndsBadly, Is
    <2>5. QED
      BY <1>5, <2>1, <2>2, <2>3, <2>4 DEF EndStep
  <1>6. CASE MonStep \/ MonLeaves
    BY <1>6 DEF MonStep, MonLeaves, Tick, Monitor
  <1>7. CASE MainStep
    BY <1>7 DEF MainStep, StartReturns, StartFails, WaitReturns, Ended, Gone
  <1>8. CASE CancelSession \/ RunAgain \/ Stop
    BY <1>8 DEF CancelSession, RunAgain, Stop
  <1>9. CASE UNCHANGED vars
    BY <1>9 DEF vars
  <1>10. QED
    BY <1>1, <1>2, <1>3, <1>4, <1>5, <1>6, <1>7, <1>8, <1>9 DEF Next

(* A hung Run stays hung, whatever the watchdog or the peers do: nobody     *)
(* serves the channel any more, and p.Wait waits for who is blocked on it.  *)
THEOREM HangsForGood == Spec => HungForGood
  <1>1. Inductive /\ [Next]_vars => (Hung => Hung' /\ main' = main)
    BY HungStays
  <1>2. QED
    BY <1>1, AlwaysInductive, PTL DEF Spec, HungForGood

-----------------------------------------------------------------------------
(* The refinement of TssRun.  What Run leaves behind.                       *)
LEMMA LeavingsStep ==
    ASSUME Inductive, Inductive', Leavings, [Next]_vars
    PROVE  Leavings'
  <1> USE DEF Leavings, Gone, pool, party, context, which, returns
  <1>1. CASE Run
    BY <1>1 DEF Run, KeygenRun, SigningRun, ResharingRun, FrostKeygenRun,
       FrostSigningRun, FrostResharingRun, ReturnEarly, StartParty, StartHandler,
       Inductive, Goroutines
  <1>2. CASE PartyStep
    BY <1>2 DEF PartyStep, PartySends, PartyEnds, HandlerSends, HandlerEnds
  <1>3. CASE OutStep
    BY <1>3 DEF OutStep, OutTakes, PauseEnds, Listen, Broadcast, OutLeaves, Fail
  <1>4. CASE InTakes \/ Malformed \/ UpdatePanics \/ InStep
    BY <1>4 DEF InTakes, Malformed, UpdatePanics, InStep, UpdateBegins, UpdateReturns, InLeaves, Fail
  <1>5. CASE EndTakes \/ Done \/ EndLeaves
    BY <1>5 DEF EndTakes, Done, EndLeaves
  <1>6. CASE EndFinishes
    BY <1>6 DEF EndFinishes, KeygenStores, ResharingStores, SigningDelivers,
       FrostKeygenStores, FrostResharingStores, FrostSigningDelivers,
       EndsWell, EndsBadly, Fail
  <1>7. CASE MonStep \/ MonLeaves
    BY <1>7 DEF MonStep, MonLeaves, Tick, Monitor, Fail
  <1>8. CASE MainStep
    BY <1>8 DEF MainStep, StartReturns, StartFails, WaitReturns, Ended
  <1>9. CASE CancelSession \/ RunAgain \/ Stop
    BY <1>9 DEF CancelSession, RunAgain, Stop
  <1>10. CASE UNCHANGED vars
    BY <1>10 DEF vars
  <1>11. QED
    BY <1>1, <1>2, <1>3, <1>4, <1>5, <1>6, <1>7, <1>8, <1>9, <1>10 DEF Next, EndStep

LEMMA AlwaysLeavings == Spec => []Leavings
  <1>1. Init => Leavings
    BY DEF Init, Leavings
  <1>2. QED
    BY <1>1, LeavingsStep, AlwaysInductive, PTL DEF Spec

(* A Run that hangs has not delivered, and something has gone wrong.        *)
HungMeans ==
    Hung => /\ main \in {"start", "wait"} /\ ~delivered
            /\ errs # {} \/ outer \/ (try = 2 /\ results = 1)

LEMMA HungIs == Inductive => HungMeans
  <1> SUFFICES ASSUME Inductive, Hung
               PROVE  /\ main \in {"start", "wait"} /\ ~delivered
                      /\ errs # {} \/ outer \/ (try = 2 /\ results = 1)
    BY DEF HungMeans
  <1> USE DEF Inductive, TypeOK, Goroutines, Calls, Contexts, Results, FrostOrder
  <1>1. CASE CallStuck
    BY <1>1 DEF CallStuck, Hung
  <1>2. CASE DoneStuck
    BY <1>2 DEF DoneStuck, Hung, CallStuck
  <1>3. CASE FullStuck
    BY <1>3 DEF FullStuck, Hung
  <1>4. CASE LockStuck
    BY <1>4 DEF LockStuck, Hung, CallStuck
  <1>5. QED
    BY <1>1, <1>2, <1>3, <1>4 DEF Hung, Stuck

LEMMA HungWillBe == Inductive' => HungMeans'
  BY HungIs, PTL

(* A step inside Run that Execute cannot see, or an error in it.            *)
Inner ==
    /\ UNCHANGED <<which, verdict, delivered, results, outer>>
    /\ main' = main \/ (main = "start" /\ main' = "wait")
    /\ errs \subseteq errs'

LEMMA InnerRefines ==
    ASSUME Inductive, Inductive', [Next]_vars, Inner
    PROVE  UNCHANGED Contract!contract \/ Contract!Trouble \/ Contract!Hang
  <1>1. errs' # {} => main # "idle"
    BY DEF Inner, Inductive, Goroutines
  <1>2. Hung => Hung' /\ main' = main
    BY HungStays
  <1>3. CASE Hung' <=> Hung
    <2>1. UNCHANGED Phase
      BY <1>3 DEF Phase, Inner
    <2>2. CASE (errs' # {}) <=> (errs # {})
      BY <2>1, <2>2 DEF Inner, which, Contract!contract
    <2>3. CASE errs' # {} /\ errs = {}
      <3>1. Phase # "idle"
        BY <1>1, <2>3 DEF Phase
      <3>2. QED
        BY <2>1, <2>3, <3>1 DEF Inner, which, Contract!Trouble
    <2>4. QED
      BY <2>2, <2>3 DEF Inner
  <1>4. CASE Hung' /\ ~Hung
    <2>1. /\ main' \in {"start", "wait"} /\ ~delivered'
          /\ (errs # {})' \/ outer' \/ (try' = 2 /\ results' = 1)
      BY <1>4, HungWillBe DEF HungMeans
    <2>2. Phase = "running" /\ Phase' = "hung"
      BY <1>4, <2>1 DEF Phase, Inner
    <2>3. (errs # {})' \in {errs # {}, TRUE}
      BY DEF Inner
    <2>4. QED
      BY <2>1, <2>2, <2>3 DEF Inner, which, Contract!Hang
  <1>5. QED
    BY <1>2, <1>3, <1>4

(* Most steps are inner ones.                                               *)
LEMMA InnerSteps ==
    ASSUME Inductive,
           \/ PartyStep \/ OutStep \/ InTakes \/ Malformed \/ UpdatePanics \/ InStep
           \/ EndTakes \/ Done \/ EndLeaves \/ MonStep \/ MonLeaves \/ StartReturns
    PROVE  Inner
  <1> USE DEF Inner, pool, party, context, which, returns
  <1>1. CASE PartyStep
    BY <1>1 DEF PartyStep, PartySends, PartyEnds, HandlerSends, HandlerEnds
  <1>2. CASE OutStep
    BY <1>2 DEF OutStep, OutTakes, PauseEnds, Listen, Broadcast, OutLeaves, Fail
  <1>3. CASE InTakes \/ Malformed \/ UpdatePanics \/ InStep
    BY <1>3 DEF InTakes, Malformed, UpdatePanics, InStep, UpdateBegins, UpdateReturns, InLeaves, Fail
  <1>4. CASE EndTakes \/ Done \/ EndLeaves
    BY <1>4 DEF EndTakes, Done, EndLeaves
  <1>5. CASE MonStep \/ MonLeaves
    BY <1>5 DEF MonStep, MonLeaves, Tick, Monitor, Fail
  <1>6. CASE StartReturns
    BY <1>6 DEF StartReturns
  <1>7. QED
    BY <1>1, <1>2, <1>3, <1>4, <1>5, <1>6

(* Run is called.                                                           *)
LEMMA RunRefines ==
    ASSUME Inductive, Inductive', Run
    PROVE  Contract!Refuse \/ Contract!Begin
  <1> USE DEF pool, party, context, which, returns
  <1>1. main = "idle" /\ Phase = "idle"
    BY DEF Run, KeygenRun, SigningRun, ResharingRun, FrostKeygenRun, FrostSigningRun,
       FrostResharingRun, Phase, Hung
  <1>2. ASSUME NEW e, ReturnEarly(e)
        PROVE  Contract!ReturnWith(e)
    <2>1. Phase' = "returned"
      BY <1>2 DEF ReturnEarly, Phase, Hung
    <2>2. QED
      BY <1>2, <2>1 DEF ReturnEarly, Contract!ReturnWith
  <1>3. CASE StartHandler \/ \E m \in {"off", "select"} : StartParty(m)
    <2>1. main' \in {"start", "wait"} /\ out' # "left" /\ end' = "select" /\ mon' # "ask"
      BY <1>1, <1>3 DEF StartHandler, StartParty, Inductive, Goroutines
    <2>2. ~Hung'
      BY <2>1 DEF Hung, Stuck, CallStuck, DoneStuck, FullStuck, LockStuck
    <2>3. Phase' = "running"
      BY <2>1, <2>2 DEF Phase
    <2>4. QED
      BY <1>1, <1>3, <2>3 DEF StartHandler, StartParty, Contract!Begin
  <1>4. CASE ReturnEarly("other")
    BY <1>1, <1>2, <1>4 DEF Contract!Refuse
  <1>5. CASE kind = "signing" /\ ReturnEarly("subset")
    BY <1>1, <1>2, <1>5 DEF Contract!Refuse
  <1>6. QED
    BY <1>3, <1>4, <1>5 DEF Run, KeygenRun, SigningRun, ResharingRun, FrostKeygenRun,
       FrostSigningRun, FrostResharingRun, Is

(* processEndMessage.                                                       *)
LEMMA EndRefines ==
    ASSUME Inductive, Inductive', Leavings, [Next]_vars, EndFinishes
    PROVE  Contract!Deliver \/ Inner
  <1> USE DEF pool, party, context, which, returns
  <1>1. /\ end = "finish" /\ UNCHANGED <<which, main, verdict>>
        /\ (EndsBadly /\ UNCHANGED results)
           \/ (EndsWell /\ IF kind = "signing" THEN results = 0 /\ results' = 1
                           ELSE UNCHANGED results)
    BY DEF EndFinishes, KeygenStores, ResharingStores, SigningDelivers,
       FrostKeygenStores, FrostResharingStores, FrostSigningDelivers, Is
  <1>2. CASE EndsBadly /\ UNCHANGED results
    BY <1>1, <1>2 DEF EndsBadly, Fail, Inner
  <1>3. CASE EndsWell /\ IF kind = "signing" THEN results = 0 /\ results' = 1
                         ELSE UNCHANGED results
    <2>1. delivered' = TRUE /\ UNCHANGED <<outer, errs>>
      BY <1>3 DEF EndsWell
    <2>2. ~Hung' /\ ~Hung
      BY <2>1, HungWillBe, HungStays DEF HungMeans
    <2>3. delivered = FALSE /\ main \in {"start", "wait", "returned", "stopped"}
      BY <1>1 DEF Inductive, TypeOK, Goroutines, Results
    <2>4. main \in {"returned", "stopped"} => scheme = "ecdsa" /\ verdict = "tss"
      BY <1>1 DEF Leavings, Gone, Inductive, TypeOK, Goroutines
    <2>5. UNCHANGED Phase /\ Phase = IF main \in {"start", "wait"} THEN "running" ELSE main
      BY <1>1, <2>2 DEF Phase
    <2>6. QED
      BY <1>1, <1>3, <2>1, <2>3, <2>4, <2>5 DEF Contract!Deliver
  <1>4. QED
    BY <1>1, <1>2, <1>3

(* Run returns.                                                             *)
LEMMA ReturnRefines ==
    ASSUME Inductive, Inductive', Leavings, [Next]_vars, StartFails \/ WaitReturns
    PROVE  Contract!Succeed \/ Contract!Fail
  <1> USE DEF pool, party, context, which, returns
  <1>1. main \in {"start", "wait"} /\ main' = "returned"
    BY DEF StartFails, WaitReturns
  <1>2. ~Hung /\ ~Hung'
    BY <1>1, HungStays, HungWillBe DEF HungMeans
  <1>3. Phase = "running" /\ Phase' = "returned"
    BY <1>1, <1>2 DEF Phase
  <1>4. CASE StartFails
    <2>1. scheme = "ecdsa"
      BY <1>4 DEF StartFails, Inductive, TypeOK, Goroutines
    <2>2. Contract!ReturnWith("tss")
      BY <1>3, <1>4 DEF StartFails, Contract!ReturnWith
    <2>3. QED
      BY <1>3, <2>1, <2>2 DEF Contract!Fail
  <1>5. CASE WaitReturns
    <2> DEFINE v == Combined(errs)
    <2>1. /\ verdict' = v
          /\ UNCHANGED <<scheme, kind, try, delivered, results, errs, outer>>
      BY <1>5 DEF WaitReturns
    <2>2. Contract!ReturnWith(v)
      BY <1>3, <2>1 DEF Contract!ReturnWith
    <2>3. /\ v \in Errors \cup {"ok"} /\ (v = "ok" => errs = {})
          /\ (v \in Retried => v \in errs)
      BY CombinedErrors DEF Inductive, TypeOK
    <2>4. CASE errs = {}
      <3>1. v = "ok"
        BY <2>4 DEF Combined
      <3>2. delivered \/ outer
        BY <2>1, <3>1 DEF Inductive, NilMeansResult
      <3>3. QED
        BY <1>3, <2>2, <2>4, <3>1, <3>2 DEF Contract!Succeed
    <2>5. CASE errs # {}
      <3>1. v \in {"communication", "tss", "other"}
        BY <2>3, <2>5 DEF Leavings, Errors, Retried
      <3>2. scheme = "frost" => v # "tss" /\ (delivered => v = "other")
        BY <2>3, <3>1 DEF Inductive, FrostOrder, FrostSentAll, Retried
      <3>3. QED
        BY <1>3, <2>2, <2>5, <3>1, <3>2 DEF Contract!Fail
    <2>6. QED
      BY <2>4, <2>5
  <1>6. QED
    BY <1>4, <1>5

(* The watchdog, handleError and the deferred part of Execute.              *)
LEMMA CallerRefines ==
    ASSUME Inductive, CancelSession \/ RunAgain \/ Stop
    PROVE  Contract!Cancel \/ Contract!Again \/ Contract!Stop
  <1> USE DEF pool, party, context, which, returns
  <1>1. CASE CancelSession
    <2>1. /\ main \in {"start", "wait"} /\ ~outer /\ outer' = TRUE
          /\ UNCHANGED <<which, main, pool, party, errs, returns>>
      BY <1>1 DEF CancelSession
    <2>2. UNCHANGED Phase /\ Phase \in {"running", "hung"}
      BY <2>1 DEF Phase, Hung, Stuck, CallStuck, DoneStuck, FullStuck, LockStuck
    <2>3. QED
      BY <2>1, <2>2 DEF Contract!Cancel
  <1>2. CASE RunAgain
    <2>1. Phase = "returned" /\ Phase' = "idle"
      BY <1>2 DEF RunAgain, Phase, Hung
    <2>2. QED
      BY <1>2, <2>1 DEF RunAgain, Retried, Inductive, TypeOK, Contract!Again
  <1>3. CASE Stop
    <2>1. Phase = "returned" /\ Phase' = "stopped"
      BY <1>3 DEF Stop, Phase, Hung
    <2>2. QED
      BY <1>3, <2>1 DEF Stop, Contract!Stop
  <1>4. QED
    BY <1>1, <1>2, <1>3

(* Whatever its goroutines do to each other, Run is what Execute takes it   *)
(* for, for any number of messages.                                         *)
THEOREM RunRefined == Spec => ImplementsRun
  <1>1. Init => Contract!Init
    BY DEF Init, Contract!Init, Phase, Hung
  <1>2. Inductive /\ Inductive' /\ Leavings /\ [Next]_vars
        => UNCHANGED Contract!contract \/ Contract!Next
    <2> SUFFICES ASSUME Inductive, Inductive', Leavings, [Next]_vars
                 PROVE  UNCHANGED Contract!contract \/ Contract!Next
      OBVIOUS
    <2>1. CASE Inner
      BY <2>1, InnerRefines DEF Contract!Next
    <2>2. CASE Run
      BY <2>2, RunRefines DEF Contract!Next
    <2>3. CASE EndFinishes
      BY <2>1, <2>3, EndRefines DEF Contract!Next
    <2>4. CASE StartFails \/ WaitReturns
      BY <2>4, ReturnRefines DEF Contract!Next
    <2>5. CASE CancelSession \/ RunAgain \/ Stop
      BY <2>5, CallerRefines DEF Contract!Next
    <2>6. CASE UNCHANGED vars
      <3>1. Inner
        BY <2>6 DEF vars, which, context, returns, Inner
      <3>2. QED
        BY <2>1, <3>1
    <2>7. QED
      BY <2>1, <2>2, <2>3, <2>4, <2>5, <2>6, InnerSteps DEF Next, EndStep, MainStep
  <1>3. QED
    BY <1>1, <1>2, AlwaysInductive, AlwaysLeavings, PTL
    DEF Spec, ImplementsRun, Contract!Spec
=============================================================================
