----------------------------- MODULE ProcessRun ------------------------------
(***************************************************************************)
(* One host's TssProcess.Run, and the goroutines it consists of.  Run sets *)
(* up the local party, starts a pool of goroutines that share a context    *)
(*                                                                         *)
(*   out  ProcessOutboundMessages: hands the party's messages to Broadcast *)
(*   inb  ProcessInboundMessages: hands the peers' messages to the party   *)
(*   end  processEndMessage: stores the keyshare or delivers the signature *)
(*   mon  monitorSigning (ECDSA signing only)                              *)
(*                                                                         *)
(* and waits for all of them.  An ECDSA party runs inside the calls made   *)
(* to it, one at a time (it has a mutex), and sends its messages and its   *)
(* end on unbuffered channels from there: the caller is blocked until      *)
(* somebody takes them.  A FROST handler runs in goroutines of its own and *)
(* buffers its messages; out tells end over Done that there are no more.   *)
(*                                                                         *)
(* Execute may call Run a second time, on the same process and the same    *)
(* result channel, when a signing failed (handleError).  The lock of the   *)
(* keyshare is in Executions, subscriptions are in Communication.          *)
(***************************************************************************)
EXTENDS Naturals, FiniteSets

CONSTANTS
    MaxSends,   \* bound: messages the local party sends in a try
    MaxCalls    \* bound: messages that arrive in a try

ASSUME BoundAssumption == MaxSends \in Nat /\ MaxCalls \in Nat

VARIABLES
    scheme, kind, \* which process it is
    try,          \* which call of Run this is, 1 or 2
    main,         \* Run itself
    out, inb, end, mon,   \* its goroutines
    holder,       \* whose call has the mutex of the ECDSA party; "panicked"
                  \* when that call is gone and the mutex still locked
    offer,        \* what that call is blocked on sending: "out" or "end"
    buffered,     \* messages in the FROST handler's Listen channel
    finished,     \* the party has ended: no more messages
    aborted,      \* ... and Handler.Result returns an error
    sends, calls,
    waitingFor,   \* of monitorSigning, since its last look
    cancelled,    \* Run's context is done
    outer,        \* ... because the session was cancelled from outside
    errs,         \* what the goroutines of the pool returned
    verdict,      \* what Run returned, as handleError's type switch sees it
    delivered,    \* this try stored its keyshare or sent its signature
    results       \* how many results are in resultChn, of capacity 1

pool    == <<out, inb, end, mon>>
party   == <<holder, offer, buffered, finished, aborted, sends, calls>>
context == <<cancelled, outer, errs>>
which   == <<scheme, kind, try>>
returns == <<verdict, delivered, results>>
vars    == <<which, main, pool, party, waitingFor, context, returns>>

Errors     == {"communication", "tss", "subset", "other"}
(* A plausible bug in handleError: it retries whatever happened.            *)
RetriedAny == Errors
(* The errors that handleError acts on.                                     *)
Retried    == {"communication", "tss", "subset"}
Is(s, k)   == scheme = s /\ kind = k
Gone(g)    == g \in {"off", "left"}
Ended      == Gone(out) /\ Gone(inb) /\ Gone(end) /\ Gone(mon)

(* A goroutine is blocked on a channel that nobody will serve any more:     *)
(* whoever is inside the party, out on Done, or end on resultChn; or mon    *)
(* on the mutex of the party, which nobody will unlock.                     *)
CallStuck == (offer = "out" /\ out = "left") \/ (offer = "end" /\ end = "left")
DoneStuck == out = "done" /\ end = "left"
FullStuck == kind = "signing" /\ end = "finish" /\ ~aborted /\ results = 1
LockStuck == holder = "panicked" /\ mon = "ask"
Stuck     == CallStuck \/ DoneStuck \/ FullStuck \/ LockStuck

(* Run cannot return: it is such a goroutine, or waits for one.             *)
Hung == (main = "start" /\ CallStuck /\ holder = "main") \/ (main = "wait" /\ Stuck)

(* What the pool makes of its errors: several of them have no type.         *)
Combined(E) ==
    IF E = {} THEN "ok"
    ELSE IF Cardinality(E) = 1 THEN CHOOSE e \in E : TRUE ELSE "other"

(* A goroutine of the pool returns an error: the context is cancelled.      *)
Fail(e) == errs' = errs \cup {e} /\ cancelled' = TRUE /\ UNCHANGED outer

-----------------------------------------------------------------------------
Init ==
    /\ scheme \in {"ecdsa", "frost"}
    /\ kind \in {"keygen", "signing", "resharing"}
    /\ try = 1 /\ results = 0
    /\ main = "idle" /\ verdict = "none" /\ delivered = FALSE
    /\ out = "off" /\ inb = "off" /\ end = "off" /\ mon = "off"
    /\ holder = "none" /\ offer = "none" /\ buffered = 0 /\ sends = 0
    /\ finished = FALSE /\ aborted = FALSE /\ calls = 0
    /\ waitingFor = "none"
    /\ cancelled = FALSE /\ outer = FALSE /\ errs = {}

(* Run returns an error before it starts a goroutine.                       *)
ReturnEarly(e) ==
    /\ main' = "returned" /\ verdict' = e
    /\ UNCHANGED <<which, pool, party, waitingFor, context, delivered,
                   results>>

(* The pool is started, and with it the ECDSA party, by Run itself.         *)
StartParty(m) ==
    /\ main' = "start" /\ holder' = "main"
    /\ out' = "select" /\ inb' = "select" /\ end' = "select" /\ mon' = m
    /\ UNCHANGED <<which, offer, buffered, finished, aborted, sends, calls,
                   waitingFor, context, returns>>

(* The pool is started; out pauses for STARTUP_PAUSE.                       *)
StartHandler ==
    /\ main' = "wait"
    /\ out' = "pause" /\ inb' = "select" /\ end' = "select"
    /\ UNCHANGED <<which, mon, party, waitingFor, context, returns>>

(* Keygen.Run: the parameters or the local party are refused.               *)
KeygenRun ==
    /\ main = "idle" /\ Is("ecdsa", "keygen")
    /\ ReturnEarly("other") \/ StartParty("off")

(* Signing.Run: besides, the host is not in the subset.                     *)
SigningRun ==
    /\ main = "idle" /\ Is("ecdsa", "signing")
    /\ ReturnEarly("other") \/ ReturnEarly("subset") \/ StartParty("select")

(* Resharing.Run: besides, the start parameters are refused.                *)
ResharingRun ==
    /\ main = "idle" /\ Is("ecdsa", "resharing")
    /\ ReturnEarly("other") \/ StartParty("off")

FrostKeygenRun ==
    /\ main = "idle" /\ Is("frost", "keygen")
    /\ ReturnEarly("other") \/ StartHandler

FrostSigningRun ==
    /\ main = "idle" /\ Is("frost", "signing")
    /\ ReturnEarly("other") \/ ReturnEarly("subset") \/ StartHandler

FrostResharingRun ==
    /\ main = "idle" /\ Is("frost", "resharing")
    /\ ReturnEarly("other") \/ StartHandler

Run == \/ KeygenRun \/ SigningRun \/ ResharingRun
       \/ FrostKeygenRun \/ FrostSigningRun \/ FrostResharingRun

-----------------------------------------------------------------------------
(* The party, as the code uses it: an ECDSA call that is not blocked may    *)
(* send a message, or hand over what it computed, the last thing it sends.  *)
PartySends ==
    /\ holder \in {"main", "in"} /\ offer = "none" /\ ~finished /\ sends < MaxSends
    /\ offer' = "out" /\ sends' = sends + 1
    /\ UNCHANGED <<which, main, pool, holder, buffered, finished, aborted,
                   calls, waitingFor, context, returns>>

PartyEnds ==
    /\ holder \in {"main", "in"} /\ offer = "none" /\ ~finished
    /\ offer' = "end" /\ finished' = TRUE
    /\ UNCHANGED <<which, main, pool, holder, buffered, aborted, sends,
                   calls, waitingFor, context, returns>>

(* The FROST handler buffers a message; with its result, or its error, it   *)
(* closes the channel.                                                      *)
HandlerSends ==
    /\ scheme = "frost" /\ main = "wait" /\ ~finished /\ sends < MaxSends
    /\ buffered' = buffered + 1 /\ sends' = sends + 1
    /\ UNCHANGED <<which, main, pool, holder, offer, finished, aborted,
                   calls, waitingFor, context, returns>>

HandlerEnds ==
    /\ scheme = "frost" /\ main = "wait" /\ ~finished
    /\ finished' = TRUE /\ aborted' \in BOOLEAN
    /\ UNCHANGED <<which, main, pool, holder, offer, buffered, sends, calls,
                   waitingFor, context, returns>>

-----------------------------------------------------------------------------
(* ProcessOutboundMessages, ECDSA: a message is taken from outChn.          *)
OutTakes ==
    /\ out = "select" /\ offer = "out"
    /\ out' = "send" /\ offer' = "none"
    /\ UNCHANGED <<which, main, inb, end, mon, holder, buffered, finished,
                   aborted, sends, calls, waitingFor, context, returns>>

(* ProcessOutboundMessages, FROST: the pause is over, cancelled or not.     *)
PauseEnds ==
    /\ out = "pause" /\ out' = "select"
    /\ UNCHANGED <<which, main, inb, end, mon, party, waitingFor, context,
                   returns>>

(* A plausible bug in ProcessOutboundMessages: the closing of the handler   *)
(* is noticed beside the messages that are still buffered.                  *)
HandlerClosing ==
    /\ scheme = "frost" /\ out = "select"
    /\ \/ buffered > 0 /\ out' = "send" /\ buffered' = buffered - 1
       \/ finished /\ out' = "done" /\ UNCHANGED buffered
    /\ UNCHANGED <<which, main, inb, end, mon, holder, offer, finished,
                   aborted, sends, calls, waitingFor, context, returns>>

(* ... it reads Handler.Listen(): a message, or nothing since it is closed. *)
Listen ==
    /\ scheme = "frost" /\ out = "select"
    /\ \/ buffered > 0 /\ out' = "send" /\ buffered' = buffered - 1
       \/ buffered = 0 /\ finished /\ out' = "done" /\ UNCHANGED buffered
    /\ UNCHANGED <<which, main, inb, end, mon, holder, offer, finished,
                   aborted, sends, calls, waitingFor, context, returns>>

(* ... and end takes its Done.                                              *)
Done ==
    /\ out = "done" /\ end = "select"
    /\ out' = "left" /\ end' = "finish"
    /\ UNCHANGED <<which, main, inb, mon, party, waitingFor, context,
                   returns>>

(* A plausible bug: a failed broadcast ends the loop without an error.      *)
BroadcastQuits ==
    /\ out = "send" /\ out' \in {"select", "left"}
    /\ UNCHANGED <<which, main, inb, end, mon, party, waitingFor, context,
                   returns>>

(* Broadcast returns, or fails, or the message cannot be marshalled.        *)
Broadcast ==
    /\ out = "send"
    /\ \/ out' = "select" /\ UNCHANGED context
       \/ out' = "left" /\ \E e \in {"communication", "other"} : Fail(e)
    /\ UNCHANGED <<which, main, inb, end, mon, party, waitingFor, returns>>

(* A plausible bug in ProcessOutboundMessages: the context is not watched.  *)
OutNeverLeaves == out = "select" /\ cancelled /\ UNCHANGED vars

(* The context is done.                                                     *)
OutLeaves ==
    /\ out = "select" /\ cancelled /\ out' = "left"
    /\ UNCHANGED <<which, main, inb, end, mon, party, waitingFor, context,
                   returns>>

-----------------------------------------------------------------------------
(* ProcessInboundMessages, ECDSA: a message is taken ...                    *)
InTakes ==
    /\ scheme = "ecdsa" /\ inb = "select" /\ calls < MaxCalls
    /\ inb' = "call" /\ calls' = calls + 1
    /\ UNCHANGED <<which, main, out, end, mon, holder, offer, buffered,
                   finished, aborted, sends, waitingFor, context, returns>>

(* ... and UpdateFromBytes gets the party's mutex.                          *)
UpdateBegins ==
    /\ inb = "call" /\ holder = "none"
    /\ holder' = "in"
    /\ waitingFor' = IF waitingFor = "same" THEN "moved" ELSE waitingFor
    /\ UNCHANGED <<which, main, pool, offer, buffered, finished, aborted,
                   sends, calls, context, returns>>

(* It returns, with ok or with an error of tss-lib.                         *)
UpdateReturns ==
    /\ inb = "call" /\ holder = "in" /\ offer = "none"
    /\ holder' = "none"
    /\ \/ inb' = "select" /\ UNCHANGED context
       \/ inb' = "left" /\ Fail("tss")
    /\ UNCHANGED <<which, main, out, end, mon, offer, buffered, finished,
                   aborted, sends, calls, waitingFor, returns>>

(* It panics, while it examines the message or, before the party is         *)
(* finished, at work on it with the mutex, which stays locked.  What        *)
(* recover makes of a panic is an error without a type.                     *)
UpdatePanics ==
    /\ inb = "call" /\ inb' = "left" /\ Fail("other")
    /\ \/ holder # "in" /\ UNCHANGED holder
       \/ holder = "in" /\ offer = "none" /\ ~finished /\ holder' = "panicked"
    /\ UNCHANGED <<which, main, out, end, mon, offer, buffered, finished,
                   aborted, sends, calls, waitingFor, returns>>

(* A message cannot be decoded, in either scheme.  A FROST message that can *)
(* be is passed on to a goroutine of the handler.                           *)
Malformed ==
    /\ inb = "select" /\ inb' = "left" /\ Fail("other")
    /\ UNCHANGED <<which, main, out, end, mon, party, waitingFor, returns>>

InLeaves ==
    /\ inb = "select" /\ cancelled /\ inb' = "left"
    /\ UNCHANGED <<which, main, out, end, mon, party, waitingFor, context,
                   returns>>

-----------------------------------------------------------------------------
(* processEndMessage, ECDSA: it takes what the party ended with.            *)
EndTakes ==
    /\ end = "select" /\ offer = "end"
    /\ end' = "finish" /\ offer' = "none"
    /\ UNCHANGED <<which, main, out, inb, mon, holder, buffered, finished,
                   aborted, sends, calls, waitingFor, context, returns>>

(* It is done and, whatever comes of it, cancels the context.               *)
EndsWell ==
    /\ end' = "left" /\ delivered' = TRUE /\ cancelled' = TRUE
    /\ UNCHANGED <<outer, errs>>
EndsBadly == end' = "left" /\ Fail("other") /\ UNCHANGED delivered

KeygenStores ==
    /\ end = "finish" /\ Is("ecdsa", "keygen")
    /\ EndsWell \/ EndsBadly
    /\ UNCHANGED results

ResharingStores ==
    /\ end = "finish" /\ Is("ecdsa", "resharing")
    /\ EndsWell \/ EndsBadly
    /\ UNCHANGED results

(* A plausible bug: resultChn is taken to have room for every try.          *)
SigningDeliversMore ==
    /\ end = "finish" /\ Is("ecdsa", "signing")
    /\ results' = results + 1
    /\ EndsWell

(* Signing sends the signature, or nil, on resultChn.                       *)
SigningDelivers ==
    /\ end = "finish" /\ Is("ecdsa", "signing")
    /\ results = 0 /\ results' = 1
    /\ EndsWell

(* A plausible bug in FROST keygen, where Cancel is not deferred: it is     *)
(* forgotten.                                                               *)
FrostKeygenStoresOnly ==
    /\ end = "finish" /\ Is("frost", "keygen")
    /\ \/ ~aborted /\ end' = "left" /\ delivered' = TRUE /\ UNCHANGED context
       \/ EndsBadly
    /\ UNCHANGED results

(* A plausible bug in FROST keygen: the error of Handler.Result is lost.    *)
FrostKeygenForgives ==
    /\ end = "finish" /\ Is("frost", "keygen")
    /\ \/ ~aborted /\ EndsWell
       \/ /\ end' = "left" /\ cancelled' = TRUE
          /\ UNCHANGED <<outer, errs, delivered>>
    /\ UNCHANGED results

FrostKeygenStores ==
    /\ end = "finish" /\ Is("frost", "keygen")
    /\ (~aborted /\ EndsWell) \/ EndsBadly
    /\ UNCHANGED results

FrostResharingStores ==
    /\ end = "finish" /\ Is("frost", "resharing")
    /\ (~aborted /\ EndsWell) \/ EndsBadly
    /\ UNCHANGED results

FrostSigningDelivers ==
    /\ end = "finish" /\ Is("frost", "signing")
    /\ \/ ~aborted /\ results = 0 /\ results' = 1 /\ EndsWell
       \/ aborted /\ EndsBadly /\ UNCHANGED results

EndFinishes ==
    /\ \/ KeygenStores \/ ResharingStores \/ SigningDelivers
       \/ FrostKeygenStores \/ FrostResharingStores \/ FrostSigningDelivers
    /\ UNCHANGED <<which, main, out, inb, mon, party, waitingFor, verdict>>

EndLeaves ==
    /\ end = "select" /\ cancelled /\ end' = "left"
    /\ UNCHANGED <<which, main, out, inb, mon, party, waitingFor, context,
                   returns>>

-----------------------------------------------------------------------------
(* monitorSigning: the ticker fires, and WaitingFor needs the mutex.        *)
Tick ==
    /\ mon = "select" /\ mon' = "ask"
    /\ UNCHANGED <<which, main, out, inb, end, party, waitingFor, context,
                   returns>>

(* A plausible bug in monitorSigning: it forgets whom it waited for.        *)
MonitorForgets ==
    /\ mon = "ask" /\ holder = "none"
    /\ mon' = "select" /\ waitingFor' = "none"
    /\ UNCHANGED <<which, main, out, inb, end, party, context, returns>>

(* The party still waits for the peers it waited for at the last tick, or   *)
(* there is another list to remember.  An update since then may or may not  *)
(* have left the list as it was.                                            *)
Monitor ==
    /\ mon = "ask" /\ holder = "none"
    /\ \/ /\ waitingFor \in {"same", "moved"} /\ ~finished
          /\ mon' = "left" /\ Fail("communication")
          /\ UNCHANGED waitingFor
       \/ /\ waitingFor # "same" \/ finished
          /\ mon' = "select"
          /\ waitingFor' = IF finished THEN "none" ELSE "same"
          /\ UNCHANGED context
    /\ UNCHANGED <<which, main, out, inb, end, party, returns>>

MonLeaves ==
    /\ mon = "select" /\ cancelled /\ mon' = "left"
    /\ UNCHANGED <<which, main, out, inb, end, party, waitingFor, context,
                   returns>>

-----------------------------------------------------------------------------
(* Party.Start returns: Run waits for the pool.                             *)
StartReturns ==
    /\ main = "start" /\ holder = "main" /\ offer = "none"
    /\ main' = "wait" /\ holder' = "none"
    /\ UNCHANGED <<which, pool, offer, buffered, finished, aborted, sends,
                   calls, waitingFor, context, returns>>

(* Party.Start fails: Run returns its error and does not wait.  The pool of *)
(* initiate or waitForStart cancels its context for it.                     *)
StartFails ==
    /\ main = "start" /\ holder = "main" /\ offer = "none"
    /\ main' = "returned" /\ holder' = "none" /\ verdict' = "tss"
    /\ cancelled' = TRUE
    /\ UNCHANGED <<which, pool, offer, buffered, finished, aborted, sends,
                   calls, waitingFor, outer, errs, delivered, results>>

(* p.Wait.                                                                  *)
WaitReturns ==
    /\ main = "wait" /\ Ended
    /\ main' = "returned" /\ verdict' = Combined(errs)
    /\ UNCHANGED <<which, pool, party, waitingFor, context, delivered,
                   results>>

(* watchExecution ends the session.  Its error joins what Run returns, so   *)
(* that handleError knows neither.                                          *)
CancelSession ==
    /\ main \in {"start", "wait"} /\ ~outer
    /\ cancelled' = TRUE /\ outer' = TRUE
    /\ UNCHANGED <<which, main, pool, party, waitingFor, errs, returns>>

(* handleError runs a signing again.  The election, or the wait for another *)
(* start message, leaves the goroutines of the first try the time to leave. *)
RunAgain ==
    /\ main = "returned" /\ try = 1 /\ kind = "signing" /\ ~outer
    /\ verdict \in Retried
    /\ Gone(out) /\ Gone(end) /\ (Ended \/ Stuck)
    /\ try' = 2
    /\ main' = "idle" /\ verdict' = "none" /\ delivered' = FALSE
    /\ out' = "off" /\ inb' = "off" /\ end' = "off" /\ mon' = "off"
    /\ holder' = "none" /\ offer' = "none" /\ buffered' = 0 /\ sends' = 0
    /\ finished' = FALSE /\ aborted' = FALSE /\ calls' = 0
    /\ waitingFor' = "none"
    /\ cancelled' = FALSE /\ outer' = FALSE /\ errs' = {}
    /\ UNCHANGED <<scheme, kind, results>>

(* The deferred part of Execute: cancel, and Stop, which cancels as well.   *)
Stop ==
    /\ main = "returned"
    /\ main' = "stopped" /\ cancelled' = TRUE
    /\ UNCHANGED <<which, pool, party, waitingFor, outer, errs, returns>>

-----------------------------------------------------------------------------
PartyStep == PartySends \/ PartyEnds \/ HandlerSends \/ HandlerEnds
OutStep   == OutTakes \/ PauseEnds \/ Listen \/ Broadcast \/ OutLeaves
InStep    == UpdateBegins \/ UpdateReturns \/ InLeaves
EndStep   == EndTakes \/ Done \/ EndFinishes \/ EndLeaves
MonStep   == Tick \/ Monitor
MainStep  == StartReturns \/ StartFails \/ WaitReturns

Next ==
    \/ Run \/ PartyStep \/ OutStep \/ InTakes \/ Malformed \/ UpdatePanics
    \/ InStep \/ EndStep \/ MonStep \/ MonLeaves \/ MainStep \/ CancelSession \/ RunAgain \/ Stop

Spec == Init /\ [][Next]_vars

(* Every goroutine is scheduled, Broadcast and the calls of tss-lib return  *)
(* unless they are blocked on a channel, tickers fire; a select that finds  *)
(* the context done again and again takes that branch.                      *)
Fairness ==
    /\ WF_vars(OutStep) /\ WF_vars(InStep) /\ WF_vars(EndStep)
    /\ WF_vars(MonStep) /\ SF_vars(MonLeaves) /\ WF_vars(MainStep)

FairSpec == Spec /\ Fairness

-----------------------------------------------------------------------------
(* Type invariant.                                                          *)
TypeOK ==
    /\ scheme \in {"ecdsa", "frost"} /\ kind \in {"keygen", "signing", "resharing"}
    /\ try \in {1, 2}
    /\ main \in {"idle", "start", "wait", "returned", "stopped"}
    /\ out \in {"off", "pause", "select", "send", "done", "left"}
    /\ inb \in {"off", "select", "call", "left"}
    /\ end \in {"off", "select", "finish", "left"}
    /\ mon \in {"off", "select", "ask", "left"}
    /\ holder \in {"none", "main", "in", "panicked"} /\ offer \in {"none", "out", "end"}
    /\ buffered \in Nat /\ sends \in Nat /\ calls \in Nat
    /\ finished \in BOOLEAN /\ aborted \in BOOLEAN
    /\ waitingFor \in {"none", "same", "moved"}
    /\ cancelled \in BOOLEAN /\ outer \in BOOLEAN /\ errs \subseteq Errors
    /\ verdict \in Errors \cup {"none", "ok"}
    /\ delivered \in BOOLEAN /\ results \in {0, 1}

(* Run returns nil only for a result, unless the session was cancelled: the *)
(* goroutines that see the context done return nil as well, and Execute     *)
(* takes a nil for success.                                                 *)
NilMeansResult == verdict = "ok" => delivered \/ outer

(* A Run that nobody disturbs does not hang: goroutines block each other    *)
(* only after an error of one of them, a cancellation by the watchdog, or   *)
(* when the result of the first try is still in resultChn.                  *)
HangsAfterFailure ==
    Hung => errs # {} \/ outer \/ (try = 2 /\ results = 1)

(* FROST delivers its result only after every message of the host has been  *)
(* broadcast, so the peers can finish, too, and no error of a broadcast     *)
(* comes after the result.                                                  *)
FrostSentAll ==
    (scheme = "frost" /\ delivered) =>
        buffered = 0 /\ out = "left" /\ "communication" \notin errs

(* Only an ECDSA signing can deliver its signature, fail, and run again     *)
(* with the first result still in resultChn.                                *)
SecondResult ==
    (try = 2 /\ results = 1 /\ ~delivered) => Is("ecdsa", "signing")

(* Execute may rely on TssRun: whatever the goroutines of Run do to each    *)
(* other, an error is of a type it may have, a nil is a result, a result is *)
(* delivered once and into an empty channel, a late error after it is one   *)
(* of ECDSA or not retried, and a Run that does not return delivers nothing.*)
Phase ==
    IF Hung THEN "hung" ELSE IF main \in {"start", "wait"} THEN "running" ELSE main
Contract == INSTANCE TssRun WITH
    phase <- Phase, troubled <- (errs # {}), ended <- outer
ImplementsRun == Contract!Spec

(* Once the context is cancelled, Run returns or hangs.                     *)
CancelledEnds == cancelled ~> (Hung \/ main \in {"returned", "stopped"})

(* Once the result is delivered, Run returns.                               *)
DeliveredReturns == delivered ~> main \in {"returned", "stopped"}

(* monitorSigning "checks if the process is stuck": with silent peers an    *)
(* ECDSA signing comes to an end.                                           *)
SigningGivesUp ==
    (Is("ecdsa", "signing") /\ main = "wait") ~> (main # "wait" \/ Hung)

-----------------------------------------------------------------------------
(* The inductive strengthening of the invariants above.                     *)

(* Where the goroutines are while Run is where it is.                       *)
Goroutines ==
    /\ main = "idle" =>
         /\ out = "off" /\ inb = "off" /\ end = "off" /\ mon = "off"
         /\ ~cancelled /\ ~delivered /\ ~finished /\ errs = {}
         /\ offer = "none"
    /\ main \in {"start", "wait"} =>
         verdict = "none" /\ out # "off" /\ inb # "off" /\ end # "off"
    /\ verdict # "none" => main \in {"returned", "stopped"}
    /\ scheme = "frost" => mon = "off" /\ inb # "call" /\ main # "start"
    /\ scheme = "frost" /\ main \in {"returned", "stopped"} => Gone(end)
    /\ scheme = "ecdsa" => out \notin {"pause", "done"}

(* Nothing ends a hang: neither the watchdog nor Stop frees a Run whose     *)
(* goroutines block each other, and Execute never returns.  (The comments   *)
(* at ecdsa/common/base.go:83 and frost/common/base.go:67, "On context      *)
(* cancel stops listening to channel and exits", say otherwise.)            *)
HungForGood == [][Hung => Hung' /\ main' = main]_vars

(* Who is inside the party.                                                 *)
Calls ==
    /\ main = "start" <=> holder = "main"
    /\ holder = "in" => inb = "call"
    /\ holder = "panicked" =>
         scheme = "ecdsa" /\ "other" \in errs /\ offer = "none" /\ ~finished
    /\ offer # "none" => holder # "none"
    /\ offer = "out" => ~finished
    /\ offer = "end" => finished /\ end # "finish" /\ ~delivered

(* Why the context is done.                                                 *)
Contexts ==
    /\ end = "left" \/ (scheme = "ecdsa" /\ out = "left") => cancelled
    /\ cancelled /\ main \in {"start", "wait"} => errs # {} \/ delivered \/ outer

(* What a result implies.                                                   *)
Results ==
    /\ delivered => end = "left"
    /\ end = "finish" \/ delivered => finished /\ offer = "none"
    /\ results = 1 /\ try = 1 => delivered
    /\ scheme = "frost" /\ delivered => verdict \notin Retried

(* The order in which a FROST process ends.                                 *)
FrostOrder ==
    scheme = "frost" =>
        /\ errs \subseteq {"communication", "other"}
        /\ "communication" \in errs => out = "left"
        /\ out = "done" => finished /\ buffered = 0 /\ ~delivered /\ end # "finish"
        /\ end = "finish" =>
             out = "left" /\ buffered = 0 /\ "communication" \notin errs

(* What the pool leaves behind when Run returns.                            *)
Leavings ==
    /\ errs \subseteq {"communication", "tss", "other"}
    /\ main \in {"returned", "stopped"} /\ ~Gone(end) => verdict = "tss"

Inductive ==
    /\ TypeOK /\ Goroutines /\ Calls /\ Contexts /\ Results /\ FrostOrder
    /\ NilMeansResult /\ FrostSentAll /\ SecondResult
=============================================================================
