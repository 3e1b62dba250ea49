------------------------------- MODULE TssRun -------------------------------
(***************************************************************************)
(* What one host's TssProcess.Run promises to Coordinator.Execute, without *)
(* goroutines, channels and contexts: which errors it may return, when it  *)
(* may have delivered a result all the same, and when it never returns.    *)
(* Execute calls it once more, at most, when a signing failed.             *)
(***************************************************************************)
VARIABLES
    scheme, kind,  \* which process it is
    try,           \* which call of Run this is, 1 or 2
    phase,         \* "idle", "running", "hung", "returned" or "stopped"
    verdict,       \* what it returned
    delivered,     \* this call stored its keyshare or sent its signature
    results,       \* what is in resultChn, which nobody empties meanwhile
    troubled,      \* something failed inside
    ended          \* the session was cancelled from outside

contract == <<scheme, kind, try, phase, verdict, delivered, results, troubled, ended>>

Init ==
    /\ scheme \in {"ecdsa", "frost"}
    /\ kind \in {"keygen", "signing", "resharing"}
    /\ try = 1 /\ phase = "idle" /\ verdict = "none"
    /\ delivered = FALSE /\ results = 0 /\ troubled = FALSE /\ ended = FALSE

(* Run returns v.                                                           *)
ReturnWith(v) ==
    /\ phase' = "returned" /\ verdict' = v
    /\ UNCHANGED <<scheme, kind, try, delivered, results, troubled, ended>>

(* The process is refused, and nothing was started.  Only a signing has     *)
(* hosts that are not in the subset.                                        *)
Refuse ==
    /\ phase = "idle"
    /\ ReturnWith("other") \/ (kind = "signing" /\ ReturnWith("subset"))

Begin ==
    /\ phase = "idle" /\ phase' = "running"
    /\ UNCHANGED <<scheme, kind, try, verdict, delivered, results, troubled, ended>>

(* The result is delivered, once, and in a signing only into an empty       *)
(* channel.  An ECDSA party whose start failed may still get its result.    *)
Deliver ==
    /\ \/ phase = "running"
       \/ scheme = "ecdsa" /\ phase \in {"returned", "stopped"} /\ verdict = "tss"
    /\ ~delivered /\ delivered' = TRUE
    /\ IF kind = "signing" THEN results = 0 /\ results' = 1 ELSE UNCHANGED results
    /\ UNCHANGED <<scheme, kind, try, phase, verdict, troubled, ended>>

Trouble ==
    /\ phase # "idle" /\ ~troubled /\ troubled' = TRUE
    /\ UNCHANGED <<scheme, kind, try, phase, verdict, delivered, results, ended>>

(* Run is blocked for good: never in a call that delivered, and only after  *)
(* a failure, a cancellation, or with an earlier result in resultChn.       *)
Hang ==
    /\ phase = "running" /\ phase' = "hung"
    /\ ~delivered
    /\ troubled' \in {troubled, TRUE}
    /\ troubled' \/ ended \/ (try = 2 /\ results = 1)
    /\ UNCHANGED <<scheme, kind, try, verdict, delivered, results, ended>>

(* A nil stands for a result, unless the session was cancelled.             *)
Succeed ==
    /\ phase = "running" /\ ~troubled /\ (delivered \/ ended)
    /\ ReturnWith("ok")

(* The error may come after the result.  In FROST such an error is one that *)
(* handleError does not retry.                                              *)
Fail ==
    /\ phase = "running"
    /\ \/ scheme = "ecdsa" /\ ReturnWith("tss")
       \/ /\ troubled
          /\ \E e \in {"communication", "tss", "other"} :
               /\ scheme = "frost" => e # "tss" /\ (delivered => e = "other")
               /\ ReturnWith(e)

(* The watchdog, which may come when it is too late to help.                *)
Cancel ==
    /\ phase \in {"running", "hung"} /\ ~ended /\ ended' = TRUE
    /\ UNCHANGED <<scheme, kind, try, phase, verdict, delivered, results, troubled>>

(* handleError retries, with what the first call left in resultChn.         *)
Again ==
    /\ phase = "returned" /\ try = 1 /\ kind = "signing" /\ ~ended
    /\ verdict \in {"communication", "tss", "subset"}
    /\ try' = 2 /\ phase' = "idle" /\ verdict' = "none"
    /\ delivered' = FALSE /\ troubled' = FALSE
    /\ UNCHANGED <<scheme, kind, results, ended>>

Stop ==
    /\ phase = "returned" /\ phase' = "stopped"
    /\ UNCHANGED <<scheme, kind, try, verdict, delivered, results, troubled, ended>>

Next ==
    \/ Refuse \/ Begin \/ Deliver \/ Trouble \/ Hang \/ Succeed \/ Fail \/ Cancel
    \/ Again \/ Stop

Spec == Init /\ [][Next]_contract
=============================================================================
