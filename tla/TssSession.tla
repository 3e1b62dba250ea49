---------------------------- MODULE TssSession ----------------------------
(***************************************************************************)
(* What a TSS session promises to the callers of Coordinator.Execute,      *)
(* without messages, tries, elections or timers.                           *)
(*                                                                         *)
(* A decision is what a coordinator broadcasts to begin a process.  Hosts  *)
(* join the process of a decision they are a member of; when all members   *)
(* have joined processes of the same members, the process of each can      *)
(* deliver a result; and a host that returned to its caller is out of the  *)
(* session for good.                                                       *)
(***************************************************************************)
CONSTANTS
    Peer,      \* the hosts
    Decision,  \* records with at least the fields from and try
    Members    \* [Decision -> sets]: the parties of the process

VARIABLES
    joined,    \* the decisions each host took part in
    outcome,   \* what Execute returned, "none" before it does
    result     \* what the process delivered on the host, "none" before

session == <<joined, outcome, result>>

Results == {"signature", "nil", "taproot", "keyshare"}

Init ==
    /\ joined  = [p \in Peer |-> {}]
    /\ outcome = [p \in Peer |-> "none"]
    /\ result  = [p \in Peer |-> "none"]

(* All members of the decision work on a process of the same members.       *)
Complete(d) ==
    \A q \in Members[d] : \E e \in joined[q] : Members[e] = Members[d]

(* A member joins.  What a coordinator decided in a try is the same for     *)
(* everybody: no host joins a second version of it.                         *)
Join(p, d) ==
    /\ outcome[p] = "none"
    /\ p \in Members[d]
    /\ \A q \in Peer : \A e \in joined[q] :
         e.from = d.from /\ e.try = d.try => e = d
    /\ joined' = [joined EXCEPT ![p] = @ \cup {d}]
    /\ UNCHANGED <<outcome, result>>

(* Execute may return with the result it delivers.  One caller at most is   *)
(* told that it has the ECDSA signature; a Taproot signature is everybody's.*)
ReturnWith(p, r, o) ==
    /\ outcome' = [outcome EXCEPT ![p] = o]
    /\ (o = "ok" /\ r = "signature") =>
         \A q \in Peer \ {p} : ~(outcome[q] = "ok" /\ result[q] = "signature")

(* The process delivers: a host has one result in a session, and the ECDSA  *)
(* signature goes to a host whose own decision it carries out.              *)
Deliver(p) ==
    /\ outcome[p] = "none" /\ result[p] = "none"
    /\ UNCHANGED joined
    /\ \E r \in Results, o \in {"none", "ok", "error"} :
         /\ result' = [result EXCEPT ![p] = r]
         /\ ReturnWith(p, r, o)
         /\ \E d \in joined[p] : Complete(d) /\ (r = "signature" => d.from = p)

(* Execute gives up.  A host with a result may still do so.                 *)
GiveUp(p) ==
    /\ outcome[p] = "none"
    /\ outcome' = [outcome EXCEPT ![p] = "error"]
    /\ UNCHANGED <<joined, result>>

(* The first conjunct of a join spares TLC the decisions in other steps.    *)
Next ==
    \E p \in Peer :
        \/ joined'[p] # joined[p] /\ \E d \in Decision : Join(p, d)
        \/ Deliver(p)
        \/ GiveUp(p)

Spec == Init /\ [][Next]_session
=============================================================================
