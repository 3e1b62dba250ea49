-------------------------- MODULE MCTssCoordinator --------------------------
(* Instances of TssCoordinator for TLC: three relayers, as in the           *)
(* repository's topology.json and test keyshares.                           *)
EXTENDS TssCoordinator

CONSTANTS a, b, c, d

ThreePeers == {a, b, c}
(* Session order of the instance: d, if it has a keyshare, comes before a,  *)
(* the static leader.                                                       *)
SessionRank ==
    [p \in AllPeers |-> CASE p = d -> 0 [] p = a -> 1 [] p = b -> 2 [] OTHER -> 3]
(* c joins a resharing without a keyshare, and d has left the topology.     *)
OldPeers == {a, b, d}

(* No message is lost and no timer fires; what happens in Run may fail.     *)
RunFaults == {"communication", "tss", "other", "late", "hang"}
RetryFaults == {"communication"}
(* Hosts retry, and nothing but the watchdog ends their sessions.           *)
WatchedFaults == {"communication", "tssTimeout"}
TimedFaults == {"loss", "coordinatorTimeout", "tssTimeout"}
=============================================================================
