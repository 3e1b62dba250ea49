---------------------------- MODULE MCExecutions ----------------------------
(* Instances of Executions for TLC: two requests for a keygen, two for a    *)
(* resharing, and signings, on one relayer.                                 *)
EXTENDS Executions

CONSTANTS k1, k2, r1, r2, s1, s2

NoCalls == {}
OneKeygen == {k1}
Keygens == {k1, k2}
OneResharing == {r1}
Resharings == {r1, r2}
OneSigning == {s1}
Signings == {s1, s2}

(* The session of keygen, and of resharing, has one name; both signings are *)
(* asked for the same hash.                                                 *)
SessionOf ==
    [c \in Call |-> IF c \in Keygen THEN "keygen"
                    ELSE IF c \in Resharing THEN "resharing" ELSE "sign"]

BothSchemes == {"ecdsa", "frost"}
Ecdsa == {"ecdsa"}

(* Any peers may stay silent, but those of ECDSA keygens.                   *)
SilentPeers ==
    [s \in Schemes |-> IF s = "frost" THEN Keygen \cup Resharing
                                        ELSE Signing \cup Resharing]
SilentToKeygen == [s \in Schemes |-> Keygen]
AllAnswer == [s \in Schemes |-> {}]
=============================================================================
