---------------------------- MODULE KeyshareStore ----------------------------
(***************************************************************************)
(* What the processes of one relayer may rely on of its keyshare store,    *)
(* without its mutex: every read and every replacement of the keyshare     *)
(* happens at one moment, although StoreKeyshare truncates the file before *)
(* it writes; a resharing replaces the very keyshare it has read; and a    *)
(* keyshare is lost only by a call that is storing its own.                *)
(*                                                                         *)
(* A call is "new", has "seen" the keyshare, is "storing" its own, or is   *)
(* "over".  Keygens replace the keyshare unseen: what their handler looks  *)
(* at is not protected, and nothing is promised about it.                  *)
(***************************************************************************)
CONSTANTS
    Keygen, Signing, Resharing,   \* the calls
    Missing, Torn, Initial        \* contents besides what a call stored

VARIABLES
    store,   \* the keyshare: with StoreKeyshare's first effect the new one
    seen,    \* what GetKeyshare returned to signings and resharings
    phase    \* where each call is

keyshares == <<store, seen, phase>>

Call == Keygen \cup Signing \cup Resharing

Init ==
    /\ store \in {Missing, Initial}
    /\ seen  = [c \in Signing \cup Resharing |-> Missing]
    /\ phase = [c \in Call |-> "new"]

Settled == \A c \in Call : phase[c] # "storing"

(* GetKeyshare under the lock; the call may end there, for what it saw.     *)
See(c) ==
    /\ c \in Signing \cup Resharing
    /\ phase[c] = "new" /\ Settled
    /\ seen' = [seen EXCEPT ![c] = store]
    /\ \E next \in {"seen", "over"} : phase' = [phase EXCEPT ![c] = next]
    /\ UNCHANGED store

(* StoreKeyshare: a resharing compares and swaps.                           *)
Replace(c) ==
    /\ Settled
    /\ \/ c \in Keygen /\ phase[c] = "new"
       \/ c \in Resharing /\ phase[c] = "seen" /\ seen[c] = store
    /\ store' = c
    /\ phase' = [phase EXCEPT ![c] = "storing"]
    /\ UNCHANGED seen

(* The replacement is durable.                                              *)
Stored(c) ==
    /\ phase[c] = "storing"
    /\ phase' = [phase EXCEPT ![c] = "over"]
    /\ UNCHANGED <<store, seen>>

(* The disk failed: the old keyshare and the new one are gone.              *)
Lose(c) ==
    /\ phase[c] = "storing"
    /\ store' = Torn
    /\ phase' = [phase EXCEPT ![c] = "over"]
    /\ UNCHANGED seen

(* The call ends without touching the keyshare (any more).                  *)
Leave(c) ==
    /\ phase[c] \in {"new", "seen"}
    /\ phase' = [phase EXCEPT ![c] = "over"]
    /\ UNCHANGED <<store, seen>>

(* A crash ends the running calls, and loses what is being stored.          *)
Crash ==
    /\ \E running \in SUBSET Call :
         /\ \A c \in Call : phase[c] = "storing" => c \in running
         /\ phase' = [c \in Call |-> IF c \in running THEN "over" ELSE phase[c]]
    /\ store' = IF Settled THEN store ELSE Torn
    /\ UNCHANGED seen

Next ==
    \/ Crash
    \/ \E c \in Call : See(c) \/ Replace(c) \/ Stored(c) \/ Lose(c) \/ Leave(c)

Spec == Init /\ [][Next]_keyshares
=============================================================================
