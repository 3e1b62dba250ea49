----------------------------- MODULE Executions -----------------------------
(***************************************************************************)
(* What happens inside one relayer when several tss processes are asked    *)
(* for at the same time: the event handlers build a keygen, signing or     *)
(* resharing process, Coordinator.Execute admits one per session, and the  *)
(* keyshare file is protected by the mutex of the keyshare store.  The     *)
(* relayer makes ECDSA or FROST keys, each in a store of its own; the two  *)
(* differ in where a keygen takes the lock.                                *)
(*                                                                         *)
(* A call is one invocation of a handler in a goroutine of its own:        *)
(*   "idle"     not requested yet                                          *)
(*   "lock"     blocked in LockKeyshare, called by the constructor         *)
(*   "read"     about to call GetKeyshare                                  *)
(*   "check"    in Execute, about to read pendingProcesses                 *)
(*   "mark"     found nothing pending, about to set pendingProcesses       *)
(*   "join"     initiating, or waiting for the start message               *)
(*   "runlock"  blocked in LockKeyshare, called by Keygen.Run              *)
(*   "rounds"   the local party is at work                                 *)
(*   "hung"     in a Run whose goroutines wait for each other for ever     *)
(*   "write"    StoreKeyshare truncated the file and has not written yet   *)
(*   "clear"    deferred part of Execute, about to reset pendingProcesses  *)
(*   "stop"     deferred part of Execute, about to call Stop               *)
(*   "done"     returned;  "dead"  lost in a crash of the relayer          *)
(***************************************************************************)
EXTENDS Naturals

CONSTANTS
    Keygen,      \* the calls of KeygenEventHandler.HandleEvents
    Signing,     \* the calls of SignEventHandler.HandleEvents
    Resharing,   \* the calls that construct and execute a Resharing
    Session,     \* session id of each call
    Schemes,     \* of the keys that are explored: "ecdsa", "frost" or both
    Lonely,      \* per scheme, the calls whose peers may stay silent, so that
                 \* Run is not reached
    DiskFails,   \* writing the keyshare may fail
    MaxCrashes   \* bound on the crashes explored

Call == Keygen \cup Signing \cup Resharing

(* Handlers of different kinds are different calls.                         *)
ASSUME CallAssumption ==
    /\ Keygen \cap Signing = {} /\ Keygen \cap Resharing = {}
    /\ Signing \cap Resharing = {}
    /\ Schemes \subseteq {"ecdsa", "frost"}
    /\ Lonely \in [Schemes -> SUBSET Call]
(* Session ids "keygen", "sid-sign-<hash>" and the resharing's differ.      *)
ASSUME SessionAssumption ==
    /\ DOMAIN Session = Call
    /\ \A c, d \in Call : Session[c] = Session[d] =>
         \A K \in {Keygen, Signing, Resharing} : c \in K <=> d \in K
ASSUME FaultAssumption == DiskFails \in BOOLEAN /\ MaxCrashes \in Nat

(* Contents of the keyshare file besides what a call wrote.                 *)
CONSTANTS Missing, Torn, Initial
ASSUME FileAssumption ==
    /\ Torn # Missing /\ Torn # Initial
    /\ {Missing, Torn, Initial} \cap Call = {}

VARIABLES
    scheme,    \* of the keys of this relayer
    pc,        \* where each call is
    locked,    \* the mutex of the keyshare store
    pending,   \* sessions marked in pendingProcesses
    file,      \* the keyshare file
    key,       \* what the call's GetKeyshare returned
    outcome,   \* what the handler returned
    fatal,     \* the Go runtime stopped the relayer: unlock of unlocked mutex
    crashes,   \* number of crashes so far
    holds,     \* history: the call locked the mutex and has not unlocked it
    damaged    \* history: a crash or a disk error interrupted StoreKeyshare

vars == <<scheme, pc, locked, pending, file, key, outcome, fatal, crashes, holds,
          damaged>>

(* json.Unmarshal accepts the file.                                         *)
Whole(content) == content \notin {Missing, Torn}

Active(c) == pc[c] \notin {"idle", "done", "dead"}

Goto(c, label) == pc' = [pc EXCEPT ![c] = label]

-----------------------------------------------------------------------------
Init ==
    /\ scheme  \in Schemes
    /\ pc      = [c \in Call |-> "idle"]
    /\ locked  = FALSE
    /\ pending = {}
    /\ file    \in {Missing, Initial}
    /\ key     = [c \in Call |-> Missing]
    /\ outcome = [c \in Call |-> "none"]
    /\ fatal   = FALSE
    /\ crashes = 0
    /\ holds   = [c \in Call |-> FALSE]
    /\ damaged = FALSE

(* LockKeyshare: blocks while the mutex is held.                            *)
Lock(c) ==
    /\ ~locked
    /\ locked' = TRUE
    /\ holds'  = [holds EXCEPT ![c] = TRUE]

(* UnlockKeyshare: the mutex knows no owner; to unlock it when nobody holds *)
(* it is fatal.                                                             *)
Unlock(c) ==
    /\ locked' = FALSE
    /\ holds'  = [holds EXCEPT ![c] = FALSE]
    /\ fatal'  = ~locked

(* The keygens that lock the keyshare in Run, not in the constructor.       *)
LocksLate(c) == c \in Keygen /\ scheme = "ecdsa"

(* A request arrives.  The handler of ECDSA keygens reads the keyshare      *)
(* without the lock, all other constructors take it first.                  *)
Request(c) ==
    /\ pc[c] = "idle"
    /\ Goto(c, IF LocksLate(c) THEN "read" ELSE "lock")
    /\ UNCHANGED <<locked, pending, file, key, outcome, fatal, crashes, holds, damaged>>

(* A plausible bug in FROST's NewKeygen: the keyshare is not locked.        *)
LockInConstructorForgotten(c) ==
    /\ pc[c] = "lock"
    /\ IF c \in Keygen THEN Goto(c, "check") /\ UNCHANGED <<locked, holds>>
       ELSE Goto(c, "read") /\ Lock(c)
    /\ UNCHANGED <<pending, file, key, outcome, fatal, crashes, damaged>>

(* NewSigning, NewResharing and FROST's NewKeygen: LockKeyshare.  The last  *)
(* does not read the keyshare, and keeps the lock until Stop.               *)
LockInConstructor(c) ==
    /\ pc[c] = "lock"
    /\ Lock(c)
    /\ Goto(c, IF c \in Keygen THEN "check" ELSE "read")
    /\ UNCHANGED <<pending, file, key, outcome, fatal, crashes, damaged>>

(* KeygenEventHandler.HandleEvents: nothing to do when there is a keyshare. *)
ReadForKeygen(c) ==
    /\ pc[c] = "read" /\ c \in Keygen
    /\ key' = [key EXCEPT ![c] = file]
    /\ IF Whole(file)
       THEN Goto(c, "done") /\ outcome' = [outcome EXCEPT ![c] = "resolved"]
       ELSE Goto(c, "check") /\ UNCHANGED outcome
    /\ UNCHANGED <<locked, pending, file, fatal, crashes, holds, damaged>>

(* A plausible bug in NewSigning: the error path returns with the lock.     *)
ReadForSigningLeaky(c) ==
    /\ pc[c] = "read" /\ c \in Signing
    /\ key' = [key EXCEPT ![c] = file]
    /\ IF Whole(file)
       THEN Goto(c, "check") /\ UNCHANGED outcome /\ Unlock(c)
       ELSE /\ Goto(c, "done") /\ outcome' = [outcome EXCEPT ![c] = "nokey"]
            /\ UNCHANGED <<locked, holds, fatal>>
    /\ UNCHANGED <<pending, file, crashes, damaged>>

(* NewSigning: the lock is held for the time of the read only.  FROST's     *)
(* fails too when the tweak of the request is not one of the key.           *)
ReadForSigning(c) ==
    /\ pc[c] = "read" /\ c \in Signing
    /\ key' = [key EXCEPT ![c] = file]
    /\ \/ Whole(file) /\ Goto(c, "check") /\ UNCHANGED outcome
       \/ /\ ~Whole(file) \/ scheme = "frost"
          /\ Goto(c, "done") /\ outcome' = [outcome EXCEPT ![c] = "nokey"]
    /\ Unlock(c)
    /\ UNCHANGED <<pending, file, crashes, damaged>>

(* NewResharing: the lock is kept until Stop; no keyshare is no error.      *)
ReadForResharing(c) ==
    /\ pc[c] = "read" /\ c \in Resharing
    /\ key' = [key EXCEPT ![c] = file]
    /\ Goto(c, "check")
    /\ UNCHANGED <<locked, pending, file, outcome, fatal, crashes, holds, damaged>>

(* Execute: the unsynchronised read of pendingProcesses.                    *)
CheckPending(c) ==
    /\ pc[c] = "check"
    /\ IF Session[c] \in pending
       THEN Goto(c, "done") /\ outcome' = [outcome EXCEPT ![c] = "pending"]
       ELSE Goto(c, "mark") /\ UNCHANGED outcome
    /\ UNCHANGED <<locked, pending, file, key, fatal, crashes, holds, damaged>>

(* Execute: the session is marked, and start is on its way.                 *)
MarkPending(c) ==
    /\ pc[c] = "mark"
    /\ pending' = pending \cup {Session[c]}
    /\ Goto(c, "join")
    /\ UNCHANGED <<locked, file, key, outcome, fatal, crashes, holds, damaged>>

(* The session starts: Run is called.                                       *)
Join(c) ==
    /\ pc[c] = "join"
    /\ Goto(c, IF LocksLate(c) THEN "runlock" ELSE "rounds")
    /\ UNCHANGED <<locked, pending, file, key, outcome, fatal, crashes, holds, damaged>>

(* The coordinator stays silent, or TssTimeout ends the wait: Run is never  *)
(* called.                                                                  *)
JoinFails(c) ==
    /\ pc[c] = "join" /\ c \in Lonely[scheme]
    /\ Goto(c, "clear")
    /\ outcome' = [outcome EXCEPT ![c] = "error"]
    /\ UNCHANGED <<locked, pending, file, key, fatal, crashes, holds, damaged>>

(* A plausible bug in Keygen.Run: the keyshare is not locked.               *)
LockInRunForgotten(c) ==
    /\ pc[c] = "runlock"
    /\ Goto(c, "rounds")
    /\ UNCHANGED <<locked, pending, file, key, outcome, fatal, crashes, holds, damaged>>

(* Keygen.Run: LockKeyshare, whatever has become of the context meanwhile.  *)
LockInRun(c) ==
    /\ pc[c] = "runlock"
    /\ Lock(c)
    /\ Goto(c, "rounds")
    /\ UNCHANGED <<pending, file, key, outcome, fatal, crashes, damaged>>

(* The party fails, or the process is cancelled, before it has a result.    *)
RoundsFail(c) ==
    /\ pc[c] = "rounds"
    /\ Goto(c, "clear")
    /\ outcome' = [outcome EXCEPT ![c] = "error"]
    /\ UNCHANGED <<locked, pending, file, key, fatal, crashes, holds, damaged>>

(* Run never returns: after a broadcast that failed, or a cancellation, its *)
(* goroutines may wait for each other (the module ProcessRun), and neither  *)
(* the reset of pendingProcesses nor Stop is reached.                       *)
RunHangs(c) ==
    /\ pc[c] = "rounds"
    /\ Goto(c, "hung")
    /\ UNCHANGED <<locked, pending, file, key, outcome, fatal, crashes, holds, damaged>>

(* processEndMessage of a signing: the signature goes to the caller.        *)
Sign(c) ==
    /\ pc[c] = "rounds" /\ c \in Signing
    /\ Goto(c, "clear")
    /\ outcome' = [outcome EXCEPT ![c] = "ok"]
    /\ UNCHANGED <<locked, pending, file, key, fatal, crashes, holds, damaged>>

(* processEndMessage of keygen and resharing: StoreKeyshare opens the file, *)
(* which truncates it ...                                                   *)
Truncate(c) ==
    /\ pc[c] = "rounds" /\ c \notin Signing
    /\ Goto(c, "write")
    /\ file' = Torn
    /\ UNCHANGED <<locked, pending, key, outcome, fatal, crashes, holds, damaged>>

(* ... and writes the new keyshare.                                         *)
Write(c) ==
    /\ pc[c] = "write"
    /\ Goto(c, "clear")
    /\ file' = c
    /\ outcome' = [outcome EXCEPT ![c] = "ok"]
    /\ UNCHANGED <<locked, pending, key, fatal, crashes, holds, damaged>>

(* The write fails: the old keyshare is gone and the new one not there.     *)
WriteFails(c) ==
    /\ pc[c] = "write" /\ DiskFails
    /\ Goto(c, "clear")
    /\ outcome' = [outcome EXCEPT ![c] = "error"]
    /\ damaged' = TRUE
    /\ UNCHANGED <<locked, pending, file, key, fatal, crashes, holds>>

(* A plausible bug in Execute: only a success resets pendingProcesses.      *)
ClearPendingOfSuccess(c) ==
    /\ pc[c] = "clear"
    /\ pending' = IF outcome[c] = "ok" THEN pending \ {Session[c]} ELSE pending
    /\ Goto(c, "stop")
    /\ UNCHANGED <<locked, file, key, outcome, fatal, crashes, holds, damaged>>

(* Execute, deferred: the session may be executed again.                    *)
ClearPending(c) ==
    /\ pc[c] = "clear"
    /\ pending' = pending \ {Session[c]}
    /\ Goto(c, "stop")
    /\ UNCHANGED <<locked, file, key, outcome, fatal, crashes, holds, damaged>>

(* Execute, deferred: Stop, which unlocks the keyshare of keygen and        *)
(* resharing whether or not Run has locked it.                              *)
Stop(c) ==
    /\ pc[c] = "stop"
    /\ Goto(c, "done")
    /\ IF c \in Signing THEN UNCHANGED <<locked, holds, fatal>> ELSE Unlock(c)
    /\ UNCHANGED <<pending, file, key, outcome, crashes, damaged>>

(* The relayer is killed and restarted, or the racing accesses to the map   *)
(* of pendingProcesses stop it: only the file survives.                     *)
Crash ==
    /\ crashes < MaxCrashes
    /\ \E c \in Call : Active(c)
    /\ crashes' = crashes + 1
    /\ pc'      = [c \in Call |-> IF Active(c) THEN "dead" ELSE pc[c]]
    /\ locked'  = FALSE
    /\ holds'   = [c \in Call |-> FALSE]
    /\ pending' = {}
    /\ damaged' = (damaged \/ \E c \in Call : pc[c] = "write")
    /\ UNCHANGED <<scheme, file, key, outcome, fatal>>

Operation(c) ==
    \/ Request(c)
    \/ LockInConstructor(c)
    \/ ReadForKeygen(c)
    \/ ReadForSigning(c)
    \/ ReadForResharing(c)
    \/ CheckPending(c)
    \/ MarkPending(c)
    \/ Join(c)
    \/ JoinFails(c)
    \/ LockInRun(c)
    \/ RoundsFail(c)
    \/ RunHangs(c)
    \/ Sign(c)
    \/ Truncate(c)
    \/ Write(c)
    \/ WriteFails(c)
    \/ ClearPending(c)
    \/ Stop(c)

Step(c) == Operation(c) /\ UNCHANGED scheme

Next == ~fatal /\ (Crash \/ \E c \in Call : Step(c))

Spec == Init /\ [][Next]_vars

(* Goroutines run, and TssTimeout ends the wait for peers.  The rounds of a *)
(* party come to a result, to an error or to nothing at all: Run hangs.  No *)
(* more is asked of sync.Mutex than that a waiter gets it when it stays     *)
(* free: the calls are finitely many.                                       *)
Fairness ==
    \A c \in Call : WF_vars(~fatal /\ pc[c] # "idle" /\ Step(c))

FairSpec == Spec /\ Fairness
-----------------------------------------------------------------------------
(* Type invariant.                                                          *)
Content == {Missing, Torn, Initial} \cup Call
TypeOK ==
    /\ scheme \in Schemes
    /\ pc \in [Call -> {"idle", "lock", "read", "check", "mark", "join", "runlock",
                        "rounds", "hung", "write", "clear", "stop", "done", "dead"}]
    /\ locked \in BOOLEAN
    /\ pending \subseteq { Session[c] : c \in Call }
    /\ file \in Content
    /\ key \in [Call -> Content]
    /\ outcome \in [Call -> {"none", "resolved", "nokey", "pending", "ok", "error"}]
    /\ fatal \in BOOLEAN
    /\ crashes \in Nat
    /\ holds \in [Call -> BOOLEAN]
    /\ damaged \in BOOLEAN

(* Where Execute holds its session in pendingProcesses.                     *)
Executing(c) == pc[c] \in {"join", "runlock", "rounds", "hung", "write", "clear"}

(* The mutex is held by at most one call, and whenever it is locked its     *)
(* holder is still at work: no error path, refused session or crash leaves  *)
(* the keyshare locked by a call that has returned.  A holder whose Run     *)
(* hangs keeps it, see HandlersReturn.                                      *)
LockSound ==
    /\ \A c, d \in Call : holds[c] /\ holds[d] => c = d
    /\ locked <=> \E c \in Call : holds[c] /\ Active(c)

(* A signing or resharing never sees a half written keyshare, unless a      *)
(* crash or a disk error left it so: their read under the lock excludes the *)
(* truncating write of StoreKeyshare.                                       *)
ReadsWhole ==
    \A c \in Signing \cup Resharing : key[c] = Torn => damaged

(* A resharing works on the keyshare that is in the store until it replaces *)
(* it: no keygen and no other resharing changes the file in between.        *)
ResharingKeepsKey ==
    \A c \in Resharing :
        pc[c] \in {"check", "mark", "join", "rounds", "hung"} => file = key[c]

(* A session marked in pendingProcesses is one that a call executes: a      *)
(* session id is refused for ever only when the Run of a call hangs.        *)
PendingOwned ==
    \A sid \in pending : \E c \in Call : Session[c] = sid /\ Executing(c)

(* A call waits for the keyshare mutex behind a Run that hangs with it.     *)
Starved(c) ==
    pc[c] \in {"lock", "runlock"} /\ \E d \in Call : holds[d] /\ pc[d] = "hung"

(* Every handler returns, or dies with the relayer, unless its own Run      *)
(* hangs or it starves behind a keygen or resharing whose Run hangs with    *)
(* the keyshare mutex: the locks taken in constructors and in Run never     *)
(* wait for each other, and a hung signing blocks nobody.                   *)
HandlersReturn ==
    \A c \in Call :
        pc[c] # "idle" ~> pc[c] \in {"done", "dead", "hung"} \/ Starved(c)

(* "LockKeyshare locks keyshare from reading and writing to prevent keygen  *)
(* or resharing being done in parallel with other tss processes"            *)
(* (keyshare/ecdsa.go:43-45): no signing is at work while a keygen or a     *)
(* resharing holds the keyshare.                                            *)
NotInParallel ==
    \A c \in Keygen \cup Resharing, d \in Signing :
        holds[c] => pc[d] # "rounds"

(* An Execute that times out returns an error (Test_KeygenTimeout,          *)
(* keygen_test.go:60-89): the relayer is not stopped by the unlock of a     *)
(* mutex that nobody has locked.                                            *)
UnlocksMatched == ~fatal

(* Of two executions of a session one is refused with "process already      *)
(* pending" (Test_PendingProcessExists, signing_test.go:124-152).           *)
OnePerSession ==
    \A c, d \in Call :
        (Session[c] = Session[d] /\ Executing(c) /\ Executing(d)) => c = d
-----------------------------------------------------------------------------
(* The refinement mapping to KeyshareStore.  A replacement takes effect     *)
(* with the truncation: nobody looks at the file until it is written, or    *)
(* lost.                                                                    *)
Writers == { c \in Call : pc[c] = "write" }
StoreNow == IF Writers = {} THEN file ELSE CHOOSE c \in Call : c \in Writers

PhaseOf(c) ==
    IF c \in Writers THEN "storing"
    ELSE IF pc[c] \in {"clear", "stop", "done", "dead"} THEN "over"
    ELSE IF c \in Keygen \/ pc[c] \in {"idle", "lock", "read"} THEN "new"
    ELSE "seen"

PhaseNow == [c \in Call |-> PhaseOf(c)]

SeenNow == [c \in Signing \cup Resharing |-> key[c]]

Store == INSTANCE KeyshareStore
         WITH store <- StoreNow, seen <- SeenNow, phase <- PhaseNow

(* Behind the mutex, reads and replacements of the keyshare are atomic, and *)
(* no replacement by a keygen or another resharing is lost by a resharing   *)
(* that has read the keyshare before (LockKeyshare, GetKeyshare and         *)
(* StoreKeyshare of the keyshare store, and the Stop that unlocks it).      *)
ImplementsStore == Store!Spec
-----------------------------------------------------------------------------
(* The inductive strengthening, for relayers whose ECDSA keygens reach Run. *)

(* Where a call holds the mutex of the keyshare store.                      *)
Inside(c) ==
    \/ c \in Signing   /\ pc[c] = "read"
    \/ c \in Resharing /\ pc[c] \in {"read", "check", "mark", "join", "rounds",
                                     "hung", "write", "clear", "stop"}
    \/ c \in Keygen    /\ pc[c] \in {"rounds", "hung", "write", "clear", "stop"}
    \/ c \in Keygen    /\ scheme = "frost" /\ pc[c] \in {"check", "mark", "join"}

(* Each kind of process has its own way through the labels.                 *)
Routes ==
    \A c \in Call :
        /\ pc[c] = "lock"    => ~LocksLate(c)
        /\ pc[c] = "runlock" => LocksLate(c)
        /\ pc[c] = "read"    => c \notin Keygen \/ LocksLate(c)
        /\ pc[c] = "write"   => c \notin Signing

(* The mutex is locked exactly while one call is inside.                    *)
LockPart ==
    /\ \A c \in Call : holds[c] <=> Inside(c)
    /\ \A c, d \in Call : Inside(c) /\ Inside(d) => c = d
    /\ locked <=> \E c \in Call : Inside(c)
    /\ ~fatal

(* A torn file is being written or was damaged, and a file that is being    *)
(* written is torn.                                                         *)
FilePart ==
    /\ file = Torn => damaged \/ \E c \in Call : pc[c] = "write"
    /\ Writers # {} => file = Torn
    /\ ReadsWhole
    /\ ResharingKeepsKey

Inductive == Routes /\ LockPart /\ FilePart /\ PendingOwned
=============================================================================
