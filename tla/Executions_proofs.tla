-------------------------- MODULE Executions_proofs -------------------------
(***************************************************************************)
(* Theorems about Executions for any number of handler calls, sessions and *)
(* crashes.  Those about the keyshare mutex assume that every ECDSA keygen *)
(* reaches Run: Stop unlocks a mutex that only Run of a keygen locks.      *)
(***************************************************************************)
EXTENDS Executions, TLAPS

(* The peers of ECDSA keygens answer.                                       *)
KeygensRun == "ecdsa" \in Schemes => Lonely["ecdsa"] \cap Keygen = {}

-----------------------------------------------------------------------------
(* Types.                                                                   *)
LEMMA Typing == Spec => []TypeOK
<1>1. Init => TypeOK
  <2> SUFFICES ASSUME Init  PROVE TypeOK
    OBVIOUS
  <2>1. /\ locked \in BOOLEAN /\ fatal \in BOOLEAN /\ damaged \in BOOLEAN
        /\ holds \in [Call -> BOOLEAN]
    BY Zenon DEF Init
  <2> QED  BY <2>1 DEF Init, TypeOK, Content
<1>2. TypeOK /\ [Next]_vars => TypeOK'
  <2> SUFFICES ASSUME TypeOK, [Next]_vars  PROVE TypeOK'
    OBVIOUS
  <2> USE DEF TypeOK, Goto, LocksLate
  <2>1. ASSUME Crash  PROVE TypeOK'
    <3>1. locked' \in BOOLEAN /\ damaged' \in BOOLEAN /\ holds' \in [Call -> BOOLEAN]
      BY <2>1, Zenon DEF Crash
    <3> QED  BY <2>1, <3>1 DEF Crash
  <2>2. ASSUME NEW c \in Call, Request(c), UNCHANGED scheme
        PROVE  TypeOK'
    BY <2>2 DEF Request
  <2>3. ASSUME NEW c \in Call, LockInConstructor(c) \/ LockInRun(c), UNCHANGED scheme
        PROVE  TypeOK'
    BY <2>3 DEF LockInConstructor, LockInRun, Lock
  <2>4. ASSUME NEW c \in Call,
               ReadForKeygen(c) \/ ReadForSigning(c) \/ ReadForResharing(c), UNCHANGED scheme
        PROVE  TypeOK'
    BY <2>4 DEF ReadForKeygen, ReadForSigning, ReadForResharing, Unlock
  <2>5. ASSUME NEW c \in Call, CheckPending(c) \/ MarkPending(c) \/ ClearPending(c), UNCHANGED scheme
        PROVE  TypeOK'
    BY <2>5 DEF CheckPending, MarkPending, ClearPending
  <2>6. ASSUME NEW c \in Call, Join(c) \/ JoinFails(c) \/ RoundsFail(c) \/ RunHangs(c) \/ Sign(c), UNCHANGED scheme
        PROVE  TypeOK'
    BY <2>6 DEF Join, JoinFails, RoundsFail, RunHangs, Sign
  <2>7. ASSUME NEW c \in Call, Truncate(c) \/ Write(c) \/ WriteFails(c), UNCHANGED scheme
        PROVE  TypeOK'
    BY <2>7 DEF Truncate, Write, WriteFails, Content
  <2>8. ASSUME NEW c \in Call, Stop(c), UNCHANGED scheme
        PROVE  TypeOK'
    BY <2>8 DEF Stop, Unlock
  <2>9. CASE UNCHANGED vars
    BY <2>9 DEF vars
  <2> QED
    BY <2>1, <2>2, <2>3, <2>4, <2>5, <2>6, <2>7, <2>8, <2>9 DEF Next, Step, Operation
<1> QED  BY <1>1, <1>2, PTL DEF Spec

-----------------------------------------------------------------------------
LEMMA SchemeIs == TypeOK => scheme = "ecdsa" \/ scheme = "frost"
BY CallAssumption DEF TypeOK

(* The mutex.  A step of c leaves the other calls where they are.           *)
Moves(c) ==
    /\ UNCHANGED scheme
    /\ \A d \in Call \ {c} : pc'[d] = pc[d]

(* Inside or outside, c stays there and leaves the mutex alone.             *)
LEMMA LockKept ==
    ASSUME TypeOK, LockPart, NEW c \in Call, Moves(c),
           Inside(c)' <=> Inside(c), UNCHANGED <<locked, holds, fatal>>
    PROVE  LockPart'
<1>1. \A d \in Call : Inside(d)' <=> Inside(d)
  BY DEF Moves, Inside
<1> QED  BY <1>1 DEF LockPart

(* c enters.                                                                *)
LEMMA LockTaken ==
    ASSUME TypeOK, LockPart, NEW c \in Call, Moves(c), Lock(c), Inside(c)',
           UNCHANGED fatal
    PROVE  LockPart'
<1>1. \A d \in Call \ {c} : Inside(d)' <=> Inside(d)
  BY DEF Moves, Inside
<1>2. \A d \in Call : ~Inside(d)
  BY DEF Lock, LockPart
<1>3. \A d \in Call : holds'[d] <=> Inside(d)'
  BY <1>1 DEF Lock, LockPart, TypeOK
<1> QED  BY <1>1, <1>2, <1>3 DEF LockPart, Lock

(* c leaves.                                                                *)
LEMMA LockGiven ==
    ASSUME TypeOK, LockPart, NEW c \in Call, Moves(c), Unlock(c), Inside(c),
           ~Inside(c)'
    PROVE  LockPart'
<1>1. \A d \in Call \ {c} : Inside(d)' <=> Inside(d)
  BY DEF Moves, Inside
<1>2. \A d \in Call \ {c} : ~Inside(d)
  BY DEF LockPart
<1>3. \A d \in Call : holds'[d] <=> Inside(d)'
  BY <1>1 DEF Unlock, LockPart, TypeOK
<1>4. locked
  BY DEF LockPart
<1> QED  BY <1>1, <1>2, <1>3, <1>4 DEF LockPart, Unlock

(* The mutex is used in pairs, session by session: a resharing that is past *)
(* its constructor never finds its own session pending.                     *)
LEMMA LockStep ==
    ASSUME KeygensRun, TypeOK, Inductive, NEW c \in Call, Step(c)
    PROVE  LockPart' /\ Routes'
<1> USE DEF Goto, Inductive
<1>1. Moves(c)
  BY DEF Moves, TypeOK, Step, Operation, Request, LockInConstructor, ReadForKeygen, ReadForSigning,
         ReadForResharing, CheckPending, MarkPending, Join, JoinFails, LockInRun,
         RoundsFail, RunHangs, Sign, Truncate, Write, WriteFails, ClearPending, Stop
<1>2. CASE LockInConstructor(c) \/ LockInRun(c)
  <2>1. /\ pc[c] \in {"lock", "runlock"} /\ UNCHANGED scheme
        /\ pc' = [pc EXCEPT ![c] = IF pc[c] = "runlock" THEN "rounds"
                                  ELSE IF c \in Keygen THEN "check" ELSE "read"]
    BY <1>1, <1>2 DEF LockInConstructor, LockInRun, Moves
  <2>2. Inside(c)'
    <3>1. pc'[c] = IF pc[c] = "runlock" THEN "rounds"
                   ELSE IF c \in Keygen THEN "check" ELSE "read"
      BY <2>1 DEF TypeOK
    <3>2. CASE pc[c] = "lock"
      BY <2>1, <3>1, <3>2, SchemeIs DEF Inside, Routes, LocksLate, Call
    <3>3. CASE pc[c] = "runlock"
      BY <3>1, <3>3 DEF Inside, Routes, LocksLate
    <3> QED  BY <2>1, <3>2, <3>3
  <2>3. Routes'
    BY <2>1 DEF Routes, LocksLate, TypeOK
  <2> QED  BY <1>1, <1>2, <2>2, <2>3, LockTaken DEF LockInConstructor, LockInRun
<1>3. CASE ReadForSigning(c) \/ (Stop(c) /\ c \notin Signing)
  <2>1. Inside(c) /\ ~Inside(c)' /\ Routes'
    BY <1>1, <1>3, SchemeIs, CallAssumption DEF Moves, LocksLate, ReadForSigning, Stop, Inside, Routes, TypeOK, Call
  <2> QED  BY <1>1, <1>3, <2>1, LockGiven DEF ReadForSigning, Stop
<1>4. CASE CheckPending(c)
  <2>1. ASSUME c \in Resharing \/ (c \in Keygen /\ scheme = "frost")
        PROVE  Session[c] \notin pending
    <3>1. SUFFICES ASSUME Session[c] \in pending  PROVE FALSE
      OBVIOUS
    <3>2. PICK d \in Call : Session[d] = Session[c] /\ Executing(d)
      BY <3>1 DEF PendingOwned
    <3>3. (c \in Resharing /\ d \in Resharing) \/ (c \in Keygen /\ d \in Keygen)
      <4>1. c \in Call /\ d \in Call /\ Session[c] = Session[d]
        BY <3>2
      <4>2. \A K \in {Keygen, Signing, Resharing} : c \in K <=> d \in K
        BY <4>1, SessionAssumption
      <4> QED  BY <2>1, <4>2
    <3>4. Inside(d) /\ pc[d] # "check"
      BY <2>1, <3>2, <3>3, CallAssumption DEF Executing, Inside, Routes, LocksLate
    <3>5. Inside(c) /\ pc[c] = "check"
      BY <1>4, <2>1 DEF CheckPending, Inside
    <3> QED  BY <3>4, <3>5 DEF LockPart
  <2>2. Inside(c)' <=> Inside(c)
    BY <1>1, <1>4, <2>1, CallAssumption DEF Moves, CheckPending, Inside, TypeOK, Call
  <2>3. UNCHANGED <<locked, holds, fatal>> /\ Routes'
    BY <1>1, <1>4 DEF Moves, LocksLate, CheckPending, Routes, TypeOK
  <2> QED  BY <1>1, <2>2, <2>3, LockKept
<1>5. CASE Request(c) \/ ReadForKeygen(c) \/ ReadForResharing(c) \/ MarkPending(c)
  <2>1. UNCHANGED <<locked, holds, fatal>> /\ Routes' /\ (Inside(c)' <=> Inside(c))
    BY <1>1, <1>5, SchemeIs, CallAssumption DEF Moves, LocksLate, Request, ReadForKeygen, ReadForResharing, MarkPending,
       Inside, Routes, TypeOK, Call
  <2> QED  BY <1>1, <2>1, LockKept
<1>6. CASE Join(c) \/ JoinFails(c) \/ RoundsFail(c) \/ RunHangs(c) \/ Sign(c)
  <2>1. JoinFails(c) /\ c \in Keygen => scheme = "frost"
    BY SchemeIs DEF JoinFails, KeygensRun, TypeOK
  <2>2. UNCHANGED <<locked, holds, fatal, scheme>> /\ pc[c] \in {"join", "rounds"}
    BY <1>1, <1>6 DEF Moves, Join, JoinFails, RoundsFail, RunHangs, Sign
  <2>3. Routes'
    BY <1>6, <2>2, CallAssumption DEF Join, JoinFails, RoundsFail, RunHangs, Sign, Routes,
       LocksLate, TypeOK
  <2>4. Inside(c)' <=> Inside(c)
    BY <1>6, <2>1, <2>2, SchemeIs, CallAssumption DEF Join, JoinFails, RoundsFail, RunHangs, Sign,
       Inside, LocksLate, TypeOK, Call
  <2> QED  BY <1>1, <2>2, <2>3, <2>4, LockKept
<1>7. CASE Truncate(c) \/ Write(c) \/ WriteFails(c) \/ ClearPending(c)
  <2>1. UNCHANGED <<locked, holds, fatal>> /\ Routes' /\ (Inside(c)' <=> Inside(c))
    BY <1>1, <1>7, SchemeIs, CallAssumption DEF Moves, LocksLate, Truncate, Write, WriteFails, ClearPending, Inside,
       Routes, TypeOK, Call
  <2> QED  BY <1>1, <2>1, LockKept
<1>8. CASE Stop(c) /\ c \in Signing
  <2>1. UNCHANGED <<locked, holds, fatal>> /\ Routes' /\ (Inside(c)' <=> Inside(c))
    BY <1>1, <1>8, SchemeIs, CallAssumption DEF Moves, LocksLate, Stop, Inside, Routes, TypeOK, Call
  <2> QED  BY <1>1, <2>1, LockKept
<1> QED  BY <1>2, <1>3, <1>4, <1>5, <1>6, <1>7, <1>8 DEF Step, Operation

(* After a crash nobody is inside and the mutex is new.                     *)
LEMMA LockCrash ==
    ASSUME TypeOK, Inductive, Crash
    PROVE  LockPart' /\ Routes'
<1>1. \A c \in Call : pc'[c] \in {"idle", "done", "dead"}
  BY DEF Crash, Active, TypeOK
<1>2. \A c \in Call : ~Inside(c)'
  BY <1>1 DEF Inside
<1> QED  BY <1>1, <1>2 DEF Crash, LockPart, Routes, Inductive

-----------------------------------------------------------------------------
(* The file.  It is only touched by calls that are inside, and those that   *)
(* read it under the lock are alone with it.                                *)
LEMMA FileStep ==
    ASSUME TypeOK, TypeOK', Inductive, NEW c \in Call, Step(c)
    PROVE  FilePart'
<1> USE DEF Inductive, FilePart, Goto
<1>0. \A d \in Call \ {c} : pc'[d] = pc[d] /\ key'[d] = key[d]
  BY DEF TypeOK, Step, Operation, Request, LockInConstructor, ReadForKeygen, ReadForSigning,
         ReadForResharing, CheckPending, MarkPending, Join, JoinFails, LockInRun,
         RoundsFail, RunHangs, Sign, Truncate, Write, WriteFails, ClearPending, Stop
<1>1. ASSUME UNCHANGED <<file, damaged>>, pc[c] # "write", key'[c] = key[c],
             pc'[c] # "write",
             c \in Resharing /\ pc'[c] \in {"check", "mark", "join", "rounds", "hung"} =>
                pc[c] \in {"check", "mark", "join", "rounds", "hung"}
      PROVE  FilePart'
  <2>1. file' = Torn => damaged' \/ \E d \in Call : pc'[d] = "write"
    BY <1>0, <1>1
  <2>2. ReadsWhole'
    BY <1>0, <1>1 DEF ReadsWhole, Call
  <2>3. ResharingKeepsKey'
    BY <1>0, <1>1 DEF ResharingKeepsKey, Call
  <2>4. (Writers # {} => file = Torn)'
    BY <1>0, <1>1 DEF Writers
  <2> QED  BY <2>1, <2>2, <2>3, <2>4
<1>2. CASE Request(c) \/ LockInConstructor(c)
  <2>1. /\ UNCHANGED <<file, damaged, key>> /\ pc[c] # "write" /\ pc'[c] # "write"
        /\ c \in Resharing => pc'[c] \notin {"check", "mark", "join", "rounds", "hung"}
    BY <1>2, CallAssumption DEF TypeOK, Request, LockInConstructor
  <2> QED  BY <1>1, <2>1
<1>3. CASE LockInRun(c)
  <2>1. /\ UNCHANGED <<file, damaged, key>> /\ pc[c] = "runlock" /\ pc'[c] # "write"
        /\ c \notin Resharing
    BY <1>3, CallAssumption DEF TypeOK, LockInRun, Routes, LocksLate
  <2> QED  BY <1>1, <2>1
<1>4. CASE CheckPending(c) \/ MarkPending(c) \/ ClearPending(c) \/ Stop(c)
  <2>1. /\ UNCHANGED <<file, damaged, key>> /\ pc[c] # "write" /\ pc'[c] # "write"
        /\ pc'[c] \in {"check", "mark", "join", "rounds", "hung"} =>
              pc[c] \in {"check", "mark", "join", "rounds", "hung"}
    BY <1>4 DEF TypeOK, CheckPending, MarkPending, ClearPending, Stop
  <2> QED  BY <1>1, <2>1
<1>5. CASE Join(c) \/ JoinFails(c) \/ RoundsFail(c) \/ RunHangs(c) \/ Sign(c)
  <2>1. /\ UNCHANGED <<file, damaged, key>> /\ pc[c] # "write" /\ pc'[c] # "write"
        /\ pc[c] \in {"check", "mark", "join", "rounds", "hung"}
    BY <1>5 DEF TypeOK, Join, JoinFails, RoundsFail, RunHangs, Sign
  <2> QED  BY <1>1, <2>1
<1>6. CASE ReadForKeygen(c) \/ ReadForSigning(c) \/ ReadForResharing(c)
  <2>1. /\ UNCHANGED <<file, damaged>> /\ pc[c] = "read" /\ key'[c] = file
        /\ pc'[c] # "write"
    BY <1>6 DEF TypeOK, ReadForKeygen, ReadForSigning, ReadForResharing
  <2>2. file' = Torn => damaged' \/ \E d \in Call : pc'[d] = "write"
    BY <1>0, <2>1
  <2>3. ASSUME c \in Signing \cup Resharing, file = Torn  PROVE damaged
    <3>1. Inside(c)
      BY <2>1, <2>3 DEF Inside
    <3>2. ASSUME NEW d \in Call, pc[d] = "write"  PROVE FALSE
      <4>1. Inside(d)
        BY <3>2 DEF Inside, Routes, Call
      <4> QED  BY <2>1, <3>1, <3>2, <4>1 DEF LockPart
    <3> QED  BY <2>3, <3>2
  <2>4. ReadsWhole'
    BY <1>0, <2>1, <2>3 DEF ReadsWhole, Call
  <2>5. ResharingKeepsKey'
    BY <1>0, <2>1 DEF ResharingKeepsKey, Call
  <2>6. (Writers # {} => file = Torn)'
    BY <1>0, <2>1 DEF Writers
  <2> QED  BY <2>2, <2>4, <2>5, <2>6
<1>7. CASE Truncate(c) \/ Write(c) \/ WriteFails(c)
  <2>1. /\ pc[c] \in {"rounds", "write"} /\ c \notin Signing
        /\ UNCHANGED key /\ (damaged => damaged')
        /\ pc'[c] \in {"write", "clear"}
        /\ file' = Torn => damaged' \/ pc'[c] = "write"
        /\ pc'[c] = "write" => file' = Torn
    BY <1>7, FileAssumption DEF TypeOK, Truncate, Write, WriteFails, Routes
  <2>2. Inside(c)
    BY <2>1 DEF Inside, Call, Routes
  <2>3. ReadsWhole'
    BY <2>1 DEF ReadsWhole
  <2>4. ResharingKeepsKey'
    <3> SUFFICES ASSUME NEW d \in Resharing,
                        pc'[d] \in {"check", "mark", "join", "rounds", "hung"}
                 PROVE  FALSE
      BY DEF ResharingKeepsKey
    <3>1. d # c /\ d \in Call /\ pc'[d] = pc[d]
      BY <1>0, <2>1 DEF Call
    <3>2. Inside(d)
      BY <3>1 DEF Inside
    <3> QED  BY <2>2, <3>1, <3>2 DEF LockPart
  <2>5. \A d \in Call \ {c} : pc[d] # "write"
    BY <2>2 DEF LockPart, Inside, Routes, Call
  <2>6. (Writers # {} => file = Torn)'
    BY <1>0, <2>1, <2>5 DEF Writers
  <2> QED  BY <2>1, <2>3, <2>4, <2>6
<1> QED  BY <1>2, <1>3, <1>4, <1>5, <1>6, <1>7 DEF Step, Operation

(* A crash in StoreKeyshare counts as damage.                               *)
LEMMA FileCrash ==
    ASSUME TypeOK, Inductive, Crash
    PROVE  FilePart'
<1>1. \A c \in Call : pc'[c] \in {"idle", "done", "dead"}
  BY DEF Crash, Active, TypeOK
<1> QED
  BY <1>1 DEF Crash, Inductive, FilePart, Writers, ReadsWhole, ResharingKeepsKey, Call

-----------------------------------------------------------------------------
(* A session stays marked only while one of its calls is in Execute.        *)
LEMMA PendingStep ==
    ASSUME TypeOK, PendingOwned, NEW c \in Call, Step(c)
    PROVE  PendingOwned'
<1> USE DEF PendingOwned, Goto, Executing
<1>1. CASE MarkPending(c)
  BY <1>1 DEF MarkPending, TypeOK
<1>2. CASE ClearPending(c)
  BY <1>2 DEF ClearPending, TypeOK
<1>3. ASSUME UNCHANGED pending, \A d \in Call : Executing(d) => Executing(d)'
      PROVE  PendingOwned'
  BY <1>3
<1>4. CASE Request(c) \/ LockInConstructor(c) \/ CheckPending(c) \/ Stop(c)
  BY <1>3, <1>4 DEF TypeOK, Request, LockInConstructor, CheckPending, Stop
<1>5. CASE ReadForKeygen(c) \/ ReadForSigning(c) \/ ReadForResharing(c)
  BY <1>3, <1>5 DEF TypeOK, ReadForKeygen, ReadForSigning, ReadForResharing
<1>6. CASE Join(c) \/ JoinFails(c) \/ LockInRun(c) \/ RoundsFail(c) \/ RunHangs(c) \/ Sign(c)
  BY <1>3, <1>6 DEF TypeOK, Join, JoinFails, LockInRun, RoundsFail, RunHangs, Sign
<1>7. CASE Truncate(c) \/ Write(c) \/ WriteFails(c)
  BY <1>3, <1>7 DEF TypeOK, Truncate, Write, WriteFails
<1> QED  BY <1>1, <1>2, <1>4, <1>5, <1>6, <1>7 DEF Step, Operation

-----------------------------------------------------------------------------
LEMMA Invariance ==
    ASSUME KeygensRun
    PROVE  Spec => []Inductive
<1>1. Init => Inductive
  BY FileAssumption
  DEF Init, Inductive, Routes, LockPart, FilePart, PendingOwned, Inside, ReadsWhole,
      ResharingKeepsKey, Writers, Call
<1>2. TypeOK /\ TypeOK' /\ Inductive /\ [Next]_vars => Inductive'
  <2> SUFFICES ASSUME TypeOK, TypeOK', Inductive, [Next]_vars  PROVE Inductive'
    OBVIOUS
  <2>1. ASSUME NEW c \in Call, Step(c)  PROVE Inductive'
    BY <2>1, LockStep, FileStep, PendingStep DEF Inductive
  <2>2. ASSUME Crash  PROVE Inductive'
    BY <2>2, LockCrash, FileCrash DEF Inductive, Crash, PendingOwned
  <2>3. CASE UNCHANGED vars
    BY <2>3 DEF vars, Inductive, Routes, LockPart, FilePart, PendingOwned, Inside,
                ReadsWhole, ResharingKeepsKey, Executing, LocksLate, Writers
  <2> QED  BY <2>1, <2>2, <2>3 DEF Next
<1> QED  BY <1>1, <1>2, Typing, PTL DEF Spec

(* While every ECDSA keygen reaches Run, the keyshare mutex is held by at   *)
(* most one process and always by one that has not returned yet.            *)
THEOREM MutexSound ==
    ASSUME KeygensRun
    PROVE  Spec => []LockSound
<1>1. Inductive => LockSound
  <2>1. \A c \in Call : Inside(c) => Active(c)
    BY DEF Inside, Active
  <2> QED  BY <2>1 DEF Inductive, LockPart, LockSound
<1> QED  BY <1>1, Invariance, PTL

(* ... and the relayer is never stopped by an unmatched unlock.             *)
THEOREM NoFatalUnlock ==
    ASSUME KeygensRun
    PROVE  Spec => []UnlocksMatched
<1>1. Inductive => UnlocksMatched
  BY DEF Inductive, LockPart, UnlocksMatched
<1> QED  BY <1>1, Invariance, PTL

(* Nobody who reads under the lock sees a keyshare that is being written.   *)
THEOREM WholeReads ==
    ASSUME KeygensRun
    PROVE  Spec => []ReadsWhole
<1>1. Inductive => ReadsWhole
  BY DEF Inductive, FilePart
<1> QED  BY <1>1, Invariance, PTL

(* The keyshare a resharing was built from is the stored one until the      *)
(* resharing itself replaces it.                                            *)
THEOREM KeyKept ==
    ASSUME KeygensRun
    PROVE  Spec => []ResharingKeepsKey
<1>1. Inductive => ResharingKeepsKey
  BY DEF Inductive, FilePart
<1> QED  BY <1>1, Invariance, PTL

(* pendingProcesses never blocks a session that nobody executes, with no    *)
(* assumption on the keygens: the deferred reset always runs.               *)
THEOREM PendingReleased == Spec => []PendingOwned
<1>1. Init => PendingOwned
  BY DEF Init, PendingOwned
<1>2. TypeOK /\ PendingOwned /\ [Next]_vars => PendingOwned'
  <2> SUFFICES ASSUME TypeOK, PendingOwned, [Next]_vars  PROVE PendingOwned'
    OBVIOUS
  <2>1. ASSUME NEW c \in Call, Step(c)  PROVE PendingOwned'
    BY <2>1, PendingStep
  <2>2. ASSUME Crash  PROVE PendingOwned'
    BY <2>2 DEF Crash, PendingOwned
  <2>3. CASE UNCHANGED vars
    BY <2>3 DEF vars, PendingOwned, Executing
  <2> QED  BY <2>1, <2>2, <2>3 DEF Next
<1> QED  BY <1>1, <1>2, Typing, PTL DEF Spec

-----------------------------------------------------------------------------
(* The refinement of KeyshareStore.  The mutex admits one writer, and the   *)
(* abstract store is ahead of the file exactly while there is one.          *)
LEMMA OneWriter ==
    ASSUME Inductive, NEW c \in Call, c \in Writers
    PROVE  Writers = {c} /\ StoreNow = c
<1>1. \A d \in Writers : Inside(d) /\ d \in Call
  BY DEF Inductive, Routes, Writers, Inside, Call
<1>2. Writers = {c}
  BY <1>1 DEF Inductive, LockPart
<1> QED  BY <1>2 DEF StoreNow

(* Whoever is inside without writing finds the abstract store settled.      *)
LEMMA SettledInside ==
    ASSUME Inductive, NEW c \in Call, Inside(c), pc[c] # "write"
    PROVE  Writers = {} /\ StoreNow = file /\ Store!Settled
<1>1. \A d \in Writers : Inside(d) /\ d \in Call /\ d # c
  BY DEF Inductive, Routes, Writers, Inside, Call
<1>2. Writers = {}
  BY <1>1 DEF Inductive, LockPart
<1> QED  BY <1>2 DEF StoreNow, Store!Settled, PhaseNow, PhaseOf, Store!Call, Call

(* A step of c moves c only.                                                *)
LEMMA PhaseMoved ==
    ASSUME TypeOK, NEW c \in Call, Moves(c)
    PROVE  /\ PhaseNow' = [PhaseNow EXCEPT ![c] = PhaseOf(c)']
           /\ Writers' \ {c} = Writers \ {c}
           /\ PhaseNow[c] = PhaseOf(c)
<1>1. Writers' \ {c} = Writers \ {c}
  BY DEF Writers, Moves
<1>2. \A d \in Call \ {c} : PhaseOf(d)' = PhaseOf(d)
  BY <1>1 DEF Moves, PhaseOf
<1> HIDE DEF PhaseOf
<1> QED  BY <1>1, <1>2 DEF PhaseNow

(* Calls that are not storing leave the store alone ...                     *)
LEMMA StoreKept ==
    ASSUME TypeOK, NEW c \in Call, Moves(c), UNCHANGED file,
           pc[c] # "write", pc'[c] # "write"
    PROVE  UNCHANGED StoreNow
<1>1. Writers' = Writers
  BY DEF Writers, Moves
<1> QED  BY <1>1 DEF StoreNow

(* ... and what it has seen, unless it reads.                               *)
LEMMA SilentRefines ==
    ASSUME TypeOK, NEW c \in Call, Moves(c), UNCHANGED <<file, SeenNow>>,
           pc[c] # "write", pc'[c] # "write",
           \/ PhaseOf(c)' = PhaseOf(c)
           \/ PhaseOf(c) \in {"new", "seen"} /\ PhaseOf(c)' = "over"
    PROVE  [Store!Next]_(Store!keyshares)
<1>1. UNCHANGED StoreNow
  BY StoreKept
<1>2. /\ PhaseNow' = [PhaseNow EXCEPT ![c] = PhaseOf(c)']
      /\ PhaseNow[c] = PhaseOf(c)
  BY PhaseMoved
<1>3. CASE PhaseOf(c)' = PhaseOf(c)
  <2>1. PhaseNow' = PhaseNow
    BY <1>2, <1>3 DEF PhaseNow
  <2> QED  BY <1>1, <2>1 DEF Store!keyshares
<1>4. CASE PhaseOf(c) \in {"new", "seen"} /\ PhaseOf(c)' = "over"
  <2>1. Store!Leave(c)
    BY <1>1, <1>2, <1>4 DEF Store!Leave
  <2> QED  BY <2>1 DEF Store!Next, Store!Call, Call
<1> QED  BY <1>3, <1>4

(* GetKeyshare in a constructor is a read of the abstract store.            *)
LEMMA ReadRefines ==
    ASSUME TypeOK, Inductive, NEW c \in Call, Moves(c),
           ReadForSigning(c) \/ ReadForResharing(c)
    PROVE  Store!See(c)
<1>1. /\ c \in Signing \cup Resharing /\ pc[c] = "read" /\ UNCHANGED file
      /\ key' = [key EXCEPT ![c] = file] /\ pc'[c] \in {"check", "done"}
  BY DEF ReadForSigning, ReadForResharing, Goto, TypeOK
<1>2. Inside(c)
  BY <1>1 DEF Inside
<1>3. StoreNow = file /\ Store!Settled /\ c \notin Writers
  BY <1>1, <1>2, SettledInside
<1>4. UNCHANGED StoreNow
  BY <1>1, StoreKept
<1>5. SeenNow' = [SeenNow EXCEPT ![c] = StoreNow]
  <2>1. \A d \in Signing \cup Resharing : key'[d] = IF d = c THEN file ELSE key[d]
    BY <1>1 DEF TypeOK, Call
  <2> QED  BY <2>1, <1>3 DEF SeenNow
<1>6. PhaseOf(c) = "new" /\ PhaseOf(c)' \in {"seen", "over"}
  BY <1>1, <1>3, CallAssumption DEF PhaseOf, Writers, Call
<1>7. /\ PhaseNow' = [PhaseNow EXCEPT ![c] = PhaseOf(c)']
      /\ PhaseNow[c] = PhaseOf(c)
  BY PhaseMoved
<1> QED  BY <1>1, <1>3, <1>4, <1>5, <1>6, <1>7 DEF Store!See

(* StoreKeyshare: the truncation is where the replacement takes effect, the *)
(* write settles it and a disk error loses it.                              *)
LEMMA TruncateRefines ==
    ASSUME TypeOK, Inductive, NEW c \in Call, Moves(c), Truncate(c)
    PROVE  Store!Replace(c)
<1>1. /\ c \in Keygen \cup Resharing /\ pc[c] = "rounds" /\ pc'[c] = "write"
      /\ UNCHANGED key
  BY DEF Truncate, Goto, TypeOK, Call
<1>2. Inside(c)
  BY <1>1 DEF Inside
<1>3. StoreNow = file /\ Store!Settled /\ Writers = {}
  BY <1>1, <1>2, SettledInside
<1>4. /\ PhaseNow' = [PhaseNow EXCEPT ![c] = PhaseOf(c)']
      /\ PhaseNow[c] = PhaseOf(c) /\ Writers' \ {c} = Writers \ {c}
  BY PhaseMoved
<1>5. Writers' = {c}
  <2>1. c \in Writers'
    BY <1>1 DEF Writers
  <2> QED  BY <2>1, <1>3, <1>4
<1>6. StoreNow' = c /\ PhaseOf(c)' = "storing" /\ UNCHANGED SeenNow
  BY <1>1, <1>5 DEF StoreNow, PhaseOf, SeenNow
<1>7. \/ c \in Keygen /\ PhaseOf(c) = "new"
      \/ c \in Resharing /\ PhaseOf(c) = "seen" /\ SeenNow[c] = StoreNow
  BY <1>1, <1>3, CallAssumption DEF PhaseOf, SeenNow, Inductive, FilePart, ResharingKeepsKey
<1> QED  BY <1>3, <1>4, <1>6, <1>7 DEF Store!Replace

LEMMA WriteRefines ==
    ASSUME TypeOK, Inductive, NEW c \in Call, Moves(c), Write(c) \/ WriteFails(c)
    PROVE  Store!Stored(c) \/ Store!Lose(c)
<1>1. /\ pc[c] = "write" /\ pc'[c] = "clear" /\ UNCHANGED key /\ c \in Writers
  BY DEF Write, WriteFails, Goto, TypeOK, Writers
<1>2. Writers = {c} /\ StoreNow = c
  BY <1>1, OneWriter
<1>3. /\ PhaseNow' = [PhaseNow EXCEPT ![c] = PhaseOf(c)']
      /\ PhaseNow[c] = PhaseOf(c) /\ Writers' \ {c} = Writers \ {c}
  BY PhaseMoved
<1>4. Writers' = {}
  <2>1. c \notin Writers'
    BY <1>1 DEF Writers
  <2> QED  BY <2>1, <1>2, <1>3
<1>5. PhaseOf(c) = "storing" /\ PhaseOf(c)' = "over" /\ UNCHANGED SeenNow
  BY <1>1, <1>4 DEF PhaseOf, SeenNow
<1>6. StoreNow' = file'
  BY <1>4 DEF StoreNow
<1>7. CASE Write(c)
  BY <1>2, <1>3, <1>5, <1>6, <1>7 DEF Write, Store!Stored
<1>8. CASE WriteFails(c)
  <2>1. file' = Torn
    BY <1>1, <1>8 DEF WriteFails, Inductive, FilePart
  <2> QED  BY <1>3, <1>5, <1>6, <2>1 DEF Store!Lose
<1> QED  BY <1>7, <1>8

(* A crash ends the calls that run, one of which may be storing.            *)
LEMMA CrashRefines ==
    ASSUME TypeOK, Inductive, Crash
    PROVE  Store!Crash
<1> DEFINE running == { c \in Call : Active(c) }
<1>1. Writers' = {} /\ StoreNow' = file
  <2>1. Writers' = {}
    BY DEF Crash, Active, TypeOK, Writers
  <2> QED  BY <2>1 DEF StoreNow, Crash
<1>2. Store!Settled <=> Writers = {}
  BY DEF Store!Settled, PhaseNow, PhaseOf, Writers, Store!Call, Call
<1>3. StoreNow' = IF Store!Settled THEN StoreNow ELSE Torn
  <2>1. CASE Writers = {}
    BY <1>1, <1>2, <2>1 DEF StoreNow
  <2>2. CASE Writers # {}
    BY <1>1, <1>2, <2>2 DEF Inductive, FilePart
  <2> QED  BY <2>1, <2>2
<1>4. \A c \in Call : PhaseNow[c] = "storing" => c \in running
  BY DEF PhaseNow, PhaseOf, Writers, Active
<1>5. \A c \in Call : PhaseOf(c)' = IF c \in running THEN "over" ELSE PhaseOf(c)
  BY <1>1 DEF Crash, PhaseOf, Active, TypeOK, Writers
<1>6. PhaseNow' = [c \in Call |-> IF c \in running THEN "over" ELSE PhaseNow[c]]
  <2> HIDE DEF PhaseOf, running
  <2> QED  BY <1>5 DEF PhaseNow
<1>7. running \in SUBSET Call
  OBVIOUS
<1>8. UNCHANGED SeenNow
  BY DEF Crash, SeenNow
<1> HIDE DEF running
<1> QED  BY <1>3, <1>4, <1>6, <1>7, <1>8 DEF Store!Crash, Store!Call, Call

(* Whatever the calls, the keyshare store behaves as one whose reads and    *)
(* replacements are atomic and whose resharings compare and swap.           *)
THEOREM StoreRefined ==
    ASSUME KeygensRun
    PROVE  Spec => ImplementsStore
<1>1. Init => Store!Init
  <2> SUFFICES ASSUME Init  PROVE Store!Init
    OBVIOUS
  <2>1. Writers = {}
    BY DEF Init, Writers
  <2>2. \A c \in Call : PhaseOf(c) = "new"
    BY <2>1 DEF Init, PhaseOf
  <2> HIDE DEF PhaseOf
  <2> QED
    BY <2>1, <2>2 DEF Init, Store!Init, StoreNow, SeenNow, PhaseNow, Store!Call, Call
<1>2. TypeOK /\ Inductive /\ [Next]_vars => [Store!Next]_(Store!keyshares)
  <2> SUFFICES ASSUME TypeOK, Inductive, [Next]_vars
               PROVE  [Store!Next]_(Store!keyshares)
    OBVIOUS
  <2>1. ASSUME NEW c \in Call, Step(c)  PROVE [Store!Next]_(Store!keyshares)
    <3>0. Moves(c)
      BY <2>1 DEF Moves, TypeOK, Step, Operation, Goto, Request, LockInConstructor,
         ReadForKeygen, ReadForSigning, ReadForResharing, CheckPending, MarkPending,
         Join, JoinFails, LockInRun, RoundsFail, RunHangs, Sign, Truncate, Write, WriteFails,
         ClearPending, Stop
    <3> USE DEF Goto, TypeOK, PhaseOf, Writers, SeenNow
    <3>1. CASE Request(c) \/ LockInConstructor(c)
      <4>1. /\ UNCHANGED <<file, key>> /\ pc[c] \in {"idle", "lock"}
            /\ pc'[c] \in {"lock", "read", "check"} /\ (pc'[c] = "check" => c \in Keygen)
        BY <3>1 DEF Request, LockInConstructor
      <4> QED  BY <3>0, <4>1, SilentRefines
    <3>2. CASE ReadForKeygen(c)
      <4>1. /\ UNCHANGED file /\ c \in Keygen /\ pc[c] = "read"
            /\ pc'[c] \in {"check", "done"} /\ UNCHANGED SeenNow
        BY <3>2, CallAssumption DEF ReadForKeygen
      <4> QED  BY <3>0, <4>1, SilentRefines
    <3>3. CASE ReadForSigning(c) \/ ReadForResharing(c)
      BY <3>0, <3>3, ReadRefines DEF Store!Next, Store!Call, Call
    <3>4. CASE CheckPending(c) \/ MarkPending(c) \/ Join(c) \/ LockInRun(c)
      <4>1. /\ UNCHANGED <<file, key>> /\ pc[c] \in {"check", "mark", "join", "runlock"}
            /\ pc'[c] \in {"mark", "done", "join", "runlock", "rounds"}
        BY <3>4 DEF CheckPending, MarkPending, Join, LockInRun
      <4> QED  BY <3>0, <4>1, SilentRefines
    <3>5. CASE JoinFails(c) \/ RoundsFail(c) \/ RunHangs(c) \/ Sign(c)
      <4>1. /\ UNCHANGED <<file, key>> /\ pc[c] \in {"join", "rounds"}
            /\ pc'[c] \in {"clear", "hung"}
        BY <3>5 DEF JoinFails, RoundsFail, RunHangs, Sign
      <4> QED  BY <3>0, <4>1, SilentRefines
    <3>6. CASE Truncate(c)
      BY <3>0, <3>6, TruncateRefines DEF Store!Next, Store!Call, Call
    <3>7. CASE Write(c) \/ WriteFails(c)
      BY <3>0, <3>7, WriteRefines DEF Store!Next, Store!Call, Call
    <3>8. CASE ClearPending(c) \/ Stop(c)
      <4>1. /\ UNCHANGED <<file, key>> /\ pc[c] \in {"clear", "stop"}
            /\ pc'[c] \in {"stop", "done"}
        BY <3>8 DEF ClearPending, Stop
      <4> QED  BY <3>0, <4>1, SilentRefines
    <3> QED  BY <2>1, <3>1, <3>2, <3>3, <3>4, <3>5, <3>6, <3>7, <3>8 DEF Step, Operation
  <2>2. CASE Crash
    BY <2>2, CrashRefines DEF Store!Next
  <2>3. CASE UNCHANGED vars
    BY <2>3 DEF vars, Store!keyshares, StoreNow, SeenNow, PhaseNow, PhaseOf, Writers
  <2> QED  BY <2>1, <2>2, <2>3 DEF Next
<1> QED  BY <1>1, <1>2, Typing, Invariance, PTL DEF Spec, ImplementsStore, Store!Spec
=============================================================================
