---------------------------- MODULE CopyRunProofs ----------------------------
(***************************************************************************)
(* What a run of the copy command may leave behind, and what its status    *)
(* says of it, for any foreign keys and any number of signals; and why it  *)
(* ends.                                                                   *)
(***************************************************************************)
EXTENDS CopyRun, FiniteSetTheorems, TLAPS

\* Before the first drop nothing has happened that would have to be undone.
Early == {"discover", "planned", "prompt", "prepare", "setup"}

Ended == {"settled", "returned"}

Outcomes == {"completed", "failed", "cancelled"}

\* What the status is at each stage of Copy.
StageInv ==
  /\ copy \in Early => present = FK /\ ledger = {} /\ copyErr = "none" /\ ~setupErr
  /\ copy \in {"setup", "drop"} => status = "preparing"
  /\ copy \in {"copying", "unwinding"} => status = "copying"
  /\ copy = "restore" => HasVitalOperations
  /\ copy \notin Ended => status \notin Outcomes

\* A missing key is in the backup file, and only a run that failed ends with one.
LedgerInv ==
  /\ copy \in {"drop", "copying", "unwinding"} => ledger = FK
  /\ Missing \subseteq ledger
  /\ copy \in Ended /\ Missing # {} => status = "failed"

\* A cancellation comes from a signal that found vital operations.
CancelInv ==
  /\ cancelled \/ handler # "idle" => requested
  /\ copyErr = "canceled" \/ copy = "unwinding" => cancelled

\* main goes on to the regular end of the process only when Copy has returned.
ExitInv ==
  /\ done # "none" => copy = "returned"
  /\ main = "closing" \/ exit \in {"finished", "fatal"} => done # "none"
  /\ exit = "immediate" => ~hasVital

IInv == TypeOK /\ StageInv /\ LedgerInv /\ CancelInv /\ ExitInv /\ HonestStatus

-----------------------------------------------------------------------------

LEMMA InitIInv == Init => IInv
<1> SUFFICES ASSUME Init PROVE IInv
  OBVIOUS
<1>1. TypeOK
  <2>1. {setupErr, cancelled, sigChan, hasVital, requested, shutdownChan, dbOpen}
           \subseteq BOOLEAN
    BY Zenon DEF Init
  <2> QED
    BY <2>1, CopyRunAssumption DEF Init, TypeOK
<1>2. StageInv /\ LedgerInv /\ CancelInv /\ ExitInv /\ HonestStatus
  BY DEF Init, StageInv, LedgerInv, CancelInv, ExitInv, HonestStatus, Missing, Early, Ended,
         Outcomes, HasVitalOperations
<1> QED
  BY <1>1, <1>2 DEF IInv

(* The steps of Copy.                                                      *)
LEMMA CopyStep == IInv /\ (Copy \/ Answer) => IInv'
<1> SUFFICES ASSUME IInv, Copy \/ Answer PROVE IInv'
  OBVIOUS
<1> USE DEF IInv, At, otherVars, signalVars, mainVars, Missing, Early, Ended, Outcomes,
            HasVitalOperations
<1>1. CASE Discover
  BY <1>1 DEF Discover, TypeOK, StageInv, LedgerInv, CancelInv, ExitInv, HonestStatus
<1>2. CASE AskConfirmation
  BY <1>2 DEF AskConfirmation, TypeOK, StageInv, LedgerInv, CancelInv, ExitInv, HonestStatus
<1>3. CASE Answer
  BY <1>3 DEF Answer, TypeOK, StageInv, LedgerInv, CancelInv, ExitInv, HonestStatus
<1>4. CASE Prepare
  BY <1>4 DEF Prepare, TypeOK, StageInv, LedgerInv, CancelInv, ExitInv, HonestStatus
<1>5. CASE BackUpKeys
  BY <1>5 DEF BackUpKeys, TypeOK, StageInv, LedgerInv, CancelInv, ExitInv, HonestStatus
<1>6. CASE BeginExecution
  BY <1>6 DEF BeginExecution, TypeOK, StageInv, LedgerInv, CancelInv, ExitInv, HonestStatus
<1>7. CASE EndExecution
  BY <1>7 DEF EndExecution, TypeOK, StageInv, LedgerInv, CancelInv, ExitInv, HonestStatus
<1>8. CASE EndCleanup
  BY <1>8 DEF EndCleanup, FinalStatus, TypeOK, StageInv, LedgerInv, CancelInv, ExitInv,
              HonestStatus
<1>9. CASE ReturnFromCopy
  BY <1>9 DEF ReturnFromCopy, TypeOK, StageInv, LedgerInv, CancelInv, ExitInv, HonestStatus
<1>10. ASSUME NEW f \in FK, DropKey(f) PROVE IInv'
  BY <1>10 DEF DropKey, TypeOK, StageInv, LedgerInv, CancelInv, ExitInv, HonestStatus
<1>11. ASSUME NEW f \in FK, RestoreKey(f) PROVE IInv'
  BY <1>11 DEF RestoreKey, TypeOK, StageInv, LedgerInv, CancelInv, ExitInv, HonestStatus
<1> QED
  BY <1>1, <1>2, <1>3, <1>4, <1>5, <1>6, <1>7, <1>8, <1>9, <1>10, <1>11 DEF Copy

(* What the handler is told is a truth value.                              *)
LEMMA ReceivedIsBoolean == ReceiveFirst => hasVital' \in BOOLEAN
<1>1. HasVitalOperations \in BOOLEAN
  BY DEF HasVitalOperations
<1> QED
  BY <1>1 DEF ReceiveFirst

(* The steps of the signal handler, and a signal.                          *)
LEMMA HandlerStep == IInv /\ (Handler \/ Signal) => IInv'
<1> SUFFICES ASSUME IInv, Handler \/ Signal PROVE IInv'
  OBVIOUS
<1> USE CopyRunAssumption
    DEF IInv, TypeOK, StageInv, LedgerInv, CancelInv, ExitInv, HonestStatus, Missing, Early,
        Ended, Outcomes, HasVitalOperations, copyVars, signalVars, mainVars
<1>1. CASE Signal
  BY <1>1 DEF Signal
<1>2. CASE ReceiveFirst
  <2>1. TypeOK'
    <3>1. {setupErr, cancelled, sigChan, hasVital, requested, shutdownChan, dbOpen}'
             \subseteq BOOLEAN
      BY <1>2, ReceivedIsBoolean, Zenon DEF ReceiveFirst
    <3>2. /\ handler' = "decided"
          /\ UNCHANGED <<config, copy, status, present, ledger, copyErr, done, signals, main,
                         exit>>
      BY <1>2 DEF ReceiveFirst
    <3> QED
      BY <3>1, <3>2
  <2>2. (StageInv /\ LedgerInv /\ CancelInv /\ ExitInv /\ HonestStatus)'
    BY <1>2 DEF ReceiveFirst
  <2> QED
    BY <2>1, <2>2
<1>3. CASE CancelContext
  BY <1>3 DEF CancelContext
<1>4. CASE AnnounceShutdown
  BY <1>4 DEF AnnounceShutdown
<1>5. CASE ExitAtOnce
  BY <1>5 DEF ExitAtOnce
<1>6. CASE ForceQuit
  BY <1>6 DEF ForceQuit
<1> QED
  BY <1>1, <1>2, <1>3, <1>4, <1>5, <1>6 DEF Handler

(* The steps of the main goroutine.                                        *)
LEMMA MainStep == IInv /\ Main => IInv'
<1> SUFFICES ASSUME IInv, Main PROVE IInv'
  OBVIOUS
<1> USE DEF IInv, TypeOK, StageInv, LedgerInv, CancelInv, ExitInv, HonestStatus, Missing,
            Early, Ended, Outcomes, HasVitalOperations, copyVars, mainFrame
<1>1. CASE CopyReturned
  BY <1>1 DEF CopyReturned
<1>2. CASE BeginGrace
  <2>1. TypeOK'
    BY <1>2 DEF BeginGrace
  <2>2. (StageInv /\ LedgerInv /\ CancelInv /\ ExitInv /\ HonestStatus)'
    BY <1>2 DEF BeginGrace
  <2> QED
    BY <2>1, <2>2
<1>3. CASE CopyEndsInTime
  BY <1>3 DEF CopyEndsInTime
<1>4. CASE GraceExpires
  BY <1>4 DEF GraceExpires
<1>5. CASE Close
  <2>1. TypeOK'
    BY <1>5 DEF Close
  <2>2. (StageInv /\ LedgerInv /\ CancelInv /\ ExitInv /\ HonestStatus)'
    BY <1>5 DEF Close
  <2> QED
    BY <2>1, <2>2
<1>6. CASE EndProcess
  BY <1>6 DEF EndProcess
<1> QED
  BY <1>1, <1>2, <1>3, <1>4, <1>5, <1>6 DEF Main

LEMMA Stutter == IInv /\ UNCHANGED vars => IInv'
BY DEF IInv, TypeOK, StageInv, LedgerInv, CancelInv, ExitInv, HonestStatus, Missing, Early,
       Ended, Outcomes, HasVitalOperations, vars, copyVars, signalVars, mainVars

LEMMA Inductive == Spec => []IInv
<1>1. IInv /\ [Next]_vars => IInv'
  BY CopyStep, HandlerStep, MainStep, Stutter DEF Next
<1> QED
  BY <1>1, InitIInv, PTL DEF Spec

-----------------------------------------------------------------------------
(* Every variable keeps its type.                                          *)
THEOREM RunTypeCorrect == Spec => []TypeOK
<1>1. IInv => TypeOK
  BY DEF IInv
<1> QED
  BY <1>1, Inductive, PTL

(* While Copy may still restore a missing key, a first signal finds vital  *)
(* operations.  See VitalWhileKeysMissing.                                 *)
THEOREM StatusAnnouncesKeys == Spec => []VitalWhileKeysMissing
<1>1. IInv => VitalWhileKeysMissing
  BY DEF IInv, TypeOK, StageInv, VitalWhileKeysMissing, HasVitalOperations, Missing, Early,
         Ended
<1> QED
  BY <1>1, Inductive, PTL

(* However the process ends, a key that is missing is in the backup file,  *)
(* and the ways to leave one are the ones listed in KeysAccountedFor.      *)
THEOREM MissingKeysExplained == Spec => []KeysAccountedFor
<1>1. IInv => KeysAccountedFor
  BY DEF IInv, TypeOK, LedgerInv, ExitInv, KeysAccountedFor, Missing, Ended
<1> QED
  BY <1>1, Inductive, PTL

(* The status "completed" or "cancelled" is true of the keys, of the copy  *)
(* and of the signals.  See HonestStatus.                                  *)
THEOREM StatusIsHonest == Spec => []HonestStatus
<1>1. IInv => HonestStatus
  BY DEF IInv
<1> QED
  BY <1>1, Inductive, PTL

(* After a signal that found vital operations the process does not end     *)
(* regularly before Copy has returned.  See GraceHonoured.                 *)
THEOREM GraceIsHonoured == Spec => []GraceHonoured
<1>1. IInv => GraceHonoured
  BY DEF IInv, ExitInv, GraceHonoured
<1> QED
  BY <1>1, Inductive, PTL

(* No step replaces an outcome.  See OutcomeFinal.                         *)
THEOREM OutcomeIsFinal == Spec => OutcomeFinal
<1>1. ASSUME IInv, [Next]_vars PROVE OutcomeKept
  <2> USE DEF IInv, StageInv, OutcomeKept, Ended, Outcomes
  <2>1. CASE Copy \/ Answer
    <3>1. CASE ReturnFromCopy
      BY <3>1 DEF ReturnFromCopy
    <3>2. CASE ~ReturnFromCopy
      <4>1. copy \notin Ended
        BY <1>1, <2>1, <3>2
           DEF TypeOK, Copy, Answer, At, Discover, AskConfirmation, Prepare, BackUpKeys,
               DropKey, BeginExecution, EndExecution, RestoreKey, EndCleanup
      <4> QED
        BY <1>1, <4>1
    <3> QED
      BY <3>1, <3>2
  <2>2. CASE Handler \/ Signal
    BY <2>2 DEF Handler, Signal, ReceiveFirst, CancelContext, AnnounceShutdown, ExitAtOnce,
                ForceQuit, copyVars
  <2>3. CASE Main
    BY <2>3 DEF Main, CopyReturned, BeginGrace, CopyEndsInTime, GraceExpires, Close,
                EndProcess, mainFrame, copyVars
  <2>4. CASE UNCHANGED vars
    BY <2>4 DEF vars, copyVars
  <2> QED
    BY <1>1, <2>1, <2>2, <2>3, <2>4 DEF Next
<1>2. IInv /\ [Next]_vars => [OutcomeKept]_vars
  BY <1>1
<1> QED
  BY <1>2, Inductive, PTL DEF Spec, OutcomeFinal
-----------------------------------------------------------------------------
(* CopyRun sees the manager as ForeignKeyLedger, so it has to keep to it.  *)

Ledger == INSTANCE ForeignKeyLedger

LEMMA LedgerStep == IInv /\ [Next]_vars => [Ledger!Next]_(Ledger!vars)
<1> SUFFICES ASSUME IInv, [Next]_vars PROVE [Ledger!Next]_(Ledger!vars)
  OBVIOUS
<1> USE DEF Ledger!vars
<1>1. CASE BackUpKeys
  <2>1. present = FK /\ UNCHANGED present /\ ledger' \in SUBSET FK
    BY <1>1 DEF BackUpKeys, At, IInv, StageInv, Early
  <2> QED
    BY <2>1 DEF Ledger!Next, Ledger!Rewrite
<1>2. CASE EndCleanup
  <2>1. \/ present = FK /\ UNCHANGED present /\ ledger' \in SUBSET FK
        \/ UNCHANGED <<present, ledger>>
    BY <1>2 DEF EndCleanup
  <2> QED
    BY <2>1 DEF Ledger!Next, Ledger!Rewrite
<1>3. ASSUME NEW f \in FK, DropKey(f) PROVE [Ledger!Next]_(Ledger!vars)
  <2>1. f \in ledger /\ UNCHANGED ledger
    BY <1>3 DEF DropKey, At, IInv, LedgerInv
  <2>2. present' = present \ {f} \/ UNCHANGED present
    BY <1>3 DEF DropKey
  <2> QED
    BY <2>1, <2>2 DEF Ledger!Next, Ledger!Drop
<1>4. ASSUME NEW f \in FK, RestoreKey(f) PROVE [Ledger!Next]_(Ledger!vars)
  <2>1. Ledger!Restore(f)
    BY <1>4 DEF RestoreKey, Ledger!Restore
  <2> QED
    BY <2>1 DEF Ledger!Next
<1>5. CASE UNCHANGED <<present, ledger>>
  BY <1>5
<1> QED
  BY <1>1, <1>2, <1>3, <1>4, <1>5
     DEF Next, Copy, Discover, AskConfirmation, Answer, Prepare, BeginExecution, EndExecution,
         ReturnFromCopy, Signal, Handler, ReceiveFirst, CancelContext, AnnounceShutdown,
         ExitAtOnce, ForceQuit, Main, CopyReturned, BeginGrace, CopyEndsInTime, GraceExpires,
         Close, EndProcess, mainFrame, copyVars, vars

(* A run of the command, with its signals, its grace period and the ways   *)
(* main may end the process, touches the keys only as ForeignKeyLedger     *)
(* allows: it drops what is in the file, and writes or removes the file    *)
(* only with every key in place.                                           *)
THEOREM RunKeepsLedger == Spec => Ledger!Spec
<1>1. Init => Ledger!Init
  BY DEF Init, Ledger!Init
<1> QED
  BY <1>1, LedgerStep, Inductive, PTL DEF Spec, Ledger!Spec

(* What the ledger is for: at whatever instant the process ends, each key  *)
(* exists or can be recreated from the file.                               *)
THEOREM NoKeyLost == Spec => []Ledger!NothingLost
<1> USE DEF Ledger!NothingLost
<1>1. Ledger!Init => Ledger!NothingLost
  BY DEF Ledger!Init
<1>2. Ledger!NothingLost /\ [Ledger!Next]_(Ledger!vars) => Ledger!NothingLost'
  <2> SUFFICES ASSUME Ledger!NothingLost, [Ledger!Next]_(Ledger!vars)
               PROVE  Ledger!NothingLost'
    OBVIOUS
  <2>1. CASE Ledger!Rewrite
    BY <2>1 DEF Ledger!Rewrite
  <2>2. ASSUME NEW f \in FK, Ledger!Drop(f) PROVE Ledger!NothingLost'
    BY <2>2 DEF Ledger!Drop
  <2>3. ASSUME NEW f \in FK, Ledger!Restore(f) PROVE Ledger!NothingLost'
    BY <2>3 DEF Ledger!Restore
  <2> QED
    BY <2>1, <2>2, <2>3 DEF Ledger!Next, Ledger!vars
<1>3. Ledger!Spec => []Ledger!NothingLost
  BY <1>1, <1>2, PTL DEF Ledger!Spec
<1> QED
  BY <1>3, RunKeepsLedger
-----------------------------------------------------------------------------
(* That the run ends needs fairness, which stays with TLC.  What it rests  *)
(* on is proved: nobody waits but for the user, and every step is one of   *)
(* finitely many.                                                          *)

\* The guards of Copy, Handler and Main, which are given fairness.
Ready ==
  /\ exit = "running"
  /\ \/ copy \notin {"prompt", "returned"}
     \/ handler # "idle" \/ sigChan
     \/ main = "select" /\ (done # "none" \/ shutdownChan)
     \/ main \in {"grace", "closing", "expired"}

\* A goroutine that is through has told the next one.
HandOverInv ==
  /\ copy = "returned" => done # "none"
  /\ main = "closed" => exit # "running"
  /\ requested /\ handler = "idle" /\ exit = "running" => shutdownChan \/ main # "select"

LEMMA HandOverStep == IInv /\ HandOverInv /\ [Next]_vars => HandOverInv'
<1> SUFFICES ASSUME IInv, HandOverInv, [Next]_vars PROVE HandOverInv'
  OBVIOUS
<1> USE DEF HandOverInv, copyVars, signalVars, mainVars, otherVars
<1>1. CASE Copy \/ Answer
  <2>1. UNCHANGED <<config, cancelled, signalVars, mainVars>>
    BY <1>1 DEF Copy, Answer, Discover, AskConfirmation, Prepare, BackUpKeys, DropKey,
       BeginExecution, EndExecution, RestoreKey, EndCleanup, ReturnFromCopy
  <2>2. copy' = "returned" => done' # "none"
    BY <1>1 DEF Copy, Answer, At, Discover, AskConfirmation, Prepare, BackUpKeys, DropKey,
       BeginExecution, EndExecution, RestoreKey, EndCleanup, ReturnFromCopy
  <2> QED
    BY <2>1, <2>2
<1>2. CASE Handler \/ Signal
  BY <1>2 DEF Handler, Signal, ReceiveFirst, CancelContext, AnnounceShutdown, ExitAtOnce,
     ForceQuit
<1>3. CASE Main
  BY <1>3 DEF Main, CopyReturned, BeginGrace, CopyEndsInTime, GraceExpires, Close,
     EndProcess, mainFrame
<1>4. CASE UNCHANGED vars
  BY <1>4 DEF vars
<1> QED
  BY <1>1, <1>2, <1>3, <1>4 DEF Next

(* The process never waits for anything but the answer of a user who has   *)
(* sent no signal: the handler, main and Copy do not wait for each other   *)
(* in a circle.                                                            *)
THEOREM OnlyTheUserIsWaitedFor ==
  Spec => [](exit = "running" /\ ~Ready => copy = "prompt" /\ ~requested /\ ~sigChan)
<1>1. Init => HandOverInv
  BY DEF Init, HandOverInv
<1>2. IInv /\ HandOverInv
        => (exit = "running" /\ ~Ready => copy = "prompt" /\ ~requested /\ ~sigChan)
  BY DEF IInv, TypeOK, HandOverInv, Ready
<1> QED
  BY <1>1, <1>2, HandOverStep, Inductive, PTL DEF Spec

\* How far each goroutine is from its end.
CopyStage == [discover |-> 9, planned |-> 8, prompt |-> 7, prepare |-> 6, setup |-> 5,
              drop |-> 4, copying |-> 3, unwinding |-> 3, restore |-> 2, settled |-> 1,
              returned |-> 0]
HandlerStage == [decided |-> 3, announce |-> 2, idle |-> 0]
MainStage == [select |-> 3, grace |-> 2, expired |-> 1, closing |-> 1, closed |-> 0]

\* The drops and restores that may still come.
KeysLeft == IF copy \in Early THEN 2 * Cardinality(FK)
            ELSE IF copy = "drop" THEN Cardinality(FK) + Cardinality(present)
            ELSE IF copy \in {"copying", "unwinding"} THEN Cardinality(FK)
            ELSE IF copy = "restore" THEN Cardinality(Missing) ELSE 0

Bit(b) == IF b THEN 1 ELSE 0

CopyLeft == CopyStage[copy] + KeysLeft
SignalsLeft == 5 * (MaxSignals - signals) + 4 * Bit(sigChan) + HandlerStage[handler]
               + Bit(shutdownChan)
EndLeft == MainStage[main] + Bit(dbOpen) + Bit(exit = "running")
StepsLeft == CopyLeft + (SignalsLeft + EndLeft)

\* The keys of a database are finitely many.
LEMMA KeyCounts ==
  ASSUME IsFiniteSet(FK), NEW S, S \subseteq FK
  PROVE  /\ IsFiniteSet(S) /\ Cardinality(S) \in Nat /\ Cardinality(FK) \in Nat
         /\ Cardinality(S) <= Cardinality(FK)
  BY FS_Subset, FS_CardinalityType

LEMMA LeftTypes ==
  ASSUME IsFiniteSet(FK), IInv
  PROVE  /\ CopyStage[copy] \in Nat /\ KeysLeft \in Nat /\ CopyLeft \in Nat
         /\ SignalsLeft \in Nat /\ EndLeft \in Nat
<1>1. CopyStage[copy] \in Nat /\ HandlerStage[handler] \in Nat /\ MainStage[main] \in Nat
  BY DEF IInv, TypeOK, CopyStage, HandlerStage, MainStage
<1>2. present \subseteq FK /\ Missing \subseteq FK
  BY DEF IInv, TypeOK, Missing
<1>3. KeysLeft \in Nat
  BY <1>2, KeyCounts DEF KeysLeft
<1>4. MaxSignals - signals \in Nat
  BY CopyRunAssumption DEF IInv, TypeOK
<1> QED
  BY <1>1, <1>3, <1>4 DEF CopyLeft, SignalsLeft, EndLeft, Bit

LEMMA CopyLess ==
  ASSUME IsFiniteSet(FK), IInv, Copy \/ Answer
  PROVE  CopyLeft' < CopyLeft /\ CopyLeft' \in Int
<1> DEFINE K == Cardinality(FK)
           P == Cardinality(present)
           M == Cardinality(Missing)
<1>1. /\ present \subseteq FK /\ Missing \subseteq FK
      /\ K \in Nat /\ P \in Nat /\ M \in Nat /\ P <= K /\ M <= K
      /\ IsFiniteSet(present) /\ IsFiniteSet(Missing)
  BY KeyCounts DEF IInv, TypeOK, Missing
<1>2. /\ copy \in Early => KeysLeft = 2 * K
      /\ copy = "drop" => KeysLeft = K + P
      /\ copy \in {"copying", "unwinding"} => KeysLeft = K
      /\ copy = "restore" => KeysLeft = M
      /\ copy \in Ended => KeysLeft = 0
  BY DEF KeysLeft, Early, Ended
<1>3. /\ copy' \in Early => KeysLeft' = 2 * K
      /\ copy' = "drop" => KeysLeft' = K + P'
      /\ copy' \in {"copying", "unwinding"} => KeysLeft' = K
      /\ copy' = "restore" => KeysLeft' = M'
      /\ copy' \in Ended => KeysLeft' = 0
  BY DEF KeysLeft, Early, Ended
<1>4. present' \subseteq FK => P' \in Nat /\ M' \in Nat /\ P' <= K /\ M' <= K
  <2>1. Missing' \subseteq FK
    BY DEF Missing
  <2> QED
    BY <2>1, KeyCounts
<1>5. CopyLeft = CopyStage[copy] + KeysLeft /\ CopyLeft' = CopyStage[copy'] + KeysLeft'
  BY DEF CopyLeft
<1>6. (present' = present => P' = P) /\ (present' = present => M' = M)
  BY DEF Missing
<1> HIDE DEF K, P, M
<1> USE DEF At, CopyStage, Early, Ended
<1>7. CASE Discover \/ AskConfirmation \/ Answer \/ Prepare
  BY <1>1, <1>2, <1>3, <1>5, <1>7 DEF Discover, AskConfirmation, Answer, Prepare
<1>8. CASE BackUpKeys
  BY <1>1, <1>2, <1>3, <1>5, <1>6, <1>8 DEF BackUpKeys
<1>9. ASSUME NEW f \in FK, DropKey(f) PROVE CopyLeft' < CopyLeft
  <2>1. copy = "drop" /\ f \in present /\ present' \subseteq FK
    BY <1>1, <1>9 DEF DropKey
  <2>2. CASE copy' = "drop"
    <3>1. present' = present \ {f}
      BY <1>9, <2>2 DEF DropKey
    <3>2. P' = P - 1
      BY <1>1, <2>1, <3>1, FS_RemoveElement DEF P
    <3> QED
      BY <1>1, <1>2, <1>3, <1>5, <2>1, <2>2, <3>2
  <2>3. CASE copy' = "restore"
    BY <1>1, <1>2, <1>3, <1>4, <1>5, <2>1, <2>3
  <2> QED
    BY <1>9, <2>1, <2>2, <2>3 DEF DropKey
<1>10. CASE BeginExecution
  BY <1>1, <1>2, <1>3, <1>5, <1>10 DEF BeginExecution
<1>11. CASE EndExecution
  BY <1>1, <1>2, <1>3, <1>5, <1>6, <1>11 DEF EndExecution
<1>12. ASSUME NEW f \in FK, RestoreKey(f) PROVE CopyLeft' < CopyLeft
  <2>1. Missing' = Missing \ {f} /\ f \in Missing
    BY <1>12 DEF RestoreKey, Missing
  <2>2. M' = M - 1
    BY <1>1, <2>1, FS_RemoveElement DEF M
  <2> QED
    BY <1>1, <1>2, <1>3, <1>5, <1>12, <2>2 DEF RestoreKey
<1>13. CASE EndCleanup
  BY <1>1, <1>2, <1>3, <1>5, <1>13 DEF EndCleanup
<1>14. CASE ReturnFromCopy
  BY <1>2, <1>3, <1>5, <1>14 DEF ReturnFromCopy
<1>15. CopyLeft' < CopyLeft
  BY <1>7, <1>8, <1>9, <1>10, <1>11, <1>12, <1>13, <1>14 DEF Copy
<1>16. CopyLeft' \in Int
  <2>1. TypeOK'
    BY CopyStep DEF IInv
  <2>2. present' \subseteq FK /\ CopyStage[copy'] \in Nat
    BY <2>1 DEF TypeOK
  <2>3. KeysLeft' \in Nat
    BY <1>1, <1>3, <1>4, <2>1, <2>2 DEF TypeOK
  <2> QED
    BY <1>5, <2>2, <2>3
<1> QED
  BY <1>15, <1>16

LEMMA EndingLess ==
  ASSUME IInv, Handler \/ Signal \/ Main
  PROVE  /\ (SignalsLeft + EndLeft)' < SignalsLeft + EndLeft
         /\ (SignalsLeft + EndLeft)' \in Int
<1> USE DEF SignalsLeft, EndLeft, Bit, HandlerStage, MainStage, mainVars, signalVars, mainFrame
<1>1. /\ MaxSignals \in Nat /\ signals \in 0..MaxSignals
      /\ handler \in {"idle", "decided", "announce"}
      /\ main \in {"select", "grace", "expired", "closing", "closed"}
      /\ sigChan \in BOOLEAN /\ shutdownChan \in BOOLEAN /\ dbOpen \in BOOLEAN
  BY CopyRunAssumption DEF IInv, TypeOK
<1>2. CASE Signal
  BY <1>1, <1>2 DEF Signal
<1>3. CASE ReceiveFirst
  BY <1>1, <1>3 DEF ReceiveFirst
<1>4. CASE CancelContext
  BY <1>1, <1>4 DEF CancelContext
<1>5. CASE AnnounceShutdown
  BY <1>1, <1>5 DEF AnnounceShutdown
<1>6. CASE ExitAtOnce
  BY <1>1, <1>6 DEF ExitAtOnce
<1>7. CASE ForceQuit
  BY <1>1, <1>7 DEF ForceQuit
<1>8. CASE CopyReturned
  BY <1>1, <1>8 DEF CopyReturned
<1>9. CASE BeginGrace
  BY <1>1, <1>9 DEF BeginGrace
<1>10. CASE CopyEndsInTime \/ GraceExpires
  BY <1>1, <1>10 DEF CopyEndsInTime, GraceExpires
<1>11. CASE Close
  BY <1>1, <1>11 DEF Close
<1>12. CASE EndProcess
  BY <1>1, <1>12 DEF EndProcess
<1> QED
  BY <1>2, <1>3, <1>4, <1>5, <1>6, <1>7, <1>8, <1>9, <1>10, <1>11, <1>12 DEF Handler, Main

LEMMA SumLess ==
  \A a, b, c, d \in Int : (c < a /\ d = b) \/ (c = a /\ d < b) => c + d < a + b
  OBVIOUS

(* Every step of Copy, of the handler, of main, of the user and of whoever *)
(* sends signals leaves fewer steps to do: a run has finitely many.        *)
THEOREM RunStepsRunOut ==
  ASSUME IsFiniteSet(FK)
  PROVE  Spec => [](StepsLeft \in Nat) /\ [][StepsLeft' < StepsLeft]_vars
<1>1. IInv => StepsLeft \in Nat
  BY LeftTypes DEF StepsLeft
<1>2. ASSUME IInv, Next PROVE StepsLeft' < StepsLeft
  <2> DEFINE T == SignalsLeft + EndLeft
  <2>1. CopyLeft \in Int /\ T \in Int
    BY <1>2, LeftTypes
  <2>2. StepsLeft = CopyLeft + T /\ StepsLeft' = CopyLeft' + T'
    BY DEF StepsLeft
  <2>3. CASE Copy \/ Answer
    <3>1. CopyLeft' < CopyLeft /\ CopyLeft' \in Int
      BY <1>2, <2>3, CopyLess
    <3>2. UNCHANGED <<signalVars, mainVars>>
      BY <2>3 DEF Copy, Answer, Discover, AskConfirmation, Prepare, BackUpKeys, DropKey,
         BeginExecution, EndExecution, RestoreKey, EndCleanup, ReturnFromCopy, otherVars
    <3>3. T' = T
      BY <3>2 DEF SignalsLeft, EndLeft, signalVars, mainVars, Bit
    <3> HIDE DEF T
    <3> QED
      BY <2>1, <2>2, <3>1, <3>3, SumLess
  <2>4. CASE Handler \/ Signal \/ Main
    <3>1. CopyLeft' = CopyLeft
      <4>1. UNCHANGED <<copy, present>>
        BY <2>4 DEF Handler, Signal, ReceiveFirst, CancelContext, AnnounceShutdown, ExitAtOnce,
           ForceQuit, Main, CopyReturned, BeginGrace, CopyEndsInTime, GraceExpires, Close,
           EndProcess, mainFrame, copyVars
      <4> QED
        BY <4>1 DEF CopyLeft, KeysLeft, Missing
    <3>2. T' < T /\ T' \in Int
      BY <1>2, <2>4, EndingLess
    <3> HIDE DEF T
    <3> QED
      BY <2>1, <2>2, <3>1, <3>2, SumLess
  <2> QED
    BY <1>2, <2>3, <2>4 DEF Next
<1> QED
  BY <1>1, <1>2, Inductive, PTL DEF Spec
=============================================================================
