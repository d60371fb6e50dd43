-------------------------- MODULE ForeignKeysProofs --------------------------
(***************************************************************************)
(* Theorems about ForeignKeys, for every set of keys, every number of      *)
(* attempts and every number of runs: type correctness, the safety of the  *)
(* backup file, and the refinement of ForeignKeyLedger.                    *)
(***************************************************************************)
EXTENDS ForeignKeys, TLAPS

(* The statements keep db a function on FK. *)
LEMMA AddConstraintType ==
  ASSUME TypeOK, NEW f \in FK, NEW answer, AddConstraint(f, answer)
  PROVE  db' \in [FK -> KeyState]
BY DEF TypeOK, AddConstraint, KeyState

(* What AddConstraint can do: it never removes a key, and touches no other. *)
LEMMA AddConstraintEffect ==
  ASSUME TypeOK, NEW f \in FK, NEW answer, AddConstraint(f, answer)
  PROVE  /\ Missing' \subseteq Missing
         /\ Missing \ {f} \subseteq Missing'
         /\ answer \in {"ok", "exists"} => f \notin Missing'
         /\ Missing' = Missing \/ Missing' = Missing \ {f}
BY DEF TypeOK, AddConstraint, KeyState, Missing

-----------------------------------------------------------------------------
(* Type correctness.                                                       *)

LEMMA Counters == 1 \in 1..MaxRetries /\ 0 \in 0..MaxRuns
BY FKAssumption

(* A fresh manager is well typed. *)
LEMMA FreshType ==
  FreshManager => /\ foreignKeys' \in SUBSET FK /\ wasValidated' \in SUBSET FK
                  /\ droppedKeys' \in SUBSET FK /\ restoredKeys' \in SUBSET FK
                  /\ todo' \in SUBSET FK /\ current' \in FK \union {None}
                  /\ attempt' \in 1..MaxRetries /\ setupFailed' \in BOOLEAN
                  /\ copyErr' \in {"none", "cancelled", "failed"}
                  /\ cleanupFailed' \in BOOLEAN
BY Counters DEF FreshManager

LEMMA InitType == Init => TypeOK
<1> SUFFICES ASSUME Init
             PROVE  TypeOK
  OBVIOUS
<1>1. db \in [FK -> KeyState] /\ pc \in Phase /\ status \in Status
  BY DEF Init, KeyState, Phase, Status
<1>2. attempt \in 1..MaxRetries /\ runs \in 0..MaxRuns
  BY Counters DEF Init
<1> QED
  BY <1>1, <1>2 DEF Init, TypeOK

LEMMA StartType == TypeOK /\ (Start \/ StartRefused) => TypeOK'
<1> SUFFICES ASSUME TypeOK
             PROVE  Start \/ StartRefused => TypeOK'
  OBVIOUS
<1>1. CASE Start
  <2>1. runs' \in 0..MaxRuns
    BY <1>1, FKAssumption DEF Start, TypeOK
  <2> QED
    BY <1>1, <2>1, FreshType DEF Start, TypeOK, durable, Phase, Status
<1>2. CASE StartRefused
  BY <1>2 DEF StartRefused, TypeOK, durable, memory, Status
<1> QED
  BY <1>1, <1>2

LEMMA SetupType ==
  TypeOK /\ (DetectForeignKeys \/ TryUseReplicaMode \/ OpenBackupFile
             \/ WriteInitialBackupSnapshot \/ DropDone \/ Execute) => TypeOK'
<1> SUFFICES ASSUME TypeOK
             PROVE  DetectForeignKeys \/ TryUseReplicaMode \/ OpenBackupFile
                    \/ WriteInitialBackupSnapshot \/ DropDone \/ Execute => TypeOK'
  OBVIOUS
<1> USE DEF TypeOK, Phase, FailSetup, durable, memory
<1>1. CASE DetectForeignKeys
  BY <1>1 DEF DetectForeignKeys
<1>2. CASE TryUseReplicaMode
  BY <1>2 DEF TryUseReplicaMode
<1>3. CASE OpenBackupFile
  BY <1>3 DEF OpenBackupFile, ToDrop
<1>4. CASE WriteInitialBackupSnapshot
  BY <1>4 DEF WriteInitialBackupSnapshot
<1>5. CASE DropDone
  BY <1>5 DEF DropDone
<1>6. CASE Execute
  BY <1>6 DEF Execute
<1> QED
  BY <1>1, <1>2, <1>3, <1>4, <1>5, <1>6

LEMMA LoopType ==
  ASSUME TypeOK, NEW f \in FK,
         \/ DropForeignKey(f) \/ RecoverFromBackupFile(f)
         \/ RestoreNextKey(f) \/ ValidateRestoredForeignKeys(f)
  PROVE  TypeOK'
<1>1. CASE DropForeignKey(f)
  BY <1>1 DEF DropForeignKey, DropConstraint, FailSetup, TypeOK, KeyState, Phase
<1>2. CASE RecoverFromBackupFile(f)
  <2>1. db' \in [FK -> KeyState]
    BY <1>2, AddConstraintType DEF RecoverFromBackupFile
  <2> QED
    BY <1>2, <2>1 DEF RecoverFromBackupFile, TypeOK
<1>3. CASE RestoreNextKey(f)
  BY <1>3, FKAssumption DEF RestoreNextKey, TypeOK, durable
<1>4. CASE ValidateRestoredForeignKeys(f)
  BY <1>4 DEF ValidateRestoredForeignKeys, ValidateConstraint, TypeOK, KeyState
<1> QED
  BY <1>1, <1>2, <1>3, <1>4

LEMMA RestoreAttemptType == TypeOK /\ RestoreAttempt => TypeOK'
<1> SUFFICES ASSUME TypeOK, RestoreAttempt
             PROVE  TypeOK'
  OBVIOUS
<1>1. current \in FK
  BY DEF RestoreAttempt, TypeOK
<1>2. \E answer : AddConstraint(current, answer)
  BY DEF RestoreAttempt, Restored, RestoreRetried, RestoreGivenUp
<1>3. db' \in [FK -> KeyState]
  BY <1>1, <1>2, AddConstraintType
<1>4. CASE Restored
  BY <1>1, <1>3, <1>4 DEF RestoreAttempt, Restored, TypeOK
<1>5. CASE RestoreRetried
  BY <1>3, <1>5, FKAssumption DEF RestoreAttempt, RestoreRetried, TypeOK
<1>6. CASE RestoreGivenUp
  BY <1>3, <1>6 DEF RestoreAttempt, RestoreGivenUp, TypeOK
<1> QED
  BY <1>4, <1>5, <1>6 DEF RestoreAttempt

LEMMA CleanupType ==
  TypeOK /\ (ReadBackupFile \/ RecoverDone \/ RestoreDone \/ ValidateDone
             \/ Cleanup \/ Crash) => TypeOK'
<1> SUFFICES ASSUME TypeOK
             PROVE  ReadBackupFile \/ RecoverDone \/ RestoreDone \/ ValidateDone
                    \/ Cleanup \/ Crash => TypeOK'
  OBVIOUS
<1> USE DEF TypeOK, Phase, Status, durable, memory
<1>1. CASE ReadBackupFile
  BY <1>1 DEF ReadBackupFile
<1>2. CASE RecoverDone
  BY <1>2 DEF RecoverDone
<1>3. CASE RestoreDone
  BY <1>3 DEF RestoreDone, ToValidate
<1>4. CASE ValidateDone
  BY <1>4 DEF ValidateDone
<1>5. CASE Cleanup
  <2>1. Outcome(TRUE) \in Status /\ Outcome(FALSE) \in Status
    BY DEF Outcome
  <2> QED
    BY <1>5, <2>1, FreshType DEF Cleanup
<1>6. CASE Crash
  BY <1>6, FreshType DEF Crash
<1> QED
  BY <1>1, <1>2, <1>3, <1>4, <1>5, <1>6

LEMMA OperatorType == TypeOK /\ Operator => TypeOK'
<1> SUFFICES ASSUME TypeOK, Operator
             PROVE  TypeOK'
  OBVIOUS
<1>1. CASE OperatorRemovesFile
  BY <1>1 DEF OperatorRemovesFile, TypeOK, memory
<1>2. ASSUME NEW f \in FK, OperatorRestores(f)
      PROVE  TypeOK'
  <2>1. db' \in [FK -> KeyState]
    BY <1>2, AddConstraintType DEF OperatorRestores
  <2> QED
    BY <1>2, <2>1 DEF OperatorRestores, TypeOK, memory
<1> QED
  BY <1>1, <1>2 DEF Operator

(* Every variable keeps its type, whatever the statements answer and        *)
(* whenever the process is killed.                                         *)
THEOREM TypeCorrect == Spec => []TypeOK
<1>1. Init => TypeOK
  BY InitType
<1>2. TypeOK /\ [Next]_vars => TypeOK'
  <2> SUFFICES ASSUME TypeOK, [Next]_vars
               PROVE  TypeOK'
    OBVIOUS
  <2>1. CASE UNCHANGED vars
    BY <2>1 DEF vars, durable, memory, TypeOK
  <2>2. CASE Run
    BY <2>2, SetupType, LoopType, RestoreAttemptType, CleanupType DEF Run, ForLoops
  <2> QED
    BY <2>1, <2>2, StartType, CleanupType, OperatorType DEF Next
<1> QED
  BY <1>1, <1>2, PTL DEF Spec

-----------------------------------------------------------------------------
(* The backup file covers the missing keys.                                *)

LEMMA SetupBackup ==
  TypeOK /\ BackupInv
    /\ (Start \/ StartRefused \/ DetectForeignKeys \/ TryUseReplicaMode
        \/ OpenBackupFile \/ WriteInitialBackupSnapshot \/ DropDone \/ Execute)
    => BackupInv'
<1> SUFFICES ASSUME TypeOK, BackupInv
             PROVE  Start \/ StartRefused \/ DetectForeignKeys \/ TryUseReplicaMode
                    \/ OpenBackupFile \/ WriteInitialBackupSnapshot \/ DropDone
                    \/ Execute => BackupInv'
  OBVIOUS
<1>0. UNCHANGED db => Missing' = Missing
  BY DEF Missing
<1> USE <1>0 DEF BackupInv, BackupCoversMissing, FailSetup, durable, memory
<1>1. CASE Start
  BY <1>1 DEF Start, MayStart
<1>2. CASE StartRefused
  BY <1>2 DEF StartRefused
<1>3. CASE DetectForeignKeys
  BY <1>3 DEF DetectForeignKeys
<1>4. CASE TryUseReplicaMode
  BY <1>4 DEF TryUseReplicaMode
<1>5. CASE OpenBackupFile
  BY <1>5 DEF OpenBackupFile
<1>6. CASE WriteInitialBackupSnapshot
  BY <1>6 DEF WriteInitialBackupSnapshot
<1>7. CASE DropDone
  BY <1>7 DEF DropDone
<1>8. CASE Execute
  BY <1>8 DEF Execute
<1> QED
  BY <1>1, <1>2, <1>3, <1>4, <1>5, <1>6, <1>7, <1>8

LEMMA LoopBackup ==
  ASSUME TypeOK, BackupInv, NEW f \in FK,
         \/ DropForeignKey(f) \/ RecoverFromBackupFile(f)
         \/ RestoreNextKey(f) \/ ValidateRestoredForeignKeys(f)
  PROVE  BackupInv'
<1> USE DEF BackupInv, BackupCoversMissing
<1>1. CASE DropForeignKey(f)
  <2>1. Missing' \subseteq Missing \union {f}
    BY <1>1 DEF DropForeignKey, DropConstraint, Missing, TypeOK
  <2> QED
    BY <1>1, <2>1 DEF DropForeignKey, FailSetup
<1>2. CASE RecoverFromBackupFile(f)
  <2>1. CASE \E answer \in {"ok", "exists"} : AddConstraint(f, answer)
    <3>1. Missing' \subseteq Missing /\ f \notin Missing'
      BY <2>1, AddConstraintEffect
    <3>2. cleanupFailed' = cleanupFailed \/ cleanupFailed' = TRUE
      BY <1>2 DEF RecoverFromBackupFile
    <3>3. cleanupFailed => cleanupFailed'
      BY <3>2
    <3> QED
      BY <1>2, <3>1, <3>3 DEF RecoverFromBackupFile
  <2>2. CASE /\ \E answer \in {"transient", "permanent"} : AddConstraint(f, answer)
             /\ cleanupFailed' = TRUE
    <3>1. Missing' \subseteq Missing
      BY <2>2, AddConstraintEffect
    <3> QED
      BY <1>2, <2>2, <3>1 DEF RecoverFromBackupFile
  <2> QED
    BY <1>2, <2>1, <2>2 DEF RecoverFromBackupFile
<1>3. CASE RestoreNextKey(f)
  BY <1>3 DEF RestoreNextKey, durable, Missing
<1>4. CASE ValidateRestoredForeignKeys(f)
  <2>1. Missing' = Missing
    BY <1>4 DEF ValidateRestoredForeignKeys, ValidateConstraint, Missing, TypeOK
  <2>2. cleanupFailed' = cleanupFailed \/ cleanupFailed' = TRUE
    BY <1>4 DEF ValidateRestoredForeignKeys
  <2>3. cleanupFailed => cleanupFailed'
    BY <2>2
  <2> QED
    BY <1>4, <2>1, <2>3 DEF ValidateRestoredForeignKeys
<1> QED
  BY <1>1, <1>2, <1>3, <1>4

LEMMA RestoreAttemptBackup == TypeOK /\ BackupInv /\ RestoreAttempt => BackupInv'
<1> SUFFICES ASSUME TypeOK, BackupInv, RestoreAttempt
             PROVE  BackupInv'
  OBVIOUS
<1>1. current \in FK
  BY DEF RestoreAttempt, TypeOK
<1>2. \E answer : AddConstraint(current, answer)
  BY DEF RestoreAttempt, Restored, RestoreRetried, RestoreGivenUp
<1>3. Missing' \subseteq Missing
  BY <1>1, <1>2, AddConstraintEffect
<1>4. cleanupFailed' = cleanupFailed \/ cleanupFailed' = TRUE
  BY DEF RestoreAttempt, Restored, RestoreRetried, RestoreGivenUp
<1>5. cleanupFailed => cleanupFailed'
  BY <1>4
<1> QED
  BY <1>3, <1>5 DEF RestoreAttempt, BackupInv, BackupCoversMissing

LEMMA CleanupBackup ==
  TypeOK /\ BackupInv
    /\ (ReadBackupFile \/ RecoverDone \/ RestoreDone \/ ValidateDone
        \/ Cleanup \/ Crash) => BackupInv'
<1> SUFFICES ASSUME TypeOK, BackupInv
             PROVE  ReadBackupFile \/ RecoverDone \/ RestoreDone \/ ValidateDone
                    \/ Cleanup \/ Crash => BackupInv'
  OBVIOUS
<1>0. UNCHANGED db => Missing' = Missing
  BY DEF Missing
<1> USE <1>0 DEF BackupInv, BackupCoversMissing, durable, memory
<1>1. CASE ReadBackupFile
  BY <1>1 DEF ReadBackupFile
<1>2. CASE RecoverDone
  BY <1>2 DEF RecoverDone
<1>3. CASE RestoreDone
  BY <1>3 DEF RestoreDone
<1>4. CASE ValidateDone
  BY <1>4 DEF ValidateDone
<1>5. CASE Cleanup
  <2>1. Missing' = Missing
    BY <1>5 DEF Cleanup
  <2>2. CASE MayRemoveBackup /\ backupDefs' = {}
    <3>1. Missing = {}
      BY <1>5, <2>2 DEF Cleanup, MayRemoveBackup
    <3> QED
      BY <1>5, <2>1, <2>2, <3>1 DEF Cleanup
  <2>3. CASE UNCHANGED <<backupExists, backupDefs>>
    BY <1>5, <2>1, <2>3 DEF Cleanup
  <2> QED
    BY <1>5, <2>2, <2>3 DEF Cleanup
<1>6. CASE Crash
  BY <1>6 DEF Crash
<1> QED
  BY <1>1, <1>2, <1>3, <1>4, <1>5, <1>6

LEMMA OperatorBackup == TypeOK /\ BackupInv /\ Operator => BackupInv'
<1> SUFFICES ASSUME TypeOK, BackupInv, Operator
             PROVE  BackupInv'
  OBVIOUS
<1> USE DEF BackupInv, BackupCoversMissing
<1>1. CASE OperatorRemovesFile
  BY <1>1 DEF OperatorRemovesFile, Missing
<1>2. ASSUME NEW f \in FK, OperatorRestores(f)
      PROVE  BackupInv'
  <2>1. Missing' \subseteq Missing
    BY <1>2, AddConstraintEffect DEF OperatorRestores
  <2> QED
    BY <1>2, <2>1 DEF OperatorRestores
<1> QED
  BY <1>1, <1>2 DEF Operator

LEMMA BackupInvariant == Spec => []BackupInv
<1>1. Init => BackupInv
  BY DEF Init, BackupInv, BackupCoversMissing, Missing
<1>2. TypeOK /\ BackupInv /\ [Next]_vars => BackupInv'
  <2> SUFFICES ASSUME TypeOK, BackupInv, [Next]_vars
               PROVE  BackupInv'
    OBVIOUS
  <2>1. CASE UNCHANGED vars
    BY <2>1 DEF vars, durable, memory, BackupInv, BackupCoversMissing, Missing
  <2>2. CASE Run
    BY <2>2, SetupBackup, LoopBackup, RestoreAttemptBackup, CleanupBackup
       DEF Run, ForLoops
  <2> QED
    BY <2>1, <2>2, SetupBackup, CleanupBackup, OperatorBackup DEF Next
<1> QED
  BY <1>1, <1>2, TypeCorrect, PTL DEF Spec

(* At every instant, and so after a crash at any instant, a key that is     *)
(* missing from the target database is in the backup file.                 *)
THEOREM BackupSafe == Spec => []BackupCoversMissing
<1>1. BackupInv => BackupCoversMissing
  BY DEF BackupInv
<1> QED
  BY <1>1, BackupInvariant, PTL

-----------------------------------------------------------------------------
(* The manager implements the ledger.  A step that leaves the database and *)
(* the definitions of the file alone is a stutter of the ledger; rewriting *)
(* the file with every key in place is its Rewrite.                        *)

LEMMA Stutter == UNCHANGED <<db, backupDefs>> => UNCHANGED Ledger!vars
BY DEF Ledger!vars, Missing

LEMMA RewriteStep ==
  Missing = {} /\ UNCHANGED db /\ backupDefs' \in SUBSET FK => Ledger!Next
BY DEF Ledger!Next, Ledger!Rewrite, Missing

LEMMA RestoreStep ==
  ASSUME TypeOK, NEW f \in FK, NEW answer, AddConstraint(f, answer),
         UNCHANGED backupDefs
  PROVE  [Ledger!Next]_(Ledger!vars)
<1>1. CASE Missing' = Missing
  BY <1>1 DEF Ledger!vars
<1>2. CASE Missing' = Missing \ {f}
  <2>1. Ledger!Restore(f)
    BY <1>2 DEF Ledger!Restore
  <2> QED
    BY <2>1 DEF Ledger!Next
<1> QED
  BY <1>1, <1>2, AddConstraintEffect

LEMMA LedgerLoop ==
  ASSUME TypeOK, BackupInv, NEW f \in FK,
         \/ DropForeignKey(f) \/ RecoverFromBackupFile(f)
         \/ RestoreNextKey(f) \/ ValidateRestoredForeignKeys(f)
  PROVE  [Ledger!Next]_(Ledger!vars)
<1>1. CASE DropForeignKey(f)
  <2>1. f \in backupDefs
    BY <1>1 DEF DropForeignKey, BackupInv
  <2>2. CASE UNCHANGED db
    BY <1>1, <2>2, Stutter DEF DropForeignKey
  <2>3. CASE db' = [db EXCEPT ![f] = "absent"]
    <3>1. Missing' = Missing \union {f}
      BY <2>3 DEF Missing, TypeOK
    <3>2. Ledger!Drop(f)
      BY <1>1, <2>1, <3>1 DEF DropForeignKey, Ledger!Drop
    <3> QED
      BY <3>2 DEF Ledger!Next
  <2> QED
    BY <1>1, <2>2, <2>3 DEF DropForeignKey, DropConstraint
<1>2. CASE RecoverFromBackupFile(f)
  BY <1>2, RestoreStep DEF RecoverFromBackupFile
<1>3. CASE RestoreNextKey(f)
  BY <1>3, Stutter DEF RestoreNextKey, durable
<1>4. CASE ValidateRestoredForeignKeys(f)
  <2>1. Missing' = Missing
    BY <1>4 DEF ValidateRestoredForeignKeys, ValidateConstraint, Missing, TypeOK
  <2> QED
    BY <1>4, <2>1 DEF ValidateRestoredForeignKeys, Ledger!vars
<1> QED
  BY <1>1, <1>2, <1>3, <1>4

LEMMA LedgerSetup ==
  TypeOK /\ TypeOK' /\ BackupInv
    /\ (Start \/ StartRefused \/ DetectForeignKeys \/ TryUseReplicaMode
        \/ OpenBackupFile \/ WriteInitialBackupSnapshot \/ DropDone \/ Execute)
    => [Ledger!Next]_(Ledger!vars)
<1> SUFFICES ASSUME TypeOK, TypeOK', BackupInv
             PROVE  Start \/ StartRefused \/ DetectForeignKeys \/ TryUseReplicaMode
                    \/ OpenBackupFile \/ WriteInitialBackupSnapshot \/ DropDone
                    \/ Execute => [Ledger!Next]_(Ledger!vars)
  OBVIOUS
<1>1. CASE OpenBackupFile \/ WriteInitialBackupSnapshot
  <2>1. Missing = {} /\ UNCHANGED db /\ backupDefs' \in SUBSET FK
    BY <1>1 DEF OpenBackupFile, WriteInitialBackupSnapshot, BackupInv, TypeOK
  <2> QED
    BY <2>1, RewriteStep
<1>2. CASE Start \/ StartRefused \/ DetectForeignKeys \/ TryUseReplicaMode
           \/ DropDone \/ Execute
  <2>1. UNCHANGED <<db, backupDefs>>
    BY <1>2 DEF Start, StartRefused, DetectForeignKeys, TryUseReplicaMode,
                DropDone, Execute, durable
  <2> QED
    BY <2>1, Stutter
<1> QED
  BY <1>1, <1>2

LEMMA LedgerCleanup ==
  TypeOK /\ TypeOK' /\ BackupInv
    /\ (ReadBackupFile \/ RecoverDone \/ RestoreAttempt \/ RestoreDone
        \/ ValidateDone \/ Cleanup \/ Crash \/ Operator)
    => [Ledger!Next]_(Ledger!vars)
<1> SUFFICES ASSUME TypeOK, TypeOK', BackupInv
             PROVE  ReadBackupFile \/ RecoverDone \/ RestoreAttempt \/ RestoreDone
                    \/ ValidateDone \/ Cleanup \/ Crash \/ Operator
                    => [Ledger!Next]_(Ledger!vars)
  OBVIOUS
<1>1. CASE ReadBackupFile \/ RecoverDone \/ RestoreDone \/ ValidateDone \/ Crash
  <2>1. UNCHANGED <<db, backupDefs>>
    BY <1>1 DEF ReadBackupFile, RecoverDone, RestoreDone, ValidateDone, Crash, durable
  <2> QED
    BY <2>1, Stutter
<1>2. CASE RestoreAttempt
  <2>1. current \in FK /\ UNCHANGED backupDefs
    BY <1>2 DEF RestoreAttempt, TypeOK
  <2>2. \E answer : AddConstraint(current, answer)
    BY <1>2 DEF RestoreAttempt, Restored, RestoreRetried, RestoreGivenUp
  <2> QED
    BY <2>1, <2>2, RestoreStep
<1>3. CASE Cleanup
  <2>1. CASE MayRemoveBackup
    <3>1. Missing = {} /\ UNCHANGED db /\ backupDefs' \in SUBSET FK
      BY <1>3, <2>1 DEF Cleanup, MayRemoveBackup, BackupInv, TypeOK
    <3> QED
      BY <3>1, RewriteStep
  <2>2. CASE ~MayRemoveBackup
    BY <1>3, <2>2, Stutter DEF Cleanup
  <2> QED
    BY <2>1, <2>2
<1>4. CASE OperatorRemovesFile
  <2>1. Missing = {} /\ UNCHANGED db /\ backupDefs' \in SUBSET FK
    BY <1>4 DEF OperatorRemovesFile, BackupInv, BackupCoversMissing, TypeOK
  <2> QED
    BY <2>1, RewriteStep
<1>5. ASSUME NEW f \in FK, OperatorRestores(f)
      PROVE  [Ledger!Next]_(Ledger!vars)
  BY <1>5, RestoreStep DEF OperatorRestores
<1> QED
  BY <1>1, <1>2, <1>3, <1>4, <1>5 DEF Operator

(* Every behaviour of the manager, crashes included, is a behaviour of the  *)
(* ledger: keys are dropped only once recorded, and the record is touched  *)
(* only while every key is in place.                                       *)
THEOREM ImplementsLedger == Spec => LedgerSpec
<1>1. Init => Ledger!Init
  BY DEF Init, Ledger!Init, Missing
<1>2. TypeOK /\ TypeOK' /\ BackupInv /\ [Next]_vars => [Ledger!Next]_(Ledger!vars)
  <2> SUFFICES ASSUME TypeOK, TypeOK', BackupInv, [Next]_vars
               PROVE  [Ledger!Next]_(Ledger!vars)
    OBVIOUS
  <2>1. CASE UNCHANGED vars
    BY <2>1, Stutter DEF vars, durable
  <2>2. CASE Run
    BY <2>2, LedgerSetup, LedgerLoop, LedgerCleanup DEF Run, ForLoops
  <2> QED
    BY <2>1, <2>2, LedgerSetup, LedgerCleanup DEF Next
<1> QED
  BY <1>1, <1>2, TypeCorrect, BackupInvariant, PTL DEF Spec, LedgerSpec, Ledger!Spec

-----------------------------------------------------------------------------
(* Keys that no planned table is the target of.                            *)

LEMMA ScopeLoop ==
  ASSUME ScopeInv, NEW f \in FK,
         \/ DropForeignKey(f) \/ RecoverFromBackupFile(f)
         \/ RestoreNextKey(f) \/ ValidateRestoredForeignKeys(f)
  PROVE  ScopeInv'
<1> USE DEF ScopeInv
<1>1. CASE DropForeignKey(f)
  BY <1>1 DEF DropForeignKey
<1>2. CASE RecoverFromBackupFile(f)
  BY <1>2 DEF RecoverFromBackupFile
<1>3. CASE RestoreNextKey(f)
  BY <1>3 DEF RestoreNextKey, durable
<1>4. CASE ValidateRestoredForeignKeys(f)
  BY <1>4 DEF ValidateRestoredForeignKeys
<1> QED
  BY <1>1, <1>2, <1>3, <1>4

LEMMA ScopeRun ==
  ScopeInv
    /\ (DetectForeignKeys \/ TryUseReplicaMode \/ OpenBackupFile
        \/ WriteInitialBackupSnapshot \/ DropDone \/ Execute \/ ReadBackupFile
        \/ RecoverDone \/ RestoreAttempt \/ RestoreDone \/ ValidateDone \/ Cleanup)
    => ScopeInv'
<1> SUFFICES ASSUME ScopeInv
             PROVE  DetectForeignKeys \/ TryUseReplicaMode \/ OpenBackupFile
                    \/ WriteInitialBackupSnapshot \/ DropDone \/ Execute
                    \/ ReadBackupFile \/ RecoverDone \/ RestoreAttempt \/ RestoreDone
                    \/ ValidateDone \/ Cleanup => ScopeInv'
  OBVIOUS
<1> USE DEF ScopeInv, durable, memory
<1>1. CASE DetectForeignKeys
  BY <1>1 DEF DetectForeignKeys
<1>2. CASE TryUseReplicaMode
  BY <1>2 DEF TryUseReplicaMode
<1>3. CASE OpenBackupFile
  BY <1>3 DEF OpenBackupFile, ToDrop
<1>4. CASE WriteInitialBackupSnapshot
  BY <1>4 DEF WriteInitialBackupSnapshot
<1>5. CASE DropDone
  BY <1>5 DEF DropDone
<1>6. CASE Execute
  BY <1>6 DEF Execute
<1>7. CASE ReadBackupFile
  BY <1>7 DEF ReadBackupFile
<1>8. CASE RecoverDone
  BY <1>8 DEF RecoverDone
<1>9. CASE RestoreAttempt
  BY <1>9 DEF RestoreAttempt, Restored, RestoreRetried, RestoreGivenUp
<1>10. CASE RestoreDone
  BY <1>10 DEF RestoreDone, ToValidate
<1>11. CASE ValidateDone
  BY <1>11 DEF ValidateDone
<1>12. CASE Cleanup
  BY <1>12 DEF Cleanup, FreshManager
<1> QED
  BY <1>1, <1>2, <1>3, <1>4, <1>5, <1>6, <1>7, <1>8, <1>9, <1>10, <1>11, <1>12

LEMMA ScopeInvariant == Spec => []ScopeInv
<1>1. Init => ScopeInv
  BY DEF Init, ScopeInv
<1>2. ScopeInv /\ [Next]_vars => ScopeInv'
  <2> SUFFICES ASSUME ScopeInv, [Next]_vars
               PROVE  ScopeInv'
    OBVIOUS
  <2>1. CASE UNCHANGED vars
    BY <2>1 DEF vars, durable, memory, ScopeInv
  <2>2. CASE Start \/ StartRefused \/ Crash \/ Operator
    BY <2>2 DEF Start, StartRefused, Crash, FreshManager, Operator, OperatorRestores,
                OperatorRemovesFile, durable, memory, ScopeInv
  <2>3. CASE Run
    BY <2>3, ScopeRun, ScopeLoop DEF Run, ForLoops
  <2> QED
    BY <2>1, <2>2, <2>3 DEF Next
<1> QED
  BY <1>1, <1>2, PTL DEF Spec

(* A statement about a key of Incoming leaves the others alone.             *)
LEMMA OtherKeys ==
  ASSUME TypeOK, NEW f \in Incoming, NEW answer,
         \/ AddConstraint(f, answer) \/ DropConstraint(f, answer)
         \/ ValidateConstraint(f, answer)
  PROVE  \A g \in FK \ Incoming : db'[g] = db[g]
BY DEF TypeOK, AddConstraint, DropConstraint, ValidateConstraint

(* No run, finished or killed, changes the state of a key that references a *)
(* table outside the plan.                                                 *)
THEOREM OutgoingSafe == Spec => OutgoingUntouched
<1>1. TypeOK /\ ScopeInv /\ [Next]_vars => OutgoingKept
  <2> SUFFICES ASSUME TypeOK, ScopeInv, [Next]_vars
               PROVE  OutgoingKept
    OBVIOUS
  <2>1. CASE UNCHANGED db
    BY <2>1 DEF OutgoingKept
  <2>2. ASSUME NEW f \in FK,
               \/ DropForeignKey(f) \/ RecoverFromBackupFile(f)
               \/ ValidateRestoredForeignKeys(f) \/ OperatorRestores(f)
        PROVE  OutgoingKept
    <3>1. f \in Incoming
      BY <2>2 DEF DropForeignKey, RecoverFromBackupFile, ValidateRestoredForeignKeys,
                  OperatorRestores, ScopeInv
    <3>2. \E answer : \/ AddConstraint(f, answer) \/ DropConstraint(f, answer)
                      \/ ValidateConstraint(f, answer)
      BY <2>2 DEF DropForeignKey, RecoverFromBackupFile, ValidateRestoredForeignKeys,
                  OperatorRestores
    <3> QED
      BY <3>1, <3>2, OtherKeys DEF OutgoingKept
  <2>3. CASE RestoreAttempt
    <3>1. current \in Incoming
      BY <2>3 DEF RestoreAttempt, ScopeInv
    <3>2. \E answer : AddConstraint(current, answer)
      BY <2>3 DEF RestoreAttempt, Restored, RestoreRetried, RestoreGivenUp
    <3> QED
      BY <3>1, <3>2, OtherKeys DEF OutgoingKept
  <2>4. \/ UNCHANGED db
        \/ RestoreAttempt
        \/ \E f \in FK : \/ DropForeignKey(f) \/ RecoverFromBackupFile(f)
                         \/ ValidateRestoredForeignKeys(f) \/ OperatorRestores(f)
    <3>1. CASE Start \/ StartRefused \/ Crash \/ OperatorRemovesFile
      BY <3>1 DEF Start, StartRefused, Crash, OperatorRemovesFile, durable
    <3>2. CASE DetectForeignKeys \/ TryUseReplicaMode \/ OpenBackupFile
               \/ WriteInitialBackupSnapshot \/ DropDone \/ Execute
      BY <3>2 DEF DetectForeignKeys, TryUseReplicaMode, OpenBackupFile,
                  WriteInitialBackupSnapshot, DropDone, Execute, durable
    <3>3. CASE ReadBackupFile \/ RecoverDone \/ RestoreDone \/ ValidateDone \/ Cleanup
      BY <3>3 DEF ReadBackupFile, RecoverDone, RestoreDone, ValidateDone, Cleanup, durable
    <3>4. ASSUME NEW f \in FK, RestoreNextKey(f)
          PROVE  UNCHANGED db
      BY <3>4 DEF RestoreNextKey, durable
    <3>5. CASE UNCHANGED vars
      BY <3>5 DEF vars, durable
    <3> QED
      BY <3>1, <3>2, <3>3, <3>4, <3>5 DEF Next, Run, ForLoops, Operator
  <2> QED
    BY <2>1, <2>2, <2>3, <2>4
<1> QED
  BY <1>1, TypeCorrect, ScopeInvariant, PTL DEF Spec, OutgoingUntouched

-----------------------------------------------------------------------------
(* A run that drops keys has detected all of them.                         *)

(* A run begins with every key in place, and detects every key before it    *)
(* overwrites the backup file.                                             *)
THEOREM DetectionSafe == Spec => []DetectionComplete
<1>1. Init => DetectionInv
  BY DEF Init, DetectionInv, DetectionComplete
<1>2. BackupInv /\ DetectionInv /\ [Next]_vars => DetectionInv'
  <2> SUFFICES ASSUME BackupInv, DetectionInv, [Next]_vars
               PROVE  DetectionInv'
    OBVIOUS
  <2>0. UNCHANGED db => Missing' = Missing
    BY DEF Missing
  <2> USE <2>0 DEF DetectionInv, DetectionComplete, FailSetup, durable, memory
  <2>1. CASE UNCHANGED vars
    BY <2>1 DEF vars
  <2>2. CASE Start
    BY <2>2 DEF Start, MayStart, BackupInv, BackupCoversMissing
  <2>3. CASE DetectForeignKeys
    BY <2>3 DEF DetectForeignKeys
  <2>4. CASE TryUseReplicaMode \/ OpenBackupFile \/ WriteInitialBackupSnapshot
    BY <2>4 DEF TryUseReplicaMode, OpenBackupFile, WriteInitialBackupSnapshot
  <2>5. CASE StartRefused
    BY <2>5 DEF StartRefused
  <2>6. CASE DropDone \/ Execute \/ ReadBackupFile \/ RecoverDone \/ RestoreAttempt
             \/ RestoreDone \/ ValidateDone \/ Cleanup \/ Crash \/ Operator
    BY <2>6 DEF DropDone, Execute, ReadBackupFile, RecoverDone, RestoreAttempt,
                RestoreDone, ValidateDone, Cleanup, Crash, Operator, OperatorRestores,
                OperatorRemovesFile
  <2>7. CASE ForLoops
    BY <2>7 DEF ForLoops, DropForeignKey, RecoverFromBackupFile, RestoreNextKey,
                ValidateRestoredForeignKeys
  <2> QED
    BY <2>1, <2>2, <2>3, <2>4, <2>5, <2>6, <2>7 DEF Next, Run
<1>3. DetectionInv => DetectionComplete
  BY DEF DetectionInv
<1> QED
  BY <1>1, <1>2, <1>3, BackupInvariant, PTL DEF Spec

-----------------------------------------------------------------------------
(* Success means restored and validated.                                   *)

LEMMA AddConstraintDevalidated ==
  ASSUME TypeOK, NEW f \in FK, NEW answer, AddConstraint(f, answer),
         UNCHANGED wasValidated
  PROVE  Devalidated' = Devalidated
BY DEF TypeOK, AddConstraint, KeyState, Devalidated

LEMMA ValidationSetup ==
  TypeOK /\ ValidationInv
    /\ (Start \/ StartRefused \/ DetectForeignKeys \/ TryUseReplicaMode
        \/ OpenBackupFile \/ WriteInitialBackupSnapshot \/ DropDone \/ Execute)
    => ValidationInv'
<1> SUFFICES ASSUME TypeOK, ValidationInv
             PROVE  Start \/ StartRefused \/ DetectForeignKeys \/ TryUseReplicaMode
                    \/ OpenBackupFile \/ WriteInitialBackupSnapshot \/ DropDone
                    \/ Execute => ValidationInv'
  OBVIOUS
<1>0. UNCHANGED <<db, wasValidated>> => Devalidated' = Devalidated
  BY DEF Devalidated
<1> USE <1>0 DEF ValidationInv, FailSetup, durable, memory
<1>1. CASE Start
  BY <1>1 DEF Start
<1>2. CASE StartRefused
  BY <1>2 DEF StartRefused
<1>3. CASE DetectForeignKeys
  <2>1. Devalidated' = {}
    BY <1>3 DEF DetectForeignKeys, Devalidated
  <2> QED
    BY <1>3, <2>1 DEF DetectForeignKeys
<1>4. CASE TryUseReplicaMode
  BY <1>4 DEF TryUseReplicaMode
<1>5. CASE OpenBackupFile
  BY <1>5 DEF OpenBackupFile
<1>6. CASE WriteInitialBackupSnapshot
  BY <1>6 DEF WriteInitialBackupSnapshot
<1>7. CASE DropDone
  BY <1>7 DEF DropDone
<1>8. CASE Execute
  BY <1>8 DEF Execute
<1> QED
  BY <1>1, <1>2, <1>3, <1>4, <1>5, <1>6, <1>7, <1>8

LEMMA ValidationLoop ==
  ASSUME TypeOK, ValidationInv, NEW f \in FK,
         \/ DropForeignKey(f) \/ RecoverFromBackupFile(f)
         \/ RestoreNextKey(f) \/ ValidateRestoredForeignKeys(f)
  PROVE  ValidationInv'
<1> USE DEF ValidationInv
<1>1. CASE DropForeignKey(f)
  <2>1. CASE setupFailed'
    BY <2>1
  <2>2. CASE DropConstraint(f, "ok") /\ droppedKeys' = droppedKeys \union {f}
             /\ UNCHANGED <<pc, setupFailed>>
    <3>1. Devalidated' \subseteq Devalidated \union {f}
      BY <1>1, <2>2 DEF DropForeignKey, DropConstraint, Devalidated, TypeOK
    <3> QED
      BY <1>1, <2>2, <3>1 DEF DropForeignKey
  <2> QED
    BY <1>1, <2>1, <2>2 DEF DropForeignKey, FailSetup
<1>2. CASE RecoverFromBackupFile(f)
  <2>1. Devalidated' = Devalidated
    BY <1>2, AddConstraintDevalidated DEF RecoverFromBackupFile
  <2> QED
    BY <1>2, <2>1 DEF RecoverFromBackupFile
<1>3. CASE RestoreNextKey(f)
  <2>1. Devalidated' = Devalidated
    BY <1>3 DEF RestoreNextKey, durable, Devalidated
  <2>2. todo \subseteq todo' \union {current'}
    BY <1>3 DEF RestoreNextKey
  <2>3. None \notin Devalidated
    BY FKAssumption DEF Devalidated, TypeOK
  <2> QED
    BY <1>3, <2>1, <2>2, <2>3 DEF RestoreNextKey
<1>4. CASE ValidateRestoredForeignKeys(f)
  <2>1. CASE cleanupFailed' = TRUE
    BY <1>4, <2>1 DEF ValidateRestoredForeignKeys
  <2>2. CASE ValidateConstraint(f, "ok") /\ UNCHANGED cleanupFailed
    <3>1. Devalidated' = Devalidated \ {f}
      BY <1>4, <2>2 DEF ValidateRestoredForeignKeys, ValidateConstraint, Devalidated, TypeOK
    <3> QED
      BY <1>4, <2>2, <3>1 DEF ValidateRestoredForeignKeys
  <2> QED
    BY <1>4, <2>1, <2>2 DEF ValidateRestoredForeignKeys
<1> QED
  BY <1>1, <1>2, <1>3, <1>4

LEMMA ValidationCleanup ==
  TypeOK /\ ValidationInv
    /\ (ReadBackupFile \/ RecoverDone \/ RestoreAttempt \/ RestoreDone
        \/ ValidateDone \/ Cleanup \/ Crash \/ Operator)
    => ValidationInv'
<1> SUFFICES ASSUME TypeOK, ValidationInv
             PROVE  ReadBackupFile \/ RecoverDone \/ RestoreAttempt \/ RestoreDone
                    \/ ValidateDone \/ Cleanup \/ Crash \/ Operator => ValidationInv'
  OBVIOUS
<1>0. UNCHANGED <<db, wasValidated>> => Devalidated' = Devalidated
  BY DEF Devalidated
<1> USE <1>0 DEF ValidationInv, durable, memory
<1>1. CASE ReadBackupFile
  BY <1>1 DEF ReadBackupFile
<1>2. CASE RecoverDone
  BY <1>2 DEF RecoverDone
<1>3. CASE RestoreAttempt
  <2>1. current \in FK /\ UNCHANGED <<wasValidated, pc, todo, setupFailed>>
    BY <1>3 DEF RestoreAttempt, TypeOK
  <2>2. \E answer : AddConstraint(current, answer)
    BY <1>3 DEF RestoreAttempt, Restored, RestoreRetried, RestoreGivenUp
  <2>3. Devalidated' = Devalidated
    BY <2>1, <2>2, AddConstraintDevalidated
  <2>4. pc = "restore"
    BY <1>3 DEF RestoreAttempt
  <2>5. CASE Restored
    BY <2>1, <2>3, <2>4, <2>5 DEF Restored
  <2>6. CASE RestoreRetried
    BY <2>1, <2>3, <2>4, <2>6 DEF RestoreRetried
  <2>7. CASE RestoreGivenUp
    BY <2>1, <2>3, <2>4, <2>7 DEF RestoreGivenUp
  <2> QED
    BY <1>3, <2>5, <2>6, <2>7 DEF RestoreAttempt
<1>4. CASE RestoreDone
  <2>1. None \notin Devalidated /\ Devalidated \subseteq wasValidated
    BY FKAssumption DEF Devalidated, TypeOK
  <2> QED
    BY <1>4, <2>1 DEF RestoreDone, ToValidate
<1>5. CASE ValidateDone
  BY <1>5 DEF ValidateDone
<1>6. CASE Cleanup
  BY <1>6 DEF Cleanup
<1>7. CASE Crash
  BY <1>7 DEF Crash
<1>8. CASE Operator
  BY <1>8 DEF Operator, OperatorRestores, OperatorRemovesFile
<1> QED
  BY <1>1, <1>2, <1>3, <1>4, <1>5, <1>6, <1>7, <1>8

LEMMA ValidationInvariant == Spec => []ValidationInv
<1>1. Init => ValidationInv
  BY DEF Init, ValidationInv
<1>2. TypeOK /\ ValidationInv /\ [Next]_vars => ValidationInv'
  <2> SUFFICES ASSUME TypeOK, ValidationInv, [Next]_vars
               PROVE  ValidationInv'
    OBVIOUS
  <2>1. CASE UNCHANGED vars
    BY <2>1 DEF vars, durable, memory, ValidationInv, Devalidated
  <2>2. CASE Run
    BY <2>2, ValidationSetup, ValidationLoop, ValidationCleanup DEF Run, ForLoops
  <2> QED
    BY <2>1, <2>2, ValidationSetup, ValidationCleanup DEF Next
<1> QED
  BY <1>1, <1>2, TypeCorrect, PTL DEF Spec

(* A run that ends "completed" or "cancelled" has put every key back,       *)
(* validated again those that were validated, and removed the backup file. *)
THEOREM CleanExitSafe == Spec => CleanExitRestores
<1>1. BackupInv /\ ValidationInv /\ Next => CleanExit
  <2> SUFFICES ASSUME BackupInv, ValidationInv, Next,
                      pc = "cleanup", status' \in {"completed", "cancelled"}
               PROVE  /\ Missing = {}
                      /\ \A f \in wasValidated : db[f] = "valid"
                      /\ ~backupExists'
    BY DEF CleanExit
  <2>1. CASE Cleanup
    <3>1. ~setupFailed
      BY <2>1 DEF Cleanup, Outcome
    <3>2. MayRemoveBackup /\ backupExists' = FALSE
      BY <2>1, <3>1 DEF Cleanup, Outcome
    <3>3. Missing = {} /\ Devalidated = {}
      BY <3>1, <3>2 DEF BackupInv, ValidationInv, MayRemoveBackup
    <3> QED
      BY <3>2, <3>3 DEF Devalidated
  <2>2. CASE Crash
    BY <2>2 DEF Crash
  <2>3. Cleanup \/ Crash
    BY DEF Next, Start, StartRefused, Run, Operator, OperatorRestores,
           OperatorRemovesFile, DetectForeignKeys, TryUseReplicaMode, OpenBackupFile,
           WriteInitialBackupSnapshot, DropDone, Execute, ReadBackupFile, RecoverDone,
           RestoreAttempt, RestoreDone, ValidateDone, ForLoops, DropForeignKey,
           RecoverFromBackupFile, RestoreNextKey, ValidateRestoredForeignKeys
  <2> QED
    BY <2>1, <2>2, <2>3
<1> QED
  BY <1>1, BackupInvariant, ValidationInvariant, PTL DEF Spec, CleanExitRestores
=============================================================================
