----------------------------- MODULE ForeignKeys -----------------------------
(***************************************************************************)
(* ForeignKeyManager (internal/copier/foreignkey.go) as Copier.Copy drives *)
(* it (internal/copier/copier.go): detect the keys, write the backup file, *)
(* drop the incoming keys, copy, execute the backup file, restore the      *)
(* dropped keys with retries, validate them, remove the file.              *)
(*                                                                         *)
(* Each statement sent to PostgreSQL is one step, so the process may be    *)
(* killed between any two.  A statement may fail, and may also fail after  *)
(* it took effect (the answer was lost or came after the timeout).  What   *)
(* survives a crash is the database, db, and the backup file.              *)
(***************************************************************************)
EXTENDS Naturals

CONSTANTS FK,        \* keys with the referencing or the referenced table in the plan
          Incoming,  \* those that reference a planned table
          None,      \* no key
          MaxRetries,\* attempts per key in RestoreAllForeignKeys (3 in the code)
          MaxRuns    \* bound: how many times the program is started

ASSUME FKAssumption == /\ Incoming \subseteq FK
                       /\ None \notin FK
                       /\ MaxRetries \in Nat \ {0}
                       /\ MaxRuns \in Nat

VARIABLES
  db,           \* state of each key in the target database
  backupExists, \* whether .fk_backup.sql exists
  backupDefs,   \* the keys whose complete definition it holds
  pc,           \* what the process is about to do; "idle" when none runs
  foreignKeys,  \* keys found by DetectForeignKeys
  wasValidated, \* those of them that were validated then
  droppedKeys,  \* keys dropped and not yet restored
  restoredKeys, \* keys restored and not yet validated
  todo,         \* what the current loop still has to visit
  current,      \* the key RestoreAllForeignKeys is working on
  attempt,      \* its attempt number
  setupFailed,  \* setupForeignKeys returned an error
  copyErr,      \* what the executor returned
  cleanupFailed,\* cleanupForeignKeys has collected an error
  status,       \* how the last run ended
  runs          \* number of runs started

durable == <<db, backupExists, backupDefs>>
memory  == <<foreignKeys, wasValidated, droppedKeys, restoredKeys, todo, current,
             attempt, setupFailed, copyErr, cleanupFailed>>
vars    == <<durable, pc, memory, status, runs>>

KeyState == {"valid", "notvalid", "absent"}
Phase == {"idle", "detect", "replica", "dropAll", "writeBackup", "drop", "execute",
          "recover", "recoverLoop", "restore", "validate", "cleanup"}
Status == {"none", "refused", "completed", "cancelled", "failed", "crashed"}

TypeOK ==
  /\ db \in [FK -> KeyState]
  /\ backupExists \in BOOLEAN
  /\ backupDefs \in SUBSET FK
  /\ pc \in Phase
  /\ foreignKeys \in SUBSET FK
  /\ wasValidated \in SUBSET FK
  /\ droppedKeys \in SUBSET FK
  /\ restoredKeys \in SUBSET FK
  /\ todo \in SUBSET FK
  /\ current \in FK \union {None}
  /\ attempt \in 1..MaxRetries
  /\ setupFailed \in BOOLEAN
  /\ copyErr \in {"none", "cancelled", "failed"}
  /\ cleanupFailed \in BOOLEAN
  /\ status \in Status
  /\ runs \in 0..MaxRuns

Missing == {f \in FK : db[f] = "absent"}

-----------------------------------------------------------------------------
(* Statements, and what PostgreSQL answers.  "transient" stands for the    *)
(* errors shouldRetryFKError recognises; a timeout or a lost connection is *)
(* one of them, and hides whether the statement took effect.               *)

AddConstraint(f, answer) ==
  \/ /\ answer = "ok"
     /\ db[f] = "absent"
     /\ db' = [db EXCEPT ![f] = "notvalid"]     \* definitions end in NOT VALID
  \/ /\ answer = "exists"
     /\ db[f] # "absent"
     /\ UNCHANGED db
  \/ /\ answer \in {"transient", "permanent"}
     /\ UNCHANGED db
  \/ /\ answer = "transient"
     /\ db[f] = "absent"
     /\ db' = [db EXCEPT ![f] = "notvalid"]

\* DROP CONSTRAINT IF EXISTS: the key is gone after "ok", and may be gone
\* after "error".
DropConstraint(f, answer) ==
  \/ db' = [db EXCEPT ![f] = "absent"]
  \/ answer = "error" /\ UNCHANGED db

ValidateConstraint(f, answer) ==
  \/ db[f] # "absent" /\ db' = [db EXCEPT ![f] = "valid"]
  \/ answer = "error" /\ UNCHANGED db

-----------------------------------------------------------------------------
FreshManager ==
  /\ foreignKeys' = {} /\ wasValidated' = {} /\ droppedKeys' = {}
  /\ restoredKeys' = {} /\ todo' = {} /\ current' = None /\ attempt' = 1
  /\ setupFailed' = FALSE /\ copyErr' = "none" /\ cleanupFailed' = FALSE

Init ==
  /\ db \in [FK -> {"valid", "notvalid"}]
  /\ backupExists = FALSE /\ backupDefs = {}
  /\ pc = "idle"
  /\ foreignKeys = {} /\ wasValidated = {} /\ droppedKeys = {}
  /\ restoredKeys = {} /\ todo = {} /\ current = None /\ attempt = 1
  /\ setupFailed = FALSE /\ copyErr = "none" /\ cleanupFailed = FALSE
  /\ status = "none"
  /\ runs = 0

\* Mutant of MayStart: a left-over backup file is ignored.
MayAlwaysStart == TRUE

\* checkForFKBackupFile lets a run start only where no backup file is left.
MayStart == ~backupExists

Start ==
  /\ pc = "idle" /\ runs < MaxRuns
  /\ MayStart
  /\ pc' = "detect" /\ status' = "none" /\ runs' = runs + 1
  /\ FreshManager
  /\ UNCHANGED durable

StartRefused ==
  /\ pc = "idle" /\ runs < MaxRuns
  /\ ~MayStart
  /\ status' = "refused"
  /\ UNCHANGED <<durable, pc, memory, runs>>

\* Leaving setupForeignKeys with an error goes straight to cleanupForeignKeys.
FailSetup ==
  /\ setupFailed' = TRUE
  /\ pc' = "recover"

\* The query may fail, or break off after some of the rows were scanned.
DetectForeignKeys ==
  /\ pc = "detect"
  /\ \/ /\ foreignKeys' = FK \ Missing
        /\ pc' = "replica"
        /\ UNCHANGED setupFailed
     \/ /\ foreignKeys' \in SUBSET (FK \ Missing)
        /\ FailSetup
  /\ wasValidated' = {f \in foreignKeys' : db[f] = "valid"}
  /\ UNCHANGED <<durable, droppedKeys, restoredKeys, todo, current, attempt,
                 copyErr, cleanupFailed, status, runs>>

\* A denied SET only changes useReplica; a failed BEGIN is an error.
TryUseReplicaMode ==
  /\ pc = "replica"
  /\ \/ pc' = "dropAll" /\ UNCHANGED setupFailed
     \/ FailSetup
  /\ UNCHANGED <<durable, foreignKeys, wasValidated, droppedKeys, restoredKeys,
                 todo, current, attempt, copyErr, cleanupFailed, status, runs>>

\* Mutant of ToDrop: every detected key is dropped.
ToDropAll == foreignKeys

\* Keys to drop: those that reference a planned table.
ToDrop == foreignKeys \intersect Incoming

\* DropAllForeignKeys up to the open of the backup file, which truncates it.
OpenBackupFile ==
  /\ pc = "dropAll"
  /\ todo' = ToDrop
  /\ \/ /\ ToDrop = {}
        /\ pc' = "execute"
        /\ UNCHANGED <<backupExists, backupDefs, setupFailed>>
     \/ /\ ToDrop # {}
        /\ pc' = "writeBackup"
        /\ backupExists' = TRUE /\ backupDefs' = {}
        /\ UNCHANGED setupFailed
     \/ /\ ToDrop # {}
        /\ FailSetup
        /\ UNCHANGED <<backupExists, backupDefs>>
  /\ UNCHANGED <<db, foreignKeys, wasValidated, droppedKeys, restoredKeys, current,
                 attempt, copyErr, cleanupFailed, status, runs>>

\* Mutant of WriteInitialBackupSnapshot: a failed write goes unnoticed.
WriteErrorIgnored ==
  /\ pc = "writeBackup"
  /\ backupDefs' \in SUBSET todo
  /\ pc' = "drop"
  /\ UNCHANGED <<db, backupExists, foreignKeys, wasValidated, droppedKeys,
                 restoredKeys, todo, current, attempt, setupFailed, copyErr,
                 cleanupFailed, status, runs>>

\* writeInitialBackupSnapshot: a failed write leaves some of the definitions.
WriteInitialBackupSnapshot ==
  /\ pc = "writeBackup"
  /\ \/ /\ backupDefs' = todo
        /\ pc' = "drop"
        /\ UNCHANGED setupFailed
     \/ /\ backupDefs' \in SUBSET todo
        /\ FailSetup
  /\ UNCHANGED <<db, backupExists, foreignKeys, wasValidated, droppedKeys,
                 restoredKeys, todo, current, attempt, copyErr, cleanupFailed,
                 status, runs>>

\* dropForeignKey: the key is recorded as dropped only when the answer is "ok".
DropForeignKey(f) ==
  /\ pc = "drop" /\ f \in todo
  /\ \/ /\ DropConstraint(f, "ok")
        /\ droppedKeys' = droppedKeys \union {f}
        /\ UNCHANGED <<pc, setupFailed>>
     \/ /\ DropConstraint(f, "error")
        /\ FailSetup
        /\ UNCHANGED droppedKeys
  /\ todo' = todo \ {f}
  /\ UNCHANGED <<backupExists, backupDefs, foreignKeys, wasValidated, restoredKeys,
                 current, attempt, copyErr, cleanupFailed, status, runs>>

DropDone ==
  /\ pc = "drop" /\ todo = {}
  /\ pc' = "execute"
  /\ UNCHANGED <<durable, memory, status, runs>>

\* runExecution: the tables are copied; foreign keys are not touched.
Execute ==
  /\ pc = "execute"
  /\ copyErr' \in {"none", "cancelled", "failed"}
  /\ pc' = "recover"
  /\ UNCHANGED <<durable, foreignKeys, wasValidated, droppedKeys, restoredKeys, todo,
                 current, attempt, setupFailed, cleanupFailed, status, runs>>

-----------------------------------------------------------------------------
(* cleanupForeignKeys: recover, restore and validate all run, whatever the *)
(* earlier ones returned.                                                  *)

\* RecoverFromBackupFile up to reading the file.
ReadBackupFile ==
  /\ pc = "recover"
  /\ \/ /\ backupExists
        /\ todo' = backupDefs
        /\ UNCHANGED cleanupFailed
     \/ /\ backupExists
        /\ todo' = {}
        /\ cleanupFailed' = TRUE
     \/ /\ ~backupExists
        /\ todo' = {}
        /\ UNCHANGED cleanupFailed
  /\ pc' = "recoverLoop"
  /\ UNCHANGED <<durable, foreignKeys, wasValidated, droppedKeys, restoredKeys,
                 current, attempt, setupFailed, copyErr, status, runs>>

\* One statement of the file: executed once, "already exists" is no error.
\* A key created here is not added to restoredKeys: the expression that would
\* find its name ends in a word boundary between a quote and a space, and so
\* matches no statement the program writes.
RecoverFromBackupFile(f) ==
  /\ pc = "recoverLoop" /\ f \in todo
  /\ \/ /\ \E answer \in {"ok", "exists"} : AddConstraint(f, answer)
        /\ UNCHANGED cleanupFailed
     \/ /\ \E answer \in {"transient", "permanent"} : AddConstraint(f, answer)
        /\ cleanupFailed' = TRUE
  /\ todo' = todo \ {f}
  /\ UNCHANGED <<backupExists, backupDefs, pc, foreignKeys, wasValidated, droppedKeys,
                 restoredKeys, current, attempt, setupFailed, copyErr, status, runs>>

\* RestoreAllForeignKeys works on a copy of droppedKeys.
RecoverDone ==
  /\ pc = "recoverLoop" /\ todo = {}
  /\ pc' = "restore"
  /\ todo' = droppedKeys
  /\ UNCHANGED <<durable, foreignKeys, wasValidated, droppedKeys, restoredKeys,
                 current, attempt, setupFailed, copyErr, cleanupFailed, status, runs>>

RestoreNextKey(f) ==
  /\ pc = "restore" /\ current = None /\ f \in todo
  /\ current' = f /\ attempt' = 1
  /\ todo' = todo \ {f}
  /\ UNCHANGED <<durable, pc, foreignKeys, wasValidated, droppedKeys, restoredKeys,
                 setupFailed, copyErr, cleanupFailed, status, runs>>

\* Mutant of Restored: a key found in place is not handed to the validation.
RestoredUnlessThere ==
  /\ \E answer \in {"ok", "exists"} :
       /\ AddConstraint(current, answer)
       /\ restoredKeys' = IF answer = "ok" THEN restoredKeys \union {current}
                                          ELSE restoredKeys
  /\ droppedKeys' = droppedKeys \ {current}
  /\ current' = None
  /\ UNCHANGED <<attempt, cleanupFailed>>

\* The key counts as restored when the statement succeeds, and when it finds
\* the key there already with the same signature.
Restored ==
  /\ \E answer \in {"ok", "exists"} : AddConstraint(current, answer)
  /\ droppedKeys' = droppedKeys \ {current}
  /\ restoredKeys' = restoredKeys \union {current}
  /\ current' = None
  /\ UNCHANGED <<attempt, cleanupFailed>>

\* Mutant of RestoreRetried: one attempt more than the bound.
RetriedOnceMore ==
  /\ attempt <= MaxRetries
  /\ AddConstraint(current, "transient")
  /\ attempt' = attempt + 1
  /\ UNCHANGED <<current, droppedKeys, restoredKeys, cleanupFailed>>

RestoreRetried ==
  /\ attempt < MaxRetries
  /\ AddConstraint(current, "transient")
  /\ attempt' = attempt + 1
  /\ UNCHANGED <<current, droppedKeys, restoredKeys, cleanupFailed>>

\* Given up: no attempt left, an error that is not retried, or a key that
\* exists but whose signature could not be read.
RestoreGivenUp ==
  /\ \/ attempt = MaxRetries /\ AddConstraint(current, "transient")
     \/ \E answer \in {"exists", "permanent"} : AddConstraint(current, answer)
  /\ cleanupFailed' = TRUE
  /\ current' = None
  /\ UNCHANGED <<attempt, droppedKeys, restoredKeys>>

RestoreAttempt ==
  /\ pc = "restore" /\ current # None
  /\ Restored \/ RestoreRetried \/ RestoreGivenUp
  /\ UNCHANGED <<backupExists, backupDefs, pc, foreignKeys, wasValidated, todo,
                 setupFailed, copyErr, status, runs>>

\* ValidateRestoredForeignKeys skips keys that were NOT VALID before the run.
ToValidate == restoredKeys \intersect wasValidated

RestoreDone ==
  /\ pc = "restore" /\ current = None /\ todo = {}
  /\ pc' = "validate"
  /\ todo' = ToValidate
  /\ UNCHANGED <<durable, foreignKeys, wasValidated, droppedKeys, restoredKeys,
                 current, attempt, setupFailed, copyErr, cleanupFailed, status, runs>>

ValidateRestoredForeignKeys(f) ==
  /\ pc = "validate" /\ f \in todo
  /\ \/ /\ ValidateConstraint(f, "ok")
        /\ UNCHANGED cleanupFailed
     \/ /\ ValidateConstraint(f, "error")
        /\ cleanupFailed' = TRUE
  /\ todo' = todo \ {f}
  /\ UNCHANGED <<backupExists, backupDefs, pc, foreignKeys, wasValidated, droppedKeys,
                 restoredKeys, current, attempt, setupFailed, copyErr, status, runs>>

ValidateDone ==
  /\ pc = "validate" /\ todo = {}
  /\ pc' = "cleanup"
  /\ restoredKeys' = {}
  /\ UNCHANGED <<durable, foreignKeys, wasValidated, droppedKeys, todo, current,
                 attempt, setupFailed, copyErr, cleanupFailed, status, runs>>

\* Mutant of MayRemoveBackup: only the tracked keys are looked at.
MayRemoveIfTracked == droppedKeys = {}

\* CleanupBackupFile is reached without errors and checks droppedKeys again.
MayRemoveBackup == ~cleanupFailed /\ droppedKeys = {}

\* How Copy ends, given whether cleanupForeignKeys returned nil.
Outcome(cleaned) ==
  CASE setupFailed -> "failed"
    [] ~setupFailed /\ copyErr = "cancelled" /\ cleaned -> "cancelled"
    [] ~setupFailed /\ copyErr = "none" /\ cleaned -> "completed"
    [] OTHER -> "failed"

\* os.Remove may fail, which is an error of the cleanup.
Cleanup ==
  /\ pc = "cleanup"
  /\ \/ /\ MayRemoveBackup
        /\ backupExists' = FALSE /\ backupDefs' = {}
        /\ status' = Outcome(TRUE)
     \/ /\ ~MayRemoveBackup \/ backupExists
        /\ status' = Outcome(FALSE)
        /\ UNCHANGED <<backupExists, backupDefs>>
  /\ pc' = "idle"
  /\ FreshManager
  /\ UNCHANGED <<db, runs>>

-----------------------------------------------------------------------------
(* The environment.                                                        *)

\* The process may be killed at any time: a second signal, the 30 s limit of
\* cmd/copy.go, the operating system.
Crash ==
  /\ pc # "idle"
  /\ pc' = "idle" /\ status' = "crashed"
  /\ FreshManager
  /\ UNCHANGED <<durable, runs>>

\* What checkForFKBackupFile asks of the operator: restore the keys, then
\* remove the file.
OperatorRestores(f) ==
  /\ pc = "idle" /\ f \in backupDefs
  /\ AddConstraint(f, "ok")
  /\ UNCHANGED <<backupExists, backupDefs, pc, memory, status, runs>>

OperatorRemovesFile ==
  /\ pc = "idle" /\ backupExists
  /\ backupDefs \intersect Missing = {}
  /\ backupExists' = FALSE /\ backupDefs' = {}
  /\ UNCHANGED <<db, pc, memory, status, runs>>

-----------------------------------------------------------------------------
ForLoops == \E f \in FK : \/ DropForeignKey(f)
                          \/ RecoverFromBackupFile(f)
                          \/ RestoreNextKey(f)
                          \/ ValidateRestoredForeignKeys(f)

Run == \/ DetectForeignKeys \/ TryUseReplicaMode \/ OpenBackupFile
       \/ WriteInitialBackupSnapshot \/ DropDone \/ Execute
       \/ ReadBackupFile \/ RecoverDone \/ RestoreAttempt \/ RestoreDone
       \/ ValidateDone \/ Cleanup
       \/ ForLoops

Operator == OperatorRemovesFile \/ \E f \in FK : OperatorRestores(f)

Next == Start \/ StartRefused \/ Run \/ Crash \/ Operator

Spec == Init /\ [][Next]_vars

\* The program is sequential here, every statement has a timeout and every
\* loop is finite, so a run that can go on does; and somebody answers a
\* refused start by doing what the message says.
FairSpec == Spec /\ WF_vars(Run) /\ WF_vars(Operator)

-----------------------------------------------------------------------------
(* Safety.                                                                 *)

\* A key that is missing from the target database is in the backup file,
\* whatever the instant at which the process is killed: DropAllForeignKeys
\* writes the file before the first drop, a start is refused while the file
\* exists, and cleanupForeignKeys keeps it unless every key is back.
BackupCoversMissing == Missing \subseteq backupDefs

\* A run that reports success, or a graceful cancel, leaves every key in place
\* and every key that was validated before it validated again.
CleanExit ==
  pc = "cleanup" /\ status' \in {"completed", "cancelled"}
    => /\ Missing = {}
       /\ \A f \in wasValidated : db[f] = "valid"
       /\ ~backupExists'

CleanExitRestores == [][CleanExit]_vars

\* Keys of planned tables that reference a table outside the plan are never
\* dropped, re-created or re-validated, not even through the backup file.
OutgoingKept == \A f \in FK \ Incoming : db'[f] = db[f]

OutgoingUntouched == [][OutgoingKept]_vars

\* A run that gets as far as dropping keys detected all of them: it never
\* starts from a database in which a former run left keys missing, where it
\* would overwrite their only record.
DetectionComplete ==
  pc \in {"dropAll", "writeBackup"} => foreignKeys = FK

\* The invariant behind BackupCoversMissing: nothing is missing before the
\* file is complete, what is about to be dropped is in the file, and a cleanup
\* without error has visited every missing key.
BackupInv ==
  /\ BackupCoversMissing
  /\ ~backupExists => backupDefs = {}
  /\ pc \in {"detect", "replica", "dropAll", "writeBackup"} => Missing = {}
  /\ pc = "writeBackup" => backupExists
  /\ pc = "drop" => todo \subseteq backupDefs
  /\ pc = "recoverLoop" => Missing \subseteq todo \/ cleanupFailed
  /\ pc \in {"restore", "validate", "cleanup"} => Missing = {} \/ cleanupFailed

\* Keys that were validated when the run began and are not now.
Devalidated == {f \in wasValidated : db[f] # "valid"}

\* The invariant behind CleanExitRestores: while nothing has failed, a key
\* that lost its validation waits in the list the next phase works from.
ValidationInv ==
  setupFailed \/
    /\ pc \in {"replica", "dropAll", "writeBackup"} => Devalidated = {}
    /\ pc \in {"drop", "execute", "recover", "recoverLoop"}
         => Devalidated \subseteq droppedKeys
    /\ pc = "restore"
         => Devalidated \subseteq todo \union {current} \union restoredKeys \/ cleanupFailed
    /\ pc = "validate" => Devalidated \subseteq todo \/ cleanupFailed
    /\ pc = "cleanup" => Devalidated = {} \/ cleanupFailed

\* The invariant behind DetectionComplete.
DetectionInv ==
  /\ pc = "detect" => Missing = {}
  /\ pc = "replica" => foreignKeys = FK
  /\ DetectionComplete

\* The invariant behind OutgoingUntouched: every list the manager keeps, and
\* the backup file, hold keys that reference a planned table.
ScopeInv ==
  /\ backupDefs \subseteq Incoming
  /\ droppedKeys \subseteq Incoming
  /\ restoredKeys \subseteq Incoming
  /\ todo \subseteq Incoming
  /\ current \in Incoming \union {None}

\* The manager implements the ledger: the backup file is the ledger.
Ledger == INSTANCE ForeignKeyLedger WITH present <- FK \ Missing,
                                         ledger <- backupDefs
LedgerSpec == Ledger!Spec

-----------------------------------------------------------------------------
(* Liveness.                                                               *)

\* A key that was dropped comes back, even after a crash or a failed restore.
EveryKeyReturns ==
  \A f \in FK : (db[f] = "absent") ~> (db[f] # "absent")

\* The comments at RecoverFromBackupFile and ValidateRestoredForeignKeys: keys
\* created NOT VALID from the backup file are recorded for the validation
\* stage.  Then no key would be left unvalidated once the file is removed.
RecoveredKeysValidated ==
  [][pc = "cleanup" /\ backupExists /\ ~backupExists'
       => \A f \in wasValidated : db[f] = "valid"]_vars
=============================================================================
