------------------------------ MODULE CopyRun -------------------------------
(***************************************************************************)
(* One run of the copy command: the goroutine running Copier.Copy          *)
(* (internal/copier/copier.go), the main goroutine that waits for it, and  *)
(* the signal handler of setupTwoPhaseShutdown (cmd/copy.go).              *)
(*                                                                         *)
(* The parts Copy calls are seen from outside: the foreign keys as the     *)
(* ledger that ForeignKeys implements, the executor by what it returns.    *)
(***************************************************************************)
EXTENDS Naturals

CONSTANTS FK,         \* the foreign keys a run drops and restores
          MaxSignals  \* bound: how many signals arrive

ASSUME CopyRunAssumption == MaxSignals \in Nat

VARIABLES
  config,     \* the flags --dry-run and --skip-backup
  copy,       \* control of the goroutine running Copy
  status,     \* OperationStatus
  present,    \* the keys that exist in the target database
  ledger,     \* the keys whose definition is in the backup file
  setupErr,   \* setupForeignKeys returned an error
  copyErr,    \* what the executor returned
  done,       \* the result channel of the goroutine running Copy
  cancelled,  \* the context is cancelled
  signals,    \* signals that have arrived
  sigChan,    \* a signal waits for the handler
  handler,    \* control of the handler
  hasVital,   \* what HasVitalOperations told it
  requested,  \* shutdownRequested: a first signal was received
  shutdownChan, \* the handler's message to main
  main,       \* control of the main goroutine
  dbOpen,     \* Close has not closed the database pools yet
  exit        \* how the process ended

copyVars == <<copy, status, present, ledger, setupErr, copyErr, done>>
signalVars == <<signals, sigChan, handler, hasVital, requested, shutdownChan>>
mainVars == <<main, dbOpen, exit>>
vars == <<config, copyVars, cancelled, signalVars, mainVars>>

TypeOK ==
  /\ config \in [dryRun : BOOLEAN, skipBackup : BOOLEAN]
  /\ copy \in {"discover", "planned", "prompt", "prepare", "setup", "drop", "copying",
               "unwinding", "restore", "settled", "returned"}
  /\ status \in {"initializing", "confirming", "preparing", "copying", "completed",
                 "failed", "cancelled"}
  /\ present \subseteq FK /\ ledger \subseteq FK
  /\ copyErr \in {"none", "canceled", "errors"}
  /\ done \in {"none", "nil", "error"}
  /\ {setupErr, cancelled, sigChan, hasVital, requested, shutdownChan, dbOpen}
       \subseteq BOOLEAN
  /\ signals \in 0..MaxSignals
  /\ handler \in {"idle", "decided", "announce"}
  /\ main \in {"select", "grace", "expired", "closing", "closed"}
  /\ exit \in {"running", "finished", "expired", "fatal", "immediate", "forced"}

Init ==
  /\ config \in [dryRun : BOOLEAN, skipBackup : BOOLEAN]
  /\ copy = "discover" /\ status = "initializing"
  /\ present = FK /\ ledger = {}
  /\ setupErr = FALSE /\ copyErr = "none" /\ done = "none"
  /\ cancelled = FALSE
  /\ signals = 0 /\ sigChan = FALSE /\ handler = "idle" /\ hasVital = FALSE
  /\ requested = FALSE /\ shutdownChan = FALSE
  /\ main = "select" /\ dbOpen = TRUE /\ exit = "running"

-----------------------------------------------------------------------------
(* Copy.  Every step is one of a live process.                             *)

At(where) == exit = "running" /\ copy = where

otherVars == <<config, cancelled, signalVars, mainVars>>

\* An error, no table at all, or a plan.
Discover ==
  /\ At("discover")
  /\ \/ status' = "failed" /\ copy' = "settled"
     \/ status' = "completed" /\ copy' = "settled"
     \/ UNCHANGED status /\ copy' = "planned"
  /\ UNCHANGED <<present, ledger, setupErr, copyErr, done, otherVars>>

\* The user is asked before data is overwritten.
AskConfirmation ==
  /\ At("planned")
  /\ IF config.skipBackup \/ config.dryRun
       THEN copy' = "prepare" /\ UNCHANGED status
       ELSE copy' = "prompt" /\ status' = "confirming"
  /\ UNCHANGED <<present, ledger, setupErr, copyErr, done, otherVars>>

\* Anything but "yes" ends the run, which keeps the status "confirming".
Answer ==
  /\ At("prompt")
  /\ copy' \in {"prepare", "settled"}
  /\ UNCHANGED <<status, present, ledger, setupErr, copyErr, done, otherVars>>

\* A dry run ends here, and keeps the status "preparing".
Prepare ==
  /\ At("prepare")
  /\ status' = "preparing"
  /\ copy' = IF config.dryRun THEN "settled" ELSE "setup"
  /\ UNCHANGED <<present, ledger, setupErr, copyErr, done, otherVars>>

\* setupForeignKeys up to the backup file; it needs no cancellation and
\* looks at none.
BackUpKeys ==
  /\ At("setup")
  /\ \/ dbOpen /\ ledger' = FK /\ copy' = "drop" /\ UNCHANGED setupErr
     \/ ledger' \in SUBSET FK /\ copy' = "restore" /\ setupErr' = TRUE
  /\ UNCHANGED <<status, present, copyErr, done, otherVars>>

\* A drop may fail, before or after it took effect.
DropKey(f) ==
  /\ At("drop") /\ f \in present
  /\ \/ /\ dbOpen /\ present' = present \ {f}
        /\ UNCHANGED <<copy, setupErr>>
     \/ /\ present' \in IF dbOpen THEN {present, present \ {f}} ELSE {present}
        /\ copy' = "restore" /\ setupErr' = TRUE
  /\ UNCHANGED <<status, ledger, copyErr, done, otherVars>>

\* runExecution.  A context that is cancelled already stops every worker
\* before its first table.
BeginExecution ==
  /\ At("drop") /\ present = {}
  /\ status' = "copying"
  /\ copy' = IF cancelled THEN "unwinding" ELSE "copying"
  /\ UNCHANGED <<present, ledger, setupErr, copyErr, done, otherVars>>

\* What Execute returns (see Executor): a cancellation may also come too late
\* for it to notice.
EndExecution ==
  /\ \/ At("copying") /\ copyErr' \in {"none", "errors"}
     \/ At("copying") /\ cancelled /\ copyErr' = "canceled"
     \/ At("unwinding") /\ copyErr' = "canceled"
  /\ copy' = "restore"
  /\ UNCHANGED <<status, present, ledger, setupErr, done, otherVars>>

RestoreKey(f) ==
  /\ At("restore") /\ dbOpen /\ f \in ledger \ present
  /\ present' = present \union {f}
  /\ UNCHANGED <<copy, status, ledger, setupErr, copyErr, done, otherVars>>

\* Mutant of FinalStatus: an error of the cleanup is only logged.
FinalStatusOfCopy(cleanupErr) ==
  IF setupErr \/ copyErr = "errors" THEN "failed"
  ELSE IF copyErr = "canceled" THEN "cancelled" ELSE "completed"

\* How Copy ends, given the error of cleanupForeignKeys.
FinalStatus(cleanupErr) ==
  IF setupErr \/ cleanupErr \/ copyErr = "errors" THEN "failed"
  ELSE IF copyErr = "canceled" THEN "cancelled" ELSE "completed"

\* Mutant of EndCleanup: the backup file is removed after an error as well.
CleanUpAlways ==
  /\ At("restore")
  /\ \/ present = FK /\ status' = FinalStatus(FALSE)
     \/ status' = FinalStatus(TRUE)
  /\ ledger' = {}
  /\ copy' = "settled"
  /\ UNCHANGED <<present, setupErr, copyErr, done, otherVars>>

\* The end of cleanupForeignKeys and what Copy makes of it.  Without an error
\* every key is back and the backup file is gone; an error keeps the file.
EndCleanup ==
  /\ At("restore")
  /\ \/ present = FK /\ ledger' = {} /\ status' = FinalStatus(FALSE)
     \/ status' = FinalStatus(TRUE) /\ UNCHANGED ledger
  /\ copy' = "settled"
  /\ UNCHANGED <<present, setupErr, copyErr, done, otherVars>>

\* Mutant of ReturnFromCopy: success is not reported to main.
ReturnErrorsOnly ==
  /\ At("settled")
  /\ done' = IF status = "failed" THEN "error" ELSE "none"
  /\ copy' = "returned"
  /\ UNCHANGED <<status, present, ledger, setupErr, copyErr, otherVars>>

\* Copy returns, in web mode after the browser acknowledged the end or 30 s:
\* with an error exactly if the status is "failed".
ReturnFromCopy ==
  /\ At("settled")
  /\ done' = IF status = "failed" THEN "error" ELSE "nil"
  /\ copy' = "returned"
  /\ UNCHANGED <<status, present, ledger, setupErr, copyErr, otherVars>>

-----------------------------------------------------------------------------
(* The signal handler.                                                     *)

\* sigChan holds one signal; more are dropped.
Signal ==
  /\ exit = "running" /\ signals < MaxSignals
  /\ signals' = signals + 1 /\ sigChan' = TRUE
  /\ UNCHANGED <<config, copyVars, cancelled, handler, hasVital, requested,
                 shutdownChan, mainVars>>

\* Mutant of HasVitalOperations: only copying counts.
VitalWhenCopying == status = "copying"

HasVitalOperations == status \in {"preparing", "copying"}

\* The first signal: the status is read, and acted upon later.
ReceiveFirst ==
  /\ exit = "running" /\ handler = "idle" /\ sigChan /\ ~requested
  /\ requested' = TRUE /\ sigChan' = FALSE
  /\ hasVital' = HasVitalOperations
  /\ handler' = "decided"
  /\ UNCHANGED <<config, copyVars, cancelled, signals, shutdownChan, mainVars>>

\* Mutant of CancelContext: the handler sets the status itself.
CancelWithStatus ==
  /\ exit = "running" /\ handler = "decided" /\ hasVital
  /\ cancelled' = TRUE /\ handler' = "announce" /\ status' = "cancelled"
  /\ UNCHANGED <<config, copy, present, ledger, setupErr, copyErr, done, signals,
                 sigChan, hasVital, requested, shutdownChan, mainVars>>

CancelContext ==
  /\ exit = "running" /\ handler = "decided" /\ hasVital
  /\ cancelled' = TRUE /\ handler' = "announce"
  /\ UNCHANGED <<config, copyVars, signals, sigChan, hasVital, requested,
                 shutdownChan, mainVars>>

AnnounceShutdown ==
  /\ exit = "running" /\ handler = "announce"
  /\ shutdownChan' = TRUE /\ handler' = "idle"
  /\ UNCHANGED <<config, copyVars, cancelled, signals, sigChan, hasVital, requested,
                 mainVars>>

\* Mutant of ExitAtOnce: the context is cancelled in every case.
CancelAtOnce ==
  /\ exit = "running" /\ handler = "decided" /\ ~hasVital
  /\ cancelled' = TRUE /\ handler' = "idle"
  /\ UNCHANGED <<config, copyVars, signals, sigChan, hasVital, requested,
                 shutdownChan, mainVars>>

\* os.Exit(0)
ExitAtOnce ==
  /\ exit = "running" /\ handler = "decided" /\ ~hasVital
  /\ exit' = "immediate"
  /\ UNCHANGED <<config, copyVars, cancelled, signalVars, main, dbOpen>>

\* Any later signal: os.Exit(1).
ForceQuit ==
  /\ exit = "running" /\ handler = "idle" /\ sigChan /\ requested
  /\ exit' = "forced"
  /\ UNCHANGED <<config, copyVars, cancelled, signalVars, main, dbOpen>>

-----------------------------------------------------------------------------
(* The main goroutine.                                                     *)

mainFrame == <<config, copyVars, cancelled, signals, sigChan, handler, hasVital,
               requested>>

\* Copy returned: log.Fatalf after an error, the end of the command otherwise.
CopyReturned ==
  /\ exit = "running" /\ main = "select" /\ done # "none"
  /\ IF done = "error" THEN exit' = "fatal" /\ UNCHANGED main
                       ELSE main' = "closing" /\ UNCHANGED exit
  /\ UNCHANGED <<mainFrame, shutdownChan, dbOpen>>

BeginGrace ==
  /\ exit = "running" /\ main = "select" /\ shutdownChan
  /\ main' = "grace" /\ shutdownChan' = FALSE
  /\ UNCHANGED <<mainFrame, dbOpen, exit>>

\* Mutant of CopyEndsInTime: main does not wait for Copy.
EndGraceAtOnce ==
  /\ exit = "running" /\ main = "grace"
  /\ main' = "closing"
  /\ UNCHANGED <<mainFrame, shutdownChan, dbOpen, exit>>

\* After a signal an error of Copy is printed, and the exit code is 0.
CopyEndsInTime ==
  /\ exit = "running" /\ main = "grace" /\ done # "none"
  /\ main' = "closing"
  /\ UNCHANGED <<mainFrame, shutdownChan, dbOpen, exit>>

\* The 30 s are over, whatever Copy is doing.
GraceExpires ==
  /\ exit = "running" /\ main = "grace"
  /\ main' = "expired"
  /\ UNCHANGED <<mainFrame, shutdownChan, dbOpen, exit>>

\* The deferred Close: from here on no new statement reaches the database.
Close ==
  /\ exit = "running" /\ main \in {"closing", "expired"} /\ dbOpen
  /\ dbOpen' = FALSE
  /\ UNCHANGED <<mainFrame, shutdownChan, main, exit>>

EndProcess ==
  /\ exit = "running" /\ main \in {"closing", "expired"} /\ ~dbOpen
  /\ exit' = IF main = "closing" THEN "finished" ELSE "expired"
  /\ main' = "closed"
  /\ UNCHANGED <<mainFrame, shutdownChan, dbOpen>>

-----------------------------------------------------------------------------
Copy == \/ Discover \/ AskConfirmation \/ Prepare \/ BackUpKeys
        \/ BeginExecution \/ EndExecution \/ EndCleanup \/ ReturnFromCopy
        \/ \E f \in FK : DropKey(f) \/ RestoreKey(f)

Handler == ReceiveFirst \/ CancelContext \/ AnnounceShutdown \/ ExitAtOnce \/ ForceQuit

Main == CopyReturned \/ BeginGrace \/ CopyEndsInTime \/ GraceExpires \/ Close \/ EndProcess

Next == Copy \/ Answer \/ Signal \/ Handler \/ Main

Spec == Init /\ [][Next]_vars

\* Goroutines that can run do; statements and the executor return.  Nobody has
\* to answer the prompt or to send a signal.
FairSpec == Spec /\ WF_vars(Copy) /\ WF_vars(Handler) /\ WF_vars(Main)

-----------------------------------------------------------------------------
Missing == FK \ present

\* HasVitalOperations rests on this: while Copy may still restore a missing
\* key the status says so, from before the first drop until the cleanup.
VitalWhileKeysMissing ==
  Missing # {} /\ copy \notin {"settled", "returned"} => HasVitalOperations

\* Only a failed cleanup, a second signal, the end of the grace period or a
\* handler overtaken by Copy leave a key missing behind; and then the backup
\* file is left as well, with every missing key in it.
KeysAccountedFor ==
  exit # "running" /\ Missing # {} =>
    /\ Missing \subseteq ledger
    /\ \/ status = "failed" /\ copy \in {"settled", "returned"}
       \/ exit \in {"forced", "expired", "immediate"}

\* A status that says all is well is true of the foreign keys and of the copy:
\* "completed" without errors, "cancelled" only after a signal.
HonestStatus ==
  /\ status = "completed" => Missing = {} /\ ledger = {} /\ copyErr = "none" /\ ~setupErr
  /\ status = "cancelled" => Missing = {} /\ ledger = {} /\ cancelled /\ requested

\* An outcome is final: a late cancellation or the end of the cleanup never
\* replaces it.
OutcomeKept == status \in {"completed", "failed", "cancelled"} => status' = status

OutcomeFinal == [][OutcomeKept]_vars

\* Once the handler has found vital operations, the process ends before Copy
\* has returned only by a second signal or the end of the grace period.
GraceHonoured ==
  hasVital /\ exit \in {"finished", "fatal", "immediate"} => done # "none"

\* A signal ends the process, whatever Copy is doing, the prompt included.
SignalEnds == sigChan ~> exit # "running"

\* A run that began to prepare ends: each goroutine waits for the others in
\* bounded time.
PreparedRunEnds == copy = "setup" ~> exit # "running"

\* cmd/copy.go, "First signal: graceful shutdown, attempts to finish vital
\* operations (FK restore)": a first signal alone never ends the process at
\* once while Copy has keys to restore.
FirstSignalIsGraceful ==
  exit = "immediate" /\ copy \notin {"settled", "returned"} => Missing = {}
=============================================================================
