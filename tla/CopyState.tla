----------------------------- MODULE CopyState ------------------------------
(***************************************************************************)
(* The data of state.CopyState (internal/state/state.go, hooks.go) that a  *)
(* run relies on, and the hooks that change it, as operators on a record.  *)
(* Each hook runs under the lock of the state, so that it is one step of   *)
(* whoever calls it; times, speeds, texts and worker numbers are left out. *)
(* WebServer models what happens to the events the hooks emit.             *)
(***************************************************************************)
EXTENDS Naturals, FiniteSets, Functions

TableStatus == {"pending", "copying", "completed", "failed", "cancelled"}

NewCopyState == [status      |-> <<>>,  \* status of each table added so far
                 synced      |-> <<>>,  \* its SyncedRows
                 errorRows   |-> <<>>,  \* its ErrorRows
                 errors      |-> {},    \* Errors
                 totalTables |-> 0, completedTables |-> 0, failedTables |-> 0,
                 syncedRows  |-> 0, totalRows |-> 0,
                 activeWorkers |-> 0, queuedTables |-> 0]

With(s, status) == {t \in DOMAIN s.status : s.status[t] = status}

\* updateSummary counts the statuses anew for the metrics; the counters of the
\* summary are kept by the hooks.
UpdateSummary(s) == [s EXCEPT !.activeWorkers = Cardinality(With(s, "copying")),
                              !.queuedTables = Cardinality(With(s, "pending"))]

\* f with the value v at t, where f may not have been defined.
Extend(f, t, v) == [x \in DOMAIN f \union {t} |-> IF x = t THEN v ELSE f[x]]

AddTable(s, t, rows) ==
  UpdateSummary([s EXCEPT !.status = Extend(@, t, "pending"),
                          !.synced = Extend(@, t, 0),
                          !.errorRows = Extend(@, t, 0),
                          !.totalTables = @ + 1,
                          !.totalRows = @ + rows])

\* validTableTransitions, for the statuses that occur; the hook warns of the
\* others and makes them all the same.
ValidTableTransition(old, next) ==
  \/ old = "pending" /\ next \in {"copying", "cancelled"}
  \/ old = "copying" /\ next \in {"completed", "failed", "cancelled"}

UpdateTableStatus(s, t, next) ==
  IF t \notin DOMAIN s.status THEN s
  ELSE UpdateSummary(
         [s EXCEPT !.status[t] = next,
                   !.completedTables = @ + (IF next = "completed" THEN 1 ELSE 0),
                   !.failedTables = @ + (IF next = "failed" THEN 1 ELSE 0)])

\* Mutant of UpdateTableProgress: the rows already counted are added again.
AddProgress(s, t, rows) ==
  IF t \notin DOMAIN s.status THEN s
  ELSE UpdateSummary([s EXCEPT !.synced[t] = rows,
                               !.syncedRows = @ + rows])

\* rows is the table's new total, which may be less than the old one.
UpdateTableProgress(s, t, rows) ==
  IF t \notin DOMAIN s.status THEN s
  ELSE UpdateSummary([s EXCEPT !.synced[t] = rows,
                               !.syncedRows = (@ + rows) - s.synced[t]])

AddTableError(s, t) ==
  IF t \notin DOMAIN s.status THEN s ELSE [s EXCEPT !.errorRows[t] = @ + 1]

AddError(s, e) == [s EXCEPT !.errors = @ \union {e}]

-----------------------------------------------------------------------------
\* What a reader of a snapshot may rely on: the summary's counters, each kept
\* by increments in another hook, agree with the tables it comes with.
Consistent(s) ==
  /\ s.totalTables = Cardinality(DOMAIN s.status)
  /\ s.completedTables = Cardinality(With(s, "completed"))
  /\ s.failedTables = Cardinality(With(s, "failed"))
  /\ s.syncedRows = SumFunction(s.synced)
=============================================================================
