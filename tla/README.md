# A verification of pgcopy

pgcopy copies the tables of one PostgreSQL database into another.  It drops the
foreign keys that would get in the way, copies the tables in parallel, and puts
the keys back.  This directory holds TLA+ models of that program, the TLC
configurations that check them, and proofs that TLAPS checks.  Paths below are
relative to the repository's root; line numbers of every definition are in
`PROJECT.json` under "map".

## 1. Inventory

| Component | State it keeps | Operations | Interacts with | What is hard |
|---|---|---|---|---|
| Foreign key manager, `internal/copier/foreignkey.go` | detected, dropped and restored keys; `.fk_backup.sql` | detect, try replica mode, back up, drop, recover from the file, restore with retries, validate, remove the file | target database, `Copy` | a crash between any two statements; an answer that is lost; retries of what was done; a restart beside an old file |
| Executor, `layers.go`, and worker pool, `parallel.go` | the two channels, the wait group, errors collected | run a layer, feed, take, copy, report, close, collect | context, state package | the workers' interleavings; a full errors channel; cancellation and panics at any point |
| Dependency layers, `copier.go` | counts, frontier, layers | one wave, the last layer | executor, keys detected by the manager | cycles, self-references, parallel keys, keys that leave the plan |
| Copy run, `Copier.Copy`, and shutdown, `cmd/copy.go` | operation status, outcome; signal channel, `shutdownRequested`, `shutdownChan`, result channel | the stages of `Copy`; first and later signals; the 30 s grace period; `Close` | all of the above | three goroutines; a status read and acted upon later; exits in the middle of the cleanup |
| Table copy, streaming, `stream_copy.go` | destination transaction, pipe, progress counter | truncate, copy, commit; writer and poller goroutines | both databases | goroutines that outlive the function; a deferred rollback under a cancelled context |
| Table copy, legacy, `parallel.go` | cursor, batch transaction | clear, scan, insert, commit | both databases | not atomic over batches; source changes between batches |
| Sequence reset, `sequence.go` | none | set each sequence after a load | target database | empty tables |
| Copy state, `internal/state` | operation and table statuses, counters, errors, listeners | hooks, snapshots, events | everybody | counters kept by increments in different hooks; events emitted after the lock is released, each in a goroutine of its own |
| Web server, `internal/server/webserver.go` | clients, `writeMu`, debounce timer, `completionAckChan` | start, deliver an event, broadcast, debounce, serve a connection, acknowledge, shut down | state package, browsers, `Copy` | registration against broadcasts and shutdown; snapshots taken before the lock that orders the writes; deadlines |
| Command line, displays, statistics, utilities | none that outlives a call | parsing, formatting, wildcards | | |

What makes each correct, in the same order: no foreign key is lost, and a run
that reports success left all of them as they were; each table is copied once,
after its parents, and every failure is reported; every planned table is in
exactly one layer, parents first; a run leaves keys missing only in the ways it
announces, and always ends; a table is either wholly copied or untouched
(streaming), or its failure is reported (legacy); a sequence never hands out a
value that is in use; counters agree with the tables' statuses; a page that is
connected is sent the outcome and the last row counts, broadcasts never take it
back, and after a shutdown no handler stays behind.

## 2. Modules

| Module | What it is |
|---|---|
| `ForeignKeyLedger` | abstract: a key is missing only while a ledger holds its definition |
| `ForeignKeys` | the manager as `Copy` drives it, crashes, restarts and the operator |
| `ForeignKeysProofs` | theorems about `ForeignKeys` |
| `CopyState` | operators: the data of the shared state and the hooks that change it |
| `Executor` | `Execute`, `copyTablesParallel`, the workers, and what they write to the state; uses `CopyState` |
| `ExecutorProofs` | theorems about `Executor` |
| `DependencyLayers` | `buildDependencyLayers` |
| `DependencyLayersProofs` | theorems about `DependencyLayers` |
| `TableCopy` | `copyTable`: the streaming copy with its goroutines, and the legacy batches |
| `TableCopyProofs` | theorems about `TableCopy` |
| `SequenceReset` | `resetSequencesForTable` |
| `SequenceResetProofs` | theorems about `SequenceReset` |
| `CopyRun` | `Copy`, the signal handler and main |
| `CopyRunProofs` | theorems about `CopyRun` |
| `WebServer` | events, broadcasts, connections, acknowledgement, shutdown |
| `WebServerProofs` | theorems about `WebServer` |
| `SetLemmas` | facts about finite sets and sums that the proofs share |
| `MC...` | the values of the constants for TLC |

**Foreign keys.** `db` is the target database: each key is valid, not valid or
absent.  `backupExists` and `backupDefs` are the file.  These three survive
`Crash`; every other variable is memory of the process, named as in the code.
Each statement sent to the database is one step.  A statement can fail, and can
also fail after it took effect; `AddConstraint` distinguishes the answers that
the code distinguishes ("already exists", errors `shouldRetryFKError` knows,
others).  The map iteration orders and the sorting of keys are abstracted to any
order.  The operator does what the message of `checkForFKBackupFile` says.
Replica mode changes nothing here: keys are dropped in both modes.  Signatures
of keys are abstracted to whether the comparison succeeds.

**Executor.** One call of `copyTablesParallel` per layer.  The two channels are
sequences; `wpc` is where each worker is.  `copyTable` ends well, with an error,
or in a panic.  `recovering` is the moment between `wg.Done` and the send in the
recovery; `stray` are goroutines of earlier layers still there.  A crash of the
process is `main = "crashed"`.  `state` is the record of `CopyState`: the planned
tables are added to it one at a time before `Execute` begins (`PlanTable`), and every hook is
one step, because it runs under the lock of the state.  Progress is any number of
rows, since a table that grows or shrinks may report more or fewer than before.
The two receive loops of a worker differ only in which of them looks at the channel
next, so `TakeTable` and `WorkerExit` stand for both; sizes of tables are left out.  `NoTable` marks empty hands.

**Dependency layers.** One iteration of the loop is one step, since nothing else
runs.  `Freed` is the test inside the innermost loop: a count was decremented
and reached zero.  A layer is a set; the order by name inside it is left out.

**Table copy.** One call of `copyTable`, streaming or legacy, with or without a
primary key, `--snapshot`, `--compress` and replica mode: all chosen in `Init`.
A row is a number, its primary key and its place in the order of `ctid` alike;
`dest` counts the copies of each row, so that a row written twice shows.  Others
change the source meanwhile.  A transaction is the variable `tx`, which becomes
`dest` at its commit.  The pipe holds the row that a `Write` waits to hand over.
The writer (`writer`, `pipeEnd`) fails for any reason the code knows, a cancelled
context and a panic included; while it waits in `Write` only the closing of the
reading side frees it, because a pipe knows no context.  Cancellation has no
variable of its own: it makes statements fail, and each may fail anyway.  gzip is
modelled by its one effect on control, the wait for the header.  The deferred
rollback runs with a context that the function has just cancelled; pgx then drops
the connection, and the server rolls back.

**Sequence reset.** Columns, starts and current values are arbitrary.  What is
taken from PostgreSQL is how `nextval` and `setval` work, and that the text of a
`regclass` names the schema only for a sequence off the `search_path` (`onPath`).

**Copy run.** Three goroutines as three control variables, `copy`, `handler` and
`main`, plus `exit`, which stops them all.  The manager is seen as the ledger of
`ForeignKeyLedger` (`present`, `ledger`), which `ForeignKeys` is shown to
implement, and the executor by its three outcomes.  `sigChan` has one place, as
in the code.  `Close` shuts the pools, so later statements fail.

**Web server.** The content of the state is its `version`, the number of its
changes; a message carries the version of the state it was made from.  Events
are of three classes by how they reach a page: as a snapshot, as the event alone,
or through the debounce timer.  What a message of each class brings is in `Reach`: an
event nothing of the state; a delta the summary and the tables that are copying or
completed, of which the model keeps the row counts; a snapshot everything, of which it
keeps the row counts and the outcome.  So `rows` is the version of the last
`UpdateTableProgress`, and a log entry or a cancelled table, though its event starts
the timer too, leaves it alone.  `listeners` counts the `OnStateChange` goroutines
of each class that have yet to run; since they are independent, the order of two
events is not kept, as in the code.  That `emit` runs after the lock is released
is the same as a goroutine that starts later.  `fired` counts timer callbacks
waiting for `writeMu`, for `Stop` does not recall one that fired.  `writer` is the
broadcast that holds `writeMu`, with its receivers, between taking the list and
the end of its writes, which are one step: nothing in the code depends on how far
they have come.  Each connection has a handler (`handler`), a socket (`link`), what
row counts were written to it (`shown`) and the page at its other end (`page`), which answers the
outcome once.  Connections are numbered in the order of their admission, which
breaks their symmetry.  Deadlines: the 10 s of the write deadline may have passed
at any broadcast after the first snapshot (`MayBeOverdue`), the 60 s of the read
deadline at any time.  After `Shutdown` has unsubscribed no hook is modelled: its
event would reach nobody.

How they fit: `TableCopy`, followed by `SequenceReset` whose errors are only
logged, is the call that `Executor` sees as `copyTable`, by its outcome;
`CopyRun` fixes when the manager and the executor run; the statuses it sets and
the hooks of `Executor` are the changes whose events `WebServer` delivers;
`DependencyLayers` computes the layers that `Executor` takes as a constant, and
`ParentsFirst` together with `LayerBarrier` gives "no child is copied while or
before its parent is, outside the last layer", which is the theorem
`ParentsAreCopied`; the ledger is what `CopyRun` needs to know of `ForeignKeys`, and
both are proved to implement it (`ImplementsLedger`, `RunKeepsLedger`).

## 3. Runs

| Run | Bounds | What it shows |
|---|---|---|
| `foreign_keys` | 3 keys, 2 of them incoming, 3 attempts as in the code, 2 runs | safety of the file, honest exits, refinement of the ledger, every key returns |
| `foreign_keys_unvalidated` | the same | finding 1 |
| `executor` | 4 tables in layers of 3 and 1, 2 workers, 1 table that may panic | one worker per table, barrier between layers, errors, counters, no goroutine left, termination |
| `executor_panic` | the same | finding 2 |
| `dependency_layers` | 3 planned tables, 1 outside, 4 keys with all choices of their ends | partition, order, cycles, earliest layer |
| `table_copy` | 4 rows, batches of 2, statements of 1 row, 3 attempts as in the code, 2 changes of the source | atomic stream, complete copies, no row twice, exact progress, no goroutine left |
| `sequence_reset` | 2 sequences, values up to 2 | what is found gives fresh values, nothing is made worse |
| `sequence_missed` | the same | finding 5 |
| `copy_run` | 2 keys, 3 signals, all four settings of two flags | ways to leave keys missing, honest and final outcome, the run ends |
| `first_signal` | the same | finding 3 |
| `web_server` | 4 changes of the state for 1 connection, 2 for 2; a limit of 1 | outcome and row counts are sent to the pages, broadcasts in order, no handler left after shutdown |
| `web_deadline` | the same | finding 4 |

Why the bounds are enough to be interesting.  Two incoming keys give a state
between two drops and two restores; the third is a key that must not be touched;
two runs give a start beside an old file, a refused start and a second run after
the operator's repair.  Three tables over two workers overflow `errChan`, and
leave a table waiting while both workers are busy; two layers give the barrier,
and a panic of the first layer that is still recovering in the second.  Four
keys over three tables give chains, diamonds, parallel keys, and a cycle with a
table behind it.  Four rows in batches of two give empty, short and full batches and
a table whose size is a multiple of the batch size; two changes of the source can
move a row behind the cursor, or shift an OFFSET both ways.  Two sequences give a
reset that fails in the middle.  Two connections of which one is allowed give
one that is admitted before the other has registered and one that comes after it
has gone; two changes give an outcome with an event before or after it, and two
events that overtake each other.  Four changes, for one connection, give three events
of progress before the outcome: a timer that is replaced while it runs, and one that
fires while the callback of the one before waits for `writeMu`.  `MaxChanges` depends on
the connections opened because four changes for two of them are too many states; what
the pages share, `clients` and `writer`, is met with two.  Three signals: a first one, a second one, and one that is lost
because `sigChan` is full.

`CHECK_DEADLOCK FALSE` is set in all runs since all of these stop when they are
done: no run left to start, `Execute` returned, layers complete, process ended,
server down.

Fairness.  `ForeignKeys`: the run goes on while it can (statements have
timeouts, unless `--no-timeouts` is given, and loops are finite), and the
operator acts on a refused start; a crash or a start is never required.
`Executor`: each goroutine that can run does; `Cancel` is not required.
`TableCopy`: statements return, the writer goes on, and the poller notices that
it was cancelled; that COPY IN fails of its own is never required, nor that the
source changes.
`WebServer`: a broadcast ends (a write returns: after the first snapshot each
connection has a deadline), `Shutdown` goes on once it has begun, and each
handler goes on where it waits for nobody or for `writeMu`, which the runtime
hands to whoever has waited long; no page has to read, answer or leave, and no
read deadline has to pass.
`CopyRun`: the three goroutines go on; `Answer` and `Signal` are not required.

Each property has a mutant: a definition of the model replaced by what a
plausible slip in the code would make of it, under which TLC finds the property
violated.  They stand next to the definition they replace ("Mutant of ...").

## 4. Findings

1. *Keys recreated from the file are not validated* (`foreignkey.go:812`).  The
   regular expression that would record them never matches what the program
   writes, so a key whose DROP took effect but answered with an error stays NOT
   VALID after the file is removed.  The run in question ends "failed", but no
   trace of the key is left.
2. *A panic can end the process* (`parallel.go:257`).  `wg.Done` is called
   before the recovery sends on `errChan`, which may be closed by then.
3. *A first signal can leave keys missing* (`cmd/copy.go:82`).  The handler acts
   on a status it read before `Copy` began to drop keys.  The backup file is
   there (`KeysAccountedFor`), so the keys can be restored by hand.
4. *A page is dropped 10 s after it connected* (`webserver.go:422`).  The write
   deadline is a point in time; it is set with the first snapshot and never
   again, so the first broadcast after it fails and the connection is removed.
   (The page reconnects, and starts over.)
5. *Sequences are not found* (`sequence.go:36`).  The catalog query compares
   `schema.name` with the text of a `regclass`, which has no schema when the
   sequence is on the `search_path`, so the sequences of `public` are usually left
   as they were, without an error.

Noted without a run of its own: a cancellation hides the errors collected
before it (`parallel.go:294`, `layers.go:88`), so such a run ends as "cancelled"
with no error although tables failed.  The comment at `parallel.go:293` says
this is meant; `ReturnedErrors` shows that the shared state has the errors.  The end of the 30 s grace period (`cmd/copy.go:300`) may cut
a restore short; `KeysAccountedFor` names it among the ways to leave keys
missing.

Seen while modelling, and without a run:

* Without any table the operation goes from initializing to completed
  (`copier.go:403`), which `hooks.go:72` does not list; `SetStatus` warns and goes on.
* `setval(START - 1, false)` for an empty table (`sequence.go:94`) makes `nextval`
  return `START - 1`, not the start value the comment names; below `MINVALUE` it is
  rejected, and the sequences after it are not reset.  The model does so too (`Target`,
  `SetVal`), but no property is about it: what an empty column's sequence gives is
  always a fresh value.
* A page's first snapshot is taken before `writeMu` (`webserver.go:414`): it may be
  written after a broadcast of a newer state.  The page then shows the older one
  until the next broadcast of a snapshot; `OutcomeOnItsWay` shows that the outcome is
  written all the same, by the broadcast or by the first snapshot.
* Log entries and tables that were cancelled are announced by events that only start
  the debounce timer (`webserver.go:287`, `hooks.go:258`), but the delta it sends has
  no log and no such table (`webserver.go:576-604`): a page is sent them with the next
  snapshot, and those that follow the last snapshot never.  `RowCountsOnTheirWay` is
  therefore about the row counts, which the delta has.
* The limit on clients (`webserver.go:375`) is checked before the upgrade and the
  registration, so `maxClients` can be exceeded, against `webserver.go:362`.
* The debounce timer starts anew at each event (`webserver.go:631`): under events
  less than 100 ms apart no progress goes out until they stop.  And an event that is
  under way when `Shutdown` stops the timer can start it again.
* `SetStatus` announces every status as `EventOperationStarted`.
* The page ignores `progress_delta` messages (`index.html`, `handleStateUpdate`): that
  the row counts are sent to it does not make it show them.
* A page that is quiet for 60 s is dropped (`webserver.go:402`): the server sends no
  pings, and the page sends only the acknowledgement.
* When only the cleanup fails, `Copy` does not wait for the page
  (`copier.go:482`), so that the server may be shut down before it is told.
* A table that turns out to have more rows than were counted makes the number of
  empty cells of the progress bar negative (`interactive.go:268`), and the display
  ends with the panic, which is recovered.

## 5. Proofs

For all sets of keys, numbers of attempts and numbers of runs, assuming only
`FKAssumption` (incoming keys are keys, `None` is not one, at least one
attempt):

* `TypeCorrect`: `TypeOK`, an induction with one lemma per action.
* `BackupSafe`: every missing key is in the file.  This is not inductive.
  `BackupInv` adds why: nothing is missing until the file is complete, what is
  about to be dropped is in it, and a cleanup that collected no error has
  visited every missing key, so the file is removed only when none is missing.
* `ImplementsLedger`: each step maps to a step of `ForeignKeyLedger` or to none.
* `DetectionSafe` from `DetectionInv` and `BackupInv`: a start needs that no file
  exists, hence that no key is missing, hence detection finds all of them.
* `CleanExitSafe` from `ValidationInv`: while nothing has failed, a key that lost
  its validation is in the list the next phase works from.
* `OutgoingSafe` from `ScopeInv`: all lists and the file hold incoming keys only.

For all sets of tables and all finite sets of foreign keys (`LayersAssumption`),
from one inductive invariant `IInv`: `indeg` is the number of edges from tables
not yet placed, and the frontier is where it is zero (`CountInv`); the layers are
disjoint and make up what was visited (`PlacedInv`); what a wave freed has a
parent in the last layer (`FrontierInv`).  The arithmetic is in `EdgesSplit`, on
cardinalities of finite sets.

* `LayersTypeCorrect`, `LayersPartition`, `LayersOrdered`, `LayersLeaveCycles`,
  `LayersEarliest`: the five properties of the run.

For every finite set of rows, every batch size, number of rows per statement,
attempts and changes of the source (`TableCopyAssumption`), about `TableCopy`, from one
inductive invariant `IInv`:

* `TableCopyTypeCorrect`.
* `StreamingAtomic`: `AllOrNothing`.  `FillInv` says what the transaction holds at each
  point: exactly what the writer has delivered, which is everything once the
  pipe has ended without an error (`WriterInv`); only then can COPY IN end well and
  the commit be reached.
* `BatchesLeavePrefix`: `CommittedPrefix`.  `BatchInv` says what a batch is: the first rows
  of the view that earlier batches have not read (`Copied`), and the transaction
  adds those of them that statements have inserted.  In a snapshot the view
  stays, so the batches partition it (`SnapshotInv`).
* `SuccessMeansComplete`: `CopyComplete`.  Over a changing table `KeysetInv` takes the
  place of `SnapshotInv`: all that was copied lies behind the cursor, and behind the
  cursor no row is missing that was there all the time.  A batch that is not
  full has read all there was (`FirstIsAll`).
* `RowsAtMostOnce`: `NoRowTwice`, for the three modes in which it holds.
* `ProgressCountsRows`: `ProgressExact`.  `CountInv`: the poller has never published more
  than the transaction holds (`Size`), and it has ended when the commit counts the
  rest.

The lemmas about `First`, `Add` and `Size` carry the arithmetic: what is read first is a
prefix, of no more rows than asked for; reading on is reading more at once; and
inserting rows adds as many as there are.

For all keys and numbers of signals, about `CopyRun`, from one inductive invariant:
the status at each stage of `Copy` (`StageInv`), a missing key is in the backup
file and only a failed run ends with one (`LedgerInv`), a cancellation comes from a
signal (`CancelInv`), and main goes on only when `Copy` returned (`ExitInv`).

* `RunTypeCorrect`, `StatusAnnouncesKeys`, `MissingKeysExplained`, `StatusIsHonest`,
  `GraceIsHonoured`, `OutcomeIsFinal`: the four invariants of the run and `OutcomeFinal`.
* `RunKeepsLedger`: each step of the run is a step of `ForeignKeyLedger` or none; and
  `NoKeyLost`: so no run, however it ends, has a key missing that the file does not
  hold, which follows from the abstract specification alone.

For all numbers of connections, clients and changes, about `WebServer`:

* `ServerTypeCorrect`, `OutcomeReachesPages`, `RowCountsReachPages`, `NoHandlerForgotten`.  The
  invariants are nearly inductive; `ClientInv` adds that who is at work and not
  registered has been closed, and that nobody is registered before `Start`.
* `BroadcastsInOrder`, from `WriterInv`: the message being written is at least as
  new as all that was written to its receivers, since it was made behind `writeMu`.

For any tables, layers and number of workers, with a panic or a cancellation at any
point, about `Executor`:

* `ExecutorTypeCorrect`, `NoTableTwice`, `LayersInOrder`, `ResultIsTrue`,
  `NoWorkerLeft`, `StatusesInOrder`, `SummaryIsTrue`: all its safety properties.
* `ParentsAreCopied`: if the layers satisfy `ParentsFirst` of `DependencyLayers`, which
  `LayersOrdered` shows of those it computes, then while a table that a wave placed is
  copied, the copy of each planned table it references is over, or a panic left it.

The strengthening has a part for each question.  `ControlInv`: where workers can be
for each place of the goroutine of `Execute`; a worker's step happens only while
its layer runs (`WorkFrame`).  `PlacesInv`: a table is still to be sent, in
`tableChan` or in one pair of hands, and of the running layer; this needs that
layers share no table (`LayersAssumption`, which `LayersPartition` establishes).
`StatusInv`: the status tells which of these it is.  `ErrorInv`: an error is in
`errChan` or in the shared state exactly when its table failed or is about to be
marked.  `PanicInv` and `PanicStaysKnown`: hands that still hold a table at the end
hold it because of a panic, and a panic once known stays known.  `CoverInv`: unless
cancelled, no table of the layer is missing.  `LayerThrough` draws the conclusion
when a layer ends: a table that is still in `tableChan` means that every worker
holds a panicked table of its own, so that panics are at least as many as workers,
by the injection from workers to `Panicking`.  `PastInv` keeps it for the layers
that are through.  `CounterInv`: after each hook the counters that it increments are
the cardinalities, and the sums over the tables, that `SummaryAgrees` means.  A
table's hook changes one term of a sum (`SumUpdate`), and the busy workers are as many
as the tables being copied because no two hold the same (`ActiveWorkers`).

For any sequences and values, about `SequenceReset`: `FoundGiveFreshValues` and
`ResetSpoilsNothing`.  `LargestOfColumn` needs that a column has a largest value,
which is the assumption that values have a bounded width.

`SetLemmas` holds what these proofs share.  A fact about every finite set, for
instance that it has a least number or how a sum over it changes with one term,
is shown without an induction theorem: of the subsets for which it fails, one
contains no other (`MinimalSet`), and without one of its elements it would be smaller.

**Why things end.**  Liveness is beyond the prover, but what it rests on is not.  For
four modules there are two theorems each: as long as something is to be done,
a step of those that are fair can be taken; and every step leaves less to do.
A behaviour then has finitely many steps, after the last of them a fair step
would remain possible for ever, and fairness says that it is taken.

| Module | Somebody can go on | Steps run out | The property |
|---|---|---|---|
| `Executor` | `NobodyStuck` | `StepsRunOut` | `Termination` |
| `TableCopy` | `NobodyStuck` | `CopyStepsRunOut` | `EverythingEnds` |
| `CopyRun` | `OnlyTheUserIsWaitedFor` | `RunStepsRunOut` | `SignalEnds`, `PreparedRunEnds` |
| `WebServer` | `HandlersWaitForNoPage` | `ShutdownRunsDown` | `HandlersEnd` |

These say for any constants what is hard about termination: `errChan` may be full,
the channel empty and workers gone in panics, and still one of them, the closer or
the collector can go on; a writer in the middle of a `Write` is freed by the closing
of the pipe; the signal handler, main and `Copy` wait in no circle; after `Shutdown` a handler waits for
nothing but a broadcast.  What "can be taken" means is written out as guards (`Ready`,
`CanGoOn`), since `ENABLED` is beyond the prover; that these guards are equal to
`ENABLED` of the fair actions was checked with TLC on the configurations of the runs.
What is left is a natural number or a pair or triple of them: in `Executor` layers,
the stage of `Execute`, then the steps of tables, workers and errors, where only a report of progress
leaves it as it is, which takes nothing from anybody; in `TableCopy` the rows that batches
have not read, then the steps of `copyTable`, writer, poller and of those who change
the source; in `CopyRun` the drops and restores, the signals and the stages of main, for a finite
set of keys, as a database has; in `WebServer`, from the beginning of the shutdown,
the events and timers, and the stage of each handler, none of which a page that leaves
or `Copy` at its end changes for the worse.

Only model-checked: the step from these two theorems to `Termination`, `EverythingEnds`,
`SignalEnds`, `PreparedRunEnds` and `HandlersEnd`, which needs fairness; and
`EveryKeyReturns`, about which nothing is proved yet.  Every safety property of the
passing runs, invariant or action property, is a theorem.

## 6. Not modelled

Of the state package, connection details, metrics samples and the list of foreign
keys, which are written once and only shown; of the web server, the index page
and the JSON view of the state, which keep nothing; for sequences,
increments other than 1 and MAXVALUE; tables without columns, whose rows per
statement are a division by zero (`parallel.go:786`), except as a panic in
`Executor`; two processes over one directory, about which the code promises
nothing beyond the check at the start; a crash of the machine, which may lose the
file that `os.WriteFile` does not sync; a statement that the server executes after
its context timed out and the program moved on; command line, displays and string
functions, which keep no state.  That tables in layers come sorted by name matters
to no property.

## 7. Plan

1. `ForeignKeys`: that the manager always can go on, and that its steps run out
   between two crashes, below `EveryKeyReturns`.
2. `ForeignKeys` with statements that outlive their timeout.
3. `CopyRun` with `WebServer`: the wait of `Copy` for the page, and the grace period
   that may end before it.
