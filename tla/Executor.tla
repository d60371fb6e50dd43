------------------------------ MODULE Executor ------------------------------
(***************************************************************************)
(* defaultExecutor.Execute (internal/copier/layers.go) running one call of *)
(* copyTablesParallel (internal/copier/parallel.go) per dependency layer:  *)
(* the goroutine that feeds tableChan and collects from errChan (main),    *)
(* the workers, the goroutine that closes errChan, and the cancellation of *)
(* the context, and what they write to the shared state.  What copyTable   *)
(* does to the data is left out: it reports progress and ends well, with   *)
(* an error, or, for the tables of Panicking, in a panic.                  *)
(***************************************************************************)
EXTENDS Sequences, CopyState

CONSTANTS Table,      \* the planned tables
          Layers,     \* their dependency layers, in order
          Worker,     \* the workers of one call; Cardinality is config.Parallel
          Parallel,   \* config.Parallel, also the capacity of errChan
          Rows,       \* the rows of every table; progress is reported up to it
          Panicking,  \* tables on which copyTable may panic
          NoTable,    \* a worker holds no table
          PanicError  \* the error made of a panic; it names no table

ASSUME ExecutorAssumption ==
  /\ Table # {} /\ IsFiniteSet(Table) /\ Panicking \subseteq Table
  /\ NoTable \notin Table /\ PanicError \notin Table
  /\ Parallel \in Nat \ {0} /\ Rows \in Nat
  /\ IsFiniteSet(Worker) /\ Cardinality(Worker) = Parallel

\* PlanLayers puts every table in one place of one layer (LayersPartition
\* in DependencyLayersProofs) and makes no empty layer.
ASSUME LayersAssumption ==
  /\ Layers \in Seq(Seq(Table))
  /\ \A l \in 1..Len(Layers) : Layers[l] # <<>>
  /\ \A t \in Table : \E l \in 1..Len(Layers) : \E i \in 1..Len(Layers[l]) :
       Layers[l][i] = t
  /\ \A k, l \in 1..Len(Layers) : \A h \in 1..Len(Layers[k]), i \in 1..Len(Layers[l]) :
       Layers[k][h] = Layers[l][i] => k = l /\ h = i

VARIABLES
  layer,       \* index of the current layer
  main,        \* control of the goroutine running Copy and Execute
  unsent,      \* tables of the layer still to be sent to tableChan
  tableChan,   \* its buffer
  tableClosed, \* close(tableChan) was called
  errChan,     \* its buffer
  errClosed,   \* close(errChan) was called
  wpc,         \* control of each worker
  holding,     \* the table each worker is processing
  collected,   \* errors collected in this layer
  layerErrors, \* errors of the layers before
  state,       \* the shared CopyState
  cancelled,   \* the context is cancelled
  stray,       \* workers of layers before whose recovery has yet to send
  result       \* what Execute returned

channels == <<unsent, tableChan, tableClosed, errChan, errClosed>>
mainVars == <<layer, main, collected, layerErrors, result>>
vars == <<channels, mainVars, wpc, holding, state, cancelled, stray>>

Error == Table \union {PanicError}

TypeOK ==
  /\ layer \in 1..(Len(Layers) + 1)
  /\ main \in {"plan", "next", "feed", "collect", "returned", "crashed"}
  /\ unsent \in Seq(Table) /\ tableChan \in Seq(Table)
  /\ errChan \in Seq(Error) /\ Len(errChan) <= Parallel
  /\ {tableClosed, errClosed, cancelled} \subseteq BOOLEAN /\ stray \subseteq Worker
  /\ wpc \in [Worker -> {"idle", "fetch", "taken", "copy", "report", "settle",
                         "recovering", "done"}]
  /\ holding \in [Worker -> Table \union {NoTable}]
  /\ collected \in SUBSET Error /\ layerErrors \in SUBSET Error
  /\ DOMAIN state.status \subseteq Table
  /\ state.status \in [DOMAIN state.status -> TableStatus]
  /\ state.synced \in [DOMAIN state.status -> 0..Rows]
  /\ result \in {"none", "nil", "errors", "canceled"}

Init ==
  /\ layer = 1 /\ main = "plan"
  /\ unsent = <<>> /\ tableChan = <<>> /\ tableClosed = FALSE
  /\ errChan = <<>> /\ errClosed = FALSE
  /\ wpc = [w \in Worker |-> "idle"] /\ holding = [w \in Worker |-> NoTable]
  /\ collected = {} /\ layerErrors = {}
  /\ state = NewCopyState
  /\ cancelled = FALSE /\ result = "none" /\ stray = {}

-----------------------------------------------------------------------------
(* addPlannedTablesToState, Execute and copyTablesParallel.                *)

\* The planned tables are added one at a time, before Execute begins.
PlanTable ==
  /\ main = "plan"
  /\ \E t \in Table \ DOMAIN state.status : state' = AddTable(state, t, Rows)
  /\ main' = IF DOMAIN state'.status = Table THEN "next" ELSE "plan"
  /\ UNCHANGED <<channels, layer, collected, layerErrors, result, wpc, holding,
                 cancelled, stray>>

\* The head of copyTablesParallel: fresh channels, one goroutine per worker.
StartLayer ==
  /\ main = "next" /\ layer <= Len(Layers)
  /\ main' = "feed"
  /\ unsent' = Layers[layer]
  /\ tableChan' = <<>> /\ tableClosed' = FALSE
  /\ errChan' = <<>> /\ errClosed' = FALSE
  /\ wpc' = [w \in Worker |-> "fetch"]
  /\ holding' = [w \in Worker |-> NoTable]
  /\ collected' = {}
  /\ stray' = stray \union {w \in Worker : wpc[w] = "recovering"}
  /\ UNCHANGED <<layer, layerErrors, state, cancelled, result>>

\* Never blocks: the buffer has room for every table.
SendTable ==
  /\ main = "feed" /\ unsent # <<>>
  /\ tableChan' = Append(tableChan, Head(unsent))
  /\ unsent' = Tail(unsent)
  /\ UNCHANGED <<tableClosed, errChan, errClosed, mainVars, wpc, holding, state,
                 cancelled, stray>>

\* Mutant of CloseTables: close(tableChan) is forgotten.
LeaveTablesOpen ==
  /\ main = "feed" /\ unsent = <<>>
  /\ main' = "collect"
  /\ UNCHANGED <<channels, layer, collected, layerErrors, result, wpc, holding,
                 state, cancelled, stray>>

CloseTables ==
  /\ main = "feed" /\ unsent = <<>>
  /\ tableClosed' = TRUE
  /\ main' = "collect"
  /\ UNCHANGED <<unsent, tableChan, errChan, errClosed, layer, collected, layerErrors,
                 result, wpc, holding, state, cancelled, stray>>

\* Mutant of AllDone: the closer does not wait for workers that hold an error.
AllButReporting == \A w \in Worker : wpc[w] \in {"report", "settle", "recovering", "done"}

\* The wait group is at zero.  A worker's deferred Done runs before the
\* deferred recovery of the function that called it.
AllDone == \A w \in Worker : wpc[w] \in {"recovering", "done"}

CloseErrors ==
  /\ main = "collect" /\ ~errClosed /\ AllDone
  /\ errClosed' = TRUE
  /\ UNCHANGED <<unsent, tableChan, tableClosed, errChan, mainVars, wpc, holding,
                 state, cancelled, stray>>

\* The collector passes over errors that are context.Canceled; none comes here,
\* as a worker sends no error once the context is cancelled (CopyCancelled).
CollectError ==
  /\ main = "collect" /\ errChan # <<>>
  /\ collected' = collected \union {Head(errChan)}
  /\ errChan' = Tail(errChan)
  /\ state' = AddError(state, Head(errChan))
  /\ UNCHANGED <<unsent, tableChan, tableClosed, errClosed, layer, main, layerErrors,
                 result, wpc, holding, cancelled, stray>>

\* Mutant of CollectorDone: the collector stops when no error is waiting.
NothingToCollect == errChan = <<>>

\* The range over errChan ends when the channel is closed and drained.
CollectorDone == errChan = <<>> /\ errClosed

\* Mutant of LayerResult: only the last layer's errors are returned.
LastLayerResult == collected

\* The errors Execute has to report once this layer is through.
LayerResult == layerErrors \union collected

\* A cancelled context ends Execute at once and
\* hides whatever was collected; other errors do not stop the next layer.
FinishLayer ==
  /\ main = "collect" /\ CollectorDone
  /\ layerErrors' = LayerResult
  /\ \/ /\ cancelled
        /\ main' = "returned" /\ result' = "canceled"
        /\ UNCHANGED layer
     \/ /\ ~cancelled
        /\ main' = "next" /\ layer' = layer + 1
        /\ UNCHANGED result
  /\ UNCHANGED <<channels, collected, wpc, holding, state, cancelled, stray>>

Return ==
  /\ main = "next" /\ layer > Len(Layers)
  /\ main' = "returned"
  /\ result' = IF layerErrors = {} THEN "nil" ELSE "errors"
  /\ UNCHANGED <<channels, layer, collected, layerErrors, wpc, holding, state,
                 cancelled, stray>>

-----------------------------------------------------------------------------
(* worker.  Its two loops, the outer one and the one that drains small     *)
(* tables, differ only in which of them looks at the channel next.         *)

Goto(w, where) == wpc' = [wpc EXCEPT ![w] = where]

workerFrame == <<unsent, tableClosed, errClosed, mainVars, cancelled>>

\* select: a closed and drained channel and a cancelled context both end the
\* worker; when a table is waiting as well, either case may be taken.
WorkerExit(w) ==
  /\ wpc[w] = "fetch"
  /\ cancelled \/ (tableClosed /\ tableChan = <<>>)
  /\ Goto(w, "done")
  /\ UNCHANGED <<workerFrame, tableChan, errChan, holding, state, stray>>

\* Mutant of TakeTable: two loops take the same table.
PeekTable(w) ==
  /\ wpc[w] = "fetch" /\ tableChan # <<>>
  /\ holding' = [holding EXCEPT ![w] = Head(tableChan)]
  /\ Goto(w, "taken")
  /\ UNCHANGED <<workerFrame, tableChan, errChan, state, stray>>

TakeTable(w) ==
  /\ wpc[w] = "fetch" /\ tableChan # <<>>
  /\ holding' = [holding EXCEPT ![w] = Head(tableChan)]
  /\ tableChan' = Tail(tableChan)
  /\ Goto(w, "taken")
  /\ UNCHANGED <<workerFrame, errChan, state, stray>>

\* processOne looks at the context once more; the table stays pending.
SkipTable(w) ==
  /\ wpc[w] = "taken" /\ cancelled
  /\ Goto(w, "fetch")
  /\ holding' = [holding EXCEPT ![w] = NoTable]
  /\ UNCHANGED <<workerFrame, tableChan, errChan, state, stray>>

BeginTable(w) ==
  /\ wpc[w] = "taken" /\ ~cancelled
  /\ state' = UpdateTableStatus(state, holding[w], "copying")
  /\ Goto(w, "copy")
  /\ UNCHANGED <<workerFrame, tableChan, errChan, holding, stray>>

\* UpdateTable of the reporter, while copyTable runs.
ReportProgress(w) ==
  /\ wpc[w] = "copy"
  /\ \E n \in 0..Rows : state' = UpdateTableProgress(state, holding[w], n)
  /\ UNCHANGED <<workerFrame, tableChan, errChan, wpc, holding, stray>>

\* The table leaves the worker, and the state is s.
Settle(w, s) ==
  /\ state' = s
  /\ holding' = [holding EXCEPT ![w] = NoTable]
  /\ Goto(w, "fetch")

CopySucceeds(w) ==
  /\ wpc[w] = "copy"
  /\ Settle(w, UpdateTableStatus(state, holding[w], "completed"))
  /\ UNCHANGED <<workerFrame, tableChan, errChan, stray>>

\* Mutant of CopyCancelled: the early return is missing.
CancelledFallsThrough(w) ==
  /\ wpc[w] = "copy" /\ cancelled
  /\ state' = UpdateTableStatus(state, holding[w], "cancelled")
  /\ Goto(w, "report")
  /\ UNCHANGED <<workerFrame, tableChan, errChan, holding, stray>>

\* With the context cancelled every error counts as the cancellation.
CopyCancelled(w) ==
  /\ wpc[w] = "copy" /\ cancelled
  /\ Settle(w, UpdateTableStatus(state, holding[w], "cancelled"))
  /\ UNCHANGED <<workerFrame, tableChan, errChan, stray>>

CopyFails(w) ==
  /\ wpc[w] = "copy" /\ ~cancelled
  /\ Goto(w, "report")
  /\ UNCHANGED <<workerFrame, tableChan, errChan, holding, state, stray>>

\* Mutant of ReportError: the send does not wait for room.
ReportAnyway(w) ==
  /\ wpc[w] = "report"
  /\ errChan' = Append(errChan, holding[w])
  /\ Goto(w, "settle")
  /\ UNCHANGED <<workerFrame, tableChan, holding, state, stray>>

\* errChan <- err blocks while the buffer is full.
ReportError(w) ==
  /\ wpc[w] = "report" /\ Len(errChan) < Parallel
  /\ errChan' = Append(errChan, holding[w])
  /\ Goto(w, "settle")
  /\ UNCHANGED <<workerFrame, tableChan, holding, state, stray>>

MarkFailed(w) ==
  /\ wpc[w] = "settle"
  /\ Settle(w, AddTableError(UpdateTableStatus(state, holding[w], "failed"), holding[w]))
  /\ UNCHANGED <<workerFrame, tableChan, errChan, stray>>

\* The worker unwinds, its wg.Done included.
CopyPanics(w) ==
  /\ wpc[w] = "copy" /\ holding[w] \in Panicking
  /\ Goto(w, "recovering")
  /\ UNCHANGED <<workerFrame, tableChan, errChan, holding, state, stray>>

\* The recovery sends the panic as an error.
RecoverPanic(w) ==
  /\ wpc[w] = "recovering" /\ ~errClosed /\ Len(errChan) < Parallel
  /\ errChan' = Append(errChan, PanicError)
  /\ Goto(w, "done")
  /\ UNCHANGED <<workerFrame, tableChan, holding, state, stray>>

\* A recovery is about to send on a channel that was closed before it could.
SendsOnClosed == stray # {} \/ (errClosed /\ \E w \in Worker : wpc[w] = "recovering")

\* A send on a closed channel is itself a panic, and nothing recovers that
\* one: the process dies, be it in this layer, a later one or after Execute.
RecoveryPanics ==
  /\ SendsOnClosed
  /\ main' = "crashed"
  /\ wpc' = [w \in Worker |-> "done"] /\ holding' = [w \in Worker |-> NoTable]
  /\ stray' = {}
  /\ UNCHANGED <<channels, layer, collected, layerErrors, result, state, cancelled>>

Cancel ==
  /\ ~cancelled /\ main \notin {"returned", "crashed"}
  /\ cancelled' = TRUE
  /\ UNCHANGED <<channels, mainVars, wpc, holding, state, stray>>

-----------------------------------------------------------------------------
Main == \/ PlanTable \/ StartLayer \/ SendTable \/ CloseTables
        \/ CollectError \/ FinishLayer \/ Return

Work(w) == \/ WorkerExit(w) \/ TakeTable(w) \/ SkipTable(w) \/ BeginTable(w)
           \/ CopySucceeds(w) \/ CopyCancelled(w) \/ CopyFails(w)
           \/ ReportError(w) \/ MarkFailed(w) \/ CopyPanics(w) \/ RecoverPanic(w)

Next == Main \/ CloseErrors \/ RecoveryPanics \/ Cancel
        \/ \E w \in Worker : Work(w) \/ ReportProgress(w)

\* The Go scheduler runs every goroutine that can run, and copyTable returns,
\* however often it reports progress: its statements are bounded by the
\* context and, unless --no-timeouts is given, by a timeout.  Nothing has to
\* cancel the context.
Spec == /\ Init /\ [][Next]_vars
        /\ WF_vars(Main) /\ WF_vars(CloseErrors) /\ WF_vars(RecoveryPanics)
        /\ \A w \in Worker : WF_vars(Work(w))

-----------------------------------------------------------------------------
Failed == With(state, "failed")

\* No table is in the hands of two workers, or in the channel and in the hands
\* of one: each is copied at most once, though two loops take from tableChan.
OneWorkerPerTable ==
  \A v, w \in Worker :
    v # w /\ wpc[v] # "done" /\ wpc[w] # "done" /\ holding[v] # NoTable
      => holding[v] # holding[w]

\* A panic that has not reached errChan, or never will.
PanicPending == stray # {} \/ \E w \in Worker : wpc[w] = "recovering"

\* The panicked tables keep the status "copying"; as long as they are fewer
\* than the workers, they are the only ones to be left behind.
LeftByPanic(t) == \/ t \in Panicking /\ state.status[t] = "copying"
                  \/ Cardinality(Panicking) >= Cardinality(Worker)

Finished(t) == state.status[t] \in {"completed", "failed"}

\* While a table is being copied every table of the layers before it has
\* been dealt with: a parent is never still on its way, or still in the
\* channel, when a child begins.
LayerBarrier ==
  \A w \in Worker : wpc[w] = "copy" =>
    \A l \in 1..(layer - 1) : \A i \in 1..Len(Layers[l]) :
      Finished(Layers[l][i]) \/ LeftByPanic(Layers[l][i])

\* What Execute returns is what happened: nil only if every table was copied,
\* and otherwise exactly the tables that failed, none lost in a full channel
\* or between two layers, and a panic instead of a table left behind.  A
\* cancellation hides the errors from the caller (parallel.go, "If context was
\* cancelled (graceful shutdown), don't report errors as failures"), but the
\* shared state has each of them all the same.
ReturnedErrors ==
  main = "returned" /\ ~PanicPending =>
    /\ state.errors \ {PanicError} = Failed
    /\ result = "nil" => With(state, "completed") = Table
    /\ result = "errors" =>
         /\ layerErrors # {} /\ layerErrors = state.errors
         /\ \A t \in Table : Finished(t) \/ (PanicError \in layerErrors /\ LeftByPanic(t))

\* Workers only make the transitions the state package allows, whatever the
\* interleaving and the moment of the cancellation: no table is copied twice.
StatusForward ==
  [][\A t \in DOMAIN state.status :
       state'.status[t] # state.status[t] =>
         ValidTableTransition(state.status[t], state'.status[t])]_vars

Busy(w) == wpc[w] \in {"copy", "report", "settle"}

\* The numbers shown to the user agree with the tables, although each is kept
\* by another hook and the hooks of all workers interleave; the active workers
\* are those at work and, for ever, those a panic took from their table, and
\* no table that is completed or failed is counted a second time.
SummaryAgrees ==
  /\ Consistent(state)
  /\ state.activeWorkers =
       Cardinality({w \in Worker : Busy(w)})
       + Cardinality({t \in With(state, "copying") :
                        ~\E w \in Worker : Busy(w) /\ holding[w] = t})
  /\ state.queuedTables = Cardinality(With(state, "pending"))
  /\ state.totalRows = state.totalTables * Rows

\* When Execute returns no goroutine is left behind, holding a table or
\* waiting to send an error nobody will read; only a recovery may be.
NoGoroutineLeft ==
  main = "returned" => \A w \in Worker : wpc[w] \in {"done", "recovering"}

\* Execute returns, or the process dies: the bounded errChan, the closing of
\* both channels and the cancellation never leave anyone waiting for ever.
Termination == <>(main \in {"returned", "crashed"})

\* parallel.go, "Each worker has panic recovery to prevent one misbehaving
\* table from crashing the entire operation."
PanicsAreRecovered == main # "crashed"
=============================================================================
