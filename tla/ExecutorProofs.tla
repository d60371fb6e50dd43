--------------------------- MODULE ExecutorProofs ---------------------------
(***************************************************************************)
(* What the worker pool guarantees for any tables, layers and number of    *)
(* workers, and wherever a panic or a cancellation strikes; and why it     *)
(* comes to an end.                                                        *)
(***************************************************************************)
EXTENDS Executor, FiniteSetTheorems, SequenceTheorems, SetLemmas, TLAPS

\* copyTablesParallel is running.
Active == main \in {"feed", "collect"}

AtWork(w) == wpc[w] \in {"taken", "copy", "report", "settle", "recovering"}

Waiting == Range(unsent) \union Range(tableChan)

InLayer(l) == Range(Layers[l])

\* Where the goroutine of Execute and those of the workers can be.
ControlInv ==
  /\ layer > Len(Layers) => main \in {"next", "returned", "crashed"}
  /\ main = "plan" => layer = 1
  /\ main = "feed" => ~errClosed /\ ~tableClosed
  /\ main = "collect" => unsent = <<>> /\ tableClosed /\ (errClosed => AllDone)
  /\ ~Active => \A w \in Worker :
       wpc[w] \in {"done", "recovering"} \/ (layer = 1 /\ wpc[w] = "idle")
  /\ Active \/ main = "returned" => \A w \in Worker : wpc[w] # "idle"
  /\ main \in {"plan", "next", "returned"} =>
       errChan = <<>> /\ (errClosed \/ \A w \in Worker : wpc[w] = "idle")
  /\ main = "crashed" => \A w \in Worker : wpc[w] = "done" /\ holding[w] = NoTable
  /\ main = "plan" \/ (main = "next" /\ layer = 1) =>
       (\A w \in Worker : wpc[w] = "idle") /\ stray = {}

\* Which hands hold a table.
HandsInv ==
  \A w \in Worker :
    /\ AtWork(w) => holding[w] # NoTable
    /\ wpc[w] \in {"idle", "fetch"} => holding[w] = NoTable

\* A table is in one place only, and of the layer that is running.
PlacesInv ==
  /\ IsInjective(unsent) /\ IsInjective(tableChan)
  /\ Range(unsent) \intersect Range(tableChan) = {}
  /\ \A w \in Worker : holding[w] \notin Waiting
  /\ \A v, w \in Worker : v # w /\ holding[v] # NoTable => holding[v] # holding[w]
  /\ Active => /\ Waiting \subseteq InLayer(layer)
               /\ \A w \in Worker : holding[w] # NoTable => holding[w] \in InLayer(layer)

\* The status of a table tells where it is.
StatusInv ==
  /\ main = "plan" => \A t \in DOMAIN state.status : state.status[t] = "pending"
  /\ main # "plan" => DOMAIN state.status = Table
  /\ main # "plan" => \A l \in 1..Len(Layers) :
       l > layer \/ (l = layer /\ main = "next") =>
         \A t \in InLayer(l) : state.status[t] = "pending"
  /\ Active => /\ \A t \in Waiting : state.status[t] = "pending"
               /\ \A w \in Worker :
                    /\ wpc[w] = "taken" => state.status[holding[w]] = "pending"
                    /\ wpc[w] \in {"copy", "report", "settle"} =>
                         state.status[holding[w]] = "copying"

\* Every error is on its way to the shared state, once.
ErrorInv ==
  /\ state.errors = layerErrors \union collected
  /\ main \in {"plan", "next", "returned"} => collected \subseteq layerErrors
  /\ Failed \subseteq state.errors \union Range(errChan)
  /\ main # "crashed" => \A t \in Table :
       t \in state.errors \union Range(errChan) =>
         t \in Failed \/ \E w \in Worker : wpc[w] = "settle" /\ holding[w] = t
  /\ \A w \in Worker :
       wpc[w] = "settle" => holding[w] \in state.errors \union Range(errChan)

\* A panic is recorded, or will be.
PanicKnown == PanicError \in state.errors \union Range(errChan) \/ PanicPending

\* Hands that hold a table at the end hold it because of a panic.
PanicInv ==
  \A w \in Worker :
    wpc[w] \in {"recovering", "done"} /\ holding[w] # NoTable =>
      /\ holding[w] \in Panicking
      /\ main # "plan" /\ state.status[holding[w]] = "copying"
      /\ main # "crashed" /\ PanicKnown

\* As long as nothing was cancelled, no table of the running layer is missing.
CoverInv ==
  Active /\ ~cancelled =>
    /\ \A t \in InLayer(layer) :
         t \in Waiting \/ Finished(t) \/ \E w \in Worker : holding[w] = t
    /\ \A w \in Worker :
         wpc[w] = "done" /\ holding[w] = NoTable => tableClosed /\ tableChan = <<>>

\* The layers that are through.
PastInv ==
  /\ main # "crashed" =>
       \A l \in 1..Len(Layers) : l < layer =>
         \A t \in InLayer(l) : Finished(t) \/ (LeftByPanic(t) /\ PanicKnown)
  /\ result \in {"nil", "errors"} => layer > Len(Layers)
  /\ main = "returned" => (result = "nil" => layerErrors = {})
                          /\ (result = "errors" => layerErrors # {})

RecordInv == DOMAIN state = DOMAIN NewCopyState

IInv == /\ TypeOK /\ RecordInv /\ ControlInv /\ HandsInv /\ PlacesInv /\ StatusInv
        /\ ErrorInv /\ PanicInv /\ CoverInv /\ PastInv

-----------------------------------------------------------------------------
(* Queues.                                                                 *)

LEMMA RangeOfAppend ==
  ASSUME NEW S, NEW s \in Seq(S), NEW x \in S
  PROVE  Range(Append(s, x)) = Range(s) \union {x}
<1>1. DOMAIN s = 1..Len(s) /\ Append(s, x) \in Seq(S)
      /\ DOMAIN Append(s, x) = 1..(Len(s) + 1) /\ Len(s) \in Nat
  BY AppendProperties
<1>2. \A i \in 1..(Len(s) + 1) : Append(s, x)[i] = IF i <= Len(s) THEN s[i] ELSE x
  BY <1>1, AppendProperties
<1> QED
  BY <1>1, <1>2 DEF Range

LEMMA InjectiveAppend ==
  ASSUME NEW S, NEW s \in Seq(S), NEW x \in S, IsInjective(s), x \notin Range(s)
  PROVE  IsInjective(Append(s, x))
<1>1. DOMAIN s = 1..Len(s) /\ DOMAIN Append(s, x) = 1..(Len(s) + 1) /\ Len(s) \in Nat
  BY AppendProperties
<1>2. \A i \in 1..(Len(s) + 1) : Append(s, x)[i] = IF i <= Len(s) THEN s[i] ELSE x
  BY <1>1, AppendProperties
<1> QED
  BY <1>1, <1>2 DEF Range, IsInjective

LEMMA RangeOfTail ==
  ASSUME NEW S, NEW s \in Seq(S), s # <<>>
  PROVE  /\ Head(s) \in S /\ Tail(s) \in Seq(S)
         /\ Range(s) = Range(Tail(s)) \union {Head(s)}
<1>1. /\ Head(s) = s[1] /\ Len(s) \in Nat \ {0} /\ DOMAIN s = 1..Len(s)
      /\ Tail(s) \in Seq(S) /\ Len(Tail(s)) = Len(s) - 1
      /\ DOMAIN Tail(s) = 1..(Len(s) - 1)
      /\ \A i \in 1..(Len(s) - 1) : Tail(s)[i] = s[i + 1]
  BY HeadTailProperties, EmptySeq
<1>2. \A j \in 1..Len(s) : j = 1 \/ \E i \in 1..(Len(s) - 1) : j = i + 1
  <2> TAKE j \in 1..Len(s)
  <2>1. CASE j # 1
    <3>1. j - 1 \in 1..(Len(s) - 1) /\ j = (j - 1) + 1
      BY <1>1, <2>1
    <3> QED
      BY <3>1
  <2> QED
    BY <2>1
<1>3. Range(s) \subseteq Range(Tail(s)) \union {Head(s)}
  <2> SUFFICES ASSUME NEW j \in 1..Len(s), j # 1 PROVE s[j] \in Range(Tail(s))
    BY <1>1 DEF Range
  <2>1. PICK i \in 1..(Len(s) - 1) : j = i + 1
    BY <1>2
  <2>2. Tail(s)[i] = s[j] /\ i \in DOMAIN Tail(s)
    BY <1>1, <2>1
  <2> QED
    BY <2>2 DEF Range
<1>4. Range(Tail(s)) \union {Head(s)} \subseteq Range(s)
  BY <1>1 DEF Range
<1> QED
  BY <1>1, <1>3, <1>4

LEMMA InjectiveTail ==
  ASSUME NEW S, NEW s \in Seq(S), s # <<>>, IsInjective(s)
  PROVE  IsInjective(Tail(s)) /\ Head(s) \notin Range(Tail(s))
<1>1. /\ Head(s) = s[1] /\ Len(s) \in Nat \ {0} /\ DOMAIN s = 1..Len(s)
      /\ DOMAIN Tail(s) = 1..(Len(s) - 1)
      /\ \A i \in 1..(Len(s) - 1) : Tail(s)[i] = s[i + 1]
  BY HeadTailProperties, EmptySeq
<1> QED
  BY <1>1 DEF IsInjective, Range

LEMMA RangeOfEmpty == Range(<<>>) = {} /\ IsInjective(<<>>)
  BY DEF Range, IsInjective

LEMMA EmptyRange ==
  ASSUME NEW S, NEW s \in Seq(S), Range(s) = {}
  PROVE  s = <<>>
<1>1. DOMAIN s = 1..Len(s) /\ Len(s) \in Nat
  OBVIOUS
<1>2. Len(s) = 0
  <2> SUFFICES ASSUME Len(s) # 0 PROVE FALSE
    OBVIOUS
  <2>1. 1 \in DOMAIN s
    BY <1>1
  <2> QED
    BY <2>1 DEF Range
<1> QED
  BY <1>2, EmptySeq

-----------------------------------------------------------------------------
(* What each hook does to the parts of the shared state.                   *)

Fields == {"status", "synced", "errorRows", "errors", "totalTables", "completedTables",
           "failedTables", "syncedRows", "totalRows", "activeWorkers", "queuedTables"}

LEMMA NewFields ==
  /\ DOMAIN NewCopyState = Fields
  /\ NewCopyState.status = <<>> /\ NewCopyState.synced = <<>> /\ NewCopyState.errors = {}
  BY DEF NewCopyState, Fields

LEMMA AddTableFields ==
  ASSUME NEW s, NEW t, NEW n, DOMAIN s = Fields
  PROVE  /\ DOMAIN AddTable(s, t, n) = Fields
         /\ AddTable(s, t, n).status = Extend(s.status, t, "pending")
         /\ AddTable(s, t, n).synced = Extend(s.synced, t, 0)
         /\ AddTable(s, t, n).errors = s.errors
  BY DEF AddTable, UpdateSummary, Fields

LEMMA StatusFields ==
  ASSUME NEW s, NEW t \in DOMAIN s.status, NEW next, DOMAIN s = Fields
  PROVE  /\ DOMAIN UpdateTableStatus(s, t, next) = Fields
         /\ UpdateTableStatus(s, t, next).status = [s.status EXCEPT ![t] = next]
         /\ UpdateTableStatus(s, t, next).synced = s.synced
         /\ UpdateTableStatus(s, t, next).errors = s.errors
  BY DEF UpdateTableStatus, UpdateSummary, Fields

LEMMA ProgressFields ==
  ASSUME NEW s, NEW t \in DOMAIN s.status, NEW n, DOMAIN s = Fields
  PROVE  /\ DOMAIN UpdateTableProgress(s, t, n) = Fields
         /\ UpdateTableProgress(s, t, n).status = s.status
         /\ UpdateTableProgress(s, t, n).synced = [s.synced EXCEPT ![t] = n]
         /\ UpdateTableProgress(s, t, n).errors = s.errors
  BY DEF UpdateTableProgress, UpdateSummary, Fields

LEMMA TableErrorFields ==
  ASSUME NEW s, NEW t, DOMAIN s = Fields
  PROVE  /\ DOMAIN AddTableError(s, t) = Fields
         /\ AddTableError(s, t).status = s.status
         /\ AddTableError(s, t).synced = s.synced
         /\ AddTableError(s, t).errors = s.errors
  BY DEF AddTableError, Fields

LEMMA ErrorFields ==
  ASSUME NEW s, NEW e, DOMAIN s = Fields
  PROVE  /\ DOMAIN AddError(s, e) = Fields
         /\ AddError(s, e).status = s.status
         /\ AddError(s, e).synced = s.synced
         /\ AddError(s, e).errors = s.errors \union {e}
  BY DEF AddError, Fields

-----------------------------------------------------------------------------
(* Types.                                                                  *)

WStates == {"idle", "fetch", "taken", "copy", "report", "settle", "recovering", "done"}

\* What TypeOK and RecordInv say of the shared state.
StateOK(s) ==
  /\ DOMAIN s = Fields
  /\ DOMAIN s.status \subseteq Table
  /\ s.status \in [DOMAIN s.status -> TableStatus]
  /\ s.synced \in [DOMAIN s.status -> 0..Rows]

LEMMA NewStateOK == StateOK(NewCopyState)
<1>1. DOMAIN <<>> = {}
  OBVIOUS
<1> QED
  BY <1>1, NewFields DEF StateOK

LEMMA StateSteps ==
  ASSUME NEW s, StateOK(s)
  PROVE  /\ \A t \in Table : StateOK(AddTable(s, t, Rows))
         /\ \A t \in DOMAIN s.status, next \in TableStatus :
              StateOK(UpdateTableStatus(s, t, next))
         /\ \A t \in DOMAIN s.status, n \in 0..Rows : StateOK(UpdateTableProgress(s, t, n))
         /\ \A t \in Table : StateOK(AddTableError(s, t))
         /\ \A e \in Error : StateOK(AddError(s, e))
<1> USE DEF StateOK
<1>1. ASSUME NEW t \in Table PROVE StateOK(AddTable(s, t, Rows))
  <2> DEFINE a == AddTable(s, t, Rows)
  <2>1. /\ a.status = Extend(s.status, t, "pending") /\ a.synced = Extend(s.synced, t, 0)
        /\ DOMAIN a = Fields
    BY AddTableFields
  <2>2. DOMAIN a.status = DOMAIN s.status \union {t}
    BY <2>1 DEF Extend
  <2>3. a.status \in [DOMAIN a.status -> TableStatus]
    BY <2>1, <2>2 DEF Extend, TableStatus
  <2>4. 0 \in 0..Rows
    BY ExecutorAssumption
  <2>5. a.synced \in [DOMAIN a.status -> 0..Rows]
    BY <2>1, <2>2, <2>4 DEF Extend
  <2> QED
    BY <2>1, <2>2, <2>3, <2>5
<1>2. ASSUME NEW t \in DOMAIN s.status, NEW next \in TableStatus
      PROVE  StateOK(UpdateTableStatus(s, t, next))
  <2> DEFINE a == UpdateTableStatus(s, t, next)
  <2>1. /\ a.status = [s.status EXCEPT ![t] = next] /\ a.synced = s.synced
        /\ DOMAIN a = Fields
    BY StatusFields
  <2>2. DOMAIN a.status = DOMAIN s.status /\ a.status \in [DOMAIN s.status -> TableStatus]
    BY <2>1
  <2> QED
    BY <2>1, <2>2
<1>3. ASSUME NEW t \in DOMAIN s.status, NEW n \in 0..Rows
      PROVE  StateOK(UpdateTableProgress(s, t, n))
  <2> DEFINE a == UpdateTableProgress(s, t, n)
  <2>1. /\ a.status = s.status /\ a.synced = [s.synced EXCEPT ![t] = n]
        /\ DOMAIN a = Fields
    BY ProgressFields
  <2>2. a.synced \in [DOMAIN s.status -> 0..Rows]
    BY <2>1
  <2> QED
    BY <2>1, <2>2
<1>4. ASSUME NEW t \in Table PROVE StateOK(AddTableError(s, t))
  BY TableErrorFields
<1>5. ASSUME NEW e \in Error PROVE StateOK(AddError(s, e))
  BY ErrorFields
<1> QED
  BY <1>1, <1>2, <1>3, <1>4, <1>5

\* Everything else that TypeOK says.
PlainTypes ==
  /\ layer \in 1..(Len(Layers) + 1)
  /\ main \in {"plan", "next", "feed", "collect", "returned", "crashed"}
  /\ unsent \in Seq(Table) /\ tableChan \in Seq(Table)
  /\ errChan \in Seq(Error) /\ Len(errChan) <= Parallel
  /\ tableClosed \in BOOLEAN /\ errClosed \in BOOLEAN /\ cancelled \in BOOLEAN
  /\ stray \subseteq Worker
  /\ wpc \in [Worker -> WStates]
  /\ holding \in [Worker -> Table \union {NoTable}]
  /\ collected \subseteq Error /\ layerErrors \subseteq Error
  /\ result \in {"none", "nil", "errors", "canceled"}

LEMMA TypeParts == TypeOK /\ RecordInv <=> PlainTypes /\ StateOK(state)
<1>1. {tableClosed, errClosed, cancelled} \subseteq BOOLEAN
        <=> tableClosed \in BOOLEAN /\ errClosed \in BOOLEAN /\ cancelled \in BOOLEAN
  BY Zenon
<1> QED
  BY <1>1, NewFields DEF TypeOK, RecordInv, PlainTypes, StateOK, WStates

LEMMA TypePartsNext ==
  TypeOK' /\ RecordInv' <=> PlainTypes' /\ StateOK(state)'
<1>1. {tableClosed', errClosed', cancelled'} \subseteq BOOLEAN
        <=> tableClosed' \in BOOLEAN /\ errClosed' \in BOOLEAN /\ cancelled' \in BOOLEAN
  BY Zenon
<1> QED
  BY <1>1, NewFields DEF TypeOK, RecordInv, PlainTypes, StateOK, WStates

\* A worker at work holds a planned table, and the state knows it.
LEMMA HeldTable ==
  ASSUME TypeOK, ControlInv, HandsInv, StatusInv, NEW w \in Worker, AtWork(w)
  PROVE  holding[w] \in Table /\ holding[w] \in DOMAIN state.status
<1>1. holding[w] \in Table
  BY DEF TypeOK, HandsInv
<1>2. main # "plan"
  BY DEF ControlInv, AtWork, Active
<1> QED
  BY <1>1, <1>2 DEF StatusInv

LEMMA PanicErrorIsError == PanicError \in Error /\ Table \subseteq Error
  BY DEF Error

LEMMA TypesStep == ASSUME IInv, [Next]_vars PROVE TypeOK' /\ RecordInv'
<1> SUFFICES ASSUME Next \/ UNCHANGED vars PROVE PlainTypes' /\ StateOK(state)'
  BY TypePartsNext
<1>0. PlainTypes /\ StateOK(state)
  BY TypeParts DEF IInv
<1> USE <1>0 DEF PlainTypes
<1>1. CASE PlanTable
  <2>1. PlainTypes'
    BY <1>1 DEF PlanTable, channels
  <2>2. StateOK(state)'
    BY <1>1, StateSteps DEF PlanTable, StateOK
  <2> QED
    BY <2>1, <2>2
<1>2. CASE StartLayer
  <2>1. Layers[layer] \in Seq(Table) /\ <<>> \in Seq(Table) /\ <<>> \in Seq(Error)
        /\ Len(<<>>) <= Parallel
    BY <1>2, LayersAssumption, ExecutorAssumption DEF StartLayer
  <2>2. PlainTypes'
    BY <1>2, <2>1 DEF StartLayer, WStates
  <2>3. UNCHANGED state
    BY <1>2 DEF StartLayer
  <2> QED
    BY <2>2, <2>3 DEF StateOK
<1>3. CASE SendTable
  <2>1. Tail(unsent) \in Seq(Table) /\ Append(tableChan, Head(unsent)) \in Seq(Table)
    BY <1>3, RangeOfTail DEF SendTable
  <2> QED
    BY <1>3, <2>1 DEF SendTable, mainVars, StateOK
<1>4. CASE CloseTables
  BY <1>4 DEF CloseTables, StateOK
<1>5. CASE CollectError
  <2>1. Tail(errChan) \in Seq(Error) /\ Head(errChan) \in Error
        /\ Len(Tail(errChan)) <= Parallel
    BY <1>5, RangeOfTail, HeadTailProperties, ExecutorAssumption DEF CollectError
  <2>2. StateOK(state)'
    BY <1>5, <2>1, StateSteps DEF CollectError, StateOK
  <2> QED
    BY <1>5, <2>1, <2>2 DEF CollectError
<1>6. CASE FinishLayer
  <2>1. layer + 1 \in 1..(Len(Layers) + 1)
    BY <1>6, LayersAssumption DEF IInv, ControlInv, FinishLayer
  <2> QED
    BY <1>6, <2>1 DEF FinishLayer, LayerResult, channels, StateOK
<1>7. CASE Return
  BY <1>7 DEF Return, channels, StateOK
<1>8. CASE CloseErrors
  BY <1>8 DEF CloseErrors, mainVars, StateOK
<1>9. CASE RecoveryPanics
  BY <1>9 DEF RecoveryPanics, channels, WStates, StateOK
<1>10. CASE Cancel
  BY <1>10 DEF Cancel, channels, mainVars, StateOK
<1>11. ASSUME NEW w \in Worker, Work(w) \/ ReportProgress(w)
       PROVE  PlainTypes' /\ StateOK(state)'
  <2> USE DEF workerFrame, mainVars, Goto, WStates
  <2>0. AtWork(w) => holding[w] \in Table /\ holding[w] \in DOMAIN state.status
    BY HeldTable DEF IInv
  <2>1. CASE WorkerExit(w)
    BY <2>1 DEF WorkerExit, StateOK
  <2>2. CASE TakeTable(w)
    <3>1. Tail(tableChan) \in Seq(Table) /\ Head(tableChan) \in Table
      BY <2>2, RangeOfTail DEF TakeTable
    <3> QED
      BY <2>2, <3>1 DEF TakeTable, StateOK
  <2>3. CASE SkipTable(w)
    BY <2>3 DEF SkipTable, StateOK
  <2>4. CASE BeginTable(w)
    <3>1. holding[w] \in DOMAIN state.status /\ "copying" \in TableStatus
      BY <2>4, <2>0 DEF BeginTable, AtWork, TableStatus
    <3>2. StateOK(state)'
      BY <2>4, <3>1, StateSteps DEF BeginTable, StateOK
    <3> QED
      BY <2>4, <3>2 DEF BeginTable
  <2>5. CASE CopySucceeds(w)
    <3>1. holding[w] \in DOMAIN state.status /\ "completed" \in TableStatus
      BY <2>5, <2>0 DEF CopySucceeds, AtWork, TableStatus
    <3>2. StateOK(state)'
      BY <2>5, <3>1, StateSteps DEF CopySucceeds, Settle, StateOK
    <3> QED
      BY <2>5, <3>2 DEF CopySucceeds, Settle
  <2>6. CASE CopyCancelled(w)
    <3>1. holding[w] \in DOMAIN state.status /\ "cancelled" \in TableStatus
      BY <2>6, <2>0 DEF CopyCancelled, AtWork, TableStatus
    <3>2. StateOK(state)'
      BY <2>6, <3>1, StateSteps DEF CopyCancelled, Settle, StateOK
    <3> QED
      BY <2>6, <3>2 DEF CopyCancelled, Settle
  <2>7. CASE CopyFails(w)
    BY <2>7 DEF CopyFails, StateOK
  <2>8. CASE ReportError(w)
    <3>1. Append(errChan, holding[w]) \in Seq(Error)
          /\ Len(Append(errChan, holding[w])) <= Parallel
      BY <2>8, <2>0, PanicErrorIsError, AppendProperties, ExecutorAssumption
         DEF ReportError, AtWork
    <3> QED
      BY <2>8, <3>1 DEF ReportError, StateOK
  <2>9. CASE MarkFailed(w)
    <3> DEFINE s == UpdateTableStatus(state, holding[w], "failed")
    <3>1. holding[w] \in DOMAIN state.status /\ holding[w] \in Table /\ "failed" \in TableStatus
      BY <2>9, <2>0 DEF MarkFailed, AtWork, TableStatus
    <3>2. StateOK(s)
      BY <3>1, StateSteps
    <3>3. StateOK(AddTableError(s, holding[w]))
      BY <3>1, <3>2, StateSteps
    <3>4. StateOK(state)'
      BY <2>9, <3>3 DEF MarkFailed, Settle, StateOK
    <3> QED
      BY <2>9, <3>4 DEF MarkFailed, Settle
  <2>10. CASE CopyPanics(w)
    BY <2>10 DEF CopyPanics, StateOK
  <2>11. CASE RecoverPanic(w)
    <3>1. Append(errChan, PanicError) \in Seq(Error)
          /\ Len(Append(errChan, PanicError)) <= Parallel
      BY <2>11, PanicErrorIsError, AppendProperties, ExecutorAssumption DEF RecoverPanic
    <3> QED
      BY <2>11, <3>1 DEF RecoverPanic, StateOK
  <2>12. CASE ReportProgress(w)
    <3>1. holding[w] \in DOMAIN state.status
      BY <2>12, <2>0 DEF ReportProgress, AtWork
    <3>2. PICK n \in 0..Rows : state' = UpdateTableProgress(state, holding[w], n)
      BY <2>12 DEF ReportProgress
    <3>3. StateOK(state)'
      BY <3>1, <3>2, StateSteps DEF StateOK
    <3> QED
      BY <2>12, <3>3 DEF ReportProgress
  <2> QED
    BY <1>11, <2>1, <2>2, <2>3, <2>4, <2>5, <2>6, <2>7, <2>8, <2>9, <2>10, <2>11, <2>12
       DEF Work
<1>12. CASE UNCHANGED vars
  BY <1>12 DEF vars, channels, mainVars, StateOK
<1> QED
  BY <1>1, <1>2, <1>3, <1>4, <1>5, <1>6, <1>7, <1>8, <1>9, <1>10, <1>11, <1>12 DEF Next, Main

-----------------------------------------------------------------------------
(* Control, hands and places.                                              *)

\* There is at least one layer, for there is at least one table.
LEMMA SomeLayer == Len(Layers) \in Nat \ {0}
  BY ExecutorAssumption, LayersAssumption

\* A worker works only while its layer is running, and leaves the rest alone.
LEMMA WorkFrame ==
  ASSUME IInv, NEW w \in Worker, Work(w) \/ ReportProgress(w)
  PROVE  /\ Active /\ wpc[w] \notin {"idle", "done"}
         /\ UNCHANGED <<unsent, tableClosed, errClosed, mainVars, cancelled, stray>>
<1>1. /\ UNCHANGED <<unsent, tableClosed, errClosed, mainVars, cancelled, stray>>
      /\ wpc[w] \notin {"idle", "done"} /\ (wpc[w] = "recovering" => ~errClosed)
  BY DEF Work, WorkerExit, TakeTable, SkipTable, BeginTable, CopySucceeds, CopyCancelled,
     CopyFails, ReportError, MarkFailed, CopyPanics, RecoverPanic, ReportProgress, Settle,
     workerFrame
<1>2. Active
  BY <1>1 DEF IInv, TypeOK, ControlInv, Active
<1> QED
  BY <1>1, <1>2

LEMMA ControlStep == ASSUME IInv, [Next]_vars PROVE ControlInv'
<1> USE DEF ControlInv, Active, AllDone
<1>0. /\ ControlInv /\ main \in {"plan", "next", "feed", "collect", "returned", "crashed"}
      /\ layer \in 1..(Len(Layers) + 1) /\ wpc \in [Worker -> WStates]
      /\ holding \in [Worker -> Table \union {NoTable}]
  BY TypeParts DEF IInv, PlainTypes
<1>1. CASE PlanTable
  BY <1>0, <1>1 DEF PlanTable, channels
<1>2. CASE StartLayer
  BY <1>0, <1>2 DEF StartLayer
<1>3. CASE SendTable
  BY <1>0, <1>3 DEF SendTable, mainVars
<1>4. CASE CloseTables
  BY <1>0, <1>4 DEF CloseTables
<1>5. CASE CollectError
  BY <1>0, <1>5 DEF CollectError
<1>6. CASE FinishLayer
  <2>1. CASE cancelled
    BY <1>0, <1>6, <2>1 DEF FinishLayer, CollectorDone, channels
  <2>2. CASE ~cancelled
    BY <1>0, <1>6, <2>2, SomeLayer DEF FinishLayer, CollectorDone, channels
  <2> QED
    BY <2>1, <2>2
<1>7. CASE Return
  BY <1>0, <1>7, SomeLayer DEF Return, channels
<1>8. CASE CloseErrors
  BY <1>0, <1>8 DEF CloseErrors, mainVars
<1>9. CASE RecoveryPanics
  BY <1>0, <1>9 DEF RecoveryPanics, channels
<1>10. CASE Cancel
  BY <1>0, <1>10 DEF Cancel, channels, mainVars
<1>11. ASSUME NEW w \in Worker, Work(w) \/ ReportProgress(w) PROVE ControlInv'
  <2> USE <1>0 DEF mainVars, Goto, WStates
  <2>1. /\ Active /\ UNCHANGED <<unsent, tableClosed, errClosed, mainVars, cancelled, stray>>
        /\ wpc[w] \notin {"idle", "done"}
    BY <1>11, WorkFrame
  <2>2. CASE UNCHANGED wpc
    BY <2>1, <2>2
  <2>3. CASE RecoverPanic(w)
    BY <2>1, <2>3 DEF RecoverPanic
  <2>4. CASE Work(w) /\ ~RecoverPanic(w)
    <3>1. /\ wpc[w] # "recovering"
          /\ \E next \in WStates \ {"idle"} : wpc' = [wpc EXCEPT ![w] = next]
      BY <2>4 DEF Work, WorkerExit, TakeTable, SkipTable, BeginTable, CopySucceeds,
           CopyCancelled, CopyFails, ReportError, MarkFailed, CopyPanics, Settle
    <3>2. ~AllDone
      BY <2>1, <3>1
    <3> QED
      BY <2>1, <3>1, <3>2
  <2> QED
    BY <1>11, <2>2, <2>3, <2>4 DEF ReportProgress
<1>12. CASE UNCHANGED vars
  BY <1>0, <1>12 DEF vars, channels, mainVars
<1> QED
  BY <1>1, <1>2, <1>3, <1>4, <1>5, <1>6, <1>7, <1>8, <1>9, <1>10, <1>11, <1>12 DEF Next, Main

LEMMA HandsStep == ASSUME IInv, [Next]_vars PROVE HandsInv'
<1> USE DEF HandsInv, AtWork
<1>0. /\ HandsInv /\ ControlInv /\ wpc \in [Worker -> WStates]
      /\ holding \in [Worker -> Table \union {NoTable}]
      /\ tableChan \in Seq(Table) /\ NoTable \notin Table
  BY TypeParts, ExecutorAssumption DEF IInv, PlainTypes
<1>1. CASE UNCHANGED <<wpc, holding>>
  BY <1>0, <1>1
<1>2. CASE StartLayer \/ RecoveryPanics
  BY <1>0, <1>2 DEF StartLayer, RecoveryPanics
<1>3. ASSUME NEW w \in Worker, Work(w) PROVE HandsInv'
  <2>1. CASE TakeTable(w)
    <3>1. Head(tableChan) \in Table
      BY <2>1, <1>0, RangeOfTail DEF TakeTable
    <3> QED
      BY <1>0, <2>1, <3>1 DEF TakeTable, Goto
  <2>2. CASE WorkerExit(w) \/ SkipTable(w) \/ BeginTable(w)
    BY <1>0, <2>2 DEF WorkerExit, SkipTable, BeginTable, Goto
  <2>3. CASE CopySucceeds(w) \/ CopyCancelled(w) \/ CopyFails(w) \/ CopyPanics(w)
    BY <1>0, <2>3 DEF CopySucceeds, CopyCancelled, CopyFails, CopyPanics, Settle, Goto
  <2>4. CASE ReportError(w) \/ MarkFailed(w) \/ RecoverPanic(w)
    BY <1>0, <2>4 DEF ReportError, MarkFailed, RecoverPanic, Settle, Goto
  <2> QED
    BY <1>3, <2>1, <2>2, <2>3, <2>4 DEF Work
<1> QED
  BY <1>1, <1>2, <1>3 DEF Next, Main, vars, PlanTable, SendTable, CloseTables, CollectError,
     FinishLayer, Return, CloseErrors, Cancel, ReportProgress

LEMMA LayersInjective ==
  ASSUME NEW l \in 1..Len(Layers)
  PROVE  /\ Layers[l] \in Seq(Table) /\ IsInjective(Layers[l]) /\ InLayer(l) \subseteq Table
         /\ \A k \in 1..Len(Layers) : k # l => InLayer(k) \intersect InLayer(l) = {}
<1>1. \A k \in 1..Len(Layers) : Layers[k] \in Seq(Table)
  BY LayersAssumption
<1>2. \A k \in 1..Len(Layers) : DOMAIN Layers[k] = 1..Len(Layers[k])
                                /\ \A i \in 1..Len(Layers[k]) : Layers[k][i] \in Table
  BY <1>1
<1>3. \A k \in 1..Len(Layers) : \A h \in 1..Len(Layers[k]), i \in 1..Len(Layers[l]) :
        Layers[k][h] = Layers[l][i] => k = l /\ h = i
  BY Zenon, LayersAssumption
<1>4. IsInjective(Layers[l])
  BY <1>2, <1>3 DEF IsInjective
<1>5. \A k \in 1..Len(Layers) : k # l => InLayer(k) \intersect InLayer(l) = {}
  BY <1>2, <1>3 DEF InLayer, Range
<1> QED
  BY <1>1, <1>2, <1>4, <1>5 DEF InLayer, Range

LEMMA PlacesStep == ASSUME IInv, [Next]_vars PROVE PlacesInv'
<1> USE DEF PlacesInv, Waiting, InLayer, Active
<1>0. /\ PlacesInv /\ wpc \in [Worker -> WStates]
      /\ holding \in [Worker -> Table \union {NoTable}]
      /\ unsent \in Seq(Table) /\ tableChan \in Seq(Table) /\ NoTable \notin Table
      /\ layer \in 1..(Len(Layers) + 1)
  BY TypeParts, ExecutorAssumption DEF IInv, PlainTypes
<1>a. Range(unsent) \subseteq Table /\ Range(tableChan) \subseteq Table
  BY <1>0 DEF Range
<1>1. CASE UNCHANGED <<unsent, tableChan, holding, layer>> /\ (Active' => Active)
  BY <1>0, <1>1
<1>2. CASE StartLayer
  <2>1. layer \in 1..Len(Layers)
    BY <1>0, <1>2, SomeLayer DEF StartLayer
  <2>2. /\ unsent' = Layers[layer] /\ tableChan' = <<>> /\ layer' = layer
        /\ \A w \in Worker : holding'[w] = NoTable
    BY <1>2 DEF StartLayer
  <2> QED
    BY <1>0, <2>1, <2>2, LayersInjective, RangeOfEmpty
<1>3. CASE SendTable
  <2>1. /\ Head(unsent) \in Table /\ Head(unsent) \in Range(unsent)
        /\ Range(unsent') = Range(unsent) \ {Head(unsent)}
        /\ IsInjective(unsent')
    BY <1>0, <1>3, RangeOfTail, InjectiveTail DEF SendTable
  <2>2. /\ Range(tableChan') = Range(tableChan) \union {Head(unsent)}
        /\ IsInjective(tableChan')
    BY <1>0, <1>3, <2>1, RangeOfAppend, InjectiveAppend DEF SendTable
  <2>3. UNCHANGED <<holding, layer, main>>
    BY <1>3 DEF SendTable, mainVars
  <2> QED
    BY <1>0, <2>1, <2>2, <2>3
<1>4. CASE RecoveryPanics
  BY <1>0, <1>a, <1>4 DEF RecoveryPanics, channels
<1>5. CASE FinishLayer
  BY <1>0, <1>5 DEF FinishLayer, channels
<1>6. ASSUME NEW w \in Worker, Work(w) PROVE PlacesInv'
  <2>0. Active /\ UNCHANGED <<unsent, layer, main>>
    BY <1>6, WorkFrame DEF mainVars
  <2>1. CASE TakeTable(w)
    <3>1. /\ Head(tableChan) \in Table /\ Head(tableChan) \in Range(tableChan)
          /\ Range(tableChan') = Range(tableChan) \ {Head(tableChan)}
          /\ IsInjective(tableChan')
      BY <1>0, <2>1, RangeOfTail, InjectiveTail DEF TakeTable
    <3>2. holding' = [holding EXCEPT ![w] = Head(tableChan)]
      BY <2>1 DEF TakeTable
    <3>3. \A v \in Worker : holding'[v] \notin Waiting'
      BY <1>0, <2>0, <3>1, <3>2
    <3>4. \A u, v \in Worker : u # v /\ holding'[u] # NoTable => holding'[u] # holding'[v]
      BY <1>0, <3>1, <3>2
    <3>5. \A v \in Worker : holding'[v] # NoTable => holding'[v] \in InLayer(layer)
      BY <1>0, <2>0, <3>1, <3>2
    <3> QED
      BY <1>0, <2>0, <3>1, <3>3, <3>4, <3>5
  <2>2. CASE UNCHANGED <<tableChan, holding>>
    BY <1>0, <2>0, <2>2
  <2>3. CASE UNCHANGED tableChan /\ holding' = [holding EXCEPT ![w] = NoTable]
    BY <1>0, <1>a, <2>0, <2>3
  <2> QED
    BY <1>6, <2>1, <2>2, <2>3 DEF Work, WorkerExit, SkipTable, BeginTable, CopySucceeds,
       CopyCancelled, CopyFails, ReportError, MarkFailed, CopyPanics, RecoverPanic, Settle
<1> QED
  BY <1>1, <1>2, <1>3, <1>4, <1>5, <1>6 DEF Next, Main, vars, PlanTable, CloseTables,
     CollectError, Return, CloseErrors, Cancel, ReportProgress, channels, mainVars,
     workerFrame

-----------------------------------------------------------------------------
(* The statuses.                                                           *)

Marks(w, next) == state'.status = [state.status EXCEPT ![holding[w]] = next]

\* The steps of a worker that change no status.
KeepsStatus(w) == \/ WorkerExit(w) \/ TakeTable(w) \/ SkipTable(w) \/ CopyFails(w)
                  \/ ReportError(w) \/ CopyPanics(w) \/ RecoverPanic(w) \/ ReportProgress(w)

\* A worker changes no status but that of the table it holds, and no error.
LEMMA WorkerStatus ==
  ASSUME IInv, NEW w \in Worker, Work(w) \/ ReportProgress(w)
  PROVE  /\ state'.errors = state.errors
         /\ \/ BeginTable(w) /\ Marks(w, "copying")
            \/ CopySucceeds(w) /\ Marks(w, "completed")
            \/ CopyCancelled(w) /\ Marks(w, "cancelled")
            \/ MarkFailed(w) /\ Marks(w, "failed")
            \/ KeepsStatus(w) /\ state'.status = state.status
<1> USE DEF Marks
<1>0. DOMAIN state = Fields /\ (AtWork(w) => holding[w] \in DOMAIN state.status)
  BY HeldTable, NewFields DEF IInv, RecordInv
<1>1. CASE BeginTable(w)
  BY <1>0, <1>1, StatusFields DEF BeginTable, AtWork
<1>2. CASE CopySucceeds(w)
  BY <1>0, <1>2, StatusFields DEF CopySucceeds, Settle, AtWork
<1>3. CASE CopyCancelled(w)
  BY <1>0, <1>3, StatusFields DEF CopyCancelled, Settle, AtWork
<1>4. CASE MarkFailed(w)
  <2> DEFINE s == UpdateTableStatus(state, holding[w], "failed")
  <2>1. state' = AddTableError(s, holding[w]) /\ AtWork(w)
    BY <1>4 DEF MarkFailed, Settle, AtWork
  <2>2. /\ DOMAIN s = Fields /\ s.errors = state.errors
        /\ s.status = [state.status EXCEPT ![holding[w]] = "failed"]
    BY <1>0, <2>1, StatusFields
  <2>3. state'.status = s.status /\ state'.errors = s.errors
    BY <2>1, <2>2, TableErrorFields
  <2> QED
    BY <1>4, <2>2, <2>3
<1>5. CASE ReportProgress(w)
  <2>1. PICK n \in 0..Rows : state' = UpdateTableProgress(state, holding[w], n)
    BY <1>5 DEF ReportProgress
  <2>2. state'.status = state.status /\ state'.errors = state.errors
    BY <1>0, <1>5, <2>1, ProgressFields DEF ReportProgress, AtWork
  <2> QED
    BY <1>5, <2>2 DEF KeepsStatus
<1>6. CASE UNCHANGED state /\ KeepsStatus(w)
  BY <1>6
<1> QED
  BY <1>1, <1>2, <1>3, <1>4, <1>5, <1>6 DEF Work, KeepsStatus, WorkerExit, TakeTable,
     SkipTable, CopyFails, ReportError, CopyPanics, RecoverPanic

\* Nobody else changes a status once the tables are planned.
LEMMA OtherStatus ==
  ASSUME IInv, [Next]_vars, main # "plan"
  PROVE  \/ state'.status = state.status
         \/ \E w \in Worker : Work(w) /\ ~KeepsStatus(w)
<1>0. DOMAIN state = Fields
  BY NewFields DEF IInv, RecordInv
<1>1. CASE CollectError
  BY <1>0, <1>1, ErrorFields DEF CollectError
<1>2. ASSUME NEW w \in Worker, Work(w) \/ ReportProgress(w), KeepsStatus(w)
      PROVE  state'.status = state.status
  <2>1. CASE ReportProgress(w)
    <3>1. PICK n \in 0..Rows : state' = UpdateTableProgress(state, holding[w], n)
      BY <2>1 DEF ReportProgress
    <3>2. holding[w] \in DOMAIN state.status
      BY <2>1, HeldTable DEF ReportProgress, AtWork, IInv
    <3> QED
      BY <1>0, <3>1, <3>2, ProgressFields
  <2> QED
    BY <1>2, <2>1 DEF KeepsStatus, WorkerExit, TakeTable, SkipTable, CopyFails, ReportError,
       CopyPanics, RecoverPanic
<1> QED
  BY <1>1, <1>2 DEF Next, Main, PlanTable, StartLayer, SendTable, CloseTables, FinishLayer,
     Return, CloseErrors, RecoveryPanics, Cancel, KeepsStatus, vars

LEMMA StatusStep == ASSUME IInv, [Next]_vars PROVE StatusInv'
<1> USE DEF StatusInv, Active
<1>0. /\ StatusInv /\ PlacesInv /\ wpc \in [Worker -> WStates]
      /\ holding \in [Worker -> Table \union {NoTable}] /\ NoTable \notin Table
      /\ layer \in 1..(Len(Layers) + 1)
      /\ main \in {"plan", "next", "feed", "collect", "returned", "crashed"}
      /\ DOMAIN state = Fields /\ DOMAIN state.status \subseteq Table
      /\ state.status \in [DOMAIN state.status -> TableStatus]
      /\ \A l \in 1..Len(Layers) : InLayer(l) \subseteq Table
  BY TypeParts, ExecutorAssumption, LayersInjective DEF IInv, PlainTypes, StateOK
<1>1. CASE PlanTable
  <2>1. PICK t \in Table \ DOMAIN state.status : state' = AddTable(state, t, Rows)
    BY <1>1 DEF PlanTable
  <2>2. state'.status = Extend(state.status, t, "pending")
    BY <1>0, <2>1, AddTableFields
  <2>3. /\ DOMAIN state'.status = DOMAIN state.status \union {t}
        /\ \A u \in DOMAIN state'.status : state'.status[u] = "pending"
    BY <1>0, <1>1, <2>2 DEF Extend, PlanTable
  <2>4. main' = IF DOMAIN state'.status = Table THEN "next" ELSE "plan"
    BY <1>1 DEF PlanTable
  <2> QED
    BY <1>0, <2>3, <2>4
<1>2. CASE StartLayer
  <2>1. layer \in 1..Len(Layers) /\ \A t \in InLayer(layer) : state.status[t] = "pending"
    BY <1>0, <1>2, SomeLayer DEF StartLayer
  <2>2. Waiting' = InLayer(layer)
    BY <1>2, RangeOfEmpty DEF StartLayer, Waiting, InLayer
  <2>3. UNCHANGED <<state, layer>> /\ main = "next" /\ main' = "feed"
        /\ \A w \in Worker : wpc'[w] = "fetch"
    BY <1>2 DEF StartLayer
  <2> QED
    BY <1>0, <2>1, <2>2, <2>3
<1>3. CASE SendTable
  <2>1. Waiting' \subseteq Waiting
    <3>1. Head(unsent) \in Table /\ Range(unsent) = Range(unsent') \union {Head(unsent)}
      BY <1>3, TypeParts, RangeOfTail DEF SendTable, IInv, PlainTypes
    <3>2. Range(tableChan') = Range(tableChan) \union {Head(unsent)}
      BY <1>3, <3>1, TypeParts, RangeOfAppend DEF SendTable, IInv, PlainTypes
    <3> QED
      BY <3>1, <3>2 DEF Waiting
  <2>2. UNCHANGED <<state, layer, main, wpc, holding>>
    BY <1>3 DEF SendTable, mainVars
  <2> QED
    BY <1>0, <2>1, <2>2
<1>4. CASE CloseTables \/ CloseErrors \/ Cancel \/ UNCHANGED vars
  BY <1>0, <1>4 DEF CloseTables, CloseErrors, Cancel, vars, channels, mainVars, Waiting
<1>5. CASE CollectError
  <2>1. state'.status = state.status
    BY <1>0, <1>5, ErrorFields DEF CollectError
  <2> QED
    BY <1>0, <1>5, <2>1 DEF CollectError, Waiting
<1>6. CASE FinishLayer
  BY <1>0, <1>6 DEF FinishLayer
<1>7. CASE Return \/ RecoveryPanics
  <2>1. main # "plan"
    BY <1>7 DEF Return, RecoveryPanics, SendsOnClosed, IInv, ControlInv
  <2> QED
    BY <1>0, <1>7, <2>1 DEF Return, RecoveryPanics
<1>8. ASSUME NEW w \in Worker, Work(w) \/ ReportProgress(w) PROVE StatusInv'
  <2>0. Active /\ UNCHANGED <<unsent, layer, main>>
    BY <1>8, WorkFrame DEF mainVars
  <2>1. Waiting' \subseteq Waiting /\ (~TakeTable(w) => Waiting' = Waiting)
    <3>1. CASE TakeTable(w)
      BY <2>0, <3>1, TypeParts, RangeOfTail DEF TakeTable, Waiting, IInv, PlainTypes
    <3>2. CASE ~TakeTable(w)
      BY <1>8, <2>0, <3>2 DEF Waiting, Work, WorkerExit, SkipTable, BeginTable, CopySucceeds,
         CopyCancelled, CopyFails, ReportError, MarkFailed, CopyPanics, RecoverPanic,
         ReportProgress
    <3> QED
      BY <3>1, <3>2
  <2>2. ASSUME NEW next \in TableStatus, Marks(w, next), holding[w] \in Table,
               \/ wpc' = [wpc EXCEPT ![w] = "fetch"] 
               \/ wpc' = [wpc EXCEPT ![w] = "copy"] /\ next = "copying",
               \A v \in Worker \ {w} : holding'[v] = holding[v],
               wpc'[w] = "copy" => holding'[w] = holding[w]
        PROVE  StatusInv'
    <3>1. /\ DOMAIN state'.status = Table
          /\ \A t \in Table : t # holding[w] => state'.status[t] = state.status[t]
          /\ state'.status[holding[w]] = next
      BY <1>0, <2>0, <2>2 DEF Marks
    <3>2. \A l \in 1..Len(Layers) : l > layer => holding[w] \notin InLayer(l)
      BY <1>0, <2>0, <2>2, LayersInjective DEF PlacesInv
    <3>3. holding[w] \notin Waiting /\ Waiting \subseteq Table
      BY <1>0, TypeParts DEF PlacesInv, IInv, PlainTypes, Waiting, Range
    <3>4. \A v \in Worker : v # w => holding[v] # holding[w]
      BY <1>0, <2>2 DEF PlacesInv
    <3>5. \A v \in Worker : v # w => wpc'[v] = wpc[v]
      BY <1>0, <2>2
    <3>6. \A v \in Worker : AtWork(v) => holding[v] \in Table
      BY HeldTable DEF IInv
    <3>7. wpc'[w] = "fetch" \/ (wpc'[w] = "copy" /\ next = "copying")
      BY <1>0, <2>2
    <3>8. \A v \in Worker :
            /\ wpc'[v] = "taken" => state'.status[holding'[v]] = "pending"
            /\ wpc'[v] \in {"copy", "report", "settle"} =>
                 state'.status[holding'[v]] = "copying"
      BY <1>0, <2>0, <2>2, <3>1, <3>4, <3>5, <3>6, <3>7 DEF AtWork
    <3> QED
      BY <1>0, <2>0, <2>1, <3>1, <3>2, <3>3, <3>8
  <2>3. CASE BeginTable(w) /\ Marks(w, "copying")
    BY <2>2, <2>3, HeldTable, <1>0 DEF BeginTable, Goto, AtWork, IInv, TableStatus
  <2>4. CASE CopySucceeds(w) /\ Marks(w, "completed")
    BY <2>2, <2>4, HeldTable, <1>0 DEF CopySucceeds, Settle, Goto, AtWork, IInv, TableStatus
  <2>5. CASE CopyCancelled(w) /\ Marks(w, "cancelled")
    BY <2>2, <2>5, HeldTable, <1>0 DEF CopyCancelled, Settle, Goto, AtWork, IInv, TableStatus
  <2>6. CASE MarkFailed(w) /\ Marks(w, "failed")
    BY <2>2, <2>6, HeldTable, <1>0 DEF MarkFailed, Settle, Goto, AtWork, IInv, TableStatus
  <2>7. CASE KeepsStatus(w) /\ state'.status = state.status
    <3>1. CASE TakeTable(w)
      <4>1. Head(tableChan) \in Waiting /\ holding' = [holding EXCEPT ![w] = Head(tableChan)]
            /\ wpc' = [wpc EXCEPT ![w] = "taken"]
        BY <3>1, TypeParts, RangeOfTail DEF TakeTable, Waiting, IInv, PlainTypes, Goto
      <4> QED
        BY <1>0, <2>0, <2>1, <2>7, <4>1
    <3>2. CASE ~TakeTable(w)
      BY <1>0, <2>0, <2>1, <2>7, <3>2 DEF KeepsStatus, WorkerExit, SkipTable, CopyFails,
         ReportError, CopyPanics, RecoverPanic, ReportProgress, Goto
    <3> QED
      BY <3>1, <3>2
  <2> QED
    BY <1>8, WorkerStatus, <2>3, <2>4, <2>5, <2>6, <2>7
<1> QED
  BY <1>1, <1>2, <1>3, <1>4, <1>5, <1>6, <1>7, <1>8 DEF Next, Main

-----------------------------------------------------------------------------
(* The errors.                                                             *)

\* The errors sent by a worker and not yet collected.
LEMMA WorkerErrors ==
  ASSUME IInv, NEW w \in Worker, Work(w) \/ ReportProgress(w)
  PROVE  \/ ReportError(w) /\ Range(errChan') = Range(errChan) \union {holding[w]}
         \/ RecoverPanic(w) /\ Range(errChan') = Range(errChan) \union {PanicError}
         \/ ~ReportError(w) /\ ~RecoverPanic(w) /\ errChan' = errChan
<1>1. CASE ReportError(w)
  <2>1. holding[w] \in Error /\ errChan \in Seq(Error)
    BY <1>1, HeldTable, PanicErrorIsError, TypeParts DEF ReportError, AtWork, IInv, PlainTypes
  <2> QED
    BY <1>1, <2>1, RangeOfAppend DEF ReportError
<1>2. CASE RecoverPanic(w)
  BY <1>2, PanicErrorIsError, TypeParts, RangeOfAppend DEF RecoverPanic, IInv, PlainTypes
<1>3. CASE ~ReportError(w) /\ ~RecoverPanic(w)
  BY <1>3 DEF Work, WorkerExit, TakeTable, SkipTable, BeginTable, CopySucceeds, CopyCancelled,
     CopyFails, MarkFailed, CopyPanics, ReportProgress
<1> QED
  BY <1>1, <1>2, <1>3

\* Collecting moves an error from the channel to the shared state.
LEMMA CollectMoves ==
  ASSUME IInv, CollectError
  PROVE  /\ state'.status = state.status
         /\ \E e \in Error : /\ Range(errChan) = Range(errChan') \union {e}
                             /\ state'.errors = state.errors \union {e}
                             /\ collected' = collected \union {e}
<1>1. DOMAIN state = Fields /\ errChan \in Seq(Error) /\ errChan # <<>>
  BY TypeParts, NewFields DEF IInv, RecordInv, PlainTypes, CollectError
<1> QED
  BY <1>1, RangeOfTail, ErrorFields DEF CollectError

LEMMA ErrorStep == ASSUME IInv, [Next]_vars PROVE ErrorInv'
<1> USE DEF ErrorInv, Failed, With
<1>0. /\ ErrorInv /\ wpc \in [Worker -> WStates]
      /\ holding \in [Worker -> Table \union {NoTable}]
      /\ DOMAIN state = Fields /\ DOMAIN state.status \subseteq Table
      /\ PanicError \notin Table /\ ControlInv
      /\ main # "plan" => DOMAIN state.status = Table
  BY TypeParts, ExecutorAssumption DEF IInv, PlainTypes, StateOK, StatusInv
<1>1. CASE PlanTable
  <2>1. PICK t \in Table \ DOMAIN state.status : state' = AddTable(state, t, Rows)
    BY <1>1 DEF PlanTable
  <2>2. state'.status = Extend(state.status, t, "pending") /\ state'.errors = state.errors
    BY <1>0, <2>1, AddTableFields
  <2>3. Failed' = Failed
    BY <2>2 DEF Extend
  <2>4. UNCHANGED <<layerErrors, collected, errChan, wpc, holding>> /\ main = "plan"
    BY <1>1 DEF PlanTable, channels
  <2> QED
    BY <1>0, <2>2, <2>3, <2>4
<1>2. CASE StartLayer
  <2>1. errChan = <<>> /\ errChan' = <<>> /\ collected' = {} /\ UNCHANGED <<state, layerErrors>>
        /\ main = "next" /\ main' = "feed" /\ collected \subseteq layerErrors
    BY <1>0, <1>2 DEF StartLayer, ControlInv
  <2>2. \A w \in Worker : wpc[w] # "settle" /\ wpc'[w] # "settle"
    BY <1>0, <1>2, <2>1 DEF ControlInv, Active, StartLayer
  <2> QED
    BY <1>0, <2>1, <2>2, RangeOfEmpty
<1>3. CASE CollectError
  <2>1. UNCHANGED <<layerErrors, wpc, holding, main>>
    BY <1>3 DEF CollectError
  <2> QED
    BY <1>0, <1>3, <2>1, CollectMoves DEF CollectError
<1>4. CASE FinishLayer
  BY <1>0, <1>4 DEF FinishLayer, LayerResult, channels
<1>5. CASE RecoveryPanics
  BY <1>0, <1>5 DEF RecoveryPanics, channels
<1>6. CASE SendTable \/ CloseTables \/ Return \/ CloseErrors \/ Cancel \/ UNCHANGED vars
  BY <1>0, <1>6 DEF SendTable, CloseTables, Return, CloseErrors, Cancel, vars, channels, mainVars
<1>7. ASSUME NEW w \in Worker, Work(w) \/ ReportProgress(w) PROVE ErrorInv'
  <2>0. /\ Active /\ UNCHANGED <<main, layerErrors, collected>> /\ state'.errors = state.errors
        /\ DOMAIN state.status = Table
        /\ AtWork(w) => holding[w] \in Table
    BY <1>0, <1>7, WorkFrame, WorkerStatus, HeldTable DEF mainVars, Active, IInv
  <2>1. CASE ReportError(w)
    <3>1. state'.status = state.status
      BY <2>1 DEF ReportError
    <3>2. Range(errChan') = Range(errChan) \union {holding[w]}
      BY <1>7, <2>1, WorkerErrors DEF ReportError, RecoverPanic
    <3>3. wpc[w] = "report" /\ wpc' = [wpc EXCEPT ![w] = "settle"] /\ holding' = holding
      BY <2>1 DEF ReportError, Goto
    <3> QED
      BY <1>0, <2>0, <3>1, <3>2, <3>3
  <2>2. CASE RecoverPanic(w)
    <3>1. state'.status = state.status
      BY <2>2 DEF RecoverPanic
    <3>2. Range(errChan') = Range(errChan) \union {PanicError}
      BY <1>7, <2>2, WorkerErrors DEF ReportError, RecoverPanic
    <3>3. wpc[w] = "recovering" /\ wpc' = [wpc EXCEPT ![w] = "done"] /\ holding' = holding
      BY <2>2 DEF RecoverPanic, Goto
    <3> QED
      BY <1>0, <2>0, <3>1, <3>2, <3>3
  <2>3. CASE errChan' = errChan /\ MarkFailed(w)
    <3>1. Marks(w, "failed") /\ wpc[w] = "settle" /\ wpc' = [wpc EXCEPT ![w] = "fetch"]
          /\ holding' = [holding EXCEPT ![w] = NoTable]
      BY <1>0, <1>7, <2>3, WorkerStatus DEF MarkFailed, Settle, Goto, BeginTable, CopySucceeds,
         CopyCancelled, KeepsStatus, WorkerExit, TakeTable, SkipTable, CopyFails, ReportError,
         CopyPanics, RecoverPanic, ReportProgress
    <3>2. holding[w] \in Table /\ AtWork(w)
      BY <2>0, <3>1 DEF AtWork
    <3>3. Failed' = Failed \union {holding[w]}
      BY <2>0, <3>1, <3>2 DEF Marks
    <3>4. holding[w] \in state.errors \union Range(errChan)
      BY <1>0, <3>1
    <3> QED
      BY <1>0, <2>0, <2>3, <3>1, <3>2, <3>3, <3>4
  <2>4. CASE errChan' = errChan /\ ~MarkFailed(w) /\ ~ReportError(w)
    <3>1. \/ KeepsStatus(w) /\ state'.status = state.status
          \/ \E next \in {"copying", "completed", "cancelled"} :
                Marks(w, next) /\ wpc[w] \in {"taken", "copy"}
      BY <1>7, <2>4, WorkerStatus DEF BeginTable, CopySucceeds, CopyCancelled
    <3>2. wpc[w] # "settle" /\ (\E next \in WStates \ {"settle"} : wpc' = [wpc EXCEPT ![w] = next])
          /\ \A v \in Worker \ {w} : holding'[v] = holding[v]
      BY <1>0, <1>7, <2>4 DEF Work, WorkerExit, TakeTable, SkipTable, BeginTable, CopySucceeds,
         CopyCancelled, CopyFails, CopyPanics, RecoverPanic, ReportProgress, Settle, Goto,
         WStates
    <3>3. Failed' = Failed
      <4>1. CASE state'.status = state.status
        BY <4>1
      <4>2. ASSUME NEW next \in {"copying", "completed", "cancelled"}, Marks(w, next),
                   wpc[w] \in {"taken", "copy"}
            PROVE  Failed' = Failed
        <5>1. holding[w] \in Table /\ state.status[holding[w]] # "failed"
          BY <2>0, <4>2 DEF IInv, StatusInv, AtWork
        <5> QED
          BY <2>0, <4>2, <5>1 DEF Marks
      <4> QED
        BY <3>1, <4>1, <4>2
    <3> QED
      BY <1>0, <2>0, <2>4, <3>2, <3>3
  <2> QED
    BY <1>7, WorkerErrors, <2>1, <2>2, <2>3, <2>4
<1> QED
  BY <1>1, <1>2, <1>3, <1>4, <1>5, <1>6, <1>7 DEF Next, Main

-----------------------------------------------------------------------------
(* Panics, and what is left when a layer is through.                       *)

\* A panic once known stays known until the process dies of it.
LEMMA PanicStaysKnown ==
  ASSUME IInv, [Next]_vars, PanicKnown, main' # "crashed"
  PROVE  PanicKnown'
<1> USE DEF PanicKnown, PanicPending
<1>0. /\ wpc \in [Worker -> WStates] /\ ControlInv /\ DOMAIN state = Fields
      /\ main = "next" => errChan = <<>>
  BY TypeParts DEF IInv, PlainTypes, StateOK, ControlInv
<1>1. CASE PlanTable
  <2>1. PICK t \in Table \ DOMAIN state.status : state' = AddTable(state, t, Rows)
    BY <1>1 DEF PlanTable
  <2>2. state'.errors = state.errors
    BY <1>0, <2>1, AddTableFields
  <2> QED
    BY <1>1, <2>2 DEF PlanTable, channels
<1>2. CASE StartLayer
  BY <1>0, <1>2, RangeOfEmpty DEF StartLayer
<1>3. CASE CollectError
  BY <1>3, CollectMoves DEF CollectError
<1>4. CASE SendTable \/ CloseTables \/ FinishLayer \/ Return \/ CloseErrors \/ Cancel
           \/ UNCHANGED vars
  BY <1>4 DEF SendTable, CloseTables, FinishLayer, Return, CloseErrors, Cancel, vars, channels,
     mainVars
<1>5. CASE RecoveryPanics
  BY <1>5 DEF RecoveryPanics
<1>6. ASSUME NEW w \in Worker, Work(w) \/ ReportProgress(w) PROVE PanicKnown'
  <2>1. state'.errors = state.errors /\ stray' = stray
    BY <1>6, WorkerStatus, WorkFrame
  <2>2. CASE RecoverPanic(w) /\ Range(errChan') = Range(errChan) \union {PanicError}
    BY <2>1, <2>2
  <2>3. CASE ~RecoverPanic(w) /\ Range(errChan) \subseteq Range(errChan')
    <3>1. \A v \in Worker : wpc[v] = "recovering" => wpc'[v] = "recovering"
      BY <1>0, <1>6, <2>3 DEF Work, WorkerExit, TakeTable, SkipTable, BeginTable, CopySucceeds,
         CopyCancelled, CopyFails, ReportError, MarkFailed, CopyPanics, ReportProgress,
         Settle, Goto
    <3> QED
      BY <2>1, <2>3, <3>1
  <2> QED
    BY <1>6, WorkerErrors, <2>2, <2>3 DEF ReportError, RecoverPanic
<1> QED
  BY <1>1, <1>2, <1>3, <1>4, <1>5, <1>6 DEF Next, Main

LEMMA PanicStep == ASSUME IInv, [Next]_vars PROVE PanicInv'
<1> USE DEF PanicInv
<1>0. /\ wpc \in [Worker -> WStates] /\ holding \in [Worker -> Table \union {NoTable}]
      /\ PanicInv /\ ControlInv /\ HandsInv /\ PlacesInv
  BY TypeParts DEF IInv, PlainTypes
<1>1. CASE StartLayer \/ RecoveryPanics
  BY <1>0, <1>1 DEF StartLayer, RecoveryPanics
<1>2. CASE UNCHANGED <<wpc, holding>> /\ main' # "crashed"
  <2> SUFFICES ASSUME NEW w \in Worker, wpc[w] \in {"recovering", "done"},
                      holding[w] # NoTable
               PROVE  /\ main' # "plan" /\ state'.status[holding[w]] = "copying"
                      /\ PanicKnown'
    BY <1>0, <1>2
  <2>1. main # "plan" /\ state.status[holding[w]] = "copying" /\ PanicKnown
    BY <1>0
  <2>2. main' # "plan"
    BY <2>1 DEF Next, Main, PlanTable, StartLayer, SendTable, CloseTables, CollectError,
       FinishLayer, Return, CloseErrors, RecoveryPanics, Cancel, Work, ReportProgress, vars,
       WorkerExit, TakeTable, SkipTable, BeginTable, CopySucceeds, CopyCancelled, CopyFails,
       ReportError, MarkFailed, CopyPanics, RecoverPanic, workerFrame, mainVars
  <2>3. state'.status = state.status
    <3>1. ASSUME NEW v \in Worker, Work(v), ~KeepsStatus(v) PROVE FALSE
      BY <1>0, <1>2, <3>1 DEF Work, KeepsStatus, BeginTable, CopySucceeds, CopyCancelled,
         MarkFailed, Settle, Goto
    <3> QED
      BY <2>1, <3>1, OtherStatus
  <2> QED
    BY <1>2, <2>1, <2>2, <2>3, PanicStaysKnown
<1>3. ASSUME NEW w \in Worker, Work(w) PROVE PanicInv'
  <2>0. main' = main /\ Active
    BY <1>3, WorkFrame DEF mainVars
  <2>1. ASSUME NEW v \in Worker, v # w, wpc'[v] \in {"recovering", "done"}, holding'[v] # NoTable
        PROVE  holding'[v] \in Panicking /\ state'.status[holding'[v]] = "copying" /\ PanicKnown'
    <3>1. wpc'[v] = wpc[v] /\ holding'[v] = holding[v]
      BY <1>0, <1>3, <2>1 DEF Work, WorkerExit, TakeTable, SkipTable, BeginTable, CopySucceeds,
         CopyCancelled, CopyFails, ReportError, MarkFailed, CopyPanics, RecoverPanic,
         Settle, Goto
    <3>2. holding[v] \in Panicking /\ state.status[holding[v]] = "copying" /\ PanicKnown
      BY <1>0, <2>1, <3>1
    <3>3. holding[v] # holding[w]
      BY <1>0, <2>1, <3>1 DEF PlacesInv
    <3>4. state'.status[holding[v]] = state.status[holding[v]]
      <4>1. holding[v] \in DOMAIN state.status
        BY <1>0, <2>0, <2>1, <3>1 DEF IInv, StatusInv, Active
      <4> QED
        BY <1>3, <3>3, <4>1, WorkerStatus DEF Marks
    <3> QED
      BY <2>0, <3>1, <3>2, <3>4, PanicStaysKnown DEF Active
  <2>2. ASSUME wpc'[w] \in {"recovering", "done"}, holding'[w] # NoTable
        PROVE  holding'[w] \in Panicking /\ state'.status[holding'[w]] = "copying" /\ PanicKnown'
    <3>1. CASE CopyPanics(w)
      <4>1. UNCHANGED <<state, holding>> /\ holding[w] \in Panicking /\ wpc[w] = "copy"
            /\ wpc'[w] = "recovering"
        BY <1>0, <3>1 DEF CopyPanics, Goto
      <4> QED
        BY <2>0, <4>1 DEF PanicKnown, PanicPending, IInv, StatusInv
    <3>2. CASE RecoverPanic(w)
      <4>1. UNCHANGED <<state, holding>> /\ wpc[w] = "recovering"
        BY <3>2 DEF RecoverPanic
      <4> QED
        BY <1>0, <2>0, <2>2, <4>1, PanicStaysKnown DEF Active
    <3>3. CASE ~CopyPanics(w) /\ ~RecoverPanic(w)
      <4>1. WorkerExit(w) /\ wpc[w] = "fetch" /\ UNCHANGED holding
        BY <1>0, <1>3, <2>2, <3>3 DEF Work, WorkerExit, TakeTable, SkipTable, BeginTable,
           CopySucceeds, CopyCancelled, CopyFails, ReportError, MarkFailed, Settle, Goto
      <4> QED
        BY <1>0, <2>2, <4>1 DEF HandsInv
    <3> QED
      BY <3>1, <3>2, <3>3
  <2> QED
    BY <2>0, <2>1, <2>2 DEF Active
<1> QED
  BY <1>0, <1>1, <1>2, <1>3 DEF Next, Main, PlanTable, SendTable, CloseTables, CollectError,
     FinishLayer, Return, CloseErrors, Cancel, ReportProgress, vars, workerFrame, mainVars,
     ControlInv, channels

LEMMA CoverStep == ASSUME IInv, [Next]_vars PROVE CoverInv'
<1> USE DEF CoverInv, Finished
<1>0. /\ wpc \in [Worker -> WStates] /\ holding \in [Worker -> Table \union {NoTable}]
      /\ unsent \in Seq(Table) /\ tableChan \in Seq(Table) /\ layer \in 1..(Len(Layers) + 1)
      /\ CoverInv /\ ControlInv /\ NoTable \notin Table
  BY TypeParts, ExecutorAssumption DEF IInv, PlainTypes
<1>1. CASE StartLayer
  <2>1. Waiting' = InLayer(layer) /\ layer' = layer /\ \A w \in Worker : wpc'[w] = "fetch"
    BY <1>1, RangeOfEmpty DEF StartLayer, Waiting, InLayer
  <2> QED
    BY <2>1 DEF InLayer
<1>2. CASE SendTable
  <2>1. Head(unsent) \in Table /\ Range(unsent) = Range(unsent') \union {Head(unsent)}
    BY <1>0, <1>2, RangeOfTail DEF SendTable
  <2>2. Range(tableChan') = Range(tableChan) \union {Head(unsent)}
    BY <1>0, <1>2, <2>1, RangeOfAppend DEF SendTable
  <2>3. Waiting' = Waiting
    BY <2>1, <2>2 DEF Waiting
  <2>4. Active /\ ~tableClosed
    BY <1>0, <1>2 DEF SendTable, ControlInv, Active
  <2> QED
    BY <1>0, <1>2, <2>3, <2>4 DEF SendTable, mainVars, InLayer
<1>3. CASE CloseTables
  BY <1>0, <1>3 DEF CloseTables, Active, InLayer, Waiting
<1>4. CASE CollectError
  <2>1. state'.status = state.status
    BY <1>4, CollectMoves
  <2> QED
    BY <1>0, <1>4, <2>1 DEF CollectError, Active, InLayer, Waiting
<1>5. CASE CloseErrors \/ UNCHANGED vars
  BY <1>0, <1>5 DEF CloseErrors, vars, channels, mainVars, Active, InLayer, Waiting
<1>6. CASE PlanTable \/ FinishLayer \/ Return \/ RecoveryPanics \/ Cancel
  BY <1>0, <1>6 DEF PlanTable, FinishLayer, Return, RecoveryPanics, Cancel, Active
<1>7. ASSUME NEW w \in Worker, Work(w) \/ ReportProgress(w), ~cancelled PROVE CoverInv'
  <2>0. /\ Active /\ UNCHANGED <<unsent, tableClosed, layer, main, cancelled>>
        /\ DOMAIN state.status = Table /\ InLayer(layer) \subseteq Table
        /\ \A v \in Worker \ {w} : wpc'[v] = wpc[v] /\ holding'[v] = holding[v]
        /\ AtWork(w) => holding[w] \in Table
    <3>1. /\ Active /\ UNCHANGED <<unsent, tableClosed, layer, main, cancelled>>
      BY <1>7, WorkFrame DEF mainVars
    <3>2. DOMAIN state.status = Table /\ InLayer(layer) \subseteq Table
      BY <1>0, <3>1, LayersInjective DEF IInv, StatusInv, Active, ControlInv
    <3>3. \A v \in Worker \ {w} : wpc'[v] = wpc[v] /\ holding'[v] = holding[v]
      BY <1>0, <1>7 DEF Work, WorkerExit, TakeTable, SkipTable, BeginTable, CopySucceeds,
         CopyCancelled, CopyFails, ReportError, MarkFailed, CopyPanics, RecoverPanic,
         ReportProgress, Settle, Goto
    <3> QED
      BY <3>1, <3>2, <3>3, HeldTable DEF IInv
  <2>1. CASE TakeTable(w)
    <3>1. /\ Range(tableChan) = Range(tableChan') \union {Head(tableChan)}
          /\ tableChan # <<>> /\ holding'[w] = Head(tableChan) /\ wpc'[w] = "taken"
          /\ holding[w] = NoTable /\ state' = state
      BY <1>0, <2>1, RangeOfTail DEF TakeTable, Goto, IInv, HandsInv
    <3> QED
      BY <1>0, <1>7, <2>0, <3>1 DEF InLayer, Waiting
  <2>2. CASE WorkerExit(w)
    BY <1>0, <1>7, <2>0, <2>2 DEF WorkerExit, Goto, InLayer, Waiting
  <2>3. ASSUME UNCHANGED <<tableChan, holding>>, wpc'[w] = "done" => holding[w] # NoTable,
               state'.status = state.status \/ (Marks(w, "copying") /\ AtWork(w))
        PROVE  CoverInv'
    <3>1. \A t \in Table : Finished(t) => Finished(t)' \/ holding[w] = t
      BY <2>0, <2>3 DEF Marks
    <3> QED
      BY <1>0, <1>7, <2>0, <2>3, <3>1 DEF InLayer, Waiting
  <2>4. ASSUME NEW next \in {"completed", "failed"}, Marks(w, next), UNCHANGED tableChan,
               AtWork(w), wpc'[w] = "fetch"
        PROVE  CoverInv'
    <3>1. \A t \in Table : Finished(t) \/ holding[w] = t => Finished(t)'
      BY <2>0, <2>4 DEF Marks
    <3> QED
      BY <1>0, <1>7, <2>0, <2>4, <3>1 DEF InLayer, Waiting
  <2>5. CASE BeginTable(w) /\ Marks(w, "copying")
    BY <1>0, <2>3, <2>5 DEF BeginTable, Goto, AtWork
  <2>6. CASE CopySucceeds(w) /\ Marks(w, "completed")
    BY <1>0, <2>4, <2>6 DEF CopySucceeds, Settle, Goto, AtWork
  <2>7. CASE MarkFailed(w) /\ Marks(w, "failed")
    BY <1>0, <2>4, <2>7 DEF MarkFailed, Settle, Goto, AtWork
  <2>8. CASE /\ KeepsStatus(w) /\ state'.status = state.status
             /\ ~TakeTable(w) /\ ~WorkerExit(w) /\ ~SkipTable(w)
    BY <1>0, <2>3, <2>8 DEF KeepsStatus, CopyFails, ReportError, CopyPanics, RecoverPanic,
       ReportProgress, Goto, IInv, HandsInv, AtWork
  <2>9. ~SkipTable(w) /\ ~CopyCancelled(w)
    BY <1>7 DEF SkipTable, CopyCancelled
  <2> QED
    BY <1>7, WorkerStatus, <2>1, <2>2, <2>5, <2>6, <2>7, <2>8, <2>9
<1>8. ASSUME NEW w \in Worker, Work(w) \/ ReportProgress(w), cancelled PROVE CoverInv'
  BY <1>8, WorkFrame
<1> QED
  BY <1>1, <1>2, <1>3, <1>4, <1>5, <1>6, <1>7, <1>8 DEF Next, Main

\* If a table is still in the channel when the last worker is gone, each worker
\* was stopped by a panic on a table of its own.
LEMMA LayerThrough ==
  ASSUME IInv, main = "collect", CollectorDone, ~cancelled, NEW t \in InLayer(layer)
  PROVE  Finished(t) \/ (LeftByPanic(t) /\ PanicKnown)
<1>0. /\ holding \in [Worker -> Table \union {NoTable}] /\ wpc \in [Worker -> WStates]
      /\ \A w \in Worker : wpc[w] \in {"recovering", "done"}
      /\ unsent = <<>> /\ Range(unsent) = {}
  BY TypeParts, RangeOfEmpty DEF IInv, PlainTypes, ControlInv, AllDone, CollectorDone
<1>1. \A w \in Worker : holding[w] # NoTable =>
        /\ holding[w] \in Panicking /\ state.status[holding[w]] = "copying" /\ PanicKnown
  BY <1>0 DEF IInv, PanicInv
<1>2. CASE \E w \in Worker : holding[w] = t
  <2>1. t # NoTable
    BY TypeParts, ExecutorAssumption, LayersInjective DEF IInv, PlainTypes, ControlInv
  <2> QED
    BY <1>1, <1>2, <2>1 DEF LeftByPanic
<1>3. CASE t \in Range(tableChan)
  <2>1. tableChan # <<>>
    BY <1>3, RangeOfEmpty
  <2>2. \A w \in Worker : holding[w] # NoTable
    BY <1>0, <2>1 DEF IInv, CoverInv, HandsInv, AtWork, Active
  <2>3. holding \in Injection(Worker, Panicking)
    <3>1. holding \in [Worker -> Panicking]
      BY <1>0, <1>1, <2>2
    <3>2. IsInjective(holding)
      BY <3>1, <2>2 DEF IsInjective, IInv, PlacesInv
    <3> QED
      BY <3>1, <3>2 DEF Injection
  <2>4. IsFiniteSet(Panicking)
    BY ExecutorAssumption, FS_Subset
  <2>5. Cardinality(Worker) <= Cardinality(Panicking)
    BY <2>3, <2>4, FS_Injection
  <2>6. Cardinality(Worker) \in Nat /\ Cardinality(Panicking) \in Nat
    BY <2>4, ExecutorAssumption, FS_CardinalityType
  <2>7. \E w \in Worker : TRUE
    BY ExecutorAssumption, FS_EmptySet
  <2> QED
    BY <1>1, <2>2, <2>5, <2>6, <2>7 DEF LeftByPanic
<1> QED
  BY <1>0, <1>2, <1>3 DEF IInv, CoverInv, Waiting, Active

LEMMA PastStep == ASSUME IInv, [Next]_vars PROVE PastInv'
<1> USE DEF PastInv
<1>0. /\ PastInv /\ ControlInv /\ layer \in 1..(Len(Layers) + 1)
      /\ result \in {"none", "nil", "errors", "canceled"}
      /\ main \in {"plan", "next", "feed", "collect", "returned", "crashed"}
      /\ holding \in [Worker -> Table \union {NoTable}] /\ NoTable \notin Table
  BY TypeParts, ExecutorAssumption DEF IInv, PlainTypes
<1>1. ASSUME main' # "crashed", NEW l \in 1..Len(Layers), l < layer, NEW t \in InLayer(l)
      PROVE  Finished(t)' \/ (LeftByPanic(t) /\ PanicKnown)'
  <2>1. main # "crashed" /\ main # "plan"
    BY <1>0, <1>1 DEF ControlInv, Next, Main, PlanTable, StartLayer, SendTable, CloseTables,
       CollectError, FinishLayer, Return, CloseErrors, RecoveryPanics, Cancel, Work,
       ReportProgress, vars, WorkerExit, TakeTable, SkipTable, BeginTable, CopySucceeds,
       CopyCancelled, CopyFails, ReportError, MarkFailed, CopyPanics, RecoverPanic,
       workerFrame, mainVars
  <2>2. state'.status[t] = state.status[t]
    <3>1. ASSUME NEW w \in Worker, Work(w), ~KeepsStatus(w)
          PROVE  state'.status[t] = state.status[t]
      <4>1. Active /\ AtWork(w)
        BY <3>1, WorkFrame DEF Work, KeepsStatus, BeginTable, CopySucceeds, CopyCancelled,
           MarkFailed, AtWork
      <4>2. holding[w] \in InLayer(layer) /\ layer \in 1..Len(Layers)
        BY <1>0, <4>1 DEF IInv, HandsInv, PlacesInv, ControlInv, Active
      <4>3. holding[w] # t /\ t \in DOMAIN state.status
        BY <1>1, <2>1, <4>2, LayersInjective DEF IInv, StatusInv
      <4> QED
        BY <3>1, <4>3, WorkerStatus DEF Marks
    <3> QED
      BY <2>1, <3>1, OtherStatus
  <2> QED
    BY <1>0, <1>1, <2>1, <2>2, PanicStaysKnown DEF Finished, LeftByPanic
<1>2. CASE UNCHANGED <<layer, result, layerErrors, main>>
  BY <1>0, <1>1, <1>2
<1>3. CASE FinishLayer /\ ~cancelled
  <2>1. /\ main = "collect" /\ CollectorDone /\ layer' = layer + 1 /\ main' = "next"
        /\ UNCHANGED <<state, result, errChan, wpc, stray>>
    BY <1>3 DEF FinishLayer, channels
  <2>2. ASSUME NEW t \in InLayer(layer)
        PROVE  Finished(t)' \/ (LeftByPanic(t) /\ PanicKnown)'
    BY <1>3, <2>1, <2>2, LayerThrough DEF Finished, LeftByPanic, PanicKnown, PanicPending
  <2>3. result \notin {"nil", "errors"}
    BY <1>0, <2>1 DEF ControlInv
  <2> QED
    BY <1>0, <1>1, <2>1, <2>2, <2>3
<1>4. CASE FinishLayer /\ cancelled
  BY <1>0, <1>1, <1>4 DEF FinishLayer
<1>5. CASE Return
  BY <1>0, <1>1, <1>5 DEF Return
<1>6. CASE UNCHANGED <<layer, result>> /\ main' # "returned"
  BY <1>0, <1>1, <1>6
<1>7. ASSUME NEW w \in Worker, Work(w) \/ ReportProgress(w) PROVE UNCHANGED mainVars
  BY <1>7, WorkFrame
<1> QED
  BY <1>2, <1>3, <1>4, <1>5, <1>6, <1>7 DEF Next, Main, PlanTable, StartLayer, SendTable,
     CloseTables, CollectError, CloseErrors, RecoveryPanics, Cancel, vars, mainVars

-----------------------------------------------------------------------------

LEMMA InitIInv == Init => IInv
<1> SUFFICES ASSUME Init PROVE IInv
  OBVIOUS
<1> USE DEF Init
<1>0. /\ NewCopyState.status = <<>> /\ NewCopyState.errors = {}
      /\ DOMAIN NewCopyState.status = {}
  BY NewFields
<1>1. TypeOK /\ RecordInv
  <2>1. <<>> \in Seq(Table) /\ <<>> \in Seq(Error) /\ Len(<<>>) = 0
    OBVIOUS
  <2>2. 1 \in 1..(Len(Layers) + 1) /\ 0 <= Parallel
    BY SomeLayer, ExecutorAssumption
  <2>3. \A w \in Worker : wpc[w] = "idle" /\ holding[w] = NoTable
    OBVIOUS
  <2>4. wpc \in [Worker -> WStates] /\ holding \in [Worker -> Table \union {NoTable}]
    BY <2>3 DEF WStates
  <2>5. PlainTypes
    BY <2>1, <2>2, <2>4 DEF PlainTypes
  <2> QED
    BY <2>5, NewStateOK, TypeParts
<1>2. ControlInv /\ HandsInv
  BY SomeLayer DEF ControlInv, HandsInv, Active, AtWork
<1>3. PlacesInv /\ StatusInv
  BY <1>0, RangeOfEmpty, ExecutorAssumption DEF PlacesInv, StatusInv, Waiting, Active
<1>4. ErrorInv
  BY <1>0, RangeOfEmpty DEF ErrorInv, Failed, With
<1>5. PanicInv /\ CoverInv /\ PastInv
  BY <1>0, SomeLayer DEF PanicInv, CoverInv, PastInv, Active
<1> QED
  BY <1>1, <1>2, <1>3, <1>4, <1>5 DEF IInv

\* The invariant of the worker pool is inductive.
THEOREM ExecutorInductive == Spec => []IInv
<1>1. IInv /\ [Next]_vars => IInv'
  BY TypesStep, ControlStep, HandsStep, PlacesStep, StatusStep, ErrorStep, PanicStep, CoverStep,
     PastStep DEF IInv
<1> QED
  BY InitIInv, <1>1, PTL DEF Spec

\* All the variables keep their types; errChan never holds more errors than
\* copyTablesParallel gave it room for.
THEOREM ExecutorTypeCorrect == Spec => []TypeOK
<1>1. IInv => TypeOK
  BY DEF IInv
<1> QED
  BY ExecutorInductive, <1>1, PTL

\* No table is in the hands of two workers.
THEOREM NoTableTwice == Spec => []OneWorkerPerTable
<1>1. IInv => OneWorkerPerTable
  BY DEF IInv, PlacesInv, OneWorkerPerTable
<1> QED
  BY ExecutorInductive, <1>1, PTL

\* No table begins before the layers before its own are dealt with.
THEOREM LayersInOrder == Spec => []LayerBarrier
<1>1. ASSUME IInv PROVE LayerBarrier
  <2> SUFFICES ASSUME NEW w \in Worker, wpc[w] = "copy",
                      NEW l \in 1..(layer - 1), NEW i \in 1..Len(Layers[l])
               PROVE  Finished(Layers[l][i]) \/ LeftByPanic(Layers[l][i])
    BY DEF LayerBarrier
  <2>1. main # "crashed" /\ layer \in 1..(Len(Layers) + 1) /\ Len(Layers) \in Nat
    BY <1>1, SomeLayer, TypeParts DEF IInv, ControlInv, PlainTypes
  <2>2. l \in 1..Len(Layers) /\ l < layer
    BY <2>1
  <2>3. Layers[l][i] \in InLayer(l)
    BY <2>2, LayersInjective DEF InLayer, Range
  <2> QED
    BY <1>1, <2>1, <2>2, <2>3 DEF IInv, PastInv
<1> QED
  BY ExecutorInductive, <1>1, PTL

\* What Execute returns is what happened to the tables.
THEOREM ResultIsTrue == Spec => []ReturnedErrors
<1>1. ASSUME IInv, main = "returned", ~PanicPending
      PROVE  /\ state.errors \ {PanicError} = Failed
             /\ result = "nil" => With(state, "completed") = Table
             /\ result = "errors" =>
                  /\ layerErrors # {} /\ layerErrors = state.errors
                  /\ \A t \in Table : Finished(t) \/ (PanicError \in layerErrors /\ LeftByPanic(t))
  <2>0. /\ DOMAIN state.status = Table /\ errChan = <<>> /\ Range(errChan) = {}
        /\ layerErrors \subseteq Error /\ state.errors = layerErrors /\ PanicError \notin Table
        /\ \A w \in Worker : wpc[w] # "settle"
    BY <1>1, RangeOfEmpty, TypeParts, ExecutorAssumption
       DEF IInv, StatusInv, ControlInv, ErrorInv, PlainTypes, Active
  <2>1. state.errors \ {PanicError} = Failed
    BY <1>1, <2>0 DEF IInv, ErrorInv, Failed, With, Error
  <2>2. ASSUME result \in {"nil", "errors"}, NEW t \in Table
        PROVE  Finished(t) \/ (LeftByPanic(t) /\ PanicError \in layerErrors)
    <3>1. PICK l \in 1..Len(Layers) : \E i \in 1..Len(Layers[l]) : Layers[l][i] = t
      BY Zenon, LayersAssumption
    <3>2. t \in InLayer(l)
      BY <3>1, LayersInjective DEF InLayer, Range
    <3>3. l < layer
      BY <1>1, <2>2, SomeLayer, TypeParts DEF IInv, PastInv, PlainTypes
    <3> QED
      BY <1>1, <2>0, <3>2, <3>3 DEF IInv, PastInv, PanicKnown
  <2>3. ASSUME result = "nil" PROVE With(state, "completed") = Table
    <3>1. layerErrors = {}
      BY <1>1, <2>3 DEF IInv, PastInv
    <3>2. \A t \in Table : state.status[t] = "completed"
      BY <2>0, <2>1, <2>2, <2>3, <3>1 DEF Finished, Failed, With
    <3> QED
      BY <2>0, <3>2 DEF With
  <2> QED
    BY <1>1, <2>0, <2>1, <2>2, <2>3 DEF IInv, PastInv
<1>2. IInv => ReturnedErrors
  BY <1>1 DEF ReturnedErrors
<1> QED
  BY ExecutorInductive, <1>2, PTL

\* When Execute returns no worker is left with a table or an error.
THEOREM NoWorkerLeft == Spec => []NoGoroutineLeft
<1>1. IInv => NoGoroutineLeft
  BY DEF IInv, TypeOK, ControlInv, Active, NoGoroutineLeft
<1> QED
  BY ExecutorInductive, <1>1, PTL

\* A table goes through the statuses the state package allows, in their order.
THEOREM StatusesInOrder == Spec => StatusForward
<1> DEFINE Forward == \A t \in DOMAIN state.status :
                        state'.status[t] # state.status[t] =>
                          ValidTableTransition(state.status[t], state'.status[t])
<1>1. ASSUME IInv, [Next]_vars PROVE Forward
  <2> USE DEF ValidTableTransition
  <2>1. CASE main = "plan"
    <3>1. ASSUME PlanTable PROVE Forward
      <4>1. PICK t \in Table \ DOMAIN state.status : state' = AddTable(state, t, Rows)
        BY <3>1 DEF PlanTable
      <4>2. state'.status = Extend(state.status, t, "pending")
        BY <1>1, <4>1, AddTableFields, NewFields DEF IInv, RecordInv
      <4> QED
        BY <4>2 DEF Extend
    <3>2. ASSUME ~PlanTable PROVE UNCHANGED state
      <4>1. \A w \in Worker : ~(Work(w) \/ ReportProgress(w))
        BY <1>1, <2>1, WorkFrame DEF Active
      <4> QED
        BY <1>1, <2>1, <3>2, <4>1 DEF Next, Main, StartLayer, SendTable, CloseTables,
           CollectError, FinishLayer, Return, CloseErrors, RecoveryPanics, Cancel, vars
    <3> QED
      BY <3>1, <3>2
  <2>2. ASSUME main # "plan", NEW w \in Worker, Work(w), ~KeepsStatus(w) PROVE Forward
    <3>1. Active /\ AtWork(w)
      BY <1>1, <2>2, WorkFrame DEF Work, KeepsStatus, BeginTable, CopySucceeds, CopyCancelled,
         MarkFailed, AtWork
    <3>2. /\ holding[w] \in DOMAIN state.status
          /\ wpc[w] = "taken" => state.status[holding[w]] = "pending"
          /\ wpc[w] \in {"copy", "settle"} => state.status[holding[w]] = "copying"
      BY <1>1, <3>1, HeldTable DEF IInv, StatusInv
    <3>3. \/ wpc[w] = "taken" /\ Marks(w, "copying")
          \/ \E next \in {"completed", "failed", "cancelled"} :
               wpc[w] \in {"copy", "settle"} /\ Marks(w, next)
      BY <1>1, <2>2, WorkerStatus DEF BeginTable, CopySucceeds, CopyCancelled, MarkFailed
    <3> QED
      BY <3>2, <3>3 DEF Marks
  <2>3. CASE state'.status = state.status
    BY <2>3
  <2> QED
    BY <1>1, <2>1, <2>2, <2>3, OtherStatus
<1>2. IInv /\ [Next]_vars => [Forward]_vars
  BY <1>1
<1> HIDE DEF Forward
<1>3. Spec => [][Forward]_vars
  BY ExecutorInductive, <1>2, PTL DEF Spec
<1> QED
  BY <1>3 DEF StatusForward, Forward


-----------------------------------------------------------------------------
(* The numbers.                                                            *)

\* The counters that the hooks keep by increments, and those they count anew.
CounterInv(s) ==
  /\ Consistent(s)
  /\ s.activeWorkers = Cardinality(With(s, "copying"))
  /\ s.queuedTables = Cardinality(With(s, "pending"))
  /\ s.totalRows = s.totalTables * Rows

LEMMA FiniteStatus ==
  ASSUME NEW s, StateOK(s)
  PROVE  /\ IsFiniteSet(DOMAIN s.status) /\ Cardinality(DOMAIN s.status) \in Nat
         /\ \A st : IsFiniteSet(With(s, st)) /\ Cardinality(With(s, st)) \in Nat
<1>1. IsFiniteSet(DOMAIN s.status)
  BY FS_Subset, ExecutorAssumption DEF StateOK
<1>2. ASSUME NEW st PROVE IsFiniteSet(With(s, st))
  <2>1. With(s, st) \subseteq DOMAIN s.status
    BY DEF With
  <2> QED
    BY <1>1, <2>1, FS_Subset
<1> QED
  BY <1>1, <1>2, FS_CardinalityType

\* The rows synced are numbers.
LEMMA SyncedRows ==
  ASSUME NEW s, StateOK(s)
  PROVE  s.synced \in [DOMAIN s.status -> Int] /\ SumFunction(s.synced) \in Int
<1>1. s.synced \in [DOMAIN s.status -> Int]
  <2>1. \A t \in DOMAIN s.status : s.synced[t] \in Int
    BY ExecutorAssumption DEF StateOK
  <2> QED
    BY <2>1 DEF StateOK
<1>2. \A t \in DOMAIN s.status : s.synced[t] \in Int
  BY <1>1
<1>3. SumFunctionOnSet(s.synced, DOMAIN s.status) \in Int
  BY <1>2, FiniteStatus, SumIsNumber
<1> QED
  BY <1>1, <1>3 DEF SumFunction

LEMMA AddTableCounts ==
  ASSUME NEW s, StateOK(s), CounterInv(s), NEW t \in Table, t \notin DOMAIN s.status
  PROVE  CounterInv(AddTable(s, t, Rows))
<1> DEFINE a == AddTable(s, t, Rows)
           D == DOMAIN s.status
<1>1. /\ a.status = Extend(s.status, t, "pending") /\ a.synced = Extend(s.synced, t, 0)
      /\ DOMAIN a = Fields
  BY AddTableFields DEF StateOK
<1>2. /\ a.totalTables = s.totalTables + 1 /\ a.totalRows = s.totalRows + Rows
      /\ a.completedTables = s.completedTables /\ a.failedTables = s.failedTables
      /\ a.syncedRows = s.syncedRows
      /\ a.activeWorkers = Cardinality(With(a, "copying"))
      /\ a.queuedTables = Cardinality(With(a, "pending"))
  BY DEF AddTable, UpdateSummary, With, StateOK, Fields
<1>3. DOMAIN a.status = D \union {t} /\ IsFiniteSet(D) /\ Cardinality(D) \in Nat
  BY <1>1, FiniteStatus DEF Extend
<1>4. a.totalTables = Cardinality(DOMAIN a.status)
  <2>1. Cardinality(D \union {t}) = Cardinality(D) + 1
    BY <1>3, FS_AddElement
  <2> QED
    BY <2>1, <1>2, <1>3 DEF CounterInv, Consistent
<1>5. With(a, "completed") = With(s, "completed") /\ With(a, "failed") = With(s, "failed")
  BY <1>1, <1>3 DEF With, Extend
<1>6. a.syncedRows = SumFunction(a.synced)
  <2>1. s.synced \in [D -> Int] /\ SumFunction(s.synced) \in Int
    BY SyncedRows
  <2>2. a.synced = [y \in D \union {t} |-> IF y = t THEN 0 ELSE s.synced[y]]
    BY <1>1, <2>1 DEF Extend
  <2> HIDE DEF a
  <2>3. SumFunction(a.synced) = SumFunction(s.synced) + 0
    BY <1>3, <2>1, <2>2, SumExtended
  <2> QED
    BY <1>2, <2>1, <2>3 DEF CounterInv, Consistent
<1>7. a.totalRows = a.totalTables * Rows
  <2>1. s.totalTables \in Nat /\ Rows \in Nat /\ s.totalRows = s.totalTables * Rows
    BY <1>3, ExecutorAssumption DEF CounterInv, Consistent
  <2>2. \A n, r \in Nat : (n + 1) * r = n * r + r
    OBVIOUS
  <2> HIDE DEF a
  <2> QED
    BY <1>2, <2>1, <2>2
<1> HIDE DEF a
<1>8. CounterInv(a)
  BY <1>2, <1>4, <1>5, <1>6, <1>7 DEF CounterInv, Consistent
<1> QED
  BY <1>8 DEF a

\* A table is counted once as long as it leaves "completed" and "failed" to
\* those that reach them.
LEMMA StatusCounts ==
  ASSUME NEW s, StateOK(s), CounterInv(s), NEW t \in DOMAIN s.status, NEW next,
         s.status[t] \notin {"completed", "failed"}
  PROVE  CounterInv(UpdateTableStatus(s, t, next))
<1> DEFINE a == UpdateTableStatus(s, t, next)
<1>1. /\ a.status = [s.status EXCEPT ![t] = next] /\ a.synced = s.synced
      /\ DOMAIN a = Fields
  BY StatusFields DEF StateOK
<1>2. /\ a.totalTables = s.totalTables /\ a.totalRows = s.totalRows
      /\ a.completedTables = s.completedTables + (IF next = "completed" THEN 1 ELSE 0)
      /\ a.failedTables = s.failedTables + (IF next = "failed" THEN 1 ELSE 0)
      /\ a.syncedRows = s.syncedRows
      /\ a.activeWorkers = Cardinality(With(a, "copying"))
      /\ a.queuedTables = Cardinality(With(a, "pending"))
  BY DEF UpdateTableStatus, UpdateSummary, With, StateOK, Fields
<1>3. DOMAIN a.status = DOMAIN s.status
  BY <1>1
<1> HIDE DEF a
<1>4. ASSUME NEW st \in {"completed", "failed"}
      PROVE  Cardinality(With(a, st)) = Cardinality(With(s, st)) + (IF next = st THEN 1 ELSE 0)
  <2>1. t \notin With(s, st) /\ IsFiniteSet(With(s, st)) /\ Cardinality(With(s, st)) \in Nat
    BY FiniteStatus DEF With
  <2>2. CASE next = st
    <3>1. With(a, st) = With(s, st) \union {t}
      BY <1>1, <1>3, <2>2 DEF With
    <3> QED
      BY <2>1, <2>2, <3>1, FS_AddElement
  <2>3. CASE next # st
    <3>1. With(a, st) = With(s, st)
      BY <1>1, <1>3, <2>1, <2>3 DEF With
    <3> QED
      BY <2>1, <2>3, <3>1
  <2> QED
    BY <2>2, <2>3
<1>5. /\ a.completedTables = Cardinality(With(a, "completed"))
      /\ a.failedTables = Cardinality(With(a, "failed"))
  BY <1>2, <1>4 DEF CounterInv, Consistent
<1>8. CounterInv(a)
  BY <1>1, <1>2, <1>3, <1>5 DEF CounterInv, Consistent
<1> QED
  BY <1>8 DEF a

LEMMA ProgressCounts ==
  ASSUME NEW s, StateOK(s), CounterInv(s), NEW t \in DOMAIN s.status, NEW n \in 0..Rows
  PROVE  CounterInv(UpdateTableProgress(s, t, n))
<1> DEFINE a == UpdateTableProgress(s, t, n)
<1>1. /\ a.status = s.status /\ a.synced = [s.synced EXCEPT ![t] = n]
      /\ DOMAIN a = Fields
  BY ProgressFields DEF StateOK
<1>2. /\ a.totalTables = s.totalTables /\ a.totalRows = s.totalRows
      /\ a.completedTables = s.completedTables /\ a.failedTables = s.failedTables
      /\ a.syncedRows = (s.syncedRows + n) - s.synced[t]
      /\ a.activeWorkers = Cardinality(With(a, "copying"))
      /\ a.queuedTables = Cardinality(With(a, "pending"))
  BY DEF UpdateTableProgress, UpdateSummary, With, StateOK, Fields
<1> HIDE DEF a
<1>3. \A st : With(a, st) = With(s, st)
  BY <1>1 DEF With
<1>4. /\ s.synced \in [DOMAIN s.status -> Int] /\ SumFunction(s.synced) \in Int
      /\ s.synced[t] \in Int /\ n \in Int
  BY SyncedRows, ExecutorAssumption
<1>5. SumFunction(a.synced) = SumFunction(s.synced) - s.synced[t] + n
  BY <1>1, <1>4, FiniteStatus, SumUpdate
<1>6. a.syncedRows = SumFunction(a.synced)
  BY <1>2, <1>4, <1>5 DEF CounterInv, Consistent
<1>8. CounterInv(a)
  BY <1>1, <1>2, <1>3, <1>6 DEF CounterInv, Consistent
<1> QED
  BY <1>8 DEF a

\* Recording an error counts nothing.
LEMMA ErrorCounts ==
  ASSUME NEW s, StateOK(s), CounterInv(s)
  PROVE  /\ \A t : CounterInv(AddTableError(s, t))
         /\ \A e : CounterInv(AddError(s, e))
<1>1. ASSUME NEW a,
             \A f \in Fields \ {"errors", "errorRows"} : a[f] = s[f]
      PROVE  CounterInv(a)
  <2>1. /\ a.status = s.status /\ a.synced = s.synced /\ a.totalTables = s.totalTables
        /\ a.completedTables = s.completedTables /\ a.failedTables = s.failedTables
        /\ a.syncedRows = s.syncedRows /\ a.totalRows = s.totalRows
        /\ a.activeWorkers = s.activeWorkers /\ a.queuedTables = s.queuedTables
    BY <1>1 DEF Fields
  <2> QED
    BY <2>1 DEF CounterInv, Consistent, With
<1>2. ASSUME NEW t PROVE CounterInv(AddTableError(s, t))
  BY <1>1 DEF AddTableError, StateOK, Fields
<1>3. ASSUME NEW e PROVE CounterInv(AddError(s, e))
  BY <1>1 DEF AddError, StateOK, Fields
<1> QED
  BY <1>2, <1>3

LEMMA NewCounts == CounterInv(NewCopyState)
<1>1. DOMAIN <<>> = {} /\ Cardinality({}) = 0
  BY FS_EmptySet
<1>2. \A st : With(NewCopyState, st) = {}
  BY <1>1, NewFields DEF With
<1>3. SumFunction(<<>>) = 0
  BY <1>1, SumEmpty DEF SumFunction
<1>4. 0 * Rows = 0
  BY ExecutorAssumption
<1> QED
  BY <1>1, <1>2, <1>3, <1>4 DEF CounterInv, Consistent, NewCopyState

LEMMA CountersStep ==
  ASSUME IInv, [Next]_vars, CounterInv(state)
  PROVE  CounterInv(state)'
<1>0. StateOK(state) /\ DOMAIN state = Fields
  BY TypeParts DEF IInv, StateOK
<1> SUFFICES CounterInv(state')
  OBVIOUS
<1>1. CASE PlanTable
  <2>1. PICK t \in Table \ DOMAIN state.status : state' = AddTable(state, t, Rows)
    BY <1>1 DEF PlanTable
  <2> QED
    BY <1>0, <2>1, AddTableCounts
<1>2. CASE CollectError
  BY <1>0, <1>2, ErrorCounts DEF CollectError
<1>3. ASSUME NEW w \in Worker, Work(w) \/ ReportProgress(w) PROVE CounterInv(state')
  <2> DEFINE t == holding[w]
  <2>1. ASSUME wpc[w] \in {"taken", "copy", "settle"}
        PROVE  t \in DOMAIN state.status /\ state.status[t] \notin {"completed", "failed"}
    <3>1. AtWork(w) /\ Active
      BY <1>3, <2>1, WorkFrame DEF AtWork
    <3>2. TypeOK /\ ControlInv /\ HandsInv /\ StatusInv
      BY DEF IInv
    <3>3. state.status[t] \in {"pending", "copying"}
      BY <2>1, <3>1, <3>2 DEF StatusInv
    <3> QED
      BY <3>1, <3>2, <3>3, HeldTable
  <2>2. CASE BeginTable(w)
    BY <1>0, <2>1, <2>2, StatusCounts DEF BeginTable
  <2>3. CASE CopySucceeds(w)
    BY <1>0, <2>1, <2>3, StatusCounts DEF CopySucceeds, Settle
  <2>4. CASE CopyCancelled(w)
    BY <1>0, <2>1, <2>4, StatusCounts DEF CopyCancelled, Settle
  <2>5. CASE MarkFailed(w)
    <3> DEFINE s == UpdateTableStatus(state, t, "failed")
    <3>1. state' = AddTableError(s, t) /\ wpc[w] = "settle"
      BY <2>5 DEF MarkFailed, Settle
    <3>2. StateOK(s) /\ CounterInv(s)
      BY <1>0, <2>1, <3>1, StatusCounts, StateSteps DEF TableStatus
    <3> HIDE DEF s
    <3> QED
      BY <3>1, <3>2, ErrorCounts
  <2>6. CASE ReportProgress(w)
    <3>1. PICK n \in 0..Rows : state' = UpdateTableProgress(state, t, n)
      BY <2>6 DEF ReportProgress
    <3>2. t \in DOMAIN state.status
      BY <2>1, <2>6 DEF ReportProgress
    <3> QED
      BY <1>0, <3>1, <3>2, ProgressCounts
  <2>7. CASE UNCHANGED state
    BY <2>7
  <2> QED
    BY <1>3, <2>2, <2>3, <2>4, <2>5, <2>6, <2>7 DEF Work, WorkerExit, TakeTable, SkipTable,
       CopyFails, ReportError, CopyPanics, RecoverPanic
<1> QED
  BY <1>1, <1>2, <1>3 DEF Next, Main, StartLayer, SendTable, CloseTables, FinishLayer,
     Return, CloseErrors, RecoveryPanics, Cancel, vars
\* A worker that counts as active holds a table that is being copied, and no
\* two hold the same.
LEMMA ActiveWorkers ==
  ASSUME IInv, CounterInv(state)
  PROVE  SummaryAgrees
<1> DEFINE B == {w \in Worker : Busy(w)}
           Held == {holding[w] : w \in B}
           Left == {t \in With(state, "copying") : ~\E w \in Worker : Busy(w) /\ holding[w] = t}
<1>1. \A w \in B : holding[w] \in With(state, "copying")
  <2> TAKE w \in B
  <2>1. Active /\ AtWork(w)
    BY DEF IInv, TypeOK, ControlInv, Active, Busy, AtWork
  <2>2. TypeOK /\ ControlInv /\ HandsInv /\ StatusInv
    BY DEF IInv
  <2>3. state.status[holding[w]] = "copying"
    BY <2>1, <2>2 DEF StatusInv, Busy
  <2> QED
    BY <2>1, <2>2, <2>3, HeldTable DEF With
<1>2. \A v, w \in B : v # w => holding[v] # holding[w]
  <2>1. \A w \in B : holding[w] # NoTable
    BY DEF IInv, HandsInv, AtWork, Busy
  <2> QED
    BY <2>1 DEF IInv, PlacesInv
<1>3. IsFiniteSet(B) /\ IsFiniteSet(With(state, "copying"))
  BY FiniteStatus, TypeParts, FS_Subset, ExecutorAssumption DEF IInv
<1>4. With(state, "copying") = Held \union Left /\ Held \intersect Left = {}
  BY <1>1
<1>5. Cardinality(Held) = Cardinality(B) /\ IsFiniteSet(Held)
  <2> DEFINE f == [w \in B |-> holding[w]]
  <2>1. f \in [B -> Held]
    OBVIOUS
  <2>2. IsInjective(f)
    BY <1>2 DEF IsInjective
  <2>3. \A t \in Held : \E w \in B : f[w] = t
    OBVIOUS
  <2>4. f \in Bijection(B, Held)
    BY <2>1, <2>2, <2>3 DEF Bijection, Injection, Surjection
  <2>5. ExistsBijection(B, Held)
    BY <2>4 DEF ExistsBijection
  <2> HIDE DEF B, Held
  <2> QED
    BY <1>3, <2>5, FS_Bijection
<1>6. IsFiniteSet(Left)
  BY <1>3, FS_Subset
<1> HIDE DEF Held, Left
<1>7. Cardinality(With(state, "copying")) = Cardinality(B) + Cardinality(Left)
  BY <1>4, <1>5, <1>6, CardinalityDisjoint
<1> QED
  BY <1>7 DEF CounterInv, SummaryAgrees, Left

\* The numbers of the summary are those of the tables they come with, whatever
\* the order in which the workers run the hooks.
THEOREM SummaryIsTrue == Spec => []SummaryAgrees
<1>1. Init => CounterInv(state)
  BY NewCounts DEF Init
<1>2. IInv /\ CounterInv(state) /\ [Next]_vars => CounterInv(state)'
  BY CountersStep
<1>3. IInv /\ CounterInv(state) => SummaryAgrees
  BY ActiveWorkers
<1> QED
  BY <1>1, <1>2, <1>3, ExecutorInductive, PTL DEF Spec
-----------------------------------------------------------------------------
(* With the layers of buildDependencyLayers.                               *)

\* The end of buildDependencyLayers for the planned tables: key f connects the
\* tables of keys[f], and the tables of placed are those a wave reached.
Plan(FK, keys, placed) ==
  INSTANCE DependencyLayers WITH
    Planned <- Table, foreignKeys <- keys, visited <- placed, pc <- "done",
    layers <- [l \in 1..Len(Layers) |-> InLayer(l)],
    indeg <- [t \in Table |-> 0], frontier <- {}

\* ParentsFirst and LayerBarrier together, the reason the layers exist: when the
\* copy of a table that a wave placed begins, and while it lasts, the copy of
\* every planned table it references is over, or was left behind by a panic.
THEOREM ParentsAreCopied ==
  ASSUME NEW FK, NEW keys, NEW placed, Plan(FK, keys, placed)!ParentsFirst
  PROVE  Spec => [](\A w \in Worker : wpc[w] = "copy" /\ holding[w] \in placed =>
                      \A f \in Plan(FK, keys, placed)!Edge : keys[f].child = holding[w] =>
                        Finished(keys[f].parent) \/ LeftByPanic(keys[f].parent))
<1> DEFINE E == Plan(FK, keys, placed)!Edge
           Copied == \A w \in Worker : wpc[w] = "copy" /\ holding[w] \in placed =>
                       \A f \in E : keys[f].child = holding[w] =>
                         Finished(keys[f].parent) \/ LeftByPanic(keys[f].parent)
<1>1. IInv => Copied
  <2> SUFFICES ASSUME IInv, NEW w \in Worker, wpc[w] = "copy", holding[w] \in placed,
                      NEW f \in E, keys[f].child = holding[w]
               PROVE  Finished(keys[f].parent) \/ LeftByPanic(keys[f].parent)
    OBVIOUS
  <2> DEFINE sets == [l \in 1..Len(Layers) |-> InLayer(l)]
  <2>1. Active /\ AtWork(w)
    BY DEF IInv, TypeOK, ControlInv, Active, AtWork
  <2>2. holding[w] \in InLayer(layer) /\ layer \in 1..Len(Layers) /\ main # "crashed"
    BY <2>1, SomeLayer DEF IInv, TypeOK, ControlInv, PlacesInv, HandsInv, Active
  <2>3. Len(sets) = Len(Layers) /\ \A l \in 1..Len(Layers) : sets[l] = InLayer(l)
    BY SomeLayer
  <2>4. \A e \in E : \A j \in 1..Len(sets) :
          keys[e].child \in sets[j] /\ keys[e].child \in placed
            => \E i \in 1..(j - 1) : keys[e].parent \in sets[i]
    BY DEF Plan!ParentsFirst
  <2> HIDE DEF sets, E
  <2>5. \E i \in 1..(layer - 1) : keys[f].parent \in sets[i]
    BY <2>2, <2>3, <2>4
  <2>6. PICK l \in 1..(layer - 1) : keys[f].parent \in InLayer(l)
    BY <2>2, <2>3, <2>5, SomeLayer
  <2> QED
    BY <2>2, <2>6, SomeLayer DEF IInv, PastInv
<1> QED
  BY <1>1, ExecutorInductive, PTL
-----------------------------------------------------------------------------
(* Termination needs fairness, which stays with TLC.  What it rests on is  *)
(* proved: somebody can always go on, and nobody goes on for ever.         *)

\* The guards of the steps that are given fairness.
Ready ==
  \/ main = "plan" /\ Table \ DOMAIN state.status # {}
  \/ main \in {"next", "feed"}
  \/ main = "collect" /\ (errChan # <<>> \/ CollectorDone \/ (~errClosed /\ AllDone))
  \/ SendsOnClosed
  \/ \E w \in Worker :
       \/ wpc[w] = "fetch" /\ (cancelled \/ tableClosed \/ tableChan # <<>>)
       \/ wpc[w] \in {"taken", "copy", "settle"}
       \/ wpc[w] = "report" /\ Len(errChan) < Parallel
       \/ wpc[w] = "recovering" /\ ~errClosed /\ Len(errChan) < Parallel

\* Execute begins with the last table, and a crash leaves no goroutine behind.
EdgesInv == /\ main = "plan" => DOMAIN state.status # Table
            /\ main = "crashed" => stray = {}

LEMMA EdgesStep == ASSUME IInv, EdgesInv, [Next]_vars PROVE EdgesInv'
<1> USE DEF EdgesInv
<1>1. CASE PlanTable
  BY <1>1 DEF PlanTable
<1>2. ASSUME NEW w \in Worker, Work(w) \/ ReportProgress(w) PROVE EdgesInv'
  BY <1>2, WorkFrame DEF Active, mainVars
<1> QED
  BY <1>1, <1>2 DEF Next, Main, StartLayer, SendTable, CloseTables, CollectError,
     FinishLayer, Return, CloseErrors, RecoveryPanics, Cancel, mainVars, vars

\* Until Execute returns or the process dies, someone can go on: not everybody
\* waits for room in errChan, for a table, for an error or for the workers.
THEOREM NobodyStuck == Spec => [](main \notin {"returned", "crashed"} => Ready)
<1>1. Init => EdgesInv
  BY NewFields, ExecutorAssumption DEF Init, EdgesInv
<1>2. IInv /\ EdgesInv => (main \notin {"returned", "crashed"} => Ready)
  <2> SUFFICES ASSUME IInv, EdgesInv, main = "collect", errChan = <<>>, ~AllDone
               PROVE  Ready
    BY DEF IInv, TypeOK, EdgesInv, Ready, CollectorDone
  <2>1. PICK w \in Worker : wpc[w] \notin {"recovering", "done"}
    BY DEF AllDone
  <2>2. wpc[w] \in {"fetch", "taken", "copy", "report", "settle"} /\ tableClosed
    BY <2>1 DEF IInv, TypeOK, ControlInv, Active
  <2>3. Len(errChan) < Parallel
    BY ExecutorAssumption
  <2> QED
    BY <2>2, <2>3 DEF Ready
<1> QED
  BY <1>1, <1>2, EdgesStep, ExecutorInductive, PTL DEF Spec

\* The stages of the goroutine of Execute, and the steps that workers, messages
\* and tables are away from their end.
Phase == [plan |-> 5, next |-> 4, feed |-> 3, collect |-> 2, returned |-> 1, crashed |-> 0]

Distance == [idle |-> 0, fetch |-> 1, taken |-> 6, copy |-> 5, report |-> 4, settle |-> 2,
             recovering |-> 2, done |-> 0]

Distances(control) == SumFunction([w \in Worker |-> Distance[control[w]]])

LayersLeft == (Len(Layers) + 1) - layer

WorkLeft ==
  Cardinality(Table \ DOMAIN state.status) + 7 * Len(unsent) + 6 * Len(tableChan)
  + Distances(wpc) + Len(errChan) + (IF errClosed THEN 0 ELSE 1)
  + (IF cancelled THEN 0 ELSE 1)

\* Less is left to do: fewer layers, or a later stage of the same one, or fewer
\* steps within the stage.
Smaller ==
  \/ LayersLeft' < LayersLeft
  \/ /\ LayersLeft' = LayersLeft
     /\ \/ Phase[main'] < Phase[main]
        \/ main' = main /\ WorkLeft' < WorkLeft

LEMMA DistanceType == Distance \in [WStates -> Nat]
  BY DEF Distance, WStates

LEMMA DistancesType ==
  ASSUME NEW p \in [Worker -> WStates]
  PROVE  Distances(p) \in Nat
<1> DEFINE f == [w \in Worker |-> Distance[p[w]]]
<1>1. \A w \in Worker : f[w] \in Nat
  BY DistanceType
<1>2. SumFunction(f) = SumFunctionOnSet(f, Worker)
  BY DEF SumFunction
<1> HIDE DEF f
<1>3. SumFunctionOnSet(f, Worker) \in Nat
  BY <1>1, SumIsNatural, ExecutorAssumption
<1> QED
  BY <1>2, <1>3 DEF Distances, f

LEMMA DistancesMove ==
  ASSUME NEW p \in [Worker -> WStates], NEW w \in Worker, NEW q \in WStates
  PROVE  Distances([p EXCEPT ![w] = q]) = Distances(p) - Distance[p[w]] + Distance[q]
<1> DEFINE r == [p EXCEPT ![w] = q]
           f == [v \in Worker |-> Distance[p[v]]]
           g == [v \in Worker |-> Distance[r[v]]]
<1>1. f \in [Worker -> Int] /\ Distance[q] \in Int /\ IsFiniteSet(Worker)
  BY DistanceType, ExecutorAssumption
<1>2. g = [f EXCEPT ![w] = Distance[q]]
  <2>1. \A v \in Worker : r[v] = IF v = w THEN q ELSE p[v]
    OBVIOUS
  <2> HIDE DEF r
  <2> QED
    BY <2>1
<1>3. f[w] = Distance[p[w]]
  OBVIOUS
<1>4. Distances(r) = SumFunction(g) /\ Distances(p) = SumFunction(f)
  BY DEF Distances
<1> HIDE DEF f, g, r
<1>5. SumFunction([f EXCEPT ![w] = Distance[q]]) = SumFunction(f) - f[w] + Distance[q]
  BY <1>1, SumUpdate
<1>6. Distances(r) = Distances(p) - Distance[p[w]] + Distance[q]
  BY <1>2, <1>3, <1>4, <1>5
<1> QED
  BY <1>6 DEF r

\* The parts of WorkLeft are numbers.
LEMMA WorkTypes ==
  ASSUME IInv
  PROVE  /\ Cardinality(Table \ DOMAIN state.status) \in Nat
         /\ Len(unsent) \in Nat /\ Len(tableChan) \in Nat /\ Len(errChan) \in Nat
         /\ Distances(wpc) \in Nat
         /\ WorkLeft \in Nat
<1>1. Cardinality(Table \ DOMAIN state.status) \in Nat
  <2>1. IsFiniteSet(Table \ DOMAIN state.status)
    BY FS_Subset, ExecutorAssumption
  <2> QED
    BY <2>1, FS_CardinalityType
<1>2. Len(unsent) \in Nat /\ Len(tableChan) \in Nat /\ Len(errChan) \in Nat
  BY DEF IInv, TypeOK
<1>3. Distances(wpc) \in Nat
  BY DistancesType, TypeParts DEF IInv, PlainTypes
<1> QED
  BY <1>1, <1>2, <1>3 DEF WorkLeft

\* A worker moves nearer to its end, or brings a table or an error nearer.
LEMMA WorkerWork ==
  ASSUME IInv, NEW w \in Worker, Work(w)
  PROVE  WorkLeft' < WorkLeft
<1>0. /\ wpc \in [Worker -> WStates] /\ tableChan \in Seq(Table) /\ errChan \in Seq(Error)
      /\ DOMAIN state'.status = DOMAIN state.status
      /\ UNCHANGED <<unsent, errClosed, cancelled>>
      /\ holding[w] \in Table \union {NoTable}
  BY TypeParts, WorkFrame, WorkerStatus DEF IInv, PlainTypes, Marks
<1> DEFINE C == Cardinality(Table \ DOMAIN state.status)
           D == Distances(wpc)
<1>1. /\ C \in Nat /\ D \in Nat /\ C' = C
      /\ Len(unsent) \in Nat /\ Len(tableChan) \in Nat /\ Len(errChan) \in Nat
  BY <1>0, WorkTypes
<1>2. /\ WorkLeft = C + 7 * Len(unsent) + 6 * Len(tableChan) + D + Len(errChan)
                    + (IF errClosed THEN 0 ELSE 1) + (IF cancelled THEN 0 ELSE 1)
      /\ WorkLeft' = C + 7 * Len(unsent) + 6 * Len(tableChan') + D' + Len(errChan')
                     + (IF errClosed THEN 0 ELSE 1) + (IF cancelled THEN 0 ELSE 1)
  BY <1>0, <1>1 DEF WorkLeft
<1>3. ASSUME NEW q \in WStates, wpc' = [wpc EXCEPT ![w] = q]
      PROVE  D' = D - Distance[wpc[w]] + Distance[q]
  BY <1>0, <1>3, DistancesMove
<1> HIDE DEF C, D
<1> USE DEF Distance, WStates, Goto
<1>4. CASE WorkerExit(w)
  <2>1. D' = D - 1 + 0 /\ UNCHANGED <<tableChan, errChan>>
    BY <1>3, <1>4 DEF WorkerExit
  <2> QED
    BY <1>1, <1>2, <2>1
<1>5. CASE TakeTable(w)
  <2>1. D' = D - 1 + 6 /\ UNCHANGED errChan
    BY <1>3, <1>5 DEF TakeTable
  <2>2. Len(tableChan') = Len(tableChan) - 1
    BY <1>0, <1>5, HeadTailProperties DEF TakeTable
  <2> QED
    BY <1>1, <1>2, <2>1, <2>2
<1>6. CASE SkipTable(w) \/ BeginTable(w)
  <2>1. D' = D - 6 + 1 \/ D' = D - 6 + 5
    BY <1>3, <1>6 DEF SkipTable, BeginTable
  <2>2. UNCHANGED <<tableChan, errChan>>
    BY <1>6 DEF SkipTable, BeginTable
  <2> QED
    BY <1>1, <1>2, <2>1, <2>2
<1>7. CASE CopySucceeds(w) \/ CopyCancelled(w) \/ CopyFails(w) \/ CopyPanics(w)
  <2>1. D' = D - 5 + 1 \/ D' = D - 5 + 4 \/ D' = D - 5 + 2
    BY <1>3, <1>7 DEF CopySucceeds, CopyCancelled, CopyFails, CopyPanics, Settle
  <2>2. UNCHANGED <<tableChan, errChan>>
    BY <1>7 DEF CopySucceeds, CopyCancelled, CopyFails, CopyPanics
  <2> QED
    BY <1>1, <1>2, <2>1, <2>2
<1>8. CASE ReportError(w)
  <2>1. D' = D - 4 + 2 /\ UNCHANGED tableChan
    BY <1>3, <1>8 DEF ReportError
  <2>2. Len(errChan') = Len(errChan) + 1
    <3>1. holding[w] \in Error
      BY <1>0, <1>8 DEF ReportError, IInv, HandsInv, AtWork, Error
    <3> QED
      BY <1>0, <1>8, <3>1, AppendProperties DEF ReportError
  <2> QED
    BY <1>1, <1>2, <2>1, <2>2
<1>9. CASE MarkFailed(w)
  <2>1. D' = D - 2 + 1 /\ UNCHANGED <<tableChan, errChan>>
    BY <1>3, <1>9 DEF MarkFailed, Settle
  <2> QED
    BY <1>1, <1>2, <2>1
<1>10. CASE RecoverPanic(w)
  <2>1. D' = D - 2 + 0 /\ UNCHANGED tableChan
    BY <1>3, <1>10 DEF RecoverPanic
  <2>2. Len(errChan') = Len(errChan) + 1
    BY <1>0, <1>10, PanicErrorIsError, AppendProperties DEF RecoverPanic
  <2> QED
    BY <1>1, <1>2, <2>1, <2>2
<1> QED
  BY <1>4, <1>5, <1>6, <1>7, <1>8, <1>9, <1>10 DEF Work

\* A step within a stage, of someone else.
LEMMA MainWork ==
  ASSUME IInv, \/ PlanTable /\ main' = main
               \/ SendTable \/ CollectError \/ CloseErrors \/ Cancel
  PROVE  main' = main /\ UNCHANGED layer /\ WorkLeft' < WorkLeft
<1> DEFINE C == Cardinality(Table \ DOMAIN state.status)
           D == Distances(wpc)
<1>0. /\ C \in Nat /\ D \in Nat /\ unsent \in Seq(Table) /\ tableChan \in Seq(Table)
      /\ errChan \in Seq(Error)
      /\ Len(unsent) \in Nat /\ Len(tableChan) \in Nat /\ Len(errChan) \in Nat
      /\ errClosed \in BOOLEAN /\ cancelled \in BOOLEAN
      /\ DOMAIN state = Fields
  BY WorkTypes, TypeParts DEF IInv, PlainTypes, StateOK
<1>1. D' = D /\ UNCHANGED layer /\ main' = main
  BY DEF PlanTable, SendTable, CollectError, CloseErrors, Cancel, mainVars
<1>2. /\ WorkLeft = C + 7 * Len(unsent) + 6 * Len(tableChan) + D + Len(errChan)
                    + (IF errClosed THEN 0 ELSE 1) + (IF cancelled THEN 0 ELSE 1)
      /\ WorkLeft' = C' + 7 * Len(unsent') + 6 * Len(tableChan') + D + Len(errChan')
                     + (IF errClosed' THEN 0 ELSE 1) + (IF cancelled' THEN 0 ELSE 1)
  BY <1>1 DEF WorkLeft
<1>3. CASE PlanTable
  <2>1. PICK t \in Table \ DOMAIN state.status : state' = AddTable(state, t, Rows)
    BY <1>3 DEF PlanTable
  <2>2. DOMAIN state'.status = DOMAIN state.status \union {t}
    <3>1. state'.status = Extend(state.status, t, "pending")
      BY <1>0, <2>1, AddTableFields
    <3> QED
      BY <3>1 DEF Extend
  <2>3. Table \ DOMAIN state'.status = (Table \ DOMAIN state.status) \ {t}
    BY <2>2
  <2>4. IsFiniteSet(Table \ DOMAIN state.status)
    BY FS_Subset, ExecutorAssumption
  <2>5. C' = C - 1
    BY <2>1, <2>3, <2>4, FS_RemoveElement
  <2> HIDE DEF C, D
  <2> QED
    BY <1>0, <1>1, <1>2, <1>3, <2>5 DEF PlanTable, channels
<1>4. CASE ~PlanTable
  <2>1. C' = C
    <3>1. CASE CollectError
      <4>1. state'.status = state.status
        BY <1>0, <3>1, ErrorFields DEF CollectError
      <4> QED
        BY <4>1
    <3>2. CASE UNCHANGED state
      BY <3>2
    <3> QED
      BY <1>4, <3>1, <3>2 DEF SendTable, CloseErrors, Cancel
  <2> HIDE DEF C, D
  <2>2. CASE SendTable
    <3>1. Len(unsent') = Len(unsent) - 1 /\ Head(unsent) \in Table
      BY <1>0, <2>2, HeadTailProperties DEF SendTable
    <3>2. Len(tableChan') = Len(tableChan) + 1
      BY <1>0, <2>2, <3>1, AppendProperties DEF SendTable
    <3> QED
      BY <1>0, <1>1, <1>2, <2>1, <2>2, <3>1, <3>2 DEF SendTable
  <2>3. CASE CollectError
    <3>1. Len(errChan') = Len(errChan) - 1
      BY <1>0, <2>3, HeadTailProperties DEF CollectError
    <3> QED
      BY <1>0, <1>1, <1>2, <2>1, <2>3, <3>1 DEF CollectError
  <2>4. CASE CloseErrors
    BY <1>0, <1>1, <1>2, <2>1, <2>4 DEF CloseErrors
  <2>5. CASE Cancel
    BY <1>0, <1>1, <1>2, <2>1, <2>5 DEF Cancel, channels
  <2> QED
    BY <1>4, <2>2, <2>3, <2>4, <2>5
<1> QED
  BY <1>3, <1>4

\* Every step brings Execute nearer to its end, except that a table may report
\* progress again and again, which takes nothing back: no order of the steps, no
\* panic and no cancellation makes the worker pool turn for ever.
THEOREM StepsRunOut ==
  Spec => /\ [](LayersLeft \in Nat /\ Phase[main] \in Nat /\ WorkLeft \in Nat)
          /\ [][\/ Smaller
                \/ /\ \E w \in Worker : ReportProgress(w)
                   /\ UNCHANGED <<LayersLeft, main, WorkLeft>>]_vars
<1>1. IInv => LayersLeft \in Nat /\ Phase[main] \in Nat /\ WorkLeft \in Nat
  <2> SUFFICES ASSUME IInv PROVE LayersLeft \in Nat /\ Phase[main] \in Nat
    BY WorkTypes
  <2>1. LayersLeft \in Nat
    BY SomeLayer DEF IInv, TypeOK, LayersLeft
  <2>2. Phase[main] \in Nat
    BY DEF IInv, TypeOK, Phase
  <2> QED
    BY <2>1, <2>2
<1> DEFINE Step == \/ Smaller
                   \/ /\ \E w \in Worker : ReportProgress(w)
                      /\ UNCHANGED <<LayersLeft, main, WorkLeft>>
<1>2. ASSUME IInv, EdgesInv, Next PROVE Step
  <2>1. CASE PlanTable
    <3>1. CASE main' = main
      BY <1>2, <2>1, <3>1, MainWork DEF Smaller, LayersLeft
    <3>2. CASE main' # main
      BY <2>1, <3>2 DEF PlanTable, Smaller, LayersLeft, Phase
    <3> QED
      BY <3>1, <3>2
  <2>2. CASE SendTable \/ CollectError \/ CloseErrors \/ Cancel
    BY <1>2, <2>2, MainWork DEF Smaller, LayersLeft
  <2>3. CASE StartLayer \/ CloseTables \/ Return
    BY <2>3 DEF StartLayer, CloseTables, Return, Smaller, LayersLeft, Phase
  <2>4. CASE FinishLayer
    <3>1. layer \in Nat /\ Len(Layers) \in Nat
      BY <1>2, SomeLayer DEF IInv, TypeOK
    <3> QED
      BY <2>4, <3>1 DEF FinishLayer, Smaller, LayersLeft, Phase
  <2>5. CASE RecoveryPanics
    <3>1. main # "crashed"
      BY <1>2, <2>5 DEF IInv, ControlInv, EdgesInv, RecoveryPanics, SendsOnClosed
    <3>2. Phase[main] > 0
      BY <1>2, <3>1 DEF IInv, TypeOK, Phase
    <3> QED
      BY <2>5, <3>2 DEF RecoveryPanics, Smaller, LayersLeft, Phase
  <2>6. ASSUME NEW w \in Worker, Work(w) PROVE Step
    <3>1. UNCHANGED <<layer, main>>
      BY <1>2, <2>6, WorkFrame DEF mainVars
    <3> QED
      BY <1>2, <2>6, <3>1, WorkerWork DEF Smaller, LayersLeft
  <2>7. ASSUME NEW w \in Worker, ReportProgress(w) PROVE Step
    <3>1. PICK n \in 0..Rows : state' = UpdateTableProgress(state, holding[w], n)
      BY <2>7 DEF ReportProgress
    <3>2. holding[w] \in DOMAIN state.status /\ DOMAIN state = Fields
      BY <1>2, <2>7, HeldTable, NewFields DEF ReportProgress, AtWork, IInv, RecordInv
    <3>3. state'.status = state.status
      BY <3>1, <3>2, ProgressFields
    <3> QED
      BY <2>7, <3>3 DEF ReportProgress, workerFrame, mainVars, LayersLeft, WorkLeft
  <2> QED
    BY <1>2, <2>1, <2>2, <2>3, <2>4, <2>5, <2>6, <2>7 DEF Next, Main
<1>3. Init => EdgesInv
  BY NewFields, ExecutorAssumption DEF Init, EdgesInv
<1>4. IInv /\ EdgesInv /\ [Next]_vars => [Step]_vars
  BY <1>2
<1> HIDE DEF Step
<1>5. Spec => [][Step]_vars
  BY <1>3, <1>4, EdgesStep, ExecutorInductive, PTL DEF Spec
<1> QED
  BY <1>1, <1>5, ExecutorInductive, PTL DEF Step
=============================================================================
