------------------------------ MODULE TableCopy ------------------------------
(***************************************************************************)
(* copyTable (internal/copier/parallel.go) up to the loaded data: the      *)
(* streaming copy of stream_copy.go, with its writer goroutine, its pipe   *)
(* and its progress poller, and the legacy copy, which clears the table    *)
(* and inserts batches read by keyset or OFFSET pagination.  Meanwhile the *)
(* source goes on changing.  A row is a natural number, which stands both  *)
(* for its primary key and for its place in the order of ctid.             *)
(***************************************************************************)
EXTENDS Naturals, FiniteSets

CONSTANTS Row,              \* the rows the source may ever hold
          BatchSize,        \* config.BatchSize
          RowsPerStatement, \* maxRowsPerStmt of insertScannedBatch
          ClearAttempts,    \* attempts of clearDestinationTable, 3 in the code
          MaxWrites         \* bound: changes of the source during the copy

ASSUME TableCopyAssumption ==
  /\ Row \subseteq Nat \ {0} /\ IsFiniteSet(Row)
  /\ {BatchSize, RowsPerStatement, ClearAttempts} \subseteq Nat \ {0}
  /\ MaxWrites \in Nat

VARIABLES
  config,    \* the options that matter, and whether the table has a primary key
  source,    \* rows of the source table
  writes,    \* changes of the source so far
  view,      \* the rows a snapshot of the source shows
  snapped,   \* that snapshot was taken
  stable,    \* history: rows that were in the source since the copy began
  dest,      \* committed destination: old contents, and copies of each row
  tx,        \* the destination as the open transaction sees it
  pc,        \* control of copyTable
  result,    \* what it returned
  attempt,   \* attempts of clearDestinationTable so far
  lastPK,    \* keyset cursor; 0 before the first batch
  offset,    \* OFFSET of the next batch
  scanned,   \* the batch in memory
  toInsert,  \* rows of the batch no statement has inserted yet
  writer,    \* the goroutine of writeCopyStream
  toSend,    \* rows COPY OUT has yet to deliver
  pipe,      \* the row a Write on the pipe waits to hand over; 0 if none
  pipeEnd,   \* how the writer closed the pipe
  pipeRead,  \* the reading side is open
  poller,    \* the goroutine of pollCopyProgress
  processed, \* its last sample of pg_stat_progress_copy
  tracked,   \* progressRows
  synced,    \* SyncedRows of the table in the state
  shown      \* rows passed to updateProgress

sourceVars == <<source, writes, stable>>
batchVars == <<attempt, lastPK, offset, scanned, toInsert>>
writerVars == <<writer, toSend, pipeEnd>>
pollVars == <<poller, processed, tracked>>
progress == <<synced, shown>>
vars == <<config, sourceVars, view, snapped, dest, tx, pc, result, batchVars, writerVars,
          pipe, pipeRead, pollVars, progress>>

Contents == [old : BOOLEAN, rows : [Row -> Nat]]
Untouched == [old |-> TRUE, rows |-> [r \in Row |-> 0]]
Emptied == [old |-> FALSE, rows |-> [r \in Row |-> 0]]
Add(contents, rows) ==
  [old |-> contents.old,
   rows |-> [r \in Row |-> contents.rows[r] + (IF r \in rows THEN 1 ELSE 0)]]
Exactly(rows) == Add(Emptied, rows)
RowsIn(contents) == {r \in Row : contents.rows[r] > 0}
Size(contents) == Cardinality(UNION {{r} \X (1..contents.rows[r]) : r \in Row})

\* The first n rows of a set, in order.
First(n, rows) == {r \in rows : Cardinality({q \in rows : q < r}) < n}

Init ==
  /\ config \in {c \in [useCopyPipe : BOOLEAN, compress : BOOLEAN, snapshot : BOOLEAN,
                        hasPK : BOOLEAN, replica : BOOLEAN] :
                   /\ c.compress => c.useCopyPipe
                   /\ c.useCopyPipe => ~c.snapshot /\ ~c.hasPK /\ ~c.replica}
  /\ source \in SUBSET Row /\ writes = 0 /\ stable = source
  /\ view = {} /\ snapped = FALSE
  /\ dest = Untouched /\ tx = Untouched
  /\ pc = IF config.useCopyPipe THEN "open" ELSE "clear"
  /\ result = "none"
  /\ attempt = 1 /\ lastPK = 0 /\ offset = 0 /\ scanned = {} /\ toInsert = {}
  /\ writer = "none" /\ toSend = {} /\ pipe = 0 /\ pipeEnd = "open" /\ pipeRead = TRUE
  /\ poller = "none" /\ processed = 0 /\ tracked = 0 /\ synced = 0 /\ shown = 0

-----------------------------------------------------------------------------
(* The source, used by others while it is copied.                          *)

SourceChanges ==
  /\ pc # "done" /\ writes < MaxWrites
  /\ \E r \in Row : source' = IF r \in source THEN source \ {r} ELSE source \union {r}
  /\ writes' = writes + 1
  /\ stable' = stable \intersect source'
  /\ UNCHANGED <<config, view, snapped, dest, tx, pc, result, batchVars, writerVars, pipe,
                 pipeRead, pollVars, progress>>

-----------------------------------------------------------------------------
(* The legacy copy.                                                        *)

streamVars == <<writerVars, pipe, pipeRead, pollVars>>

\* Any failure of the legacy copy; an open transaction is rolled back.
FailLegacy == pc' = "done" /\ result' = "error" /\ tx' = Untouched

RetryClear == attempt < ClearAttempts

\* One attempt of clearDestinationTable.  Only in replica mode is a deadlock
\* tried again.  An error may hide that the TRUNCATE took effect.
ClearDestinationTable ==
  /\ pc = "clear"
  /\ \/ /\ dest' = Emptied /\ pc' = "select"
        /\ UNCHANGED <<result, tx, attempt>>
     \/ /\ config.replica /\ RetryClear
        /\ attempt' = attempt + 1
        /\ UNCHANGED <<dest, pc, result, tx>>
     \/ /\ FailLegacy
        /\ dest' \in {dest, Emptied}
        /\ UNCHANGED attempt
  /\ UNCHANGED <<config, sourceVars, view, snapped, lastPK, offset, scanned, toInsert,
                 streamVars, progress>>

\* The rows a query of the source sees: inside the snapshot transaction those
\* of its first query, otherwise those of the moment.
Visible == IF config.snapshot /\ snapped THEN view ELSE source

\* Mutant of AfterCursor: the cursor row is read again.
FromCursor == {r \in Visible : r >= lastPK}
AfterCursor == {r \in Visible : r > lastPK}

NextBatch == IF config.hasPK THEN First(BatchSize, AfterCursor)
             ELSE First(BatchSize, Visible \ First(offset, Visible))

\* The query, the scan of its rows and the BEGIN of the batch's transaction.
\* Keyset pagination ends at an empty batch; OFFSET pagination commits it.
SelectBatch ==
  /\ pc = "select"
  /\ view' = Visible /\ snapped' = TRUE
  /\ scanned' = NextBatch /\ toInsert' = NextBatch
  /\ IF config.hasPK /\ NextBatch = {}
     THEN pc' = "done" /\ result' = "ok" /\ tx' = tx
     ELSE pc' = "insert" /\ result' = result /\ tx' = dest
  /\ UNCHANGED <<config, sourceVars, dest, attempt, lastPK, offset, streamVars, progress>>

\* One statement of insertScannedBatch or processBatchBulk.
InsertChunk ==
  /\ pc = "insert" /\ toInsert # {}
  /\ tx' = Add(tx, First(RowsPerStatement, toInsert))
  /\ toInsert' = toInsert \ First(RowsPerStatement, toInsert)
  /\ UNCHANGED <<config, sourceVars, view, snapped, dest, pc, result, attempt, lastPK,
                 offset, scanned, streamVars, progress>>

\* Mutant of LastBatch: a full batch is taken for the last one.
LastBatchOrFull == Cardinality(scanned) <= BatchSize
LastBatch == Cardinality(scanned) < BatchSize

\* Mutant of NextOffset: the next batch begins one row too late.
NextOffsetPlusOne == offset + BatchSize + 1
NextOffset == offset + BatchSize

\* The commit of a batch, the progress it makes and the cursor for the next.
CommitBatch ==
  /\ pc = "insert" /\ toInsert = {}
  /\ dest' = tx /\ tx' = Untouched
  /\ shown' = shown + Cardinality(scanned) /\ synced' = shown'
  /\ IF LastBatch THEN /\ pc' = "done" /\ result' = "ok"
                       /\ UNCHANGED <<lastPK, offset>>
     ELSE /\ pc' = "select" /\ result' = result
          /\ IF config.hasPK
             THEN /\ lastPK' \in {r \in scanned : \A q \in scanned : q <= r}
                  /\ offset' = offset
             ELSE /\ offset' = NextOffset /\ lastPK' = lastPK
  /\ UNCHANGED <<config, sourceVars, view, snapped, attempt, scanned, toInsert, streamVars>>

\* Any statement of a batch fails; the commit may do so after it took effect.
FailBatch ==
  /\ pc \in {"select", "insert"}
  /\ FailLegacy
  /\ dest' \in {dest} \union (IF pc = "insert" /\ toInsert = {} THEN {tx} ELSE {})
  /\ UNCHANGED <<config, sourceVars, view, snapped, batchVars, streamVars, progress>>

-----------------------------------------------------------------------------
(* The streaming copy: copyTableViaPipe.                                   *)

\* Connections, BEGIN and TRUNCATE.  Then the writer starts, and the poller
\* once the pipe needs no gzip header, or has it.
OpenStream ==
  /\ pc = "open"
  /\ \/ /\ tx' = Emptied /\ writer' = "begin"
        /\ IF config.compress THEN pc' = "header" /\ poller' = poller
           ELSE pc' = "copyin" /\ poller' = "waiting"
        /\ UNCHANGED result
     \/ /\ pc' = "close" /\ result' = "error"
        /\ UNCHANGED <<tx, writer, poller>>
  /\ UNCHANGED <<config, sourceVars, view, snapped, dest, batchVars, toSend, pipeEnd, pipe,
                 pipeRead, processed, tracked, progress>>

\* gzip.NewReader waits for the head of the stream or for the writer's end.
ReadHeader ==
  /\ pc = "header"
  /\ \/ /\ pipe # 0 \/ pipeEnd = "eof"
        /\ pc' = "copyin" /\ poller' = "waiting"
        /\ UNCHANGED result
     \/ /\ pipeEnd = "error"
        /\ pc' = "close" /\ result' = "error"
        /\ UNCHANGED poller
  /\ UNCHANGED <<config, sourceVars, view, snapped, dest, tx, batchVars, writerVars, pipe,
                 pipeRead, processed, tracked, progress>>

\* COPY IN takes a row from the pipe.
CopyRow ==
  /\ pc = "copyin" /\ pipe # 0
  /\ tx' = Add(tx, {pipe}) /\ pipe' = 0
  /\ UNCHANGED <<config, sourceVars, view, snapped, dest, pc, result, batchVars, writerVars,
                 pipeRead, pollVars, progress>>

\* COPY IN returns: at the end of the stream, at an error of the writer, or,
\* at any time, with an error of its own.
CopyInEnds ==
  /\ pc = "copyin" /\ pipe = 0 /\ pipeEnd # "open"
  /\ pc' = IF pipeEnd = "eof" THEN "stop" ELSE "abort"
  /\ UNCHANGED <<config, sourceVars, view, snapped, dest, tx, result, batchVars, writerVars,
                 pipe, pipeRead, pollVars, progress>>

CopyInFails ==
  /\ pc = "copyin"
  /\ pc' = "abort"
  /\ UNCHANGED <<config, sourceVars, view, snapped, dest, tx, result, batchVars, writerVars,
                 pipe, pipeRead, pollVars, progress>>

\* Mutant of PollerStopped: stop cancels the poller and does not wait for it.
PollerToldToStop == poller # "none"
PollerStopped == poller = "ended"

\* stopProgressPoll has cancelled the poller and waits for its end.
StopPoller ==
  /\ pc \in {"stop", "abort"} /\ PollerStopped
  /\ IF pc = "stop" THEN pc' = "commit" /\ result' = result
     ELSE pc' = "close" /\ result' = "error"
  /\ UNCHANGED <<config, sourceVars, view, snapped, dest, tx, batchVars, writerVars, pipe,
                 pipeRead, pollVars, progress>>

LoadedRows == Size(tx)

\* The commit, and the rows the poller has not counted.
CommitStream ==
  /\ pc = "commit" /\ pc' = "close"
  /\ \/ /\ dest' = tx /\ result' = "ok"
        /\ synced' = IF LoadedRows < tracked THEN tracked ELSE LoadedRows
        /\ shown' = shown + (synced' - tracked)
     \/ /\ dest' \in {dest, tx} /\ result' = "error"
        /\ UNCHANGED progress
  /\ UNCHANGED <<config, sourceVars, view, snapped, tx, batchVars, writerVars, pipe, pipeRead,
                 pollVars>>

\* Mutant of CloseStream: the reading side of the pipe stays open.
CloseAllButPipe ==
  /\ pc = "close"
  /\ pc' = "done" /\ tx' = Untouched
  /\ UNCHANGED <<config, sourceVars, view, snapped, dest, result, batchVars, writerVars, pipe,
                 pipeRead, pollVars, progress>>

\* The deferred calls: the pipe is closed, the context cancelled, and the
\* transaction, unless committed, rolled back.  The rollback is sent with the
\* cancelled context; it is the closed connection that ends the transaction.
CloseStream ==
  /\ pc = "close"
  /\ pc' = "done" /\ pipeRead' = FALSE /\ tx' = Untouched
  /\ UNCHANGED <<config, sourceVars, view, snapped, dest, result, batchVars, writerVars, pipe,
                 pollVars, progress>>

-----------------------------------------------------------------------------
(* The goroutine of writeCopyStream, which nobody waits for.               *)

mainVars == <<pc, result, dest, tx, batchVars, pipeRead, pollVars, progress>>

\* COPY OUT is one statement: it sees one state of the source.
BeginCopyOut ==
  /\ writer = "begin" /\ writer' = "copying"
  /\ view' = source /\ snapped' = TRUE /\ toSend' = source
  /\ UNCHANGED <<config, sourceVars, mainVars, pipe, pipeEnd>>

\* Write on a pipe returns when its reader has taken the data.
WriteRow ==
  /\ writer = "copying" /\ pipe = 0 /\ pipeRead
  /\ pipe' \in First(1, toSend) /\ toSend' = toSend \ {pipe'}
  /\ UNCHANGED <<config, sourceVars, view, snapped, mainVars, writer, pipeEnd>>

CopyOutEnds ==
  /\ writer = "copying" /\ toSend = {} /\ pipe = 0
  /\ writer' = "ended" /\ pipeEnd' = "eof"
  /\ UNCHANGED <<config, sourceVars, view, snapped, mainVars, toSend, pipe>>

\* Mutant of CopyOutFails: streamErr is not set, so the pipe just ends.
CopyOutFailsSilently ==
  /\ writer \in {"begin", "copying"} /\ (pipe = 0 \/ ~pipeRead)
  /\ writer' = "ended" /\ pipeEnd' = "eof" /\ pipe' = 0
  /\ UNCHANGED <<config, sourceVars, view, snapped, mainVars, toSend>>

\* An error of the source, a cancelled context, a panic, or a closed pipe.  A
\* writer that waits in Write is freed by the last only.
CopyOutFails ==
  /\ writer \in {"begin", "copying"} /\ (pipe = 0 \/ ~pipeRead)
  /\ writer' = "ended" /\ pipeEnd' = "error" /\ pipe' = 0
  /\ UNCHANGED <<config, sourceVars, view, snapped, mainVars, toSend>>

-----------------------------------------------------------------------------
(* The goroutine of pollCopyProgress.                                      *)

copyVars == <<config, sourceVars, view, snapped, dest, tx, pc, result, batchVars, writerVars,
              pipe, pipeRead>>

\* A sample of the view, which may lag behind what was taken.
PollSample ==
  /\ poller = "waiting" /\ pc \in {"copyin", "stop", "abort"}
  /\ \E n \in (tracked + 1)..LoadedRows : processed' = n
  /\ poller' = "sampled"
  /\ UNCHANGED <<copyVars, tracked, progress>>

PollPublish ==
  /\ poller = "sampled" /\ poller' = "waiting"
  /\ tracked' = processed /\ synced' = processed
  /\ shown' = shown + (processed - tracked)
  /\ UNCHANGED <<copyVars, processed>>

\* No view, no row, or no connection.
PollQuits ==
  /\ poller = "waiting" /\ poller' = "ended"
  /\ UNCHANGED <<copyVars, processed, tracked, progress>>

PollCancelled == pc \notin {"header", "copyin"} /\ PollQuits

-----------------------------------------------------------------------------

\* The steps copyTable takes unless something fails it.
Proceed ==
  \/ ClearDestinationTable \/ SelectBatch \/ InsertChunk \/ CommitBatch
  \/ OpenStream \/ ReadHeader \/ CopyRow \/ CopyInEnds \/ StopPoller \/ CommitStream
  \/ CloseStream
Writer == BeginCopyOut \/ WriteRow \/ CopyOutEnds \/ CopyOutFails
Poller == PollSample \/ PollPublish \/ PollQuits

Next == SourceChanges \/ Proceed \/ FailBatch \/ CopyInFails \/ Writer \/ Poller

\* Statements return, and a cancelled poller notices.
Fairness == /\ WF_vars(Proceed)
            /\ WF_vars(Writer)
            /\ WF_vars(PollPublish) /\ WF_vars(PollCancelled)

Spec == Init /\ [][Next]_vars /\ Fairness

-----------------------------------------------------------------------------
(* Properties.                                                             *)

\* Types, and what bounds the counters: no more attempts than allowed, and no
\* more rows taken from the pipe than a snapshot holds.
TypeOK ==
  /\ config \in [useCopyPipe : BOOLEAN, compress : BOOLEAN, snapshot : BOOLEAN,
                 hasPK : BOOLEAN, replica : BOOLEAN]
  /\ {source, view, stable, scanned, toInsert, toSend} \subseteq SUBSET Row
  /\ {snapped, pipeRead} \subseteq BOOLEAN
  /\ writes \in 0..MaxWrites
  /\ dest \in Contents /\ tx \in Contents
  /\ pc \in {"clear", "select", "insert", "open", "header", "copyin", "stop", "abort",
             "commit", "close", "done"}
  /\ result \in {"none", "ok", "error"}
  /\ attempt \in 1..ClearAttempts /\ offset \in Nat
  /\ {lastPK, pipe} \subseteq Row \union {0}
  /\ writer \in {"none", "begin", "copying", "ended"}
  /\ pipeEnd \in {"open", "eof", "error"}
  /\ poller \in {"none", "waiting", "sampled", "ended"}
  /\ {processed, tracked, synced, shown} \subseteq Nat

\* The comments at parallel.go:408 and stream_copy.go:104: however it ends, a
\* streaming copy leaves the old table or all rows of one snapshot.
AllOrNothing ==
  config.useCopyPipe => \/ dest = Untouched
                        \/ snapped /\ dest = Exactly(view)

\* A copy that returned no error is complete.  It has replaced the old rows by
\* those of one snapshot, when there is one; and with keyset pagination over
\* the changing table it has missed no row that was there all the time.
CopyComplete ==
  result = "ok" =>
    /\ ~dest.old
    /\ config.useCopyPipe \/ config.snapshot => dest = Exactly(view)
    /\ config.hasPK => stable \subseteq RowsIn(dest)

\* Unless it pages by OFFSET through a table that changes, a copy never writes
\* a row twice, not even in a destination that has no unique index.
NoRowTwice ==
  config.useCopyPipe \/ config.hasPK \/ config.snapshot
    => \A r \in Row : dest.rows[r] <= 1

\* What the batches have committed is at any moment, also after a failure, a
\* prefix of the snapshot in the order it is read.
CommittedPrefix ==
  config.snapshot /\ ~dest.old
    => \A r \in RowsIn(dest) : /\ r \in view
                               /\ \A q \in view : q < r => q \in RowsIn(dest)

\* Poller and final update count each row once: when the copy is done the
\* table's SyncedRows and the sum shown on the progress bar are the rows
\* loaded, and stay so.
ProgressExact ==
  result = "ok" => synced = shown /\ synced = Size(dest)

\* copyTable returns, and the goroutines it started end although it does not
\* wait for the writer: closing the pipe frees a writer nobody reads from.
EverythingEnds ==
  <>[](pc = "done" /\ writer \in {"none", "ended"} /\ poller \in {"none", "ended"})
=============================================================================
