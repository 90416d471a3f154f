------------------------------- MODULE Ingest -------------------------------
(***************************************************************************)
(* Typed ingestion: a transaction whose body opens an appender on a        *)
(* declared table, appends batches of rows by row or by column, flushes    *)
(* and closes it (lib/duckdb/request.ml, lib/duckdb/appender.ml,           *)
(* lib/ffi/appender_stubs.c).                                              *)
(*                                                                         *)
(* The body is the application's: it may go on after an error, catch an    *)
(* exception, and open another appender.  The request it runs in may be    *)
(* cancelled at any moment; every engine call looks at that once, as it    *)
(* begins.  Batches are numbered, and a row is its batch and its place in  *)
(* it.  A batch is a sequence of rows of these kinds:                      *)
(*   value      a row without NULL                                         *)
(*   null       a row with a NULL in a column that may hold one            *)
(*   forbidden  a row with a NULL in a column that may not                 *)
(*   invalid    a row with a VARCHAR that is not UTF-8                     *)
(*   rejected   a row that a custom codec refuses to encode                *)
(***************************************************************************)
EXTENDS Integers, SequencesExt

CONSTANTS
    VectorSize,    \* duckdb_vector_size(): rows per staging chunk
    Retained,      \* STAGED_RETAINED
    MaxRows,       \* bound: rows of a batch
    MaxBatches,    \* bound: batches of the transaction
    MaxAppenders   \* bound: appenders the body opens

ASSUME BoundsAssumption ==
    /\ VectorSize \in Nat \ {0}
    /\ {Retained, MaxRows, MaxBatches, MaxAppenders} \subseteq Nat

VARIABLES
    tx,        \* the transaction
    app,       \* the appender: its native state, status and sticky failure
    stage,     \* its staging chunks
    engine,    \* rows in DuckDB's appender, and rows of the transaction
    call,      \* what the body's thread is doing
    cancelled, \* the request is cancelled
    accepted   \* rows of the batches that append reported as appended

vars == <<tx, app, stage, engine, call, cancelled, accepted>>

Kinds == {"value", "null", "forbidden", "invalid", "rejected"}
Batches == UNION {[1..n -> Kinds] : n \in 0..MaxRows}

\* What the table holds of row i of batch b.
NullRow == <<0, 0>>
Stored(b, batch, i) == IF batch[i] = "null" THEN NullRow ELSE <<b, i>>

Rows == {NullRow} \cup ((1..MaxBatches) \X (1..MaxRows))

\* A staging chunk, with its values and their validity mask, and the staging of an appender.
Chunk == [1..VectorSize -> [row : Rows, valid : BOOLEAN]]
Stage == [pool : Seq(Chunk), rows : 0..MaxRows, failed : BOOLEAN]

EmptyCell == [row |-> NullRow, valid |-> TRUE]
EmptyChunk == [j \in 1..VectorSize |-> EmptyCell]

Pcs == {"body", "open", "select", "types", "chunks", "slices", "settle", "flushed", "destroy"}

Idle == [pc |-> "body", batch |-> <<>>, at |-> 0]
NoAppender == [state |-> "none", status |-> "ok", failed |-> FALSE]
NoStage == [pool |-> <<>>, rows |-> 0, failed |-> FALSE]

Init ==
    /\ tx = [state |-> "open", poisoned |-> FALSE, batches |-> 0, appenders |-> 0]
    /\ app = NoAppender
    /\ stage = NoStage
    /\ engine = [buffer |-> <<>>, stored |-> <<>>]
    /\ call = Idle
    /\ cancelled = FALSE
    /\ accepted = <<>>

Goto(pc) == call' = [call EXCEPT !.pc = pc]
Return == call' = Idle

PoisonAppender ==  \* mutant: the transaction is not told
    /\ app' = [app EXCEPT !.failed = TRUE]
    /\ UNCHANGED tx

\* poison: the failure sticks to the appender and to the transaction.
Poison ==
    /\ app' = [app EXCEPT !.failed = TRUE]
    /\ tx' = [tx EXCEPT !.poisoned = TRUE]

-----------------------------------------------------------------------------
(* Staging chunks.                                                          *)

Chunks(n) == (n + VectorSize - 1) \div VectorSize

ChunkReset(chunk) == [j \in 1..VectorSize |-> [chunk[j] EXCEPT !.valid = TRUE]]

\* stage_begin: enough chunks for n rows, reset.  The data of old rows stays in them.
StageBegin(pool, n) ==
    [k \in 1..(IF Chunks(n) > Len(pool) THEN Chunks(n) ELSE Len(pool)) |->
        CASE k > Len(pool) -> EmptyChunk
          [] k <= Len(pool) /\ k <= Chunks(n) -> ChunkReset(pool[k])
          [] OTHER -> pool[k]]

\* stage_int64, stage_string, ...: the cell of a row; stage_null only marks it.
StageCell(cell, row, kind) ==
    IF kind \in {"null", "forbidden"} THEN [cell EXCEPT !.valid = FALSE]
    ELSE [cell EXCEPT !.row = row]

\* stage_blit and stage_mask: the data is copied whatever the mask says.
BlitCell(cell, row, kind) ==
    [cell EXCEPT !.row = row, !.valid = @ /\ kind \notin {"null", "forbidden"}]

\* The rows from + 1 .. from + n of the batch in staging rows 1 .. n.  A value that is
\* not UTF-8 leaves nothing staged; after it, or after a rejection, nothing is written.
Staged(pool, b, batch, from, n, columnar) ==
    LET begun == StageBegin(pool, n)
        Write(cell, row, kind) ==
            IF columnar THEN BlitCell(cell, row, kind) ELSE StageCell(cell, row, kind)
        written(i) == i <= n /\ \A h \in 1..i : batch[from + h] \notin {"invalid", "rejected"}
        invalid == \E i \in 1..n : batch[from + i] = "invalid" IN
    [pool |-> [k \in 1..Len(begun) |-> [j \in 1..VectorSize |->
                  LET i == (k - 1) * VectorSize + j IN
                  IF written(i) THEN Write(begun[k][j], <<b, from + i>>, batch[from + i])
                  ELSE begun[k][j]]],
     rows |-> IF invalid THEN 0 ELSE n,
     failed |-> invalid]

ClearStage(s) == [s EXCEPT !.rows = 0, !.failed = FALSE]

PoolKept(s) == ClearStage(s)  \* mutant: the pool is not cut back

\* After append_staged: cleared, with at most Retained chunks kept.
CutBack(s) == [ClearStage(s) EXCEPT !.pool = SubSeq(@, 1, IF Len(@) < Retained THEN Len(@) ELSE Retained)]

\* The rows the engine reads from chunk k, whose size append_staged has set.
ChunkRows(s, k) ==
    LET size == IF k < Chunks(s.rows) THEN VectorSize ELSE s.rows - (k - 1) * VectorSize IN
    [j \in 1..size |-> IF s.pool[k][j].valid THEN s.pool[k][j].row ELSE NullRow]

-----------------------------------------------------------------------------
(* The engine, as appender_stubs.c uses it.                                 *)

\* One interruptible call, refused when the request is cancelled.  A failure sets the
\* status and leaves any part of the work done; [done] is the state after success.
EngineCall(done, partly) ==
    \/ cancelled /\ app' = [app EXCEPT !.status = "cancelled"] /\ UNCHANGED engine
    \/ ~cancelled /\ app' = app /\ engine' \in done
    \/ ~cancelled /\ app' = [app EXCEPT !.status = "error"] /\ engine' \in partly

\* duckdb_append_data_chunk buffers the rows and may flush by itself.
Flushed(e) == [buffer |-> <<>>, stored |-> e.stored \o e.buffer]
Appended(rows) ==
    LET e == [engine EXCEPT !.buffer = @ \o rows] IN {e, Flushed(e)}

-----------------------------------------------------------------------------
(* The body: opening.                                                       *)

InBody == tx.state = "open" /\ call.pc = "body"

\* open_typed: the declaration is compared with what the catalog says.
OpenTyped ==
    /\ InBody /\ app.state # "open" /\ tx.appenders < MaxAppenders
    /\ \/ \* the catalog query is refused before it executes
          tx' = [tx EXCEPT !.appenders = @ + 1] /\ UNCHANGED call
       \/ \* it fails, or shows an unknown or a missing column
          tx' = [tx EXCEPT !.appenders = @ + 1, !.poisoned = TRUE] /\ UNCHANGED call
       \/ tx' = [tx EXCEPT !.appenders = @ + 1] /\ Goto("open")
    /\ UNCHANGED <<app, stage, engine, cancelled, accepted>>

\* How a native call may end that asks for admission before each of its engine calls.
Statuses == IF cancelled THEN {"cancelled"} ELSE {"ok", "error"}

CreateAppender(status) ==
    IF status = "ok" THEN app' = [NoAppender EXCEPT !.state = "open"] ELSE UNCHANGED app

\* The appender, on all columns or on the declared ones only.
OpenAppender ==
    /\ call.pc = "open"
    /\ \E status \in Statuses :
          /\ CreateAppender(status)
          /\ tx' = [tx EXCEPT !.poisoned = @ \/ status # "ok"]
          /\ IF status = "ok" THEN call' \in {[call EXCEPT !.pc = pc] : pc \in {"select", "types"}}
             ELSE Return
    /\ stage' = NoStage
    /\ UNCHANGED <<engine, cancelled, accepted>>

SelectColumns ==
    /\ call.pc = "select"
    /\ \E status \in Statuses :
          IF status = "ok" THEN Goto("types") /\ UNCHANGED <<tx, app>>
          ELSE Poison /\ Goto("destroy")
    /\ stage' = NoStage
    /\ UNCHANGED <<engine, cancelled, accepted>>

CheckTypes ==
    /\ call.pc = "types"
    /\ \/ Return /\ UNCHANGED <<tx, app>>
       \/ Poison /\ Goto("destroy")
    /\ UNCHANGED <<stage, engine, cancelled, accepted>>

-----------------------------------------------------------------------------
(* append: by row.                                                          *)

Has(batch, kind) == \E i \in DOMAIN batch : batch[i] = kind

\* append_staged: the status it sets before it gets to its engine calls, if it does.
AppendStaged(batch, staged) ==
    IF Has(batch, "forbidden") \/ cancelled THEN "unset"
    ELSE IF staged.failed THEN "error" ELSE "ok"

\* Staging runs first, outside the appender's admission.  A codec's rejection drops the
\* batch; a forbidden NULL, found while staging, fails it.
AppendRows(batch) ==
    /\ InBody /\ app.state = "open" /\ tx.batches < MaxBatches
    /\ LET b == tx.batches + 1
           staged == Staged(stage.pool, b, batch, 0, Len(batch), FALSE)
           counted == [tx EXCEPT !.batches = b] IN
       \/ /\ Has(batch, "rejected") \/ app.failed
          /\ stage' = ClearStage(IF app.status = "ok" THEN staged ELSE stage)
          /\ tx' = counted
          /\ UNCHANGED <<app, call>>
       \/ /\ ~Has(batch, "rejected") /\ ~app.failed
          /\ AppendStaged(batch, staged) # "ok"
          /\ stage' = ClearStage(staged)
          /\ tx' = [counted EXCEPT !.poisoned = TRUE]
          /\ app' = [app EXCEPT !.failed = TRUE,
                                 !.status = IF AppendStaged(batch, staged) = "error" THEN "error" ELSE @]
          /\ UNCHANGED call
       \/ /\ ~Has(batch, "rejected") /\ ~app.failed
          /\ AppendStaged(batch, staged) = "ok"
          /\ stage' = staged
          /\ tx' = counted
          /\ call' = [pc |-> "chunks", batch |-> batch, at |-> 1]
          /\ UNCHANGED app
    /\ UNCHANGED <<engine, cancelled, accepted>>

\* append_staged: one engine call for each chunk, up to the first that fails.
AppendChunk ==
    /\ call.pc = "chunks" /\ call.at <= Chunks(stage.rows) /\ app.status = "ok"
    /\ LET rows == ChunkRows(stage, call.at) IN
       EngineCall(Appended(rows), Appended(rows) \cup {engine})
    /\ call' = [call EXCEPT !.at = @ + 1]
    /\ UNCHANGED <<tx, stage, cancelled, accepted>>

AppendChunksEnd ==
    /\ call.pc = "chunks" /\ (call.at > Chunks(stage.rows) \/ app.status # "ok")
    /\ stage' = CutBack(stage)
    /\ Goto("settle")
    /\ UNCHANGED <<tx, app, engine, cancelled, accepted>>

-----------------------------------------------------------------------------
(* append_columns.                                                          *)

\* What is checked before the first row is staged: codecs, types, lengths and NULLs.
CheckColumnsBulk(batch) == ~Has(batch, "rejected") /\ ~Has(batch, "forbidden")

AppendColumns(batch) ==
    /\ InBody /\ app.state = "open" /\ tx.batches < MaxBatches
    /\ tx' = [tx EXCEPT !.batches = @ + 1]
    /\ IF ~CheckColumnsBulk(batch) \/ app.failed
       THEN UNCHANGED call
       ELSE call' = [pc |-> "slices", batch |-> batch, at |-> 0]
    /\ UNCHANGED <<app, stage, engine, cancelled, accepted>>

\* The checkpoint before a slice finds the request cancelled.
SliceCancelled ==
    /\ call.pc = "slices" /\ call.at < Len(call.batch) /\ cancelled
    /\ stage' = ClearStage(stage)
    /\ Goto("settle")
    /\ UNCHANGED <<tx, app, engine, cancelled, accepted>>

\* One slice of at most one vector: staged, appended, and checked.  The cancellation
\* may arrive after the checkpoint.
AppendSlice ==
    /\ call.pc = "slices" /\ call.at < Len(call.batch)
    /\ LET left == Len(call.batch) - call.at
           n == IF left < VectorSize THEN left ELSE VectorSize
           staged == Staged(stage.pool, tx.batches, call.batch, call.at, n, TRUE) IN
       /\ \/ /\ ~staged.failed
             /\ stage' = CutBack(staged)
             /\ EngineCall(Appended(ChunkRows(staged, 1)), Appended(ChunkRows(staged, 1)) \cup {engine})
          \/ /\ staged.failed
             /\ stage' = ClearStage(staged)
             /\ app' = [app EXCEPT !.status = "error"]
             /\ UNCHANGED engine
       /\ call' = [call EXCEPT !.at = @ + n, !.pc = IF app'.status = "ok" THEN @ ELSE "settle"]
    /\ UNCHANGED <<tx, cancelled, accepted>>

AppendSlicesEnd ==
    /\ call.pc = "slices" /\ call.at >= Len(call.batch)
    /\ stage' = ClearStage(stage)
    /\ Goto("settle")
    /\ UNCHANGED <<tx, app, engine, cancelled, accepted>>

-----------------------------------------------------------------------------
(* operation: how each of these ends, and flush.                            *)

\* The status, then the cancellation that may have arrived since; an asynchronous
\* exception counts as a failure.
Settle ==
    /\ call.pc = "settle"
    /\ \/ Poison /\ UNCHANGED accepted
       \/ /\ app.status = "ok" /\ ~cancelled
          /\ accepted' = accepted \o [i \in 1..Len(call.batch) |-> Stored(tx.batches, call.batch, i)]
          /\ UNCHANGED <<tx, app>>
    /\ Return
    /\ UNCHANGED <<stage, engine, cancelled>>

Flush ==
    /\ InBody /\ app.state = "open" /\ ~app.failed
    /\ EngineCall({Flushed(engine)}, {engine, Flushed(engine)})
    /\ Goto("settle")
    /\ UNCHANGED <<tx, stage, cancelled, accepted>>

-----------------------------------------------------------------------------
(* with_appender: the end of its callback.                                  *)

\* An error or an exception: the appender is discarded with what it has buffered.
CallbackFails ==
    /\ InBody /\ app.state = "open"
    /\ Poison
    /\ Goto("destroy")
    /\ UNCHANGED <<stage, engine, cancelled, accepted>>

FlushesAnyway == TRUE  \* mutant: a failed appender is flushed too

FlushesOnClose == ~app.failed /\ app.status = "ok"

\* close_appender: the cancellation is looked at, then the rows are flushed.
CloseAppender ==
    /\ InBody /\ app.state = "open"
    /\ \/ cancelled /\ Poison /\ Goto("destroy") /\ UNCHANGED engine
       \/ /\ ~cancelled
          /\ \/ FlushesOnClose /\ EngineCall({Flushed(engine)}, {engine, Flushed(engine)})
             \/ ~FlushesOnClose /\ UNCHANGED <<app, engine>>
          /\ Goto("flushed")
          /\ UNCHANGED tx
    /\ UNCHANGED <<stage, cancelled, accepted>>

\* Whatever the flush said, the appender is cleared and destroyed; the outcome of the
\* close includes that and the cancellation.
CloseFlushed ==
    /\ call.pc = "flushed"
    /\ \/ Poison
       \/ app.status = "ok" /\ ~app.failed /\ ~cancelled /\ UNCHANGED <<tx, app>>
    /\ Goto("destroy")
    /\ UNCHANGED <<stage, engine, cancelled, accepted>>

DestroyFlushes == engine' = Flushed(engine)  \* mutant: the buffer is not cleared first

\* duckdb_appender_clear before duckdb_appender_destroy, which would flush.
ClearAndDestroy == engine' = [engine EXCEPT !.buffer = <<>>]

Destroy ==
    /\ call.pc = "destroy"
    /\ ClearAndDestroy
    /\ app' = NoAppender
    /\ stage' = NoStage
    /\ Return
    /\ UNCHANGED <<tx, cancelled, accepted>>

-----------------------------------------------------------------------------
(* The end of the transaction (Resource.with_transaction).                  *)

Commit ==
    /\ InBody /\ app.state # "open" /\ ~tx.poisoned /\ ~cancelled
    /\ tx' = [tx EXCEPT !.state = "committed"]
    /\ UNCHANGED <<app, stage, engine, call, cancelled, accepted>>

\* The body failed, a failure poisoned the transaction, or COMMIT itself fails.
Rollback ==
    /\ InBody /\ app.state # "open"
    /\ tx' = [tx EXCEPT !.state = "rolled_back"]
    /\ engine' = [engine EXCEPT !.stored = <<>>]
    /\ UNCHANGED <<app, stage, call, cancelled, accepted>>

Cancel ==
    /\ ~cancelled /\ tx.state = "open"
    /\ cancelled' = TRUE
    /\ UNCHANGED <<tx, app, stage, engine, call, accepted>>

Next ==
    \/ OpenTyped \/ OpenAppender \/ SelectColumns \/ CheckTypes
    \/ \E batch \in Batches : AppendRows(batch) \/ AppendColumns(batch)
    \/ AppendChunk \/ AppendChunksEnd \/ AppendSlice \/ SliceCancelled \/ AppendSlicesEnd
    \/ Settle \/ Flush
    \/ CallbackFails \/ CloseAppender \/ CloseFlushed \/ Destroy
    \/ Commit \/ Rollback \/ Cancel

Spec == Init /\ [][Next]_vars

-----------------------------------------------------------------------------
(* Properties.                                                              *)

\* Every variable has its type; the staging chunks are never more than the largest batch
\* needs, and no more than Retained are kept once a batch has been appended.
TypeOK ==
    /\ tx \in [state : {"open", "committed", "rolled_back"}, poisoned : BOOLEAN,
               batches : 0..MaxBatches, appenders : 0..MaxAppenders]
    /\ app \in [state : {"none", "open"}, status : {"ok", "error", "cancelled"}, failed : BOOLEAN]
    /\ stage \in Stage /\ Len(stage.pool) <= Chunks(MaxRows)
    /\ call.pc = "settle" /\ call.batch # <<>> /\ app.status = "ok" /\ ~cancelled
          => Len(stage.pool) <= Retained
    /\ engine \in [buffer : Seq(Rows), stored : Seq(Rows)] /\ accepted \in Seq(Rows)
    /\ call \in [pc : Pcs, batch : Batches, at : Nat]
    /\ cancelled \in BOOLEAN

\* What a committed transaction leaves in the table is, row by row and in order, exactly
\* the batches that append said it had taken: no row of a batch that was refused, failed
\* half way or was cancelled, none twice, none lost in a buffer, and no NULL left over
\* from an earlier batch in a reused staging chunk.  The body may ignore any error.
CommittedExactly ==
    tx.state = "committed" => engine.stored = accepted /\ engine.buffer = <<>>

Held(e) == Len(e.buffer) + Len(e.stored)

\* Once an engine call or an operation of an appender has failed, nothing it still holds
\* or is given reaches the table: neither by a later append, nor by the flush of its close,
\* nor by the one of the engine's destructor.
FailedTakesNothing ==
    [][app.state = "open" /\ (app.failed \/ app.status # "ok")
        => /\ Held(engine') <= Held(engine)
           /\ Len(engine'.stored) <= Len(engine.stored)]_vars
=============================================================================
