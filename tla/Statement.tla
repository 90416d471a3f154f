----------------------------- MODULE Statement -----------------------------
(***************************************************************************)
(* A prepared statement from its preparation to its close: Query           *)
(* (lib/duckdb/query.ml) over its native owner (lib/ffi/prepared_stubs.c,  *)
(* typed_stubs.c, view_stubs.c, query_native.h), while another connection  *)
(* changes the schema its parameters were resolved against and a canceller *)
(* may latch the request it runs in.                                       *)
(*                                                                         *)
(* The safe layer admits one operation on a connection at a time, so one   *)
(* thread uses the statement; a step goes from one native call, epoch read *)
(* or latch test to the next.  The native guard, the phases and the        *)
(* interrupt are in BridgeRun, the gate is in ConnectionGate.              *)
(***************************************************************************)
EXTENDS Integers, FiniteSets, FiniteSetsExt

CONSTANTS
    Types,      \* types the parameter can have in one schema or another
    MaxEpoch,   \* bound on the schema epoch
    MaxRows,    \* rows of a chunk at most
    WordBits,   \* bits of a word of a validity mask, 64 in the code
    NoType,     \* no prepared statement
    None        \* no snapshot, no epoch, no chunk, no mask

ASSUME BoundsAssumption == MaxEpoch \in Nat /\ MaxRows \in Nat \ {0} /\ WordBits \in Nat \ {0}
ASSUME ValuesAssumption ==
    /\ None \notin Nat \cup Types
    /\ NoType \notin Types \cup {"no_parameters"}
    /\ "no_parameters" \notin Types

VARIABLES
    schema,    \* the committed type, and the one the other connection's transaction made
    epoch,     \* schema_epoch
    ddl,       \* the other connection: where its DDL is, and schema_dirty
    cancelled, \* the latch of the request, in OCaml and in native memory
    tx,        \* this connection's transaction: explicit or internal
    p,         \* the prepared record
    nat,       \* the prepared_owner of the statement and of a fresh copy of it
    live,      \* acquired minus released
    th         \* the thread: program counter and locals

vars == <<schema, epoch, ddl, cancelled, tx, p, nat, live, th>>

-----------------------------------------------------------------------------
(* State.                                                                   *)

\* A statement with a parameter, one without, and one that itself changes the schema
\* (CREATE TABLE ... AS SELECT ?).
Kinds == {"plain", "constant", "ddl"}
NoParameters == "no_parameters"
ParameterTypes == Types \cup {NoParameters}

Statuses == {"OK", "ERROR", "UNSUPPORTED", "CANCELLED"}

\* prepared: what its parameters resolved to.  chunk: the rows of the current chunk.
\* rows: chunk_rows.  pointing: the cached data pointers are into the current chunk.
Owner == [shell : BOOLEAN, input : BOOLEAN, extracted : BOOLEAN, value : BOOLEAN,
          prepared : ParameterTypes \cup {NoType}, result : BOOLEAN,
          chunk : 0..MaxRows \cup {None}, vectors : BOOLEAN, rows : 0..MaxRows,
          pointing : BOOLEAN, status : Statuses]

NoOwner == [shell |-> FALSE, input |-> FALSE, extracted |-> FALSE, value |-> FALSE,
            prepared |-> NoType, result |-> FALSE, chunk |-> None, vectors |-> FALSE,
            rows |-> 0, pointing |-> FALSE, status |-> "OK"]

Bit(b) == IF b THEN 1 ELSE 0

\* What duckdb_ml_acquired counted and duckdb_ml_released did not.  The temporal value of a
\* binding is not counted.
Pieces(n) ==
    Bit(n.shell) + Bit(n.input) + Bit(n.extracted) + Bit(n.prepared # NoType)
    + Bit(n.result) + Bit(n.chunk # None) + Bit(n.vectors)

NoStatement == [state |-> "none", kind |-> "plain", home |-> "connection", types |-> NoType,
                bound |-> FALSE, result |-> FALSE, validated |-> None]

NoTransaction == [explicit |-> FALSE, begun |-> FALSE, snapshot |-> None, altered |-> FALSE,
                  dirty |-> FALSE, failure |-> FALSE, raised |-> FALSE, stale |-> FALSE, spoilt |-> FALSE]

Resting == [pc |-> "idle", owner |-> "statement", phase |-> "none", before |-> None,
            stale |-> FALSE, status |-> "none"]

Pcs == {"idle", "extract", "prepare", "clean", "prepared", "release", "bind", "bind_value",
        "bound", "begin", "validate", "run", "running", "leaving", "ran", "commit", "publish",
        "fail", "fold", "drain"}

Init ==
    /\ schema \in [committed : Types, pending : {None}]
    /\ epoch = 0
    /\ ddl = [pc |-> "idle", explicit |-> FALSE, dirty |-> FALSE]
    /\ cancelled = FALSE
    /\ tx = NoTransaction
    /\ p = NoStatement
    /\ nat = [o \in {"statement", "fresh"} |-> NoOwner]
    /\ live = 0
    /\ th = Resting

Engine == <<schema, ddl>>

\* The advances of the epoch that are still to come; another change takes at most three.
Owed ==
    Bit(ddl.pc \in {"entered", "executed"}) + Bit(ddl.explicit /\ ddl.dirty)
    + Bit(th.pc \in {"running", "leaving"} /\ p.kind = "ddl") + Bit(tx.dirty)

Room == epoch + Owed + 3 <= MaxEpoch

-----------------------------------------------------------------------------
(* Another connection changes the schema, by itself or in a transaction.    *)

\* duckdb_ml_schema_enter, before the engine executes the statement.
SchemaEnter ==
    /\ ddl.pc = "idle" /\ Room
    /\ epoch' = epoch + 1
    /\ ddl' = [ddl EXCEPT !.pc = "entered", !.dirty = TRUE]
    /\ UNCHANGED <<schema, cancelled, tx, p, nat, live, th>>

\* The engine executes it (external); it fails if this connection altered the table too.
SchemaExecute ==
    /\ ddl.pc = "entered"
    /\ ddl' = [ddl EXCEPT !.pc = "executed"]
    /\ \/ UNCHANGED schema
       \/ \E t \in Types :
            /\ ~tx.altered
            /\ schema' = IF ddl.explicit THEN [schema EXCEPT !.pending = t]
                         ELSE [schema EXCEPT !.committed = t]
    /\ UNCHANGED <<epoch, cancelled, tx, p, nat, live, th>>

\* duckdb_ml_schema_leave
SchemaLeave ==
    /\ ddl.pc = "executed"
    /\ ddl' = [ddl EXCEPT !.pc = "idle"]
    /\ epoch' = epoch + 1
    /\ UNCHANGED <<schema, cancelled, tx, p, nat, live, th>>

\* ml_duckdb_execute_control: BEGIN forgets what autocommitted DDL left in schema_dirty.
OtherBegin ==
    /\ ddl.pc = "idle" /\ ~ddl.explicit
    /\ ddl' = [pc |-> "idle", explicit |-> TRUE, dirty |-> FALSE]
    /\ UNCHANGED <<schema, epoch, cancelled, tx, p, nat, live, th>>

\* COMMIT or ROLLBACK has taken effect in the engine (external) ...
OtherSettle ==
    /\ ddl.pc = "idle" /\ ddl.explicit
    /\ ddl' = [ddl EXCEPT !.pc = "settled"]
    /\ schema' \in {[schema EXCEPT !.pending = None],
                    [committed |-> IF schema.pending = None THEN schema.committed ELSE schema.pending,
                     pending |-> None]}
    /\ UNCHANGED <<epoch, cancelled, tx, p, nat, live, th>>

\* ... and then the epoch advances, if the transaction ran DDL.
OtherSettled ==
    /\ ddl.pc = "settled"
    /\ ddl' = [pc |-> "idle", explicit |-> FALSE, dirty |-> FALSE]
    /\ epoch' = epoch + Bit(ddl.dirty)
    /\ UNCHANGED <<schema, cancelled, tx, p, nat, live, th>>

Other == SchemaEnter \/ SchemaExecute \/ SchemaLeave \/ OtherBegin \/ OtherSettle \/ OtherSettled

\* Bridge.cancel
Cancel ==
    /\ ~cancelled
    /\ cancelled' = TRUE
    /\ UNCHANGED <<schema, epoch, ddl, tx, p, nat, live, th>>

\* A change that readers can see and that the epoch does not show yet.
InFlight == ddl.pc \in {"executed", "settled"}

-----------------------------------------------------------------------------
(* The native owner.                                                        *)

Goto(pc) == th' = [th EXCEPT !.pc = pc]

Put(o, n) == nat' = [nat EXCEPT ![o] = n]

Released(o, n) == Put(o, n) /\ live' = live - (Pieces(nat[o]) - Pieces(n))

\* clear_result
ClearResult(n) ==
    [n EXCEPT !.chunk = None, !.vectors = FALSE, !.result = FALSE, !.pointing = FALSE, !.rows = 0]

\* The snapshot a call of this connection reads: its own, or the newest outside of one.
Visible == IF tx.snapshot = None THEN schema.committed ELSE tx.snapshot

InTransaction == tx.explicit \/ tx.begun

\* The first call inside a transaction fixes its snapshot.
TakeSnapshot == IF InTransaction THEN [tx EXCEPT !.snapshot = Visible] ELSE tx

\* ml_duckdb_prepare, first half: copy the text and extract its statements.  An
\* asynchronous exception may be raised on entry, with the copy already owned.
Extract ==
    LET n == [nat[th.owner] EXCEPT !.input = TRUE] IN
    /\ th.pc = "extract"
    /\ \/ Put(th.owner, n) /\ live' = live + 1 /\ Goto("release")
       \/ /\ cancelled
          /\ Put(th.owner, [n EXCEPT !.status = "CANCELLED"]) /\ live' = live + 1 /\ Goto("clean")
       \/ /\ ~cancelled
          /\ \E status \in {"OK", "ERROR", "UNSUPPORTED"}, extracted \in BOOLEAN :
                /\ ~extracted => status = "ERROR"
                /\ Put(th.owner, [n EXCEPT !.extracted = extracted, !.status = status])
                /\ live' = live + 1 + Bit(extracted)
                /\ Goto(IF status = "OK" THEN "prepare" ELSE "clean")
    /\ UNCHANGED <<Engine, epoch, cancelled, tx, p>>

\* Second half: prepare the one statement; the parameters resolve in what is visible now.
PrepareExtracted ==
    LET n == nat[th.owner] IN
    /\ th.pc = "prepare"
    /\ \/ /\ cancelled
          /\ Put(th.owner, [n EXCEPT !.status = "CANCELLED"])
          /\ UNCHANGED <<live, tx>>
       \/ /\ ~cancelled
          /\ \/ \E status \in {"OK", "ERROR", "UNSUPPORTED"} :
                   /\ Put(th.owner, [n EXCEPT !.status = status,
                           !.prepared = IF p.kind = "constant" THEN NoParameters ELSE Visible])
                   /\ live' = live + 1
             \/ Put(th.owner, [n EXCEPT !.status = "ERROR"]) /\ UNCHANGED live
          /\ tx' = TakeSnapshot
    /\ Goto("clean")
    /\ UNCHANGED <<Engine, epoch, cancelled, p>>

Cleaned(n) == [n EXCEPT !.input = FALSE, !.extracted = FALSE]

\* The end of ml_duckdb_prepare; pending signals are raised on the way out.
CleanPrepare ==
    /\ th.pc = "clean"
    /\ Released(th.owner, Cleaned(nat[th.owner]))
    /\ \E pc \in {"prepared", "release"} : Goto(pc)
    /\ UNCHANGED <<Engine, epoch, cancelled, tx, p>>

-----------------------------------------------------------------------------
(* prepare_on                                                               *)

\* The owner exists, and stable_epoch has read the epoch.
PrepareOn(kind) ==
    /\ th.pc = "idle" /\ p.state = "none"
    /\ p' = [NoStatement EXCEPT !.state = "opening", !.kind = kind,
                                !.home = IF tx.explicit THEN "transaction" ELSE "connection"]
    /\ Put("statement", [NoOwner EXCEPT !.shell = TRUE]) /\ live' = live + 1
    /\ th' = [Resting EXCEPT !.pc = "extract", !.before = epoch]
    /\ UNCHANGED <<Engine, epoch, cancelled, tx>>

Settled(o) == nat[o].status = "OK" /\ ~cancelled

StableUnchecked(fresh) == th.before  \* mutant: the epoch is not read again

\* stable_epoch, after the observation.
Stable(fresh) == IF fresh /\ epoch = th.before THEN th.before ELSE None

Register ==
    /\ th.pc = "prepared" /\ th.owner = "statement" /\ Settled("statement")
    /\ p' = [p EXCEPT !.state = "open", !.types = nat["statement"].prepared,
                      !.bound = p.kind = "constant", !.validated = Stable(~tx.explicit)]
    /\ th' = Resting
    /\ UNCHANGED <<Engine, epoch, cancelled, tx, nat, live>>

\* acquiring releases the owner after an error or an exception.
ReleasePrepared ==
    /\ th.owner = "statement"
    /\ th.pc = "release" \/ (th.pc = "prepared" /\ ~Settled("statement"))
    /\ Released("statement", NoOwner)
    /\ p' = NoStatement
    /\ th' = Resting
    /\ UNCHANGED <<Engine, epoch, cancelled, tx>>

-----------------------------------------------------------------------------
(* bind_scalar and reset                                                    *)

Usable ==
    /\ th.pc = "idle" /\ p.state = "open"
    /\ p.home = "transaction" => tx.explicit

\* The binding is not usable while it changes.  Text is copied before the call, which
\* may raise on entry.
Bind(bytes) ==
    /\ Usable /\ ~p.result /\ ~cancelled /\ p.kind # "constant"
    /\ p' = [p EXCEPT !.bound = FALSE]
    /\ Put("statement", [nat["statement"] EXCEPT !.input = bytes])
    /\ live' = live + Bit(bytes)
    /\ \/ th' = [th EXCEPT !.pc = "bind", !.status = "none"]
       \/ th' = [th EXCEPT !.pc = "bound", !.status = "raised"]
    /\ UNCHANGED <<Engine, epoch, cancelled, tx>>

\* admit_binding and the engine's bind.  Timestamps of some units need a value of their
\* own, which is bound under a second admission.
BindCall ==
    LET n == [nat["statement"] EXCEPT !.input = FALSE] IN
    /\ th.pc = "bind"
    /\ \/ /\ \E status \in IF cancelled THEN {"CANCELLED"} ELSE {"OK", "ERROR"} :
                Released("statement", [n EXCEPT !.status = status])
          /\ \E status \in {"none", "raised"} : th' = [th EXCEPT !.pc = "bound", !.status = status]
       \/ /\ ~cancelled /\ ~nat["statement"].input
          /\ Put("statement", [n EXCEPT !.value = TRUE, !.status = "OK"])
          /\ Goto("bind_value") /\ UNCHANGED live
    /\ UNCHANGED <<Engine, epoch, cancelled, tx, p>>

BindValue ==
    /\ th.pc = "bind_value"
    /\ \E status \in IF cancelled THEN {"CANCELLED"} ELSE {"OK", "ERROR"} :
          Put("statement", [nat["statement"] EXCEPT !.value = FALSE, !.status = status])
    /\ \E status \in {"none", "raised"} : th' = [th EXCEPT !.pc = "bound", !.status = status]
    /\ UNCHANGED <<Engine, epoch, cancelled, tx, p, live>>

InputKept(n) == n  \* mutant: clear_prepared_input is not called after an exception

InputCleared(n) == [n EXCEPT !.input = FALSE]

\* clear_prepared_input in any case; the binding is usable if all went well.
Bound ==
    /\ th.pc = "bound"
    /\ Released("statement", InputCleared(nat["statement"]))
    /\ p' = [p EXCEPT !.bound = Settled("statement") /\ th.status # "raised"]
    /\ tx' = [tx EXCEPT !.raised = @ \/ (tx.explicit /\ th.status = "raised")]
    /\ th' = Resting
    /\ UNCHANGED <<Engine, epoch, cancelled>>

Reset ==
    /\ Usable /\ ~p.result /\ ~cancelled
    /\ p' = [p EXCEPT !.bound = p.kind = "constant"]
    /\ \E status \in {"OK", "ERROR"} : Put("statement", [nat["statement"] EXCEPT !.status = status])
    /\ UNCHANGED <<Engine, epoch, cancelled, tx, live, th>>

-----------------------------------------------------------------------------
(* execute_prepared                                                         *)

Execute ==
    /\ Usable /\ ~p.result /\ p.bound /\ ~cancelled
    /\ Goto(IF tx.explicit THEN "validate" ELSE "begin")
    /\ UNCHANGED <<Engine, epoch, cancelled, tx, p, nat, live>>

\* with_child_snapshot begins a transaction unless there is one.  The engine takes its
\* snapshot later.  A BEGIN that was not suppressed may have to be rolled back.
BeginSnapshot ==
    /\ th.pc = "begin"
    /\ \/ cancelled /\ Goto("fail") /\ UNCHANGED tx
       \/ /\ ~cancelled
          /\ tx' = [tx EXCEPT !.begun = TRUE]
          /\ \E pc \in {"validate", "fail"} : Goto(pc)
    /\ UNCHANGED <<Engine, epoch, cancelled, p, nat, live>>

\* check_parameter_schema prepares the text again, in an owner of its own.
Reprepare(phase) ==
    /\ Put("fresh", [NoOwner EXCEPT !.shell = TRUE]) /\ live' = live + 1
    /\ th' = [th EXCEPT !.pc = "extract", !.owner = "fresh", !.phase = phase, !.before = epoch]

Validated == p.validated = epoch

\* validate_parameter_schema
Validate ==
    /\ th.pc = "validate"
    /\ \/ cancelled /\ Goto("fail") /\ UNCHANGED <<nat, live>>
       \/ /\ ~cancelled /\ p.types = NoParameters
          /\ th' = [th EXCEPT !.pc = "run", !.before = None] /\ UNCHANGED <<nat, live>>
       \/ /\ ~cancelled /\ p.types # NoParameters /\ Validated
          /\ th' = [th EXCEPT !.pc = "run", !.before = epoch] /\ UNCHANGED <<nat, live>>
       \/ /\ ~cancelled /\ p.types # NoParameters /\ ~Validated
          /\ Reprepare("validate")
    /\ UNCHANGED <<Engine, epoch, cancelled, tx, p>>

PoisonNothing == tx  \* mutant: poison_transaction is not called

\* recheck_after_execution: what the statement did stays in an explicit transaction, so
\* that transaction must not commit.
Poison == [tx EXCEPT !.failure = @ \/ (tx.explicit /\ th.phase = "recheck")]

Unchanged == nat["fresh"].prepared = p.types

\* check_parameter_schema compares and closes the fresh owner.
Compare ==
    LET raised == th.pc = "release"
        same == ~raised /\ Settled("fresh") /\ Unchanged IN
    /\ th.pc \in {"prepared", "release"} /\ th.owner = "fresh"
    /\ Released("fresh", NoOwner)
    /\ p' = IF same /\ th.phase = "validate" /\ Stable(~tx.explicit) # None
            THEN [p EXCEPT !.validated = th.before] ELSE p
    /\ tx' = IF same THEN tx
             ELSE IF raised THEN [tx EXCEPT !.raised = @ \/ tx.explicit] ELSE Poison
    /\ th' = [th EXCEPT !.owner = "statement", !.before = None, !.phase = "none",
                        !.pc = IF ~same THEN "fail" ELSE IF th.phase = "validate" THEN "run" ELSE "commit"]
    /\ UNCHANGED <<Engine, epoch, cancelled>>

\* ml_duckdb_execute_prepared: admission, the result, and the epoch if this is DDL.  An
\* exception on entry comes before all of them.
Run ==
    /\ th.pc = "run"
    /\ \/ Goto("fail") /\ tx' = [tx EXCEPT !.raised = @ \/ tx.explicit] /\ UNCHANGED <<epoch, nat, live>>
       \/ cancelled /\ Goto("fail") /\ UNCHANGED <<epoch, tx, nat, live>>
       \/ /\ ~cancelled /\ (p.kind = "ddl" => Room)
          /\ Put("statement", [nat["statement"] EXCEPT !.result = TRUE, !.status = "OK"])
          /\ live' = live + 1
          /\ epoch' = epoch + Bit(p.kind = "ddl")
          /\ tx' = [tx EXCEPT !.dirty = @ \/ p.kind = "ddl"]
          /\ Goto("running")
    /\ UNCHANGED <<Engine, cancelled, p>>

\* The engine executes (external), in the transaction's snapshot.  It converts bound
\* values to whatever the parameters are now: stale notes that they are something else.
Running ==
    /\ th.pc = "running"
    /\ tx' = TakeSnapshot
    /\ \E status \in {"OK", "ERROR"} :
          /\ Put("statement", [nat["statement"] EXCEPT !.status = status])
          /\ th' = [th EXCEPT !.pc = IF p.kind = "ddl" THEN "leaving" ELSE "ran",
                        !.stale = status = "OK" /\ p.kind = "plain" /\ p.types # Visible]
    /\ UNCHANGED <<Engine, epoch, cancelled, p, live>>

RunLeave ==
    /\ th.pc = "leaving"
    /\ epoch' = epoch + 1
    /\ Goto("ran")
    /\ UNCHANGED <<Engine, cancelled, tx, p, nat, live>>

\* recheck_after_execution: types that were checked in this execution's snapshot, or that
\* no change can have reached since, are taken as current.
Recheckless == th.before = None \/ th.before = epoch \/ p.kind = "ddl"

Ran ==
    /\ th.pc = "ran"
    /\ \/ /\ ~Settled("statement")
          /\ Goto("fail") /\ UNCHANGED <<tx, nat, live>>
       \/ \* the exception ml_duckdb_execute_prepared ends with
          /\ Goto("fail") /\ tx' = [tx EXCEPT !.raised = @ \/ tx.explicit]
          /\ UNCHANGED <<nat, live>>
       \/ /\ Settled("statement") /\ Recheckless
          /\ th' = [th EXCEPT !.pc = "commit", !.stale = @ /\ ~InFlight]
          /\ UNCHANGED <<tx, nat, live>>
       \/ /\ Settled("statement") /\ ~Recheckless
          /\ Reprepare("recheck") /\ UNCHANGED tx
    /\ UNCHANGED <<Engine, epoch, cancelled, p>>

\* The internal transaction commits; an explicit one keeps the effects.  spoilt: effects
\* of conversions nobody was told of are in the database.
Commit ==
    /\ th.pc = "commit"
    /\ \/ /\ tx.explicit
          /\ Goto("publish") /\ tx' = [tx EXCEPT !.stale = @ \/ th.stale]
          /\ UNCHANGED epoch
       \/ /\ ~tx.explicit
          /\ \/ /\ Goto("fail")
                /\ \/ UNCHANGED <<tx, epoch>>
                   \/ \* COMMIT itself fails, or raises
                      ~cancelled /\ tx' = [tx EXCEPT !.dirty = FALSE] /\ epoch' = epoch + Bit(tx.dirty)
             \/ /\ ~cancelled
                /\ Goto("publish")
                /\ tx' = [NoTransaction EXCEPT !.spoilt = tx.spoilt \/ th.stale]
                /\ epoch' = epoch + Bit(tx.dirty)
    /\ UNCHANGED <<Engine, cancelled, p, nat, live>>

Publish ==
    /\ th.pc = "publish"
    /\ \/ cancelled /\ Goto("fail") /\ UNCHANGED p
       \/ /\ ~cancelled
          /\ p' = [p EXCEPT !.result = TRUE]
          /\ th' = [Resting EXCEPT !.stale = th.stale]
    /\ UNCHANGED <<Engine, epoch, cancelled, tx, nat, live>>

\* settle and close: the internal transaction is rolled back, the result is destroyed.  If
\* the rollback fails, the connection is destroyed and the statement with it.
Fail ==
    /\ th.pc = "fail"
    /\ \/ /\ Released("statement", ClearResult(nat["statement"]))
          /\ UNCHANGED p
       \/ /\ tx.begun
          /\ Released("statement", NoOwner)
          /\ p' = NoStatement
    /\ tx' = IF tx.explicit THEN [tx EXCEPT !.stale = @ \/ th.stale]
             ELSE [NoTransaction EXCEPT !.spoilt = tx.spoilt]
    /\ epoch' = epoch + Bit(tx.begun /\ tx.dirty)
    /\ th' = Resting
    /\ UNCHANGED <<Engine, cancelled>>

-----------------------------------------------------------------------------
(* Consuming a result.                                                      *)

\* fold_internal keeps the connection until it has destroyed the result.
Fold ==
    /\ Usable /\ p.result /\ ~cancelled
    /\ Goto("fold")
    /\ UNCHANGED <<Engine, epoch, cancelled, tx, p, nat, live>>

\* ml_duckdb_fetch: the last chunk goes before the next one is asked for.
Forgotten(n) == [n EXCEPT !.chunk = None, !.rows = 0, !.pointing = FALSE]

CacheVectorsOnce(n, rows) ==  \* mutant: the pointers are taken when the array is made
    [n EXCEPT !.chunk = rows, !.vectors = TRUE, !.rows = rows, !.pointing = ~n.vectors]

CacheVectorsOneMore(n, rows) ==  \* mutant: one row too many
    [n EXCEPT !.chunk = rows, !.vectors = TRUE, !.rows = rows + 1, !.pointing = TRUE]

\* cache_vectors: the array is made once for a result and refreshed for every chunk.
CacheVectors(n, rows) ==
    [n EXCEPT !.chunk = rows, !.vectors = TRUE, !.rows = rows, !.pointing = TRUE]

Fetch ==
    LET n == [Forgotten(nat["statement"]) EXCEPT !.status = "OK"] IN
    /\ th.pc = "fold"
    /\ \/ \* suppressed, exhausted or failed
          /\ \E status \in IF cancelled THEN {"CANCELLED"} ELSE {"OK", "ERROR"} :
                Released("statement", [n EXCEPT !.status = status])
          /\ Goto("drain")
       \/ \* the cache cannot be allocated: the chunk is there, but nothing reads it
          /\ ~cancelled /\ ~n.vectors
          /\ \E rows \in 0..MaxRows : Put("statement", [n EXCEPT !.chunk = rows, !.status = "ERROR"])
          /\ live' = live - Bit(nat["statement"].chunk # None) + 1
          /\ Goto("drain")
       \/ /\ ~cancelled
          /\ \E rows \in 0..MaxRows : Put("statement", CacheVectors(n, rows))
          /\ live' = live - Bit(nat["statement"].chunk # None) + 1 + Bit(~n.vectors)
          /\ \E pc \in {"fold", "drain"} : Goto(pc)
    /\ UNCHANGED <<Engine, epoch, cancelled, tx, p>>

\* destroy_result: the result is closed even if the native close raises.
DestroyResult ==
    /\ \/ th.pc = "drain"
       \/ Usable /\ p.result
    /\ Released("statement", ClearResult(nat["statement"]))
    /\ p' = [p EXCEPT !.result = FALSE]
    /\ th' = Resting
    /\ UNCHANGED <<Engine, epoch, cancelled, tx>>

\* force_close_child: clear_prepared and delete_prepared, then revoke_result.
ClosePrepared ==
    /\ th.pc = "idle" /\ p.state = "open"
    /\ Released("statement", NoOwner)
    /\ p' = NoStatement
    /\ th' = Resting
    /\ UNCHANGED <<Engine, epoch, cancelled, tx>>

-----------------------------------------------------------------------------
(* An explicit transaction of this connection.  A statement prepared outside *)
(* of it is lent to it by the statement cache (lend_child), call by call.    *)

BeginTransaction ==
    /\ th.pc = "idle" /\ ~tx.explicit /\ ~p.result /\ ~cancelled
    /\ tx' = [NoTransaction EXCEPT !.explicit = TRUE, !.spoilt = tx.spoilt]
    /\ UNCHANGED <<Engine, epoch, cancelled, p, nat, live, th>>

\* The callback alters the table itself, unless somebody else does.
Alter ==
    /\ th.pc = "idle" /\ tx.explicit /\ ~cancelled
    /\ ~p.result
    /\ schema.pending = None /\ Visible = schema.committed /\ Room
    /\ ddl.pc = "idle" /\ ~ddl.explicit
    /\ \E t \in Types : tx' = [tx EXCEPT !.snapshot = t, !.altered = TRUE, !.dirty = TRUE]
    /\ epoch' = epoch + 2
    /\ UNCHANGED <<Engine, cancelled, p, nat, live, th>>

\* The children of the transaction are destroyed, then it commits unless it is poisoned,
\* cancelled, or its callback raised.
EndTransaction ==
    /\ th.pc = "idle" /\ tx.explicit
    /\ p.result => p.home = "transaction"
    /\ IF p.home = "transaction"
       THEN Released("statement", NoOwner) /\ p' = NoStatement
       ELSE UNCHANGED <<nat, live, p>>
    /\ \E commits \in BOOLEAN :
          /\ commits => ~tx.failure /\ ~tx.raised /\ ~cancelled
          /\ schema' = IF commits /\ tx.altered
                       THEN [schema EXCEPT !.committed = tx.snapshot] ELSE schema
          /\ tx' = [NoTransaction EXCEPT !.spoilt = tx.spoilt \/ (commits /\ tx.stale)]
    /\ epoch' = epoch + Bit(tx.dirty)
    /\ th' = Resting
    /\ UNCHANGED <<ddl, cancelled>>

-----------------------------------------------------------------------------
Next ==
    \/ Other \/ Cancel
    \/ \E kind \in Kinds : PrepareOn(kind)
    \/ Extract \/ PrepareExtracted \/ CleanPrepare \/ Register \/ ReleasePrepared
    \/ \E bytes \in BOOLEAN : Bind(bytes)
    \/ BindCall \/ BindValue \/ Bound \/ Reset
    \/ Execute \/ BeginSnapshot \/ Validate \/ Compare \/ Run \/ Running \/ RunLeave \/ Ran
    \/ Commit \/ Publish \/ Fail
    \/ Fold \/ Fetch \/ DestroyResult \/ ClosePrepared
    \/ BeginTransaction \/ Alter \/ EndTransaction

Spec == Init /\ [][Next]_vars

-----------------------------------------------------------------------------
(* Reading the current chunk (lib/ffi/view_stubs.c): what each stub returns  *)
(* for any arguments.  Column 0 has elements of four bytes, column 1 is      *)
(* text.  A mask is the set of its bits that are on, those past the last row *)
(* included, or None.                                                        *)

Columns == 2
Width == [c \in 0..(Columns - 1) |-> IF c = 0 THEN 4 ELSE 0]

\* cached
Cached(n, c) == n.chunk # None /\ n.vectors /\ 0 <= c /\ c < Columns

\* readable
Readable(n, c, i, width) == Cached(n, c) /\ 0 <= i /\ i < n.rows /\ Width[c] = width

ValidRow(mask, i) == mask = None \/ i \in mask

\* read_T_or: the default for a NULL or a refused read.  Row i holds the value i + 1.
ReadOr(n, c, i, width, mask, d) == IF Readable(n, c, i, width) /\ ValidRow(mask, i) THEN i + 1 ELSE d

\* ml_duckdb_view_valid
ViewValid(n, c, i, mask) == Cached(n, c) /\ 0 <= i /\ i < n.rows /\ ValidRow(mask, i)

\* The mask a word at a time: word w of the first length rows, and its NULL bits.
Words(length) == {w \in 0..length : w * WordBits < length}
InWord(length, w) == Min({length - w * WordBits, WordBits})
Missing(mask, length, w) == {b \in 0..(InWord(length, w) - 1) : w * WordBits + b \notin mask}

Clamped(n, length) == IF length > n.rows THEN n.rows ELSE length

\* ml_duckdb_view_null_count
NullCount(n, c, length, mask) ==
    IF ~Cached(n, c) \/ mask = None THEN 0
    ELSE LET k == Clamped(n, length) IN MapThenSumSet(LAMBDA w : Cardinality(Missing(mask, k, w)), Words(k))

FirstNullUnmasked(n, c, length, mask) ==  \* mutant: bits past the last row are counted
    LET missing == {w \in Words(n.rows) : \E b \in 0..(WordBits - 1) : w * WordBits + b \notin mask} IN
    IF ~Cached(n, c) \/ mask = None \/ missing = {} THEN -1
    ELSE Min(missing) * WordBits + Min({b \in 0..(WordBits - 1) : Min(missing) * WordBits + b \notin mask})

\* ml_duckdb_view_first_null
FirstNull(n, c, length, mask) ==
    LET k == Clamped(n, length)
        missing == IF Cached(n, c) /\ mask # None THEN {w \in Words(k) : Missing(mask, k, w) # {}} ELSE {} IN
    IF missing = {} THEN -1
    ELSE Min(missing) * WordBits + Min(Missing(mask, k, Min(missing)))

\* Both blits refuse (copy nothing) when the rows are not there or do not fit.
Fits(n, c, length, array, pos) ==
    /\ Cached(n, c) /\ 0 <= length /\ length <= n.rows
    /\ 0 <= pos /\ pos <= Cardinality(DOMAIN array) - length

\* ml_duckdb_view_blit, into an array of elements of the given width.
Blit(n, c, length, mask, array, width, pos) ==
    IF ~Fits(n, c, length, array, pos) \/ Width[c] = 0 \/ Width[c] # width THEN array
    ELSE [k \in DOMAIN array |->
            IF k < pos \/ k >= pos + length THEN array[k]
            ELSE IF ValidRow(mask, k - pos) THEN k - pos + 1 ELSE 0]

\* ml_duckdb_view_blit_validity, into an array of bytes.
BlitValidity(n, c, length, mask, array, pos) ==
    IF ~Fits(n, c, length, array, pos) THEN array
    ELSE [k \in DOMAIN array |->
            IF k < pos \/ k >= pos + length THEN array[k] ELSE Bit(ValidRow(mask, k - pos))]

-----------------------------------------------------------------------------
(* Properties.                                                              *)

TypeOK ==
    /\ schema \in [committed : Types, pending : Types \cup {None}]
    /\ epoch \in 0..MaxEpoch
    /\ ddl \in [pc : {"idle", "entered", "executed", "settled"}, explicit : BOOLEAN, dirty : BOOLEAN]
    /\ cancelled \in BOOLEAN
    /\ tx \in [explicit : BOOLEAN, begun : BOOLEAN, snapshot : Types \cup {None}, altered : BOOLEAN,
               dirty : BOOLEAN, failure : BOOLEAN, raised : BOOLEAN, stale : BOOLEAN, spoilt : BOOLEAN]
    /\ p \in [state : {"none", "opening", "open"}, kind : Kinds, home : {"connection", "transaction"},
              types : ParameterTypes \cup {NoType}, bound : BOOLEAN, result : BOOLEAN,
              validated : 0..MaxEpoch \cup {None}]
    /\ nat \in [{"statement", "fresh"} -> Owner]
    /\ live \in Nat
    /\ th \in [pc : Pcs, owner : {"statement", "fresh"}, phase : {"none", "validate", "recheck"},
               before : 0..MaxEpoch \cup {None}, stale : BOOLEAN, status : {"none", "raised"}]

\* Whatever fails, is suppressed or raises, nothing native is lost or freed twice: the
\* count of live resources is what the owners hold, and between two calls a statement
\* holds its shell, its prepared statement and the result it has published, nothing else.
Accounted ==
    /\ live = Pieces(nat["statement"]) + Pieces(nat["fresh"])
    /\ th.pc = "idle" =>
        /\ nat["fresh"] = NoOwner
        /\ LET n == nat["statement"] IN
           /\ ~n.input /\ ~n.extracted /\ ~n.value /\ n.chunk = None
           /\ n.shell <=> p.state = "open"
           /\ n.prepared # NoType <=> p.state = "open"
           /\ n.result <=> p.result

\* "These stubs are memory-safe even when called wrongly": a read that is not refused is
\* inside the current chunk and goes through pointers of that chunk.
ReadsInBounds ==
    LET n == nat["statement"] IN
    \A c \in -1..Columns, i \in -1..(MaxRows + 1), width \in {0, 4, 8} :
        Readable(n, c, i, width) => n.pointing /\ i < n.chunk

\* Counting and finding NULLs a word at a time agrees with looking at every row, and the
\* blits write what reading row by row gives for exactly the rows they were asked for, or
\* nothing when they do not fit.
ViewsExact ==
    LET n == nat["statement"]
        array == [k \in 0..1 |-> -1] IN
    n.chunk # None /\ n.vectors =>
    \A length \in -1..(MaxRows + 1), mask \in SUBSET (0..(2 * WordBits - 1)) \cup {None} :
        LET nulls == {i \in 0..(Min({length, n.chunk}) - 1) : ~ViewValid(n, 0, i, mask)} IN
        /\ NullCount(n, 0, length, mask) = Cardinality(nulls)
        /\ FirstNull(n, 0, length, mask) = IF nulls = {} THEN -1 ELSE Min(nulls)
        /\ \A pos \in -1..1, width \in {4, 8} :
            LET out == Blit(n, 0, length, mask, array, width, pos)
                validity == BlitValidity(n, 0, length, mask, array, pos)
                fits == 0 <= length /\ length <= n.chunk /\ 0 <= pos /\ pos + length <= 2 IN
            /\ out = IF ~fits \/ width # 4 THEN array
                     ELSE [k \in 0..1 |-> IF k < pos \/ k >= pos + length THEN -1
                                          ELSE ReadOr(n, 0, k - pos, 4, mask, 0)]
            /\ validity = IF ~fits THEN array
                          ELSE [k \in 0..1 |-> IF k < pos \/ k >= pos + length THEN -1
                                               ELSE IF k - pos \in nulls THEN 0 ELSE 1]

\* A validated epoch keeps its meaning: as long as the schema epoch has that value and no
\* change is just taking effect, the parameter types are those of the committed schema.
ValidationSound ==
    p.state = "open" /\ p.kind = "plain" /\ p.validated = epoch /\ ~InFlight =>
        p.types = schema.committed

\* No effect of a silent conversion is ever committed, and no result of one published,
\* unless a schema change was just taking effect when the epoch was read after execution:
\* a mismatch fails before publication and the owner of the snapshot rolls back, now or,
\* in an explicit transaction, when it ends.
NothingConverted ==
    /\ ~tx.spoilt
    /\ th.pc = "idle" /\ p.result => ~th.stale

\* "A reader that sees no change across a window knows no schema change became visible in
\* it": an execution that passed its validation ran with the types it was bound for.
ValidatedExecution == th.pc = "commit" /\ p.kind = "plain" => p.types = tx.snapshot
=============================================================================
