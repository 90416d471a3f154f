--------------------------- MODULE ConnectionGate ---------------------------
(***************************************************************************)
(* Databases, connections, transactions, bridged requests and statements   *)
(* as threads share them (lib/duckdb/resource.ml, lib/duckdb/query.ml).    *)
(*                                                                         *)
(* A connection is admitted to one operation at a time (busy), to one      *)
(* transaction (lease) or to one request (request_lease); a statement may  *)
(* also hold it with an open result.  The scopes revoke what escaped from  *)
(* them and wait for what was admitted before they settle, and closing a   *)
(* parent waits for its children.                                          *)
(*                                                                         *)
(* An operation that is refused (Busy, Closed, Cancelled) changes nothing, *)
(* so it is not a step.  The gates' mutexes are held for one step each;    *)
(* Condition.wait puts the thread to sleep until someone signals.  What    *)
(* happens inside a request, native delivery included, is in BridgeRun.    *)
(***************************************************************************)
EXTENDS Gate, Naturals

CONSTANTS
    Connections,
    Escaping    \* kinds of handle that threads other than their owner may use

ASSUME EscapingAssumption == Escaping \subseteq {"token", "statement", "facade"}
ASSUME ConnectionsAssumption == Connections # {}

VARIABLES
    gate,     \* OwnerGate of each connection
    native,   \* the native handle of each connection
    txn,      \* the engine has an open transaction on the connection
    db,       \* the database: its gate, its children and its native handle
    tok,      \* the transaction token of each thread
    stmt,     \* the prepared statement of each thread (Resource.child)
    req,      \* the bridged request of each thread
    th,       \* program counters and locals
    asleep    \* threads inside Condition.wait

vars == <<gate, native, txn, db, tok, stmt, req, th, asleep>>

NoToken == [active |-> FALSE, via |-> Nobody, poisoned |-> FALSE]
NoStatement == [state |-> "Closed_state", on |-> CHOOSE c \in Connections : TRUE,
                via |-> Nobody, tx |-> Nobody]

\* A thread outside every operation: in no scope, or inside the callback of its
\* transaction (tx) or of its request (run), both on the connection [on].
NoThread == [pc |-> "rest", on |-> CHOOSE c \in Connections : TRUE, via |-> Nobody,
             child |-> Nobody, tx |-> FALSE, run |-> FALSE, owed |-> FALSE, durable |-> FALSE,
             result |-> "none", todo |-> {}, ret |-> "rest", conns |-> {}]

Pcs == {"rest", "connect", "connected", "operate", "prepare", "statement", "close_result",
        "begin", "began", "work", "commit", "committed", "publish", "rollback",
        "revoke", "drain", "destroy", "decide", "discard", "unlease", "release", "finish",
        "close_child", "close_conn", "destroy_all", "close_native", "mark", "unregister",
        "close_db", "db_revoke", "db_next", "db_native",
        "quiesce", "settle", "req_settle", "req_finish"}

Init ==
    /\ gate = [c \in Connections |-> OpenGate]
    /\ native = [c \in Connections |-> "none"]
    /\ txn = [c \in Connections |-> FALSE]
    /\ db = [state |-> "Open", busy |-> FALSE, children |-> {}, native |-> "open"]
    /\ tok = [t \in Threads |-> NoToken]
    /\ stmt = [t \in Threads |-> NoStatement]
    /\ req = [t \in Threads |-> [state |-> "Finished", cancelled |-> FALSE]]
    /\ th = [t \in Threads |-> NoThread]
    /\ asleep = {}

-----------------------------------------------------------------------------
(* Threads.                                                                 *)

Goto(t, pc) == th' = [th EXCEPT ![t].pc = pc]

\* The thread of the record [r] is back in its callback, or in no scope at all.
AtRest(r) ==
    [NoThread EXCEPT !.on = IF r.tx \/ r.run THEN r.on ELSE NoThread.on,
                     !.tx = r.tx, !.run = r.run]

Rest(t) == th' = [th EXCEPT ![t] = AtRest(th[t])]

\* A thread can start something on c: scopes are entered and left in order, and
\* what it does inside one it does on the connection of that scope.
Free(t, c) == th[t].pc = "rest" /\ (th[t].tx \/ th[t].run => th[t].on = c)
Outside(t) == th[t].pc = "rest" /\ ~th[t].tx /\ ~th[t].run

Set(c, g) == gate' = [gate EXCEPT ![c] = g]

Waiting(c) == {t \in asleep : th[t].on = c /\ th[t].pc # "close_db"}
SignalLost(c) == asleep' = asleep  \* mutant: no Condition.broadcast
Signal(c) == asleep' = asleep \ Waiting(c)
SignalDatabase == asleep' = {t \in asleep : th[t].pc # "close_db"}

\* t may use a handle that [owner] made; tokens and statements that came from a
\* request's facade [via] stay with its thread.
Reaches(t, owner, kind, via) == t = owner \/ (kind \in Escaping /\ via = Nobody)

Running(via) == via # Nobody /\ req[via].state = "Running"

\* checkpoint
Passes(via) == via # Nobody => req[via].state = "Running" /\ ~req[via].cancelled

\* The callback of t's transaction has been called, so its token is about.
Given(t) == th[t].tx /\ th[t].pc \notin {"begin", "began"}

\* connect has returned the connection to its caller.
Returned(c) ==
    native[c] \notin {"none", "opening"} /\ \A t \in Threads : th[t].pc = "connected" => th[t].on # c

Exists(k) == stmt[k].state # "Closed_state"
Listed(c) == {k \in Threads : Exists(k) /\ stmt[k].on = c}

-----------------------------------------------------------------------------
(* connect                                                                  *)

Connect(t, c) ==
    /\ Outside(t) /\ native[c] = "none"
    /\ db.state = "Open" /\ ~db.busy
    /\ db' = [db EXCEPT !.busy = TRUE]
    /\ native' = [native EXCEPT ![c] = "opening"]
    /\ th' = [th EXCEPT ![t].pc = "connect", ![t].on = c]
    /\ UNCHANGED <<gate, txn, tok, stmt, req, asleep>>

Register(c) == db.children \cup {c}

\* duckdb_connect; the connection is registered before the database is released.
ConnectReturn(t) ==
    LET c == th[t].on IN
    /\ th[t].pc = "connect"
    /\ \/ /\ native' = [native EXCEPT ![c] = "open"]
          /\ db' = [db EXCEPT !.children = Register(c)]
       \/ /\ native' = [native EXCEPT ![c] = "none"]
          /\ UNCHANGED db
    /\ Goto(t, "connected")
    /\ UNCHANGED <<gate, txn, tok, stmt, req, asleep>>

ConnectFinish(t) ==
    /\ th[t].pc = "connected"
    /\ db' = [db EXCEPT !.busy = FALSE]
    /\ SignalDatabase
    /\ Rest(t)
    /\ UNCHANGED <<gate, native, txn, tok, stmt, req>>

-----------------------------------------------------------------------------
(* admit_operation.  [live] was checked by the caller.                      *)

Admit(t, c, via, tx, holder, pc) ==
    /\ Returned(c)
    /\ Admits(gate[c], via, Running(via), tx, holder)
    /\ Set(c, Claim(gate[c]))
    /\ th' = [th EXCEPT ![t].pc = pc, ![t].on = c, ![t].via = via, ![t].child = holder]
    /\ UNCHANGED <<native, txn, db, tok, stmt, req, asleep>>

\* execute and prepare, plain ...
OnConnection(t, c, via, pc) ==
    /\ Free(t, c)
    /\ via \in {Nobody, t} \/ ("facade" \in Escaping /\ pc = "operate")
    /\ Admit(t, c, via, Nobody, Nobody, pc)

\* ... and with a transaction's token: require live, that is tx.active.
OnToken(t, tx, pc) ==
    LET via == tok[tx].via IN
    /\ Given(tx) /\ tok[tx].active
    /\ Free(t, th[tx].on) /\ Reaches(t, tx, "token", via)
    /\ Admit(t, th[tx].on, via, tx, Nobody, pc)

\* Statements are told apart by their thread, which prepares another one when
\* nobody knows the last one any more.
MayPrepare(t) == ~Exists(t) /\ \A u \in Threads : th[u].child # t

Operation(t) ==
    \E pc \in {"operate"} \cup (IF MayPrepare(t) THEN {"prepare"} ELSE {}) :
        \/ \E c \in Connections, via \in Anybody : OnConnection(t, c, via, pc)
        \/ \E tx \in Threads : OnToken(t, tx, pc)

\* The statement ran; what an appender could not write poisons the transaction.
OperateReturn(t) ==
    LET c == th[t].on IN
    /\ th[t].pc = "operate"
    /\ \/ UNCHANGED tok
       \/ /\ gate[c].lease # Nobody
          /\ tok' = [tok EXCEPT ![gate[c].lease].poisoned = TRUE]
    /\ Set(c, FinishOperation(gate[c]))
    /\ Signal(c)
    /\ Rest(t)
    /\ UNCHANGED <<native, txn, db, stmt, req>>

\* prepare_on: the child is registered before the operation finishes.
PrepareReturn(t) ==
    LET c == th[t].on IN
    /\ th[t].pc = "prepare"
    /\ \/ UNCHANGED stmt
       \/ /\ Passes(th[t].via)
          /\ stmt' = [stmt EXCEPT ![t] = [state |-> "Open", on |-> c, via |-> th[t].via,
                                          tx |-> gate[c].lease]]
    /\ Set(c, FinishOperation(gate[c]))
    /\ Signal(c)
    /\ Rest(t)
    /\ UNCHANGED <<native, txn, db, tok, req>>

\* child_operation on the statement of k.
OnStatement(t, k, pc) ==
    /\ stmt[k].state = "Open" /\ (stmt[k].tx # Nobody => tok[stmt[k].tx].active)
    /\ Free(t, stmt[k].on) /\ Reaches(t, k, "statement", stmt[k].via)
    /\ Admit(t, stmt[k].on, stmt[k].via, stmt[k].tx, k, pc)

\* execute_prepared runs in the transaction of its statement or else in one of its
\* own (with_child_snapshot).  bind, reset and a second execution find the open
\* result and change nothing.
StatementCall(t) ==
    \E k \in Threads :
        \/ OnStatement(t, k, "statement")
        \/ /\ gate[stmt[k].on].result = Nobody
           /\ OnStatement(t, k, IF stmt[k].tx = Nobody THEN "begin" ELSE "work")
        \/ OnStatement(t, k, "close_result")

StatementReturn(t) ==
    /\ th[t].pc = "statement"
    /\ Goto(t, "finish")
    /\ UNCHANGED <<gate, native, txn, db, tok, stmt, req, asleep>>

\* close_result and the end of a fold; only a fold is stopped by a cancellation.
CloseResultReturn(t) ==
    LET c == th[t].on IN
    /\ th[t].pc = "close_result"
    /\ \/ Set(c, ReleaseResult(gate[c], th[t].child))
       \/ ~Passes(th[t].via) /\ UNCHANGED gate
    /\ Goto(t, "finish")
    /\ UNCHANGED <<native, txn, db, tok, stmt, req, asleep>>

\* finish_operation
Finish(t) ==
    LET c == th[t].on IN
    /\ th[t].pc = "finish"
    /\ Set(c, FinishOperation(gate[c]))
    /\ Signal(c)
    /\ Rest(t)
    /\ UNCHANGED <<native, txn, db, tok, stmt, req>>

-----------------------------------------------------------------------------
(* in_native_transaction, for with_transaction and with_child_snapshot.     *)

Snapshot(t) == th[t].child # Nobody

\* settle: an error rolls back; a transaction is revoked and drained first.
Fails(t, result, owed) ==
    th' = [th EXCEPT ![t].pc = IF Snapshot(t) THEN "rollback" ELSE "revoke",
                     ![t].ret = "rollback", ![t].result = result, ![t].owed = owed]

\* The checks of with_transaction; the lease is the claim.
WithTransaction(t, c, via) ==
    /\ Free(t, c) /\ ~th[t].tx
    /\ via = IF th[t].run THEN t ELSE Nobody
    /\ Returned(c)
    /\ FacadeAccess(gate[c], via, Running(via)) /\ Passes(via)
    /\ Available(gate[c]) /\ Unleased(gate[c])
    /\ Set(c, [gate[c] EXCEPT !.lease = t])
    /\ tok' = [tok EXCEPT ![t] = [active |-> TRUE, via |-> via, poisoned |-> FALSE]]
    /\ th' = [th EXCEPT ![t].pc = "begin", ![t].on = c, ![t].via = via, ![t].tx = TRUE]
    /\ UNCHANGED <<native, txn, db, stmt, req, asleep>>

\* raw_begin: a suppressed BEGIN owes no rollback, a failed one does.
Begin(t) ==
    LET c == th[t].on IN
    /\ th[t].pc = "begin"
    /\ \/ ~Passes(th[t].via) /\ Fails(t, "Cancelled", FALSE) /\ UNCHANGED txn
       \/ Passes(th[t].via) /\ Fails(t, "Error", TRUE) /\ UNCHANGED txn
       \/ /\ Passes(th[t].via)
          /\ txn' = [txn EXCEPT ![c] = TRUE]
          /\ th' = [th EXCEPT ![t].pc = "began", ![t].owed = TRUE]
    /\ UNCHANGED <<gate, native, db, tok, stmt, req, asleep>>

\* The body: the user's callback, or the execution of a statement.
Began(t) ==
    /\ th[t].pc = "began"
    /\ \/ ~Passes(th[t].via) /\ Fails(t, "Cancelled", TRUE)
       \/ Passes(th[t].via) /\ Goto(t, IF Snapshot(t) THEN "work" ELSE "rest")
    /\ UNCHANGED <<gate, native, txn, db, tok, stmt, req, asleep>>

WorkReturn(t) ==
    LET own == stmt[th[t].child].tx = Nobody IN
    /\ th[t].pc = "work"
    /\ \/ Passes(th[t].via) /\ Goto(t, IF own THEN "commit" ELSE "publish")
       \/ own /\ Fails(t, IF Passes(th[t].via) THEN "Error" ELSE "Cancelled", TRUE)
       \/ ~own /\ Goto(t, "finish")
    /\ UNCHANGED <<gate, native, txn, db, tok, stmt, req, asleep>>

\* The callback returns or raises; statements it prepared in its scope are closed.
BodyReturns(t) ==
    /\ th[t].pc = "rest" /\ th[t].tx
    /\ ~(Exists(t) /\ stmt[t].tx = t)
    /\ \E result \in {"Ok", "Error"} :
        th' = [th EXCEPT ![t].pc = "revoke", ![t].ret = "decide", ![t].result = result,
                         ![t].via = tok[t].via, ![t].owed = TRUE]
    /\ UNCHANGED <<gate, native, txn, db, tok, stmt, req, asleep>>

Drained(g) == Idle(g)

\* revoke_and_drain, up to the snapshot of the statements of the transaction.
RevokeAndDrain(t) ==
    LET c == th[t].on IN
    /\ th[t].pc \in {"revoke", "drain"} /\ t \notin asleep
    /\ tok' = [tok EXCEPT ![t].active = FALSE]
    /\ IF Drained(gate[c])
       THEN /\ th' = [th EXCEPT ![t].pc = "destroy",
                                ![t].todo = {k \in Listed(c) : stmt[k].tx = t}]
            /\ UNCHANGED asleep
       ELSE Goto(t, "drain") /\ asleep' = asleep \cup {t}
    /\ UNCHANGED <<gate, native, txn, db, stmt, req>>

\* destroy_each: each statement is destroyed, its result revoked and the child
\* unregistered.
Destroyed(ks) ==
    stmt' = [k \in Threads |-> IF k \in ks THEN [stmt[k] EXCEPT !.state = "Closed_state"] ELSE stmt[k]]

RevokedResult(g, ks) == [g EXCEPT !.result = IF @ \in ks THEN Nobody ELSE @]

Destroy(t) ==
    LET c == th[t].on IN
    /\ th[t].pc = "destroy"
    /\ Destroyed(th[t].todo)
    /\ Set(c, RevokedResult(gate[c], th[t].todo))
    /\ th' = [th EXCEPT ![t].pc = th[t].ret, ![t].todo = {}]
    /\ UNCHANGED <<native, txn, db, tok, req, asleep>>

PoisonIgnored(t) == FALSE  \* mutant: tx.failure is not consulted

Poisoned(t) == tok[t].poisoned

Decide(t) ==
    /\ th[t].pc = "decide"
    /\ IF th[t].result = "Ok" /\ ~Poisoned(t) THEN Goto(t, "commit") ELSE Fails(t, "Error", TRUE)
    /\ UNCHANGED <<gate, native, txn, db, tok, stmt, req, asleep>>

\* raw_commit.  A COMMIT that fails may have ended the transaction or not.
Commit(t) ==
    LET c == th[t].on IN
    /\ th[t].pc = "commit"
    /\ \/ ~Passes(th[t].via) /\ Fails(t, "Cancelled", TRUE) /\ UNCHANGED txn
       \/ /\ Passes(th[t].via)
          /\ \E open \in BOOLEAN : txn' = [txn EXCEPT ![c] = open]
          /\ Fails(t, "Error", TRUE)
       \/ /\ Passes(th[t].via)
          /\ txn' = [txn EXCEPT ![c] = FALSE]
          /\ th' = [th EXCEPT ![t].pc = "committed", ![t].owed = FALSE, ![t].durable = TRUE]
    /\ UNCHANGED <<gate, native, db, tok, stmt, req, asleep>>

Committed(t) ==
    /\ th[t].pc = "committed"
    /\ \/ ~Passes(th[t].via) /\ Fails(t, "Cancelled", FALSE)
       \/ Passes(th[t].via) /\ Goto(t, IF Snapshot(t) THEN "publish" ELSE "release")
    /\ UNCHANGED <<gate, native, txn, db, tok, stmt, req, asleep>>

\* publish: the result reserves the connection for its statement.
Publish(t) ==
    LET c == th[t].on IN
    /\ th[t].pc = "publish"
    /\ \/ Passes(th[t].via) /\ Set(c, [gate[c] EXCEPT !.result = th[t].child])
       \/ ~Passes(th[t].via) /\ UNCHANGED gate
    /\ Goto(t, "finish")
    /\ UNCHANGED <<native, txn, db, tok, stmt, req, asleep>>

RollbackAssumed(t) == "release"  \* mutant: a failed rollback is ignored

RollbackFailed(t) == IF Snapshot(t) THEN "destroy_all" ELSE "discard"

\* rollback_if_begun; there must be a transaction to roll back.
Rollback(t) ==
    LET c == th[t].on IN
    /\ th[t].pc = "rollback"
    /\ \/ /\ th[t].owed => txn[c]
          /\ txn' = [txn EXCEPT ![c] = FALSE]
          /\ Goto(t, IF Snapshot(t) THEN "finish" ELSE "release")
       \/ /\ th[t].owed
          /\ th' = [th EXCEPT ![t].pc = RollbackFailed(t),
                              ![t].ret = IF Snapshot(t) THEN "finish" ELSE "release"]
          /\ UNCHANGED txn
    /\ UNCHANGED <<gate, native, db, tok, stmt, req, asleep>>

\* discard: begin_discard, release, destroy_connection.
Discard(t) ==
    /\ th[t].pc = "discard"
    /\ Set(th[t].on, BeginDiscard(gate[th[t].on]))
    /\ Goto(t, "unlease")
    /\ UNCHANGED <<native, txn, db, tok, stmt, req, asleep>>

LeaseKept(g) == g  \* mutant: release forgets owner.lease

ReleaseLease(g) == [g EXCEPT !.lease = Nobody]

Unlease(t) ==
    LET c == th[t].on IN
    /\ th[t].pc = "unlease"
    /\ Set(c, ReleaseLease(gate[c]))
    /\ Signal(c)
    /\ Goto(t, "destroy_all")
    /\ UNCHANGED <<native, txn, db, tok, stmt, req>>

\* The token is gone for good: closed statements of it match no later one.
Release(t) ==
    LET c == th[t].on IN
    /\ th[t].pc = "release"
    /\ Set(c, ReleaseLease(gate[c]))
    /\ Signal(c)
    /\ tok' = [tok EXCEPT ![t] = NoToken]
    /\ stmt' = [k \in Threads |-> IF stmt[k].tx = t THEN [stmt[k] EXCEPT !.tx = Nobody] ELSE stmt[k]]
    /\ th' = [th EXCEPT ![t] = AtRest([th[t] EXCEPT !.tx = FALSE])]
    /\ UNCHANGED <<native, txn, db, req>>

-----------------------------------------------------------------------------
(* Closing.                                                                 *)

ForeignLeaseByToken(c, k) ==  \* mutant: a revoked token still closes its statements
    gate[c].lease \notin {Nobody, stmt[k].tx}

ForeignLease(c, k) ==
    LET tx == gate[c].lease IN tx # Nobody /\ ~(tok[tx].active /\ stmt[k].tx = tx)

\* force_close_child: revoke the statement, wait, claim the connection.  Inside its
\* transaction a thread closes only what it prepared there.
ForceCloseChild(t, k) ==
    LET c == stmt[k].on
        called == /\ Free(t, c) /\ Exists(k)
                  /\ Reaches(t, k, "statement", stmt[k].via)
                  /\ th[t].tx => stmt[k].tx = t
    IN /\ called
       /\ stmt' = [stmt EXCEPT ![k].state = "Closing"]
       /\ IF Idle(gate[c]) /\ ~ForeignLease(c, k)
          THEN /\ Set(c, Claim(gate[c]))
               /\ th' = [th EXCEPT ![t].pc = "destroy", ![t].on = c, ![t].via = stmt[k].via,
                                   ![t].todo = {k}, ![t].ret = "finish"]
               /\ UNCHANGED asleep
          ELSE /\ th' = [th EXCEPT ![t].pc = "close_child", ![t].on = c, ![t].child = k]
               /\ asleep' = asleep \cup {t}
               /\ UNCHANGED gate
       /\ UNCHANGED <<native, txn, db, tok, req>>

\* The wait of force_close_child ends: the statement may be closed by then.
ChildWake(t) ==
    LET k == th[t].child
        c == th[t].on
    IN /\ th[t].pc = "close_child" /\ t \notin asleep
       /\ \/ /\ ~Idle(gate[c]) \/ ForeignLease(c, k)
             /\ asleep' = asleep \cup {t}
             /\ UNCHANGED <<gate, th>>
          \/ /\ Idle(gate[c]) /\ ~ForeignLease(c, k) /\ ~Exists(k)
             /\ Rest(t)
             /\ UNCHANGED <<gate, asleep>>
          \/ /\ Idle(gate[c]) /\ ~ForeignLease(c, k) /\ Exists(k)
             /\ Set(c, Claim(gate[c]))
             /\ th' = [th EXCEPT ![t].pc = "destroy", ![t].todo = {k}, ![t].ret = "finish"]
             /\ UNCHANGED asleep
       /\ UNCHANGED <<native, txn, db, tok, stmt, req>>

-----------------------------------------------------------------------------
(* destroy_connection, by whoever claimed the whole connection.             *)

DestroyAll(t) ==
    LET c == th[t].on IN
    /\ th[t].pc = "destroy_all"
    /\ Destroyed(Listed(c))
    /\ Set(c, RevokedResult(gate[c], Listed(c)))
    /\ Goto(t, "close_native")
    /\ UNCHANGED <<native, txn, db, tok, req, asleep>>

CloseNative(t) ==
    /\ th[t].pc = "close_native"
    /\ native' = [native EXCEPT ![th[t].on] = "closed"]
    /\ txn' = [txn EXCEPT ![th[t].on] = FALSE]
    /\ Goto(t, "mark")
    /\ UNCHANGED <<gate, db, tok, stmt, req, asleep>>

Mark(t) ==
    /\ th[t].pc = "mark"
    /\ Set(th[t].on, MarkClosed(gate[th[t].on]))
    /\ Signal(th[t].on)
    /\ Goto(t, "unregister")
    /\ UNCHANGED <<native, txn, db, tok, stmt, req>>

\* unregister; then back to whoever wanted the connection destroyed.
Unregister(t) ==
    /\ th[t].pc = "unregister"
    /\ db' = [db EXCEPT !.children = @ \ {th[t].on}]
    /\ IF th[t].ret = "rest" THEN Rest(t) ELSE Goto(t, th[t].ret)
    /\ UNCHANGED <<gate, native, txn, tok, stmt, req, asleep>>

\* close_connection refuses while anything of the connection is in use.
CloseConnection(t, c) ==
    /\ Outside(t) /\ Returned(c)
    /\ Available(gate[c])
    /\ Unleased(gate[c]) /\ gate[c].request = Nobody /\ Listed(c) = {}
    /\ Set(c, BeginDiscard(gate[c]))
    /\ th' = [th EXCEPT ![t].pc = "destroy_all", ![t].on = c, ![t].ret = "rest"]
    /\ UNCHANGED <<native, txn, db, tok, stmt, req, asleep>>

Quiescent(g) == Idle(g) /\ g.lease = Nobody /\ g.request = Nobody

\* force_close of a connection: revoke, wait until it is quiescent, claim it; the
\* thread continues at ret.
ForceClose(t, c, ret) ==
    /\ IF gate[c].state = "Closed_state"
       THEN /\ th' = [th EXCEPT ![t] = IF ret = "rest" THEN AtRest(th[t])
                                       ELSE [th[t] EXCEPT !.pc = ret]]
            /\ UNCHANGED <<gate, asleep>>
       ELSE IF Quiescent(gate[c])
       THEN /\ Set(c, BeginDiscard(gate[c]))
            /\ th' = [th EXCEPT ![t].pc = "destroy_all", ![t].on = c, ![t].ret = ret]
            /\ UNCHANGED asleep
       ELSE /\ Set(c, [gate[c] EXCEPT !.state = "Closing"])
            /\ th' = [th EXCEPT ![t].pc = "close_conn", ![t].on = c, ![t].ret = ret]
            /\ asleep' = asleep \cup {t}
    /\ UNCHANGED <<native, txn, db, tok, stmt, req>>

\* The end of with_connection.
ForceCloseConnection(t, c) ==
    /\ Outside(t) /\ Returned(c) /\ gate[c].state # "Closed_state"
    /\ ForceClose(t, c, "rest")

CloseWake(t) ==
    /\ th[t].pc = "close_conn" /\ t \notin asleep
    /\ ForceClose(t, th[t].on, th[t].ret)

-----------------------------------------------------------------------------
(* The database.                                                            *)

CloseDatabase(t) ==
    /\ Outside(t)
    /\ db.state = "Open" /\ ~db.busy /\ db.children = {}
    /\ db' = [db EXCEPT !.state = "Closing", !.busy = TRUE]
    /\ Goto(t, "db_native")
    /\ UNCHANGED <<gate, native, txn, tok, stmt, req, asleep>>

\* force_close of the database; the children are read under the claim.
ForceCloseDatabase(t) ==
    /\ \/ Outside(t) /\ db.state # "Closed_state"
       \/ th[t].pc = "close_db" /\ t \notin asleep
    /\ IF db.state = "Closed_state" THEN Rest(t) /\ UNCHANGED <<db, asleep>>
       ELSE IF ~db.busy
       THEN /\ db' = [db EXCEPT !.state = "Closing", !.busy = TRUE]
            /\ th' = [th EXCEPT ![t].pc = "db_revoke", ![t].conns = db.children]
            /\ UNCHANGED asleep
       ELSE /\ db' = [db EXCEPT !.state = "Closing"]
            /\ Goto(t, "close_db")
            /\ asleep' = asleep \cup {t}
    /\ UNCHANGED <<gate, native, txn, tok, stmt, req>>

\* Every child is revoked before any one is waited for.
DatabaseRevoke(t) ==
    /\ th[t].pc = "db_revoke"
    /\ \/ \E c \in th[t].conns :
            /\ gate[c].state = "Open"
            /\ Set(c, [gate[c] EXCEPT !.state = "Closing"])
            /\ UNCHANGED th
       \/ /\ \A c \in th[t].conns : gate[c].state # "Open"
          /\ Goto(t, "db_next")
          /\ UNCHANGED gate
    /\ UNCHANGED <<native, txn, db, tok, stmt, req, asleep>>

DatabaseNext(t) ==
    /\ th[t].pc = "db_next"
    /\ \/ /\ th[t].conns = {}
          /\ Goto(t, "db_native")
       \/ \E c \in th[t].conns :
            th' = [th EXCEPT ![t].pc = "close_conn", ![t].on = c, ![t].ret = "db_next",
                             ![t].conns = @ \ {c}]
    /\ UNCHANGED <<gate, native, txn, db, tok, stmt, req, asleep>>

\* destroy_database: duckdb_close, mark_closed.
DestroyDatabase(t) ==
    /\ th[t].pc = "db_native"
    /\ db' = [db EXCEPT !.native = "closed", !.state = "Closed_state", !.busy = FALSE]
    /\ SignalDatabase
    /\ Rest(t)
    /\ UNCHANGED <<gate, native, txn, tok, stmt, req>>

-----------------------------------------------------------------------------
(* Bridge.run, as far as the gate sees it.                                  *)

\* admit_request
Run(t, c) ==
    /\ Outside(t) /\ Returned(c)
    /\ FacadeAccess(gate[c], Nobody, FALSE) /\ Available(gate[c])
    /\ Unleased(gate[c]) /\ Listed(c) = {}
    /\ Set(c, [gate[c] EXCEPT !.request = t])
    /\ req' = [req EXCEPT ![t] = [state |-> "Running", cancelled |-> FALSE]]
    /\ th' = [th EXCEPT ![t].on = c, ![t].run = TRUE]
    /\ UNCHANGED <<native, txn, db, tok, stmt, asleep>>

Cancel(t) ==
    /\ req[t].state # "Finished" /\ ~req[t].cancelled
    /\ req' = [req EXCEPT ![t].cancelled = TRUE]
    /\ UNCHANGED <<gate, native, txn, db, tok, stmt, th, asleep>>

\* The callback returns: the facade is revoked, its operations and transactions
\* are waited for.
Quiesce(t) ==
    LET c == th[t].on IN
    /\ \/ th[t].pc = "rest" /\ th[t].run /\ ~th[t].tx /\ ~(Exists(t) /\ stmt[t].via = t)
       \/ th[t].pc = "quiesce" /\ t \notin asleep
    /\ req' = [req EXCEPT ![t].state = "Quiescing"]
    /\ IF Idle(gate[c]) /\ gate[c].lease = Nobody
       THEN Goto(t, "settle") /\ UNCHANGED asleep
       ELSE Goto(t, "quiesce") /\ asleep' = asleep \cup {t}
    /\ UNCHANGED <<gate, native, txn, db, tok, stmt>>

\* destroy_children of the request, whose cleanup claims nothing.
Settle(t) ==
    LET c == th[t].on IN
    /\ th[t].pc = "settle"
    /\ req' = [req EXCEPT ![t].state = "Settling"]
    /\ th' = [th EXCEPT ![t].pc = "destroy", ![t].ret = "req_settle",
                        ![t].todo = {k \in Listed(c) : stmt[k].via = t}]
    /\ UNCHANGED <<gate, native, txn, db, tok, stmt, asleep>>

\* detach_request; an interrupted connection is discarded.
RequestSettle(t) ==
    LET c == th[t].on IN
    /\ th[t].pc = "req_settle"
    /\ \/ Goto(t, "req_finish") /\ UNCHANGED gate
       \/ /\ req[t].cancelled
          /\ Set(c, BeginDiscard(gate[c]))
          /\ th' = [th EXCEPT ![t].pc = "destroy_all", ![t].ret = "req_finish"]
    /\ UNCHANGED <<native, txn, db, tok, stmt, req, asleep>>

RequestFinish(t) ==
    LET c == th[t].on IN
    /\ th[t].pc = "req_finish"
    /\ Set(c, [gate[c] EXCEPT !.request = Nobody])
    /\ req' = [req EXCEPT ![t] = [state |-> "Finished", cancelled |-> FALSE]]
    /\ Signal(c)
    /\ th' = [th EXCEPT ![t] = NoThread]
    /\ UNCHANGED <<native, txn, db, tok, stmt>>

-----------------------------------------------------------------------------
\* What a caller decides to start.
Call(t) ==
    \/ Operation(t) \/ StatementCall(t)
    \/ \E c \in Connections :
        \/ Connect(t, c) \/ CloseConnection(t, c) \/ ForceCloseConnection(t, c) \/ Run(t, c)
        \/ \E via \in Anybody : WithTransaction(t, c, via)
    \/ \E k \in Threads \ {t} : ForceCloseChild(t, k)
    \/ CloseDatabase(t)
    \/ Outside(t) /\ ForceCloseDatabase(t)

\* What a thread that is inside an operation does next.
Continue(t) ==
    \/ ConnectReturn(t) \/ ConnectFinish(t)
    \/ OperateReturn(t) \/ PrepareReturn(t) \/ StatementReturn(t) \/ CloseResultReturn(t)
    \/ Finish(t)
    \/ Begin(t) \/ Began(t) \/ WorkReturn(t) \/ RevokeAndDrain(t) \/ Destroy(t) \/ Decide(t)
    \/ Commit(t) \/ Committed(t) \/ Publish(t) \/ Rollback(t) \/ Discard(t) \/ Unlease(t)
    \/ Release(t)
    \/ ChildWake(t) \/ DestroyAll(t) \/ CloseNative(t) \/ Mark(t) \/ Unregister(t) \/ CloseWake(t)
    \/ th[t].pc = "close_db" /\ ForceCloseDatabase(t)
    \/ DatabaseRevoke(t) \/ DatabaseNext(t) \/ DestroyDatabase(t)
    \/ th[t].pc = "quiesce" /\ Quiesce(t)
    \/ Settle(t) \/ RequestSettle(t) \/ RequestFinish(t)

\* The callback of a scope returns: of with_prepared, with_transaction, Bridge.run.
Leave(t) == ForceCloseChild(t, t) \/ BodyReturns(t) \/ (th[t].pc = "rest" /\ Quiesce(t))

Next == \E t \in Threads : Call(t) \/ Continue(t) \/ Leave(t) \/ Cancel(t)

\* Threads run, engine calls return and callbacks end.
Fairness == \A t \in Threads : WF_vars(Continue(t)) /\ SF_vars(Leave(t))

Spec == Init /\ [][Next]_vars
FairSpec == Spec /\ Fairness

-----------------------------------------------------------------------------
(* Properties.                                                              *)

\* Types; and a connection is leased to a thread that is inside with_transaction or
\* Bridge.run on it.
TypeOK ==
    /\ gate \in [Connections -> OwnerGate]
    /\ native \in [Connections -> {"none", "opening", "open", "closed"}]
    /\ txn \in [Connections -> BOOLEAN]
    /\ db \in [state : GateStates, busy : BOOLEAN, children : SUBSET Connections,
               native : {"open", "closed"}]
    /\ tok \in [Threads -> [active : BOOLEAN, via : Anybody, poisoned : BOOLEAN]]
    /\ stmt \in [Threads -> [state : GateStates, on : Connections, via : Anybody, tx : Anybody]]
    /\ req \in [Threads -> [state : {"Running", "Quiescing", "Settling", "Finished"},
                            cancelled : BOOLEAN]]
    /\ th \in [Threads -> [pc : Pcs, on : Connections, via : Anybody, child : Anybody,
                           tx : BOOLEAN, run : BOOLEAN, owed : BOOLEAN, durable : BOOLEAN,
                           result : {"none", "Ok", "Error", "Cancelled"},
                           todo : SUBSET Threads, ret : Pcs, conns : SUBSET Connections]]
    /\ asleep \subseteq Threads
    /\ \A c \in Connections, t \in Threads :
        /\ gate[c].lease = t => th[t].tx /\ th[t].on = c
        /\ gate[c].request = t => th[t].run /\ th[t].on = c

\* The thread is inside native code on its connection, or about to enter it.
Using(t) ==
    \/ th[t].pc \in {"operate", "prepare", "statement", "close_result", "begin", "work", "commit",
                     "close_native", "req_settle"}
    \/ th[t].pc = "rollback" /\ th[t].owed
    \/ th[t].pc = "destroy" /\ th[t].todo # {}
    \/ th[t].pc = "destroy_all" /\ Listed(th[t].on) # {}

\* "All callers own exclusive operation/transaction admission": two threads are
\* never inside native code on one connection, and nobody is on one that was closed.
ExclusiveUse ==
    \A t \in Threads : Using(t) =>
        /\ \A u \in Threads \ {t} : Using(u) => th[u].on # th[t].on
        /\ th[t].pc \notin {"close_native", "req_settle"} => native[th[t].on] = "open"

\* Nothing outlives its owner: a statement its connection, its transaction's lease
\* or its request's, a result its statement, a connection its database.  Nor does a
\* transaction of the engine outlive its scope: a connection somebody else may be
\* admitted to has none left open, whatever BEGIN, COMMIT and ROLLBACK answered.
NothingOutlives ==
    /\ \A k \in Threads : Exists(k) =>
        LET g == gate[stmt[k].on] IN
        /\ native[stmt[k].on] = "open"
        /\ stmt[k].tx # Nobody => g.lease = stmt[k].tx
        /\ stmt[k].via # Nobody => g.request = stmt[k].via
    /\ \A c \in Connections :
        /\ gate[c].result # Nobody => gate[c].result \in Listed(c)
        /\ native[c] \in {"opening", "open"} => db.native = "open"
        /\ txn[c] /\ gate[c].state = "Open" => gate[c].busy \/ gate[c].lease # Nobody

\* "First appender failure prevents transaction commit even if ignored", also one an
\* admitted operation meets after the callback returned; success means durable and
\* an error other than a cancellation means not durable.
HonestOutcome ==
    \A t \in Threads : th[t].pc = "release" =>
        /\ th[t].result = "Ok" => th[t].durable
        /\ th[t].result = "Error" => ~th[t].durable
        /\ tok[t].poisoned => ~th[t].durable

\* Scoped closing and settlement end: nobody waits for a signal that was sent before
\* or for a thread that waits for it (under Fairness).
ScopesEnd ==
    \A t \in Threads :
        th[t].pc \in {"close_conn", "close_db", "drain", "quiesce"} ~> th[t].pc = "rest"
=============================================================================
