--------------------------- MODULE StatementCache ---------------------------
(***************************************************************************)
(* Requests through the statement cache of one connection                  *)
(* (Request.with_statement, Resource.cache_find, cache_add, cache_remove,  *)
(* lend_child, force_close_child, Query.prepare_on, bind_scalar,           *)
(* execute_prepared, close_result), by threads that share the connection.  *)
(*                                                                         *)
(* A request outside a transaction that misses the cache prepares a        *)
(* statement, validates it and enters it; a request that finds one borrows *)
(* it: child.transaction is set for the loan, inside a transaction to its  *)
(* token.  Each operation on a statement is admitted by that field.  A     *)
(* request has one parameter.  Closing the connection, bridged requests    *)
(* (which never cache) and waiting in wait_until are in ConnectionGate: a  *)
(* thread that waits here just is not scheduled.                           *)
(***************************************************************************)
EXTENDS Gate, Sequences, SequencesExt

CONSTANTS
    Requests,    \* request values: the keys of the cache (r.id)
    Statements,  \* the statements that can exist at one time
    Capacity,    \* Config.statement_cache, at least 1
    None         \* no statement, no request

VARIABLES
    gate,    \* the gate of the connection; gate.result is a statement or Nobody
    cached,  \* owner.cached: statements, most recently used first
    stmt,    \* Query.prepared with its Resource.child
    active,  \* tx.active of the token of each thread
    th       \* program counters and locals

vars == <<gate, cached, stmt, active, th>>

NoStatement == [state |-> "Closed_state", key |-> None, tx |-> Nobody, bound |-> FALSE,
                result |-> Nobody]

\* callback: inside the callback of its own transaction; cache: the request uses
\* the cache; todo: statements to close by force, after which it goes on at next.
NoThread == [pc |-> "rest", callback |-> FALSE, key |-> None, cache |-> FALSE, st |-> None,
             todo |-> <<>>, next |-> "rest"]

Init ==
    /\ gate = OpenGate
    /\ cached = <<>>
    /\ stmt = [s \in Statements |-> NoStatement]
    /\ active = [t \in Threads |-> FALSE]
    /\ th = [t \in Threads |-> NoThread]

Goto(t, pc) == th' = [th EXCEPT ![t].pc = pc]

Finished(t) == th' = [th EXCEPT ![t] = [NoThread EXCEPT !.callback = th[t].callback]]

\* The transaction that the request was called with.
Own(t) == IF th[t].callback THEN t ELSE Nobody

TokenActive(tx) == tx = Nobody \/ active[tx]

\* A statement that nothing refers to any more can stand for a new one.
Fresh == {s \in Statements :
            /\ stmt[s].state = "Closed_state" /\ s \notin Range(cached)
            /\ \A t \in Threads : s # th[t].st /\ s \notin Range(th[t].todo)}

-----------------------------------------------------------------------------
(* with_transaction: the lease, the callback, revocation, settlement.       *)

WithTransaction(t) ==
    /\ th[t].pc = "rest" /\ ~th[t].callback
    /\ Unleased(gate)
    /\ gate' = [gate EXCEPT !.lease = t]
    /\ active' = [active EXCEPT ![t] = TRUE]
    /\ th' = [th EXCEPT ![t].callback = TRUE]
    /\ UNCHANGED <<cached, stmt>>

Revoke(t) ==
    /\ th[t].pc = "rest" /\ th[t].callback
    /\ active' = [active EXCEPT ![t] = FALSE]
    /\ Goto(t, "drain")
    /\ UNCHANGED <<gate, cached, stmt>>

\* COMMIT or ROLLBACK once the connection is idle, then release; the statements
\* prepared in the callback are closed by then and cached ones are not children.
Settle(t) ==
    /\ th[t].pc = "drain" /\ Idle(gate)
    /\ gate' = [gate EXCEPT !.lease = Nobody]
    /\ th' = [th EXCEPT ![t] = NoThread]
    /\ UNCHANGED <<cached, stmt, active>>

-----------------------------------------------------------------------------
(* with_statement: find, prepare, add, lend.                                *)

Entries(key) == SelectSeq(cached, LAMBDA s : stmt[s].key = key)
Without(key) == SelectSeq(cached, LAMBDA s : stmt[s].key # key)

\* cache_find: a hit is exactly one entry, which becomes the most recently used.
CacheFind(t, key) ==
    IF Len(Entries(key)) = 1
    THEN /\ cached' = Entries(key) \o Without(key)
         /\ th' = [th EXCEPT ![t].pc = "lend", ![t].key = key, ![t].cache = TRUE,
                             ![t].st = Head(Entries(key))]
    ELSE /\ UNCHANGED cached
         /\ th' = [th EXCEPT ![t].pc = "prepare", ![t].key = key, ![t].cache = ~th[t].callback]

Request(t, key, oneshot) ==
    /\ th[t].pc = "rest"
    /\ IF oneshot
       THEN UNCHANGED cached /\ th' = [th EXCEPT ![t].pc = "prepare", ![t].key = key]
       ELSE CacheFind(t, key)
    /\ UNCHANGED <<gate, stmt, active>>

\* with_admission around prepare_on.
Prepare(t) ==
    /\ th[t].pc = "prepare"
    /\ IF TokenActive(Own(t)) /\ Admits(gate, Nobody, FALSE, Own(t), Nobody)
       THEN gate' = Claim(gate) /\ Goto(t, "preparing")
       ELSE UNCHANGED gate /\ Finished(t)
    /\ UNCHANGED <<cached, stmt, active>>

\* A cached statement is registered without a transaction, as prepare_cached is
\* only called outside one.
Prepared(t) ==
    /\ th[t].pc = "preparing"
    /\ gate' = FinishOperation(gate)
    /\ \/ \E s \in Fresh :
            /\ stmt' = [stmt EXCEPT ![s] = [NoStatement EXCEPT !.state = "Open",
                                               !.key = th[t].key, !.tx = Own(t)]]
            /\ th' = [th EXCEPT ![t].pc = "validate", ![t].st = s]
       \/ UNCHANGED stmt /\ Finished(t)
    /\ UNCHANGED <<cached, active>>

\* What follows the use of the statement, or its failure.
AfterUse(t) == IF th[t].cache THEN "unlend" ELSE "close"

\* cache_add: the entries beyond the capacity are closed before the loan.
CacheAdd(t) ==
    LET entries == <<th[t].st>> \o cached IN
    /\ th[t].pc = "add"
    /\ cached' = SubSeq(entries, 1, Min({Capacity, Len(entries)}))
    /\ th' = [th EXCEPT ![t].pc = "force", ![t].next = "lend",
                        ![t].todo = SubSeq(entries, Capacity + 1, Len(entries))]
    /\ UNCHANGED <<gate, stmt, active>>

LendChild(t) ==
    /\ th[t].pc = "lend"
    /\ stmt' = [stmt EXCEPT ![th[t].st].tx = Own(t)]
    /\ Goto(t, "bind")
    /\ UNCHANGED <<gate, cached, active>>

\* The finally of lend_child.
Unlend(t) ==
    /\ th[t].pc = "unlend"
    /\ stmt' = [stmt EXCEPT ![th[t].st].tx = Nobody]
    /\ Finished(t)
    /\ UNCHANGED <<gate, cached, active>>

\* cache_remove, after Parameter_schema_changed and still inside the loan.
CacheRemove(t) ==
    /\ th[t].pc = "remove"
    /\ cached' = Without(th[t].key)
    /\ th' = [th EXCEPT ![t].pc = "force", ![t].next = "unlend", ![t].todo = Entries(th[t].key)]
    /\ UNCHANGED <<gate, stmt, active>>

\* The finally of scoped, and the failed validation of a statement not yet cached.
Close(t) ==
    /\ th[t].pc = "close"
    /\ th' = [th EXCEPT ![t].pc = "force", ![t].next = "rest", ![t].todo = <<th[t].st>>]
    /\ UNCHANGED <<gate, cached, stmt, active>>

-----------------------------------------------------------------------------
(* use: validate, bind, execute, close the result; each is child_operation. *)

Operations == {"validate", "bind", "execute", "close_result"}

\* The pc of a thread inside the operation [op].
Inside == [validate |-> "validating", bind |-> "binding", execute |-> "executing",
           close_result |-> "closing_result"]

AfterError(t, op) == IF op = "validate" THEN "close" ELSE AfterUse(t)

\* close_result has nothing to do: the result or its statement is closed already.
ResultGone(t) == stmt[th[t].st].result # t \/ stmt[th[t].st].state = "Closed_state"

Operate(t, op) ==
    LET s == th[t].st IN
    /\ th[t].pc = op
    /\ IF op = "close_result" /\ ResultGone(t)
       THEN UNCHANGED gate /\ Goto(t, AfterUse(t))
       ELSE IF /\ stmt[s].state = "Open" /\ TokenActive(stmt[s].tx)
               /\ Admits(gate, Nobody, FALSE, stmt[s].tx, s)
            THEN gate' = Claim(gate) /\ Goto(t, Inside[op])
            ELSE UNCHANGED gate /\ Goto(t, AfterError(t, op))
    /\ UNCHANGED <<cached, stmt, active>>

\* validate: check_parameters and column_types against what the request declares.
Validated(t) ==
    /\ th[t].pc = Inside["validate"]
    /\ gate' = FinishOperation(gate)
    /\ \E ok \in BOOLEAN :
         Goto(t, IF ~ok THEN "close" ELSE IF th[t].cache THEN "add" ELSE "bind")
    /\ UNCHANGED <<cached, stmt, active>>

\* bind_scalar: refused beside a result; a failed bind leaves the parameter unbound.
Bound(t) ==
    LET s == th[t].st IN
    /\ th[t].pc = Inside["bind"]
    /\ gate' = FinishOperation(gate)
    /\ IF stmt[s].result # Nobody
       THEN UNCHANGED stmt /\ Goto(t, AfterUse(t))
       ELSE \E ok \in BOOLEAN :
              /\ stmt' = [stmt EXCEPT ![s].bound = ok]
              /\ Goto(t, IF ok THEN "execute" ELSE AfterUse(t))
    /\ UNCHANGED <<cached, active>>

\* execute_prepared: publishes a result, fails, or finds the parameter types
\* changed, which evicts a cached statement.
Executed(t) ==
    LET s == th[t].st IN
    /\ th[t].pc = Inside["execute"]
    /\ \/ /\ stmt[s].result = Nobody /\ stmt[s].bound
          /\ stmt' = [stmt EXCEPT ![s].result = t]
          /\ gate' = FinishOperation([gate EXCEPT !.result = s])
          /\ Goto(t, "close_result")
       \/ /\ gate' = FinishOperation(gate)
          /\ Goto(t, AfterUse(t))
          /\ UNCHANGED stmt
       \/ /\ stmt[s].result = Nobody /\ stmt[s].bound /\ th[t].cache
          /\ gate' = FinishOperation(gate)
          /\ Goto(t, "remove")
          /\ UNCHANGED stmt
    /\ UNCHANGED <<cached, active>>

\* destroy_result
ResultClosed(t) ==
    LET s == th[t].st IN
    /\ th[t].pc = Inside["close_result"]
    /\ stmt' = [stmt EXCEPT ![s].result = Nobody]
    /\ gate' = FinishOperation(ReleaseResult(gate, s))
    /\ Goto(t, AfterUse(t))
    /\ UNCHANGED <<cached, active>>

-----------------------------------------------------------------------------
(* force_close_child, for each statement in todo.                           *)

\* Somebody's transaction has the connection, and it is not one that still runs
\* and that the statement belongs to.
ForeignLease(s) ==
    gate.lease # Nobody /\ ~(active[gate.lease] /\ stmt[s].tx = gate.lease)

\* Marked at once; a statement that is closed already is passed over.
ForceBegin(t) ==
    /\ th[t].pc = "force"
    /\ IF th[t].todo = <<>>
       THEN /\ IF th[t].next = "rest" THEN Finished(t) ELSE Goto(t, th[t].next)
            /\ UNCHANGED stmt
       ELSE LET s == Head(th[t].todo) IN
            IF stmt[s].state = "Closed_state"
            THEN UNCHANGED stmt /\ th' = [th EXCEPT ![t].todo = Tail(@)]
            ELSE stmt' = [stmt EXCEPT ![s].state = "Closing"] /\ Goto(t, "force_wait")
    /\ UNCHANGED <<gate, cached, active>>

\* The wait is over: another thread has closed it meanwhile, or this one will.
ForceAwake(t) ==
    LET s == Head(th[t].todo) IN
    /\ th[t].pc = "force_wait"
    /\ Idle(gate) /\ ~ForeignLease(s)
    /\ IF stmt[s].state = "Closed_state"
       THEN UNCHANGED gate /\ th' = [th EXCEPT ![t].pc = "force", ![t].todo = Tail(@)]
       ELSE gate' = Claim(gate) /\ Goto(t, "destroying")
    /\ UNCHANGED <<cached, stmt, active>>

\* child.cleanup revokes the result; unregister_child; finish_operation.
Destroyed(t) ==
    LET s == Head(th[t].todo) IN
    /\ th[t].pc = "destroying"
    /\ stmt' = [stmt EXCEPT ![s].state = "Closed_state", ![s].result = Nobody]
    /\ gate' = FinishOperation(ReleaseResult(gate, s))
    /\ th' = [th EXCEPT ![t].pc = "force", ![t].todo = Tail(@)]
    /\ UNCHANGED <<cached, active>>

Next ==
    \E t \in Threads :
        \/ WithTransaction(t) \/ Revoke(t) \/ Settle(t)
        \/ \E key \in Requests, oneshot \in BOOLEAN : Request(t, key, oneshot)
        \/ Prepare(t) \/ Prepared(t) \/ CacheAdd(t) \/ LendChild(t) \/ Unlend(t)
        \/ CacheRemove(t) \/ Close(t)
        \/ \E op \in Operations : Operate(t, op)
        \/ Validated(t) \/ Bound(t) \/ Executed(t) \/ ResultClosed(t)
        \/ ForceBegin(t) \/ ForceAwake(t) \/ Destroyed(t)

Spec == Init /\ [][Next]_vars

-----------------------------------------------------------------------------

InEngine == {"preparing", "destroying"} \cup {Inside[op] : op \in Operations}

\* While a transaction has the connection, from its admission to its settlement,
\* nobody but the thread it was given to prepares, binds, executes, reads or closes
\* anything on it (with_transaction: "Exclusive for the complete callback and
\* commit/rollback"), whichever requests other threads had begun before.
TransactionExclusive ==
    \A t \in Threads : th[t].pc \in InEngine /\ gate.lease # Nobody => gate.lease = t
=============================================================================
