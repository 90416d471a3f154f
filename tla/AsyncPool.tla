----------------------------- MODULE AsyncPool -----------------------------
(***************************************************************************)
(* The connection pool of the Async adapter (lib/async/duckdb_async.ml).   *)
(*                                                                         *)
(* One scheduler thread owns every mutable field of the pool.  Each slot   *)
(* has a helper thread that runs one leased request at a time; one more    *)
(* helper, [maintenance], closes and reopens connections and finally       *)
(* closes the database.  A job given to a helper comes back as a           *)
(* continuation on the scheduler, so between the dispatch of a job, its    *)
(* run and its continuation any other step can happen.                     *)
(*                                                                         *)
(* A request is [Pack r]; the pool is generous about them, so a finished   *)
(* handle may be forgotten and its identity used for a new request.  That  *)
(* gives the unbounded stream of requests a long-lived pool serves.        *)
(***************************************************************************)
EXTENDS Naturals, SequencesExt

CONSTANTS
    Requests,        \* identities of the requests alive at the same time
    Connections,     \* Limits.connections
    QueueCapacity,   \* Limits.queue_capacity
    NoRequest        \* slot.lease = None

\* Limits.create rejects every other pair of limits.
ASSUME LimitsAssumption ==
    /\ Connections \in Nat \ {0}
    /\ QueueCapacity \in Nat
    /\ NoRequest \notin Requests

VARIABLES
    lifecycle,       \* pool.lifecycle
    queue,           \* pool.queue, oldest first
    slots,           \* pool.slots, in list order
    requests,        \* every request record reachable from a handle
    maintenance,     \* pool.maintenance_busy and the job its helper holds
    shutdownResult,  \* pool.shutdown_result
    database         \* the W.database: open until W.close_database ran

vars == <<lifecycle, queue, slots, requests, maintenance, shutdownResult, database>>

Slots == 1..Connections

-----------------------------------------------------------------------------
(* State of the records.                                                    *)

Lifecycles == {"Accepting", "Stopping", "Stopped"}
SlotStates == {"Idle", "Leased", "Needs_close", "Closing", "Needs_connect",
               "Connecting", "Closed", "Close_failed"}
RequestStates == {"Absent", "Queued", "Dispatched", "Settling", "Finished"}
Executions == {"Awaiting_entry", "Executing", "Returned"}

\* Execute is the one operation after which a connection may be reused.
Operations == {"Execute", "Other"}
NoOperation == "None"

\* What a worker's result can say: a value, Expected Cancelled (or the core's
\* own Cancelled), or any other failure.
Outcomes == {"Ok", "Cancelled", "Failed"}
NoOutcome == "None"

\* What [finish] can publish: an outcome, the failure wrapped in
\* During_cancellation, or Expected Pool_shutdown.
Results == Outcomes \cup {"During_cancellation", "Pool_shutdown"}

\* slot.owner: no connection, a connection only plain statements succeeded on,
\* or one some other request ran on (its session state is unknown).
Owners == {"none", "clean", "tainted"}

Slot == [state : SlotStates, owner : Owners, lease : Requests \cup {NoRequest},
         \* the job of the slot's helper thread: none, handed over, or returned
         job : {"none", "handed"} \cup Outcomes,
         \* slot.cleanup_result is an Error
         failed : BOOLEAN]

Request == [state : RequestStates, operation : Operations \cup {NoOperation},
            execution : Executions, cancelled : BOOLEAN,
            outcome : Outcomes \cup {NoOutcome},
            result : Results \cup {NoOutcome}]

Maintenance == [job : {"none", "close", "connect", "close_database"},
                slot : Slots, result : {"pending", "Ok", "Error"}]

NewRequest(operation) ==
    [state |-> "Queued", operation |-> operation, execution |-> "Awaiting_entry",
     cancelled |-> FALSE, outcome |-> NoOutcome, result |-> NoOutcome]

AbsentRequest == [NewRequest(NoOperation) EXCEPT !.state = "Absent"]

NoJob == [job |-> "none", slot |-> 1, result |-> "pending"]

-----------------------------------------------------------------------------
(* The synchronous helpers the handlers are made of.                        *)

Latch(r) == [r EXCEPT !.cancelled = TRUE]

ClassifyLateSuccess(r, result) ==  \* mutant: success is not reclassified
    IF r.cancelled /\ result # "Ok" THEN "Cancelled" ELSE result

Classify(r, result) ==
    IF ~r.cancelled THEN result
    ELSE IF result \in {"Ok", "Cancelled"} THEN "Cancelled"
    ELSE "During_cancellation"

Finish(r, result) ==
    [r EXCEPT !.state = "Finished", !.operation = NoOperation, !.outcome = NoOutcome,
              !.result = Classify(r, result)]

Queued(r) == Contains(queue, r)

HeldBy(sl, r) == {s \in Slots : sl[s].lease = r}

\* finish_lease: the request slot s holds is published with its outcome.
FinishLease(sl, rq, s) ==
    [r \in Requests |-> IF r = sl[s].lease THEN Finish(rq[r], rq[r].outcome) ELSE rq[r]]

\* add_lease_cleanup with an Error: combine makes any outcome a failure.
AddLeaseCleanup(sl, rq, s) ==
    [r \in Requests |-> IF r = sl[s].lease THEN [rq[r] EXCEPT !.outcome = "Failed"] ELSE rq[r]]

\* stop, on the slots: an idle connection must be closed, a slot without one is
\* already closed (and its lease, if any, is finished).
StopSlots(sl) ==
    [s \in Slots |->
        CASE sl[s].state = "Idle" -> [sl[s] EXCEPT !.state = "Needs_close"]
          [] sl[s].state = "Needs_connect" ->
                [sl[s] EXCEPT !.state = "Closed", !.lease = NoRequest]
          [] OTHER -> sl[s]]

\* stop, on the requests: the queue settles as Pool_shutdown and every leased
\* request is latched.
StopRequests(sl, rq) ==
    [r \in Requests |->
        IF Queued(r) THEN Finish(rq[r], "Pool_shutdown")
        ELSE IF \E s \in HeldBy(sl, r) : sl[s].state = "Needs_connect"
        THEN Finish(Latch(rq[r]), rq[r].outcome)
        ELSE IF HeldBy(sl, r) # {} THEN Latch(rq[r])
        ELSE rq[r]]

-----------------------------------------------------------------------------
(* pump: the one maintenance job at a time, chosen in list order.           *)

NeedingClose(sl) == {s \in Slots : sl[s].state = "Needs_close"}  \* mutant: no reconnect

Needing(sl) == {s \in Slots : sl[s].state \in {"Needs_close", "Needs_connect"}}

AllClosedOrLeased(sl) ==  \* mutant: running work does not hold the database
    \A s \in Slots : sl[s].state \in {"Closed", "Close_failed", "Leased"}

AllClosedCleanly(sl) == \A s \in Slots : sl[s].state = "Closed"  \* mutant: no Close_failed

AllClosed(sl) == \A s \in Slots : sl[s].state \in {"Closed", "Close_failed"}

MaintenanceJob(sl, s) ==
    /\ slots' = [sl EXCEPT ![s].state =
                    IF sl[s].state = "Needs_close" THEN "Closing" ELSE "Connecting"]
    /\ maintenance' = [job |-> IF sl[s].state = "Needs_close" THEN "close" ELSE "connect",
                       slot |-> s, result |-> "pending"]

\* pump from slots sl in lifecycle lc, when the maintenance helper holds [busy].
Pump(sl, lc, busy) ==
    \/ /\ busy.job # "none"
       /\ slots' = sl /\ maintenance' = busy
    \/ /\ busy.job = "none"
       /\ Needing(sl) # {}
       /\ MaintenanceJob(sl, Min(Needing(sl)))
    \/ /\ busy.job = "none"
       /\ Needing(sl) = {}
       /\ slots' = sl
       /\ maintenance' = IF lc = "Stopping" /\ AllClosed(sl)
                         THEN [NoJob EXCEPT !.job = "close_database"] ELSE NoJob

-----------------------------------------------------------------------------
(* dispatch and dispatch_waiting.                                           *)

DispatchedSlot(slot, r) == [slot EXCEPT !.state = "Leased", !.lease = r, !.job = "handed"]

DispatchedRequest(r) == [r EXCEPT !.state = "Dispatched"]

GivenNone(sl, s) == NoRequest  \* mutant: dispatch_waiting is not called

GivenNewest(sl, s) ==  \* mutant: remove_last for remove_first
    IF sl[s].state = "Idle" /\ queue # <<>> THEN queue[Len(queue)] ELSE NoRequest

\* dispatch_waiting walks the slots in order and gives each idle one the oldest
\* request still queued: Given(sl, s) is what slot s gets.
Given(sl, s) ==
    LET before == Cardinality({t \in Slots : t < s /\ sl[t].state = "Idle"})
    IN IF sl[s].state = "Idle" /\ before < Len(queue) THEN queue[before + 1] ELSE NoRequest

WaitingSlots(sl) ==
    [s \in Slots |-> IF Given(sl, s) = NoRequest THEN sl[s] ELSE DispatchedSlot(sl[s], Given(sl, s))]

WaitingRequests(sl, rq) ==
    [r \in Requests |-> IF \E s \in Slots : Given(sl, s) = r THEN DispatchedRequest(rq[r]) ELSE rq[r]]

WaitingQueuePeek(sl) == queue  \* mutant: Doubly_linked.first for remove_first

WaitingQueue(sl) ==
    SubSeq(queue, Cardinality({s \in Slots : Given(sl, s) # NoRequest}) + 1, Len(queue))

-----------------------------------------------------------------------------
(* Operations callers invoke on the scheduler.                              *)

Init ==
    /\ lifecycle = "Accepting"
    /\ queue = <<>>
    /\ slots = [s \in Slots |-> [state |-> "Idle", owner |-> "clean", lease |-> NoRequest,
                                 job |-> "none", failed |-> FALSE]]
    /\ requests = [r \in Requests |-> AbsentRequest]
    /\ maintenance = NoJob
    /\ shutdownResult = "None"
    /\ database = "open"

\* admit: an idle slot is looked for only when nobody is queued.
IdleSlots == IF queue = <<>> THEN {s \in Slots : slots[s].state = "Idle"} ELSE {}

QueueHasRoom == Len(queue) < QueueCapacity

AdmitIdle(r, operation) ==
    /\ lifecycle = "Accepting"
    /\ requests[r].state = "Absent"
    /\ IdleSlots # {}
    /\ LET s == Min(IdleSlots)
       IN slots' = [slots EXCEPT ![s] = DispatchedSlot(slots[s], r)]
    /\ requests' = [requests EXCEPT ![r] = DispatchedRequest(NewRequest(operation))]
    /\ UNCHANGED <<lifecycle, queue, maintenance, shutdownResult, database>>

AdmitQueued(r, operation) ==
    /\ lifecycle = "Accepting"
    /\ requests[r].state = "Absent"
    /\ IdleSlots = {}
    /\ QueueHasRoom
    /\ queue' = Append(queue, r)
    /\ requests' = [requests EXCEPT ![r] = NewRequest(operation)]
    /\ UNCHANGED <<lifecycle, slots, maintenance, shutdownResult, database>>

\* The caller drops a finished handle; its identity may name a new request.
Forget(r) ==
    /\ requests[r].state = "Finished"
    /\ requests' = [requests EXCEPT ![r] = AbsentRequest]
    /\ UNCHANGED <<lifecycle, queue, slots, maintenance, shutdownResult, database>>

\* cancel removes a queued request and publishes Cancelled at once; of a
\* dispatched or settling one it only sets the latch.
CancelQueued(r) ==
    /\ requests[r].state = "Queued"
    /\ \E i \in 1..Len(queue) : queue[i] = r /\ queue' = RemoveAt(queue, i)
    /\ requests' = [requests EXCEPT ![r] = Finish(Latch(requests[r]), "Cancelled")]
    /\ UNCHANGED <<lifecycle, slots, maintenance, shutdownResult, database>>

CancelActive(r) ==
    /\ requests[r].state \in {"Dispatched", "Settling"}
    /\ ~requests[r].cancelled
    /\ requests' = [requests EXCEPT ![r] = Latch(requests[r])]
    /\ UNCHANGED <<lifecycle, queue, slots, maintenance, shutdownResult, database>>

\* shutdown: stop, then pump; only the first call changes anything.
Shutdown ==
    /\ lifecycle = "Accepting"
    /\ lifecycle' = "Stopping"
    /\ queue' = <<>>
    /\ requests' = StopRequests(slots, requests)
    /\ Pump(StopSlots(slots), "Stopping", maintenance)
    /\ UNCHANGED <<shutdownResult, database>>

-----------------------------------------------------------------------------
(* The helper thread of slot s running the [work] dispatch gave it.         *)

\* work enters the execution gate, unless a cancellation came first.
WorkerEnter(s) ==
    LET r == slots[s].lease IN
    /\ slots[s].job = "handed"
    /\ requests[r].execution = "Awaiting_entry"
    /\ IF requests[r].cancelled
       THEN /\ requests' = [requests EXCEPT ![r].execution = "Returned"]
            /\ slots' = [slots EXCEPT ![s].job = "Cancelled"]
       ELSE /\ requests' = [requests EXCEPT ![r].execution = "Executing"]
            /\ UNCHANGED slots
    /\ UNCHANGED <<lifecycle, queue, maintenance, shutdownResult, database>>

\* The bridged operation returns.  Bridge.run reports Cancelled only after the
\* canceller was told; anything but a successful Execute leaves the connection
\* in a state nobody vouches for.
WorkerReturn(s) ==
    LET r == slots[s].lease IN
    /\ slots[s].job = "handed"
    /\ requests[r].execution = "Executing"
    /\ requests' = [requests EXCEPT ![r].execution = "Returned"]
    /\ \E outcome \in Outcomes :
        /\ outcome = "Cancelled" => requests[r].cancelled
        /\ slots' = [slots EXCEPT ![s].job = outcome,
                        ![s].owner = IF requests[r].operation = "Execute" /\ outcome = "Ok"
                                     THEN slots[s].owner ELSE "tainted"]
    /\ UNCHANGED <<lifecycle, queue, maintenance, shutdownResult, database>>

\* offload: In_thread.run itself raises, and the work never starts.
OffloadUnavailable(s) ==
    /\ slots[s].job = "handed"
    /\ requests[slots[s].lease].execution = "Awaiting_entry"
    /\ slots' = [slots EXCEPT ![s].job = "Failed"]
    /\ UNCHANGED <<lifecycle, queue, requests, maintenance, shutdownResult, database>>

-----------------------------------------------------------------------------
(* The continuation of dispatch: the worker's result reaches the scheduler. *)

ReusableDespiteLatch(s) ==  \* mutant: a cancelled Execute keeps its connection
    /\ requests[slots[s].lease].operation = "Execute"
    /\ slots[s].job = "Ok"
    /\ lifecycle = "Accepting"

Reusable(s) ==
    LET r == slots[s].lease IN
    /\ requests[r].operation = "Execute"
    /\ slots[s].job = "Ok"
    /\ lifecycle = "Accepting"
    /\ ~requests[r].cancelled

\* r.state <- Settling; r.outcome <- Some result.
SettlingRequest(s) ==
    [requests EXCEPT ![slots[s].lease].state = "Settling",
                     ![slots[s].lease].outcome = slots[s].job]

SettleReuse(s) ==
    /\ slots[s].job \in Outcomes
    /\ Reusable(s)
    /\ LET sl == [slots EXCEPT ![s].state = "Idle", ![s].job = "none", ![s].lease = NoRequest]
           rq == FinishLease(slots, SettlingRequest(s), s)
       IN /\ slots' = WaitingSlots(sl)
          /\ requests' = WaitingRequests(sl, rq)
          /\ queue' = WaitingQueue(sl)
    /\ UNCHANGED <<lifecycle, maintenance, shutdownResult, database>>

SettleRetire(s) ==
    /\ slots[s].job \in Outcomes
    /\ ~Reusable(s)
    /\ requests' = SettlingRequest(s)
    /\ Pump([slots EXCEPT ![s].state = "Needs_close", ![s].job = "none"], lifecycle, maintenance)
    /\ UNCHANGED <<lifecycle, queue, shutdownResult, database>>

-----------------------------------------------------------------------------
(* The maintenance helper and the continuations of its jobs.                *)

\* W.close_slot, W.connect or W.close_database runs off the scheduler.
MaintenanceRun ==
    /\ maintenance.job # "none"
    /\ maintenance.result = "pending"
    /\ \E result \in {"Ok", "Error"} :
        /\ maintenance' = [maintenance EXCEPT !.result = result]
        /\ database' = IF maintenance.job = "close_database" /\ result = "Ok"
                       THEN "closed" ELSE database
    /\ UNCHANGED <<lifecycle, queue, slots, requests, shutdownResult>>

\* A close or a connect failed: the slot ends in [state], its cleanup failure joins
\* the outcome of its request, slot_failure stops the pool (which latches that
\* request too), then the lease is finished.
SlotFailure(s, state) ==
    LET stopping == lifecycle = "Accepting"
        sl == [slots EXCEPT ![s].state = state, ![s].failed = TRUE, ![s].lease = NoRequest]
        rq == AddLeaseCleanup(slots, requests, s)
    IN /\ lifecycle' = IF stopping THEN "Stopping" ELSE lifecycle
       /\ queue' = IF stopping THEN <<>> ELSE queue
       /\ requests' = FinishLease(slots, IF stopping THEN StopRequests(slots, rq) ELSE rq, s)
       /\ Pump(IF stopping THEN StopSlots(sl) ELSE sl, "Stopping", NoJob)
       /\ UNCHANGED <<shutdownResult, database>>

CloseFailed ==
    /\ maintenance.job = "close" /\ maintenance.result = "Error"
    /\ SlotFailure(maintenance.slot, "Close_failed")

ConnectFailed ==
    /\ maintenance.job = "connect" /\ maintenance.result = "Error"
    /\ SlotFailure(maintenance.slot, "Closed")

\* The closed connection is replaced while the pool accepts work; its request
\* stays leased until the replacement is there.
CloseDone ==
    /\ maintenance.job = "close" /\ maintenance.result = "Ok"
    /\ LET s == maintenance.slot
           sl == [slots EXCEPT ![s].owner = "none"]
       IN \/ /\ lifecycle = "Accepting"
             /\ Pump([sl EXCEPT ![s].state = "Needs_connect"], lifecycle, NoJob)
             /\ UNCHANGED requests
          \/ /\ lifecycle # "Accepting"
             /\ requests' = FinishLease(slots, requests, s)
             /\ Pump([sl EXCEPT ![s].state = "Closed", ![s].lease = NoRequest], lifecycle, NoJob)
    /\ UNCHANGED <<lifecycle, queue, shutdownResult, database>>

\* The replacement arrived: the lease ends and the queue moves; or the pool began
\* to stop meanwhile, and the new connection must be closed again.
ConnectDone ==
    /\ maintenance.job = "connect" /\ maintenance.result = "Ok"
    /\ LET s == maintenance.slot
           sl == [slots EXCEPT ![s].owner = "clean"]
       IN \/ LET idle == [sl EXCEPT ![s].state = "Idle", ![s].lease = NoRequest]
             IN /\ lifecycle = "Accepting"
                /\ requests' = WaitingRequests(idle, FinishLease(slots, requests, s))
                /\ queue' = WaitingQueue(idle)
                /\ Pump(WaitingSlots(idle), lifecycle, NoJob)
          \/ /\ lifecycle # "Accepting"
             /\ Pump([sl EXCEPT ![s].state = "Needs_close"], lifecycle, NoJob)
             /\ UNCHANGED <<requests, queue>>
    /\ UNCHANGED <<lifecycle, shutdownResult, database>>

DatabaseDoneAtOnce ==  \* mutant: the continuation does not wait for the helper
    /\ maintenance.job = "close_database"
    /\ lifecycle' = "Stopped"
    /\ maintenance' = NoJob
    /\ shutdownResult' = maintenance.result
    /\ UNCHANGED <<queue, slots, requests, database>>

\* The last continuation folds every slot's cleanup result and the database's
\* own into shutdown_result and releases the helpers.
DatabaseDone ==
    /\ maintenance.job = "close_database" /\ maintenance.result # "pending"
    /\ lifecycle' = "Stopped"
    /\ maintenance' = NoJob
    /\ shutdownResult' = IF maintenance.result = "Error" \/ \E s \in Slots : slots[s].failed
                         THEN "Error" ELSE "Ok"
    /\ UNCHANGED <<queue, slots, requests, database>>

-----------------------------------------------------------------------------
MaintenanceDone ==
    CloseFailed \/ CloseDone \/ ConnectFailed \/ ConnectDone \/ DatabaseDone

Worker(s) == WorkerEnter(s) \/ WorkerReturn(s) \/ OffloadUnavailable(s)

Settle(s) == SettleReuse(s) \/ SettleRetire(s)

Caller(r) ==
    \/ \E operation \in Operations : AdmitIdle(r, operation) \/ AdmitQueued(r, operation)
    \/ Forget(r) \/ CancelQueued(r) \/ CancelActive(r)

Next ==
    \/ \E r \in Requests : Caller(r)
    \/ Shutdown
    \/ \E s \in Slots : Worker(s) \/ Settle(s)
    \/ MaintenanceRun
    \/ MaintenanceDone

\* Threads run and the scheduler drains its jobs; callers owe nothing.
Fairness ==
    /\ \A s \in Slots : WF_vars(Worker(s)) /\ WF_vars(Settle(s))
    /\ WF_vars(MaintenanceRun)
    /\ WF_vars(MaintenanceDone)

Spec == Init /\ [][Next]_vars

FairSpec == Spec /\ Fairness

-----------------------------------------------------------------------------
(* Properties.                                                              *)

TypeOK ==
    /\ lifecycle \in Lifecycles
    /\ queue \in Seq(Requests) /\ Len(queue) <= QueueCapacity
    /\ slots \in [Slots -> Slot]
    /\ requests \in [Requests -> Request]
    /\ maintenance \in Maintenance
    /\ shutdownResult \in {"None", "Ok", "Error"}
    /\ database \in {"open", "closed"}

\* The Option.value_exn calls on slot.owner and r.outcome and the asserts of
\* maintenance_job and of the gate never fail: a slot that lends, closes or keeps
\* a connection has one and a slot between connections has none, a helper works
\* exactly while its slot is Leased, and a slot under maintenance has a settled
\* request's outcome to publish.
LeaseDiscipline ==
    /\ \A s \in Slots :
        LET slot == slots[s] IN
        /\ slot.owner = "none" <=> slot.state \in {"Needs_connect", "Connecting", "Closed"}
        /\ slot.job # "none" <=> slot.state = "Leased"
        /\ slot.state \in {"Idle", "Closed", "Close_failed"} => slot.lease = NoRequest
        /\ slot.state = "Leased" => slot.lease # NoRequest
        /\ slot.lease # NoRequest =>
            LET r == requests[slot.lease] IN
            IF slot.state = "Leased" THEN r.state = "Dispatched"
            ELSE r.state = "Settling" /\ r.outcome # NoOutcome
    /\ \A r \in Requests :
        requests[r].state \in {"Dispatched", "Settling"} <=> HeldBy(slots, r) # {}
    /\ \A s, t \in Slots : s # t /\ slots[s].lease = slots[t].lease => slots[s].lease = NoRequest

\* Nothing is left for a later event to notice: no slot stays idle while a request
\* waits, and whenever the maintenance helper is free no slot needs it and the
\* database is not overdue for closing.  Every handler that frees something calls
\* dispatch_waiting or pump.
NothingForgotten ==
    /\ queue # <<>> => \A s \in Slots : slots[s].state # "Idle"
    /\ maintenance.job = "none" =>
        /\ Needing(slots) = {}
        /\ ~(lifecycle = "Stopping" /\ AllClosed(slots))

\* Shutdown is ordered: the database is closed only when no helper works, every
\* connection was closed and every request was published; the pool is Stopped
\* only after that, and shutdown reports every close or reconnect that failed.
OrderedShutdown ==
    /\ maintenance.job = "close_database" \/ lifecycle = "Stopped" =>
        /\ AllClosed(slots)
        /\ \A r \in Requests : requests[r].state \in {"Absent", "Finished"}
    /\ database = "closed" => \A s \in Slots : slots[s].owner # "none" => slots[s].failed
    /\ lifecycle = "Stopped" <=> shutdownResult # "None"
    /\ shutdownResult = "Ok" =>
        database = "closed" /\ \A s \in Slots : slots[s].state = "Closed" /\ ~slots[s].failed

\* An acknowledged cancellation decides the classification: a request cancelled
\* at any point before it was published never reports success, and a request
\* suppressed in the queue never ran.
CancellationWins ==
    \A r \in Requests : requests[r].state = "Finished" =>
        /\ requests[r].cancelled => requests[r].result \in {"Cancelled", "During_cancellation"}
        /\ requests[r].result = "Pool_shutdown" => requests[r].execution = "Awaiting_entry"
        /\ requests[r].result = "Ok" => requests[r].execution = "Returned"

\* "Immediate bounded FIFO admission": no request starts while one that was
\* queued before it keeps waiting.
FirstInFirstOut ==
    [][\A r, q \in Requests :
        /\ requests[q].state # "Dispatched" /\ requests'[q].state = "Dispatched"
        /\ Queued(r) /\ requests'[r].state = "Queued"
        => \E i, j \in 1..Len(queue) : i < j /\ queue[i] = q /\ queue[j] = r]_vars

\* The refinement mapping.  A dispatched request runs from the moment its worker enters
\* the execution gate; before that a latched one has been withdrawn.
PoolPhase == CASE lifecycle = "Accepting" -> "open"
               [] lifecycle = "Stopping" -> "stopping"
               [] OTHER -> "stopped"

Has(r, outcome) ==
    requests[r].outcome = outcome \/ \E s \in HeldBy(slots, r) : slots[s].job = outcome

PoolStage(r) ==
    LET q == requests[r] IN
    CASE q.state = "Absent" -> "absent"
      [] q.state = "Finished" -> IF q.result = "Ok" THEN "succeeded" ELSE "unsuccessful"
      [] Has(r, "Ok") -> "done"
      [] Has(r, "Failed") \/ Has(r, "Cancelled") -> "failed"
      [] q.execution = "Executing" -> "running"
      [] OTHER -> IF q.cancelled THEN "withdrawn" ELSE "accepted"

P == INSTANCE Pool WITH
        phase <- PoolPhase,
        stage <- [r \in Requests |-> PoolStage(r)],
        answer <- [r \in Requests |-> requests[r].result],
        leases <- {<<s, slots[s].lease>> : s \in {t \in Slots : slots[t].lease # NoRequest}},
        fit <- {s \in Slots : slots[s].owner = "clean"},
        NoAnswer <- NoOutcome

\* The pool keeps the contract of Pool.  Of the Async adapter it says: Ivar.fill_exn
\* never finds a filled ivar and a published result stays as it is; suppressed work
\* never runs; and "every transaction, error, exception and cancellation retires and
\* replaces its connection before completion", so that work starts only on a connection
\* nothing but successful Execute requests used.
PoolImplemented == P!Spec

\* Every admitted request is published (under Fairness).
RequestSettles ==
    \A r \in Requests : requests[r].state = "Queued" \/ requests[r].state = "Dispatched"
        ~> requests[r].state = "Finished"

\* Once the pool begins to stop, by shutdown or by a failed slot, it stops and
\* fills shutdown_result (under Fairness).
ShutdownCompletes == lifecycle = "Stopping" ~> shutdownResult # "None"
=============================================================================
