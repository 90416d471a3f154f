------------------------------ MODULE EioPool ------------------------------
(***************************************************************************)
(* The connection pool of the Eio adapter (lib/eio/duckdb_eio.ml).         *)
(*                                                                         *)
(* Everything runs in fibers of one domain: a fiber that creates the pool, *)
(* one calling fiber and one protected producer fiber per request, and a   *)
(* daemon that drains the pool.  A fiber only gives way where it forks,    *)
(* awaits a promise, waits for a permit or offloads a native call, so a    *)
(* step is what a fiber does between two such points; the pool's mutex is  *)
(* never held across one.  The native call of an offload and the code that *)
(* continues with its result are one step: nothing the fibers share is     *)
(* touched in between.                                                     *)
(*                                                                         *)
(* A caller that has its answer is forgotten, so the requests are an       *)
(* unbounded stream of which Requests are alive at the same time.  What is *)
(* refused at once (Reentrant_call, Pool_shutdown, Queue_full) changes     *)
(* nothing and is no step.                                                 *)
(***************************************************************************)
EXTENDS Naturals, FiniteSets, SequencesExt

CONSTANTS
    Requests,        \* identities of the requests alive at the same time
    Connections,     \* limits.connections
    QueueCapacity,   \* limits.queue_capacity
    NoSlot           \* slot = None

\* limits rejects everything else.
ASSUME LimitsAssumption == Connections \in Nat \ {0} /\ QueueCapacity \in Nat

\* A replacement takes the place of the connection it replaces.
Slots == 1..Connections

ASSUME NoSlotAssumption == NoSlot \notin Slots

VARIABLES
    creator,     \* the fiber inside create
    sw,          \* the switch: on, or failed
    lifecycle,   \* pool.lifecycle, "Absent" before create has made the pool
    permits,     \* pool.permits: the free ones and those who wait for one
    owned,       \* pool.owned
    req,         \* the requests, each with its producer and its caller
    idle,        \* pool.idle
    conn,        \* the connections
    database,    \* the database
    failures,    \* pool.failures (in create: its failures) is not empty
    daemon,      \* the drain daemon
    closing,     \* what close_slots has still to close
    answer       \* shutdown_done

vars == <<creator, sw, lifecycle, permits, owned, req, idle, conn, database, failures,
          daemon, closing, answer>>

-----------------------------------------------------------------------------
(* State.                                                                   *)

Creators == {"open", "connect", "close", "forked", "join", "published", "failed"}
Daemons == {"off", "await", "join", "acquire", "close", "done"}
Lifecycles == {"Absent", "Accepting", "Stopping", "Stopped"}

\* "waiting", "handed" (resumed with a permit but not yet running) and "removed"
\* (resumed with Remove_waiter) are request.state = Waiting; the next four, Running.
ProducerPcs == {"absent", "waiting", "handed", "removed", "work", "close", "connect",
                "reclose", "settled"}

\* What the producer settles with: Rejected, Ok or a failure of the operation.
Outcomes == {"none", "Rejected", "Ok", "Failed"}

\* A connection: none, fit for reuse, one that is not, or one that failed to close.
ConnStates == {"none", "clean", "tainted", "leaked"}

Request == [pc : ProducerPcs, caller : {"none", "awaits", "joins"}, cancelled : BOOLEAN,
            reuse : BOOLEAN, slot : Slots \cup {NoSlot}, outcome : Outcomes,
            cleanup : BOOLEAN, ran : BOOLEAN]

Permits == [free : 0..Connections, waiters : Seq(Requests)]

\* The daemon, whose [joins] it has seen active and of whose permits [left] are to come.
Daemon == [pc : Daemons, joins : SUBSET Requests, left : 0..Connections]

AbsentRequest == [pc |-> "absent", caller |-> "none", cancelled |-> FALSE, reuse |-> FALSE,
                  slot |-> NoSlot, outcome |-> "none", cleanup |-> FALSE, ran |-> FALSE]

Init ==
    /\ creator = "open" /\ sw = "on" /\ lifecycle = "Absent"
    /\ permits = [free |-> Connections, waiters |-> <<>>]
    /\ owned = 0
    /\ req = [r \in Requests |-> AbsentRequest]
    /\ idle = <<>>
    /\ conn = [s \in Slots |-> "none"]
    /\ database = "none"
    /\ failures = FALSE
    /\ daemon = [pc |-> "off", joins |-> {}, left |-> Connections]
    /\ closing = <<>>
    /\ answer = "none"

\* pool.active
Active == {r \in Requests : req[r].pc \notin {"absent", "settled"}}

Accepting == lifecycle = "Accepting"

FailureIgnored(failed) ==  \* mutant: a failure does not stop the pool
    /\ lifecycle' = IF Accepting /\ ~failed THEN "Stopping" ELSE lifecycle
    /\ failures' = (failures \/ failed)

LateFailureLost(failed) ==  \* mutant: only the failure that stops the pool is kept
    /\ lifecycle' = IF Accepting THEN "Stopping" ELSE lifecycle
    /\ failures' = (failures \/ (failed /\ Accepting))

\* start_shutdown; resolving [stopping] is what the daemon sees in lifecycle.
StartShutdown(failed) ==
    /\ lifecycle' = IF Accepting THEN "Stopping" ELSE lifecycle
    /\ failures' = (failures \/ failed)

-----------------------------------------------------------------------------
(* create                                                                   *)

\* Not in create: the fibers that use the pool.
PoolUnchanged == UNCHANGED <<permits, owned, req, daemon, answer>>

CreateOpen ==
    /\ creator = "open"
    /\ \/ database' = "open" /\ creator' = "connect" /\ UNCHANGED failures
       \/ database' = "none" /\ creator' = "failed" /\ failures' = TRUE
    /\ UNCHANGED <<sw, lifecycle, idle, conn, closing>>
    /\ PoolUnchanged

\* One connection after the other; the first failure closes what there is.
CreateConnect ==
    /\ creator = "connect"
    /\ LET acquired == {s \in Slots : conn[s] # "none"}
           next == Cardinality(acquired) + 1
           newestFirst == [i \in 1..next - 1 |-> next - i] IN
       IF next <= Connections
       THEN /\ \/ conn' = [conn EXCEPT ![next] = "clean"] /\ UNCHANGED <<creator, closing, failures>>
               \/ creator' = "close" /\ closing' = newestFirst /\ failures' = TRUE /\ UNCHANGED conn
            /\ UNCHANGED <<lifecycle, idle, daemon>>
       ELSE /\ \/ \* check_context fails: the creator is cancelled, or the switch
                  /\ creator' = "close" /\ closing' = newestFirst /\ failures' = TRUE
                  /\ UNCHANGED <<lifecycle, idle, daemon>>
               \/ \* the pool and its daemon
                  /\ sw = "on"
                  /\ creator' = "forked"
                  /\ lifecycle' = "Accepting" /\ idle' = [i \in 1..next - 1 |-> i]
                  /\ daemon' = [daemon EXCEPT !.pc = "await"]
                  /\ UNCHANGED <<closing, failures>>
            /\ UNCHANGED conn
    /\ UNCHANGED <<sw, permits, owned, req, database, answer>>

\* The pool is published unless the creator was cancelled meanwhile, in which case it
\* waits for the daemon to dispose of it.
CreatePublish ==
    /\ creator = "forked"
    /\ \/ sw = "on" /\ creator' = "published" /\ UNCHANGED <<lifecycle, failures>>
       \/ creator' = "join" /\ StartShutdown(FALSE)
    /\ UNCHANGED <<sw, idle, conn, database, closing>>
    /\ PoolUnchanged

CreateJoin ==
    /\ creator = "join" /\ answer # "none"
    /\ creator' = "failed"
    /\ UNCHANGED <<sw, lifecycle, idle, conn, database, failures, closing>>
    /\ PoolUnchanged

Create == CreateOpen \/ CreateConnect \/ CreatePublish \/ CreateJoin

SwitchFails ==
    /\ sw = "on"
    /\ sw' = "failed"
    /\ UNCHANGED <<creator, lifecycle, idle, conn, database, failures, closing>>
    /\ PoolUnchanged

-----------------------------------------------------------------------------
(* submit: the producer.                                                    *)

NativeUnchanged == UNCHANGED <<conn, database, closing>>
OthersUnchanged == UNCHANGED <<creator, sw, daemon, answer>>

FullTooLate == owned > Connections /\ owned - Connections > QueueCapacity  \* mutant

Full == owned >= Connections /\ owned - Connections >= QueueCapacity

WaiterForgotten(r, done) ==  \* mutant: the permit is freed without waking a waiter
    /\ owned' = owned - 1
    /\ req' = [req EXCEPT ![r] = done]
    /\ permits' = [permits EXCEPT !.free = @ + 1]

\* The permit of r is released (Eio.Semaphore.release: to the first that waits, if
\* any) and r settles with [outcome].
SettleHolding(r, done) ==
    /\ owned' = owned - 1
    /\ IF permits.waiters = <<>>
       THEN /\ req' = [req EXCEPT ![r] = done]
            /\ permits' = [permits EXCEPT !.free = @ + 1]
       ELSE /\ req' = [req EXCEPT ![r] = done, ![Head(permits.waiters)].pc = "handed"]
            /\ permits' = [permits EXCEPT !.waiters = Tail(@)]

Settled(r, outcome, failed) ==
    [AbsentRequest EXCEPT !.pc = "settled", !.caller = req[r].caller, !.ran = req[r].ran,
                          !.outcome = outcome, !.cleanup = failed]

MayLease(r) == ~req[r].cancelled /\ Accepting

\* What a fiber that has just got a permit does next.  Queue.dequeue gives it a slot.
Leased(record) == [record EXCEPT !.pc = "work", !.slot = Head(idle), !.ran = TRUE]

\* Admission, registration and the producer's first steps, which the fork runs at once.
Submit(r, reuse) ==
    LET new == [AbsentRequest EXCEPT !.caller = "awaits", !.reuse = reuse] IN
    /\ creator = "published" /\ Accepting /\ ~Full
    /\ req[r].pc = "absent"
    /\ \/ /\ sw = "failed"
          /\ req' = [req EXCEPT ![r] = [new EXCEPT !.pc = "settled", !.outcome = "Rejected"]]
          /\ UNCHANGED <<owned, permits, idle>>
       \/ /\ sw = "on" /\ permits.free > 0
          /\ req' = [req EXCEPT ![r] = Leased(new)]
          /\ permits' = [permits EXCEPT !.free = @ - 1]
          /\ idle' = Tail(idle)
          /\ owned' = owned + 1
       \/ /\ sw = "on" /\ permits.free = 0
          /\ req' = [req EXCEPT ![r] = [new EXCEPT !.pc = "waiting"]]
          /\ permits' = [permits EXCEPT !.waiters = Append(@, r)]
          /\ owned' = owned + 1
          /\ UNCHANGED idle
    /\ UNCHANGED <<lifecycle, failures>>
    /\ NativeUnchanged /\ OthersUnchanged

\* The permit arrives; the request may have been cancelled and the pool stopped since.
Resume(r) ==
    /\ req[r].pc = "handed"
    /\ \/ /\ MayLease(r)
          /\ req' = [req EXCEPT ![r] = Leased(@)]
          /\ idle' = Tail(idle)
          /\ UNCHANGED <<owned, permits>>
       \/ /\ ~MayLease(r)
          /\ SettleHolding(r, Settled(r, "Rejected", FALSE))
          /\ UNCHANGED idle
    /\ UNCHANGED <<lifecycle, failures>>
    /\ NativeUnchanged /\ OthersUnchanged

Removed(r) ==
    /\ req[r].pc = "removed"
    /\ req' = [req EXCEPT ![r] = Settled(r, "Rejected", FALSE)]
    /\ owned' = owned - 1
    /\ UNCHANGED <<permits, idle, lifecycle, failures>>
    /\ NativeUnchanged /\ OthersUnchanged

ReusableDespiteCancel(r, outcome) == outcome = "Ok" /\ req[r].reuse  \* mutant

Reusable(r, outcome) == outcome = "Ok" /\ req[r].reuse /\ ~req[r].cancelled

\* run has returned: only a successful plain statement of a request that nobody
\* cancelled leaves the connection as it was.
WorkReturns(r, outcome) ==
    /\ req[r].pc = "work"
    /\ conn' = [conn EXCEPT ![req[r].slot] =
                    IF outcome = "Ok" /\ req[r].reuse /\ ~req[r].cancelled THEN @ ELSE "tainted"]
    /\ \/ /\ Reusable(r, outcome) /\ Accepting
          /\ idle' = Append(idle, req[r].slot)
          /\ SettleHolding(r, Settled(r, outcome, FALSE))
       \/ /\ ~(Reusable(r, outcome) /\ Accepting)
          /\ req' = [req EXCEPT ![r].pc = "close", ![r].outcome = outcome, ![r].reuse = FALSE]
          /\ UNCHANGED <<idle, owned, permits>>
    /\ UNCHANGED <<lifecycle, failures, database, closing>>
    /\ OthersUnchanged

\* W.close_slot on the connection that is not reused.
CloseReturns(r) ==
    /\ req[r].pc = "close"
    /\ \/ /\ conn' = [conn EXCEPT ![req[r].slot] = "none"]
          /\ UNCHANGED <<lifecycle, failures>>
          /\ \/ /\ Accepting
                /\ req' = [req EXCEPT ![r].pc = "connect"]
                /\ UNCHANGED <<owned, permits>>
             \/ /\ ~Accepting
                /\ SettleHolding(r, Settled(r, req[r].outcome, FALSE))
       \/ /\ conn' = [conn EXCEPT ![req[r].slot] = "leaked"]
          /\ StartShutdown(TRUE)
          /\ SettleHolding(r, Settled(r, req[r].outcome, TRUE))
    /\ UNCHANGED <<idle, database, closing>>
    /\ OthersUnchanged

\* W.connect for the replacement, which a pool that stopped meanwhile does not keep.
ConnectReturns(r) ==
    /\ req[r].pc = "connect"
    /\ \/ /\ StartShutdown(TRUE)
          /\ SettleHolding(r, Settled(r, req[r].outcome, TRUE))
          /\ UNCHANGED <<conn, idle>>
       \/ /\ conn' = [conn EXCEPT ![req[r].slot] = "clean"]
          /\ \/ /\ Accepting
                /\ idle' = Append(idle, req[r].slot)
                /\ SettleHolding(r, Settled(r, req[r].outcome, FALSE))
             \/ /\ ~Accepting
                /\ req' = [req EXCEPT ![r].pc = "reclose"]
                /\ UNCHANGED <<idle, owned, permits>>
          /\ UNCHANGED <<lifecycle, failures>>
    /\ UNCHANGED <<database, closing>>
    /\ OthersUnchanged

RecloseReturns(r) ==
    /\ req[r].pc = "reclose"
    /\ \E failed \in BOOLEAN :
          /\ conn' = [conn EXCEPT ![req[r].slot] = IF failed THEN "leaked" ELSE "none"]
          /\ StartShutdown(failed)
          /\ SettleHolding(r, Settled(r, req[r].outcome, failed))
    /\ UNCHANGED <<idle, database, closing>>
    /\ OthersUnchanged

-----------------------------------------------------------------------------
(* submit: the caller.                                                      *)

\* cancel, for every request of S: a waiting one loses its place in the semaphore, and
\* the bridge is told of a running one.  A permit that was handed over stays.
Cancelled(S) ==
    [r \in Requests |->
        IF r \in S
        THEN [req[r] EXCEPT !.cancelled = TRUE, !.pc = IF @ = "waiting" THEN "removed" ELSE @]
        ELSE req[r]]

\* The caller's fiber is cancelled while it awaits the completion.
CallerCancelled(r) ==
    /\ req[r].caller = "awaits"
    /\ req' = [Cancelled({r} \cap Active) EXCEPT ![r].caller = "joins"]
    /\ \/ /\ req[r].pc = "waiting"
          /\ \E i \in 1..Len(permits.waiters) :
                /\ permits.waiters[i] = r
                /\ permits' = [permits EXCEPT !.waiters = RemoveAt(@, i)]
       \/ /\ req[r].pc # "waiting"
          /\ UNCHANGED permits
    /\ UNCHANGED <<lifecycle, failures, owned, idle>>
    /\ NativeUnchanged /\ OthersUnchanged

\* What submit tells its caller: deliver, or propagate_cancellation.  "Cancelled" stands
\* for the cancellation alone or with a failure of the operation itself.
Answer(r) ==
    LET q == req[r]
        settled == CASE q.cleanup -> "Lifecycle"
                     [] ~q.cleanup /\ q.outcome = "Rejected" -> "Pool_shutdown"
                     [] OTHER -> q.outcome IN
    IF q.caller = "awaits" THEN settled
    ELSE IF settled # "Lifecycle" THEN "Cancelled"
    ELSE "Cancelled_with_failures"

Return(r) ==
    /\ req[r].pc = "settled"
    /\ req' = [req EXCEPT ![r] = AbsentRequest]
    /\ UNCHANGED <<permits, lifecycle, failures, owned, idle>>
    /\ NativeUnchanged /\ OthersUnchanged

-----------------------------------------------------------------------------
(* Shutdown.                                                                *)

Shutdown ==
    /\ creator = "published" /\ Accepting
    /\ StartShutdown(FALSE)
    /\ UNCHANGED <<permits, owned, req, idle>>
    /\ NativeUnchanged /\ OthersUnchanged

WokenByShutdown == lifecycle = "Stopping"  \* mutant: a failing switch wakes nobody

Woken == lifecycle = "Stopping" \/ sw = "failed"

\* The daemon wakes up because the pool stops or because the switch is cancelled, and
\* cancels everything that is active, all that wait for a permit included.
DrainStart ==
    /\ daemon.pc = "await" /\ Woken
    /\ StartShutdown(FALSE)
    /\ req' = Cancelled(Active)
    /\ permits' = [permits EXCEPT !.waiters = <<>>]
    /\ daemon' = [daemon EXCEPT !.pc = "join", !.joins = Active]
    /\ UNCHANGED <<creator, sw, owned, idle, answer>>
    /\ NativeUnchanged

Joined == daemon.joins \cap Active = {}

DrainJoin ==
    /\ daemon.pc = "join" /\ Joined
    /\ daemon' = [daemon EXCEPT !.pc = "acquire", !.joins = {}]
    /\ UNCHANGED <<creator, sw, lifecycle, permits, owned, req, idle, failures, answer>>
    /\ NativeUnchanged

LastForgotten == Tail(idle)  \* mutant: a connection of the queue is not closed

IdleSlots == idle

\* Nobody else waits for a permit any more.
DrainAcquire ==
    /\ daemon.pc = "acquire"
    /\ \/ /\ daemon.left > 0 /\ permits.free > 0
          /\ daemon' = [daemon EXCEPT !.left = @ - 1]
          /\ permits' = [permits EXCEPT !.free = @ - 1]
          /\ UNCHANGED <<idle, closing>>
       \/ /\ daemon.left = 0
          /\ daemon' = [daemon EXCEPT !.pc = "close"]
          /\ closing' = IdleSlots /\ idle' = <<>>
          /\ UNCHANGED permits
    /\ UNCHANGED <<creator, sw, lifecycle, owned, req, conn, database, failures, answer>>

\* close_slots, for create or for drain: each connection in turn, then the database,
\* which does not close while it has a connection (Resource.close_database).
CloseSlot ==
    /\ closing # <<>>
    /\ \E failed \in BOOLEAN :
          /\ conn' = [conn EXCEPT ![Head(closing)] = IF failed THEN "leaked" ELSE "none"]
          /\ failures' = (failures \/ failed)
    /\ closing' = Tail(closing)
    /\ UNCHANGED <<creator, sw, lifecycle, permits, owned, req, idle, database, daemon, answer>>

CloseDatabase ==
    /\ closing = <<>>
    /\ \E failed \in BOOLEAN :
          /\ (\E s \in Slots : conn[s] # "none") => failed
          /\ database' = IF failed THEN "leaked" ELSE "closed"
          /\ failures' = (failures \/ failed)
          /\ \/ /\ creator = "close"
                /\ creator' = "failed"
                /\ UNCHANGED <<lifecycle, daemon, answer>>
             \/ /\ daemon.pc = "close"
                /\ daemon' = [daemon EXCEPT !.pc = "done"]
                /\ lifecycle' = "Stopped"
                /\ answer' = IF failures \/ failed THEN "Error" ELSE "Ok"
                /\ UNCHANGED creator
    /\ UNCHANGED <<sw, permits, owned, req, idle, conn, closing>>

Drain == DrainStart \/ DrainJoin \/ DrainAcquire \/ CloseSlot \/ CloseDatabase

-----------------------------------------------------------------------------

Continue(r) ==
    \/ Resume(r) \/ Removed(r)
    \/ \E outcome \in Outcomes \ {"none", "Rejected"} : WorkReturns(r, outcome)
    \/ CloseReturns(r) \/ ConnectReturns(r) \/ RecloseReturns(r)
    \/ Return(r)

Next ==
    \/ Create \/ SwitchFails \/ Shutdown \/ Drain
    \/ \E r \in Requests :
          \/ \E reuse \in BOOLEAN : Submit(r, reuse)
          \/ CallerCancelled(r)
          \/ Continue(r)

Spec == Init /\ [][Next]_vars

\* Native calls return and the scheduler resumes every fiber that can run.  Nothing
\* says that anybody shuts the pool down, cancels or submits.
Fairness ==
    /\ WF_vars(Create) /\ WF_vars(Drain)
    /\ \A r \in Requests : WF_vars(Continue(r))

FairSpec == Spec /\ Fairness

-----------------------------------------------------------------------------
(* Properties.                                                              *)

\* Every field has its type, and no more requests wait for a permit than
\* limits.queue_capacity allows (submit admits by counting [owned]).
TypeOK ==
    /\ creator \in Creators /\ sw \in {"on", "failed"} /\ lifecycle \in Lifecycles
    /\ permits \in Permits /\ Len(permits.waiters) <= QueueCapacity
    /\ owned \in Nat
    /\ req \in [Requests -> Request]
    /\ idle \in Seq(Slots) /\ closing \in Seq(Slots)
    /\ conn \in [Slots -> ConnStates]
    /\ database \in {"none", "open", "closed", "leaked"}
    /\ failures \in BOOLEAN /\ answer \in {"none", "Ok", "Error"}
    /\ daemon \in Daemon

Handed == {r \in Requests : req[r].pc = "handed"}
Holders == {r \in Requests : req[r].pc \in {"handed", "work", "close", "connect", "reclose"}}

\* While the pool accepts, a permit always comes with an idle connection, so the
\* Option.value_exn of the lease cannot raise; no permit is ever lost or made up, and
\* [owned] counts the requests that are alive, whatever fails or is cancelled.
PermitsAndSlots ==
    /\ Accepting => permits.free + Cardinality(Handed) = Len(idle)
    /\ permits.free + Cardinality(Holders) = daemon.left
    /\ owned = Cardinality(Active)

\* A caller that is told Pool_shutdown may try elsewhere: its work never began, and the
\* pool or its switch really has stopped.  One that is told of success has had it, and
\* one whose connection could not be closed or replaced is told so, as is whoever shuts
\* the pool down, even if it was stopping already.
HonestAnswer ==
    /\ (\E r \in Requests : req[r].cleanup) => failures
    /\ failures => answer # "Ok"
    /\ \A r \in Requests : req[r].pc = "settled" =>
        /\ Answer(r) = "Pool_shutdown" => ~req[r].ran /\ (~Accepting \/ sw = "failed")
        /\ Answer(r) = "Ok" => req[r].ran
        /\ req[r].cleanup => Answer(r) \in {"Lifecycle", "Cancelled_with_failures"}

Open(s) == conn[s] \in {"clean", "tainted"}

\* An open connection always has somebody who will close it: create, the idle queue, one
\* request, or the daemon.  The database is given up last, when all of them are.
NothingLeaks ==
    /\ \A s \in Slots : Open(s) =>
          \/ creator = "connect"
          \/ Contains(idle, s) \/ Contains(closing, s)
          \/ \E r \in Active : req[r].slot = s
    /\ database \in {"none", "closed", "leaked"} => ~\E s \in Slots : Open(s)
    /\ creator = "failed" => database # "open"

\* The refinement mapping.  A request runs from the moment it is given a slot; before
\* that it is withdrawn by a cancellation or by the end of admission.
PoolPhase == CASE lifecycle = "Absent" -> "absent"
               [] lifecycle = "Accepting" -> "open"
               [] lifecycle = "Stopping" -> "stopping"
               [] OTHER -> "stopped"

PoolStage(r) ==
    LET q == req[r] IN
    CASE q.pc = "absent" -> "absent"
      [] q.pc \in {"waiting", "handed", "removed"} ->
            IF MayLease(r) THEN "accepted" ELSE "withdrawn"
      [] q.pc = "work" -> "running"
      [] q.pc \in {"close", "connect", "reclose"} -> IF q.outcome = "Ok" THEN "done" ELSE "failed"
      [] OTHER -> IF q.outcome = "Ok" /\ ~q.cleanup THEN "succeeded" ELSE "unsuccessful"

P == INSTANCE Pool WITH
        phase <- PoolPhase,
        stage <- [r \in Requests |-> PoolStage(r)],
        answer <- [r \in Requests |-> IF req[r].pc = "settled" THEN <<req[r].outcome, req[r].cleanup>>
                                      ELSE <<>>],
        leases <- {<<req[r].slot, r>> : r \in {q \in Requests : req[q].slot # NoSlot}},
        fit <- {s \in Slots : conn[s] = "clean"},
        NoAnswer <- <<>>

\* The pool keeps the contract of Pool.  Of the Eio adapter it says: "only successful,
\* uncancelled SQL-only execute requests reuse their connection", and a connection is
\* lent to one request at a time; "queued cancellation ... releases admission without
\* leasing a connection or running native work"; a settled completion does not change;
\* and shutdown "closes all independent owners" after the last request has settled.
PoolImplemented == P!Spec

\* A pool that is told to stop, or whose switch fails, has stopped in the end.
DrainEnds == (lifecycle = "Stopping" \/ (sw = "failed" /\ Accepting)) ~> lifecycle = "Stopped"
=============================================================================
