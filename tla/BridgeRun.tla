----------------------------- MODULE BridgeRun -----------------------------
(***************************************************************************)
(* A bridged request (Resource.Bridge) on one native connection: the       *)
(* worker thread inside Bridge.run, the controller thread that delivers    *)
(* duckdb_interrupt while a cancelled request is inside an interruptible   *)
(* engine call, and a canceller shared by several requests                 *)
(* (lib/duckdb/resource.ml, lib/ffi/resource_stubs.c).                     *)
(*                                                                         *)
(* The request mutex and the owner gate are held for one step each.  The   *)
(* native guard is a try-lock: the worker takes it with the runtime        *)
(* released and may be inside it for a while, everybody else tries it with *)
(* the runtime held.  Requests run one after another: the owner gate is    *)
(* the subject of ConnectionGate.                                          *)
(***************************************************************************)
EXTENDS Naturals, FiniteSets

CONSTANTS
    Requests,   \* the requests made from one canceller
    NoRequest   \* no lease, no active request

ASSUME RequestsAssumption == NoRequest \notin Requests

VARIABLES
    req,      \* Resource.request records
    native,   \* the native request each of them owns
    ctl,      \* program counter of each controller thread
    conn,     \* the owner gate's lease and the native connection_owner
    engine,   \* what DuckDB is doing on the connection
    worker,   \* the thread inside Bridge.run: its program counter and locals
    fan,      \* the canceller
    fatal     \* a caml_fatal_error, assert or invariant failure was reached

vars == <<req, native, ctl, conn, engine, worker, fan, fatal>>

RequestStates == {"Unbound", "Fresh", "Admitted", "Running", "Quiescing", "Settling", "Finished"}
NativeStates == {"none", "FRESH", "INSTALLED", "DETACHED", "freed"}
Phases == {"IDLE", "NONINTERRUPTIBLE", "USER", "CLEANUP", "CLOSING"}
Operations == {"user", "local_file", "rollback"}
Outcomes == {"none", "Ok", "Error", "Cancelled"}
ControllerPcs == {"off", "check", "reserve", "deliver", "mark", "retire", "done"}

\* Where the worker takes the native guard with the runtime released.
GuardPcs == {"work_begin", "call_begin", "call_end", "cleanup_begin", "cleanup_end",
             "work_end", "close_begin"}
WorkerPcs == GuardPcs \cup {"idle", "admit", "create", "install", "start", "body", "engine",
                            "admit_cleanup", "join_cleanup", "rolled_back", "quiesce", "stop",
                            "join", "take", "uninstall", "discard", "mark_closed", "finish"}

Request == [state : RequestStates, cancelled : BOOLEAN, rooted : BOOLEAN, stop : BOOLEAN,
            interrupted : BOOLEAN, outcome : Outcomes]
NativeRequest == [state : NativeStates, reserved : BOOLEAN, cancelled : BOOLEAN]
Connection == [gate : {"Open", "Closing", "Closed_state"}, lease : Requests \cup {NoRequest},
               guard : BOOLEAN, active : Requests \cup {NoRequest}, phase : Phases,
               foreign : BOOLEAN, cleanup : BOOLEAN, closing : BOOLEAN]
Engine == [at : {"out", "entering", "running"}, interrupt : BOOLEAN, touched : BOOLEAN]
Worker == [pc : WorkerPcs, run : Requests \cup {NoRequest}, operation : Operations,
           owed : BOOLEAN, destroying : BOOLEAN, result : Outcomes]
Canceller == [latched : BOOLEAN, live : SUBSET Requests, todo : SUBSET Requests]

Init ==
    /\ req = [r \in Requests |-> [state |-> "Unbound", cancelled |-> FALSE, rooted |-> FALSE,
                                  stop |-> FALSE, interrupted |-> FALSE, outcome |-> "none"]]
    /\ native = [r \in Requests |-> [state |-> "none", reserved |-> FALSE, cancelled |-> FALSE]]
    /\ ctl = [r \in Requests |-> "off"]
    /\ conn = [gate |-> "Open", lease |-> NoRequest, guard |-> FALSE, active |-> NoRequest,
               phase |-> "IDLE", foreign |-> FALSE, cleanup |-> FALSE, closing |-> FALSE]
    /\ engine = [at |-> "out", interrupt |-> FALSE, touched |-> FALSE]
    /\ worker = [pc |-> "idle", run |-> NoRequest, operation |-> "user",
                 owed |-> FALSE, destroying |-> FALSE, result |-> "none"]
    /\ fan = [latched |-> FALSE, live |-> {}, todo |-> {}]
    /\ fatal = FALSE

-----------------------------------------------------------------------------
(* The canceller.  Its mutex is held while todo is not empty.               *)

BindForgetsLatch(r) == FALSE  \* mutant: a request bound late does not start cancelled

BindLatched(r) == fan.latched

Prune(live) == {r \in live : req[r].state # "Finished"}

\* Bridge.request
Bind(r) ==
    /\ fan.todo = {}
    /\ req[r].state = "Unbound"
    /\ req' = [req EXCEPT ![r].state = "Fresh", ![r].cancelled = BindLatched(r)]
    /\ fan' = [fan EXCEPT !.live = Prune(fan.live) \cup {r}]
    /\ UNCHANGED <<native, ctl, conn, engine, worker, fatal>>

\* Bridge.cancel latches the canceller, then takes each live request in turn.
Cancel ==
    /\ ~fan.latched
    /\ fan' = [latched |-> TRUE, live |-> Prune(fan.live), todo |-> Prune(fan.live)]
    /\ UNCHANGED <<req, native, ctl, conn, engine, worker, fatal>>

\* cancel_state, under the request mutex.
CancelState(r) ==
    /\ r \in fan.todo
    /\ fan' = [fan EXCEPT !.todo = @ \ {r}]
    /\ \/ /\ req[r].state = "Finished"
          /\ UNCHANGED <<req, native>>
       \/ /\ req[r].state # "Finished"
          /\ req' = [req EXCEPT ![r].cancelled = TRUE]
          /\ native' = [native EXCEPT ![r].cancelled = @ \/ req[r].rooted]
    /\ UNCHANGED <<ctl, conn, engine, worker, fatal>>

-----------------------------------------------------------------------------
(* Bridge.run, up to the body.                                              *)

Goto(pc) == worker' = [worker EXCEPT !.pc = pc]
Fail(pc, result) == worker' = [worker EXCEPT !.pc = pc, !.result = result]

Consume(r) ==
    /\ worker.pc = "idle" /\ req[r].state = "Fresh"
    /\ req' = [req EXCEPT ![r].state = "Admitted"]
    /\ worker' = [worker EXCEPT !.pc = "admit", !.run = r, !.owed = FALSE, !.result = "none"]
    /\ UNCHANGED <<native, ctl, conn, engine, fan, fatal>>

\* admit_request: the lease is taken under gate and request mutex; a request that
\* never got it skips the cleanup.
Admit ==
    LET r == worker.run IN
    /\ worker.pc = "admit"
    /\ \/ conn.gate # "Open" /\ Fail("finish", "Error") /\ UNCHANGED conn
       \/ conn.gate = "Open" /\ req[r].cancelled /\ Fail("finish", "Cancelled") /\ UNCHANGED conn
       \/ /\ conn.gate = "Open" /\ ~req[r].cancelled
          /\ conn' = [conn EXCEPT !.lease = r]
          /\ Goto("create")
    /\ UNCHANGED <<req, native, ctl, engine, fan, fatal>>

\* bind_native allocates the native request and roots it; allocation may raise.
Create ==
    LET r == worker.run IN
    /\ worker.pc = "create"
    /\ \/ Fail("quiesce", "Error") /\ UNCHANGED <<req, native>>
       \/ /\ native' = [native EXCEPT ![r].state = "FRESH"]
          /\ req' = [req EXCEPT ![r].rooted = TRUE]
          /\ Goto("install")
    /\ UNCHANGED <<ctl, conn, engine, fan, fatal>>

\* try_install_prepared under the request mutex.  The lease is exclusive, so a
\* taken guard, other work or another request would be a broken invariant.
Install ==
    LET r == worker.run IN
    /\ worker.pc = "install"
    /\ IF conn.guard \/ conn.foreign \/ conn.cleanup \/ conn.active # NoRequest
       THEN fatal' = TRUE /\ UNCHANGED <<req, native, conn, worker>>
       ELSE /\ native' = [native EXCEPT ![r].state = "INSTALLED",
                                        ![r].cancelled = @ \/ req[r].cancelled]
            /\ conn' = [conn EXCEPT !.active = r]
            /\ req' = [req EXCEPT ![r].state = "Running"]
            /\ IF req[r].cancelled THEN Fail("quiesce", "Cancelled") ELSE Goto("start")
            /\ UNCHANGED fatal
    /\ UNCHANGED <<ctl, engine, fan>>

\* start_controller; Thread.create may raise.
Start ==
    /\ worker.pc = "start"
    /\ \/ Fail("quiesce", "Error") /\ UNCHANGED ctl
       \/ ctl' = [ctl EXCEPT ![worker.run] = "check"] /\ Goto("body")
    /\ UNCHANGED <<req, native, conn, engine, fan, fatal>>

-----------------------------------------------------------------------------
(* The body: native operations of the three admission classes.              *)

\* User calls and file reservations need an open owner and pass the checkpoint; a
\* rollback needs neither, but it is owed only once after user calls (BEGIN is one).
Operate ==
    /\ worker.pc = "body"
    /\ \E operation \in Operations :
        /\ IF operation = "rollback" THEN worker.owed
           ELSE conn.gate = "Open" /\ ~req[worker.run].cancelled
        /\ worker' = [worker EXCEPT !.operation = operation,
                        !.pc = IF operation = "rollback" THEN "admit_cleanup" ELSE "work_begin",
                        !.owed = operation = "user" \/ (@ /\ operation # "rollback")]
    /\ UNCHANGED <<req, native, ctl, conn, engine, fan, fatal>>

JoinNothing(r) == TRUE  \* mutant: the cleanup does not wait for the controller

Joinable(r) == ctl[r] \in {"off", "done"}

\* admit_cleanup: if the cancellation came first, the controller is stopped and
\* joined before the rollback.
AdmitCleanup ==
    LET r == worker.run IN
    /\ worker.pc = "admit_cleanup"
    /\ req' = [req EXCEPT ![r].stop = @ \/ req[r].cancelled]
    /\ Goto(IF req[r].cancelled THEN "join_cleanup" ELSE "work_begin")
    /\ UNCHANGED <<native, ctl, conn, engine, fan, fatal>>

JoinCleanup ==
    /\ worker.pc = "join_cleanup"
    /\ Joinable(worker.run)
    /\ Goto("work_begin")
    /\ UNCHANGED <<req, native, ctl, conn, engine, fan, fatal>>

\* The user's function returns whatever it likes, or raises.
BodyReturns ==
    /\ worker.pc = "body"
    /\ \E result \in {"Ok", "Error"} : Fail("quiesce", result)
    /\ UNCHANGED <<req, native, ctl, conn, engine, fan, fatal>>

\* native_lock with the runtime released: spin until the guard is free.
Lock ==
    /\ worker.pc \in GuardPcs
    /\ ~conn.guard
    /\ conn' = [conn EXCEPT !.guard = TRUE]
    /\ UNCHANGED <<req, native, ctl, engine, worker, fan, fatal>>

UnlockStalePhase(c) == [c EXCEPT !.guard = FALSE]  \* mutant: no native_phase_update

\* native_phase_update, then the guard is released.
Unlock(c) ==
    [c EXCEPT !.guard = FALSE,
              !.phase = IF c.closing THEN "CLOSING" ELSE IF c.cleanup THEN "CLEANUP"
                        ELSE IF c.foreign THEN "NONINTERRUPTIBLE" ELSE "IDLE"]

\* A guarded section that requires [allowed], writes c and continues at pc.
Section(at, allowed, c, pc) ==
    /\ worker.pc = at /\ conn.guard
    /\ IF allowed THEN conn' = Unlock(c) /\ Goto(pc) /\ UNCHANGED fatal
                  ELSE fatal' = TRUE /\ UNCHANGED <<conn, worker>>
    /\ UNCHANGED <<req, native, ctl, fan>>

WorkBegin ==
    /\ Section("work_begin", ~conn.closing /\ ~conn.foreign /\ ~conn.cleanup,
               [conn EXCEPT !.foreign = TRUE],
               IF worker.operation = "rollback" THEN "engine" ELSE "call_begin")
    /\ engine' = IF worker.operation = "rollback" THEN [engine EXCEPT !.at = "entering"] ELSE engine

CallSuppressed == conn.active # NoRequest /\ native[conn.active].cancelled

\* native_call_begin of a latched request: the call is not made.
CallCancelled ==
    /\ CallSuppressed
    /\ Section("call_begin", conn.foreign /\ ~conn.cleanup /\ ~conn.closing, conn,
               IF worker.operation = "user" THEN "cleanup_begin" ELSE "work_end")
    /\ UNCHANGED engine

\* native_call_begin otherwise: USER if the call can be interrupted.
CallAdmitted ==
    /\ worker.pc = "call_begin" /\ conn.guard /\ ~CallSuppressed
    /\ IF conn.foreign /\ ~conn.cleanup /\ ~conn.closing
       THEN IF worker.operation = "user"
            THEN /\ conn' = [conn EXCEPT !.guard = FALSE,
                        !.phase = IF conn.active # NoRequest THEN "USER" ELSE "NONINTERRUPTIBLE"]
                 /\ engine' = [engine EXCEPT !.at = "entering"]
                 /\ Goto("engine") /\ UNCHANGED fatal
            ELSE conn' = Unlock(conn) /\ Goto("work_end") /\ UNCHANGED <<engine, fatal>>
       ELSE fatal' = TRUE /\ UNCHANGED <<conn, worker, engine>>
    /\ UNCHANGED <<req, native, ctl, fan>>

\* DuckDB clears its interrupt flag when a call starts (external).
EngineEnter ==
    /\ engine.at = "entering"
    /\ engine' = [engine EXCEPT !.at = "running", !.interrupt = FALSE]
    /\ UNCHANGED <<req, native, ctl, conn, worker, fan, fatal>>

\* The call ends by itself or because it saw the flag (external).  Another
\* subcall may follow; the last one goes straight into cleanup.
EngineReturn ==
    /\ engine.at = "running"
    /\ engine' = [engine EXCEPT !.at = "out"]
    /\ \E pc \in (IF worker.operation = "user" THEN {"call_end", "cleanup_begin"}
                  ELSE {"cleanup_begin"}) : Goto(pc)
    /\ UNCHANGED <<req, native, ctl, conn, fan, fatal>>

CallEnd ==
    /\ \E pc \in {"call_begin", "cleanup_begin"} : Section("call_end", TRUE, conn, pc)
    /\ UNCHANGED engine

CleanupBegin ==
    /\ Section("cleanup_begin", TRUE, [conn EXCEPT !.cleanup = TRUE], "cleanup_end")
    /\ UNCHANGED engine

CleanupEnd ==
    /\ Section("cleanup_end", conn.cleanup,
               [conn EXCEPT !.cleanup = FALSE], IF conn.closing THEN "mark_closed" ELSE "work_end")
    /\ UNCHANGED engine

WorkEnd ==
    /\ Section("work_end", conn.foreign /\ ~conn.cleanup, [conn EXCEPT !.foreign = FALSE],
               IF worker.operation = "rollback" THEN "rolled_back" ELSE "body")
    /\ UNCHANGED engine

\* settle: a rollback that failed discards the connection on the spot (begin_discard
\* and destroy_connection, which joins the controller and detaches the request).
RolledBack ==
    /\ worker.pc = "rolled_back"
    /\ \/ Goto("body") /\ UNCHANGED conn
       \/ /\ worker' = [worker EXCEPT !.pc = "stop", !.destroying = TRUE]
          /\ conn' = [conn EXCEPT !.gate = "Closing"]
    /\ UNCHANGED <<req, native, ctl, engine, fan, fatal>>

-----------------------------------------------------------------------------
(* The cleanup of Bridge.run.                                               *)

Quiesce ==
    /\ worker.pc = "quiesce"
    /\ req' = [req EXCEPT ![worker.run].state = "Quiescing"]
    /\ Goto("stop")
    /\ UNCHANGED <<native, ctl, conn, engine, fan, fatal>>

\* join_controller: ask the controller to stop, then wait for its thread.
StopController ==
    /\ worker.pc = "stop"
    /\ req' = [req EXCEPT ![worker.run].stop = TRUE]
    /\ Goto("join")
    /\ UNCHANGED <<native, ctl, conn, engine, fan, fatal>>

JoinController ==
    /\ worker.pc = "join"
    /\ Joinable(worker.run)
    /\ req' = [req EXCEPT ![worker.run].state = IF worker.destroying THEN @ ELSE "Settling"]
    /\ Goto("take")
    /\ UNCHANGED <<native, ctl, conn, engine, fan, fatal>>

AfterDetach == IF worker.destroying THEN "close_begin" ELSE "discard"

\* detach_request: nobody can cancel the native request any more ...
TakeNative ==
    LET r == worker.run IN
    /\ worker.pc = "take"
    /\ req' = [req EXCEPT ![r].rooted = FALSE]
    /\ Goto(IF req[r].rooted THEN "uninstall" ELSE AfterDetach)
    /\ UNCHANGED <<native, ctl, conn, engine, fan, fatal>>

\* ... it leaves the connection and its storage is freed.  Contention, pending
\* work and a pending delivery are failures of the program.
Uninstall ==
    LET r == worker.run IN
    /\ worker.pc = "uninstall"
    /\ IF /\ native[r].state = "INSTALLED"
          /\ conn.guard \/ conn.foreign \/ conn.cleanup \/ native[r].reserved \/ conn.active # r
       THEN fatal' = TRUE /\ UNCHANGED <<native, conn, worker>>
       ELSE /\ native' = [native EXCEPT ![r].state = "freed"]
            /\ conn' = [conn EXCEPT !.active = IF native[r].state = "INSTALLED" THEN NoRequest ELSE @]
            /\ Goto(AfterDetach)
            /\ UNCHANGED fatal
    /\ UNCHANGED <<req, ctl, engine, fan>>

\* An interrupted connection is closed (begin_discard, destroy_connection), not
\* returned; destroying one that a failed rollback destroyed does nothing more.
SpoiledByError(r) ==  \* mutant: a connection that produced a result is kept
    req[r].interrupted /\ worker.result # "Ok"

Spoiled(r) == req[r].interrupted

Discard ==
    /\ worker.pc = "discard"
    /\ conn' = [conn EXCEPT !.gate = IF Spoiled(worker.run) THEN "Closing" ELSE @]
    /\ Goto(IF ~Spoiled(worker.run) THEN "finish" ELSE
            IF conn.closing THEN "mark_closed" ELSE "close_begin")
    /\ UNCHANGED <<req, native, ctl, engine, fan, fatal>>

CloseBegin ==
    /\ Section("close_begin", ~conn.foreign /\ ~conn.cleanup /\ conn.active = NoRequest,
               [conn EXCEPT !.closing = TRUE], "cleanup_begin")
    /\ UNCHANGED engine

\* mark_closed ends destroy_connection.
MarkClosed ==
    /\ worker.pc = "mark_closed"
    /\ conn' = [conn EXCEPT !.gate = "Closed_state"]
    /\ worker' = [worker EXCEPT !.pc = IF worker.destroying THEN "body" ELSE "finish",
                                !.destroying = FALSE]
    /\ UNCHANGED <<req, native, ctl, engine, fan, fatal>>

ReportedResult(r, result) == result  \* mutant: success survives a late cancellation

Reported(r, result) == IF result = "Ok" /\ req[r].cancelled THEN "Cancelled" ELSE result

\* finish, under gate and request mutex.
Finish ==
    LET r == worker.run IN
    /\ worker.pc = "finish"
    /\ req' = [req EXCEPT ![r].state = "Finished", ![r].outcome = Reported(r, worker.result)]
    /\ conn' = [conn EXCEPT !.lease = NoRequest]
    /\ worker' = [worker EXCEPT !.pc = "idle", !.run = NoRequest]
    /\ UNCHANGED <<native, ctl, engine, fan, fatal>>

-----------------------------------------------------------------------------
(* The controller thread of request r.  It always holds the runtime.        *)

Advance(r, pc) == ctl' = [ctl EXCEPT ![r] = pc]

Check(r) ==
    /\ ctl[r] = "check"
    /\ Advance(r, IF req[r].stop THEN "done" ELSE "reserve")
    /\ UNCHANGED <<req, native, conn, engine, worker, fan, fatal>>

Eligible(r) ==
    /\ conn.active = r /\ native[r].cancelled
    /\ conn.phase = "USER" /\ ~conn.closing

Reserve(r) ==
    /\ ctl[r] = "reserve"
    /\ \/ /\ ~conn.guard /\ Eligible(r)
          /\ native' = [native EXCEPT ![r].reserved = TRUE]
          /\ Advance(r, "deliver")
          /\ fatal' = (fatal \/ native[r].reserved)
       \/ /\ conn.guard \/ ~Eligible(r)
          /\ Advance(r, "check")
          /\ UNCHANGED <<native, fatal>>
    /\ UNCHANGED <<req, conn, engine, worker, fan>>

\* try_interrupt decides again: the call may have ended since the reservation.
Deliver(r) ==
    /\ ctl[r] = "deliver"
    /\ \/ /\ ~conn.guard /\ Eligible(r)
          /\ engine' = [engine EXCEPT !.interrupt = TRUE, !.touched = TRUE]
          /\ Advance(r, "mark")
       \/ /\ conn.guard \/ ~Eligible(r)
          /\ Advance(r, "retire")
          /\ UNCHANGED engine
    /\ UNCHANGED <<req, native, conn, worker, fan, fatal>>

Mark(r) ==
    /\ ctl[r] = "mark"
    /\ req' = [req EXCEPT ![r].interrupted = TRUE]
    /\ Advance(r, "retire")
    /\ UNCHANGED <<native, conn, engine, worker, fan, fatal>>

RetireForGood(r) ==  \* mutant: one delivery is taken to be enough
    /\ ctl[r] = "retire"
    /\ native' = [native EXCEPT ![r].reserved = FALSE]
    /\ Advance(r, "done")
    /\ UNCHANGED <<req, conn, engine, worker, fan, fatal>>

Retire(r) ==
    /\ ctl[r] = "retire"
    /\ native' = [native EXCEPT ![r].reserved = FALSE]
    /\ Advance(r, "check")
    /\ UNCHANGED <<req, conn, engine, worker, fan, fatal>>

-----------------------------------------------------------------------------
Controller(r) == Check(r) \/ Reserve(r) \/ Deliver(r) \/ Mark(r) \/ Retire(r)

\* What the worker thread does by itself, engine calls apart.
WorkerStep ==
    \/ Admit \/ Create \/ Install \/ Start \/ AdmitCleanup \/ JoinCleanup \/ BodyReturns
    \/ Lock \/ WorkBegin \/ CallCancelled \/ CallAdmitted \/ EngineEnter \/ CallEnd
    \/ CleanupBegin \/ CleanupEnd \/ WorkEnd \/ RolledBack
    \/ Quiesce \/ StopController \/ JoinController \/ TakeNative \/ Uninstall
    \/ Discard \/ CloseBegin \/ MarkClosed \/ Finish

Next ==
    /\ ~fatal
    /\ \/ Cancel
       \/ \E r \in Requests : Bind(r) \/ CancelState(r) \/ Consume(r) \/ Controller(r)
       \/ Operate
       \/ EngineReturn
       \/ WorkerStep

\* Threads run.  A user call need not return by itself: it does so only once it
\* saw an interrupt.  A rollback returns.
Fairness ==
    /\ WF_vars(WorkerStep)
    /\ WF_vars(EngineReturn /\ (engine.interrupt \/ worker.operation = "rollback"))
    /\ \A r \in Requests : WF_vars(Controller(r)) /\ WF_vars(CancelState(r))

Spec == Init /\ [][Next]_vars
FairSpec == Spec /\ Fairness

-----------------------------------------------------------------------------
\* Types; and the native phase agrees with the worker: USER is only ever seen
\* while an interruptible call is in progress or about to be closed off.
TypeOK ==
    /\ req \in [Requests -> Request]
    /\ native \in [Requests -> NativeRequest]
    /\ ctl \in [Requests -> ControllerPcs]
    /\ conn \in Connection
    /\ engine \in Engine
    /\ worker \in Worker
    /\ fan \in Canceller
    /\ fatal \in BOOLEAN
    /\ conn.phase = "USER" =>
        worker.operation = "user" /\ worker.pc \in {"engine", "call_end", "cleanup_begin"}

\* The aborts of the native layer are unreachable: work, cleanup and close are
\* balanced, the guard is free where the runtime is held, a delivery is reserved
\* by one controller, and detaching finds neither work nor a delivery pending.
\* "Native storage remains installed and rooted until this join has completed":
\* while a controller thread is alive its native request is neither detached nor
\* freed, and the connection is still leased to its request.
NeverFatal ==
    /\ ~fatal
    /\ \A r \in Requests : ctl[r] \notin {"off", "done"} =>
        native[r].state = "INSTALLED" /\ conn.active = r /\ conn.lease = r

\* An interrupt hits nothing but the call it was meant for.  "No USER boundary occurs
\* within rollback": a rollback never runs under one, however late the cancellation
\* that caused it was delivered.  A connection that ever received one does not outlive
\* the request it was meant for: nobody else finds it open.
InterruptContained ==
    /\ engine.at = "running" /\ worker.operation = "rollback" => ~engine.interrupt
    /\ engine.touched /\ conn.lease = NoRequest => conn.gate = "Closed_state"

\* Cancellation reaches every request of the canceller, also those bound after
\* it, and a request it reached before finish never reports success.
CancellationReported ==
    /\ \A r \in Requests : req[r].outcome = "Ok" => ~req[r].cancelled
    /\ fan.latched /\ fan.todo = {} =>
        \A r \in Requests : req[r].state \in {"Unbound", "Finished"} \/ req[r].cancelled

\* A cancelled run returns, even from an engine call that would not end by itself
\* and even if the first interrupt was lost to the engine's reset (under Fairness).
CancelCompletes ==
    \A r \in Requests : req[r].cancelled /\ r = worker.run ~> req[r].state = "Finished"
=============================================================================
