-------------------------- MODULE BridgeRunProofs --------------------------
(***************************************************************************)
(* Proofs about BridgeRun for every set of requests.                       *)
(*                                                                         *)
(* The invariant says what each program counter of the worker means for    *)
(* the connection (Position), for the native requests and the controllers  *)
(* (Storage), for the canceller (Reached) and for a connection that an     *)
(* interrupt has touched (Contained).                                      *)
(***************************************************************************)
EXTENDS BridgeRun, TLAPS

-----------------------------------------------------------------------------
(* The inductive invariant.                                                 *)

\* Where the connection's work flag is up, unless the connection is being closed.
CallPcs == {"call_begin", "engine", "call_end", "work_end"}
CleanupPcs == {"cleanup_begin", "cleanup_end"}

\* Where the worker may be once the connection is being closed.
ClosingPcs == CleanupPcs \cup {"mark_closed", "body", "quiesce", "stop", "join", "take", "discard",
                               "finish", "idle", "admit"}

\* Where a failed rollback destroys the connection.
DestroyingPcs == CleanupPcs \cup {"stop", "join", "take", "uninstall", "close_begin", "mark_closed"}

\* Where no request is on the connection.
DetachedPcs == {"idle", "admit", "create", "install", "discard", "close_begin", "mark_closed", "finish"}

\* Where a controller may be alive.
ControlledPcs == CallPcs \cup CleanupPcs \cup
    {"body", "work_begin", "admit_cleanup", "join_cleanup", "rolled_back", "quiesce", "stop", "join"}

Running == {"Admitted", "Running", "Quiescing", "Settling"}

Leased ==
    /\ worker.run = NoRequest <=> worker.pc = "idle"
    /\ worker.pc # "idle" => req[worker.run].state \in Running
    /\ worker.pc \in {"idle", "admit"} => conn.lease = NoRequest
    /\ worker.pc = "finish" => conn.lease \in {NoRequest, worker.run}
    /\ worker.pc \notin {"idle", "admit", "finish"} => conn.lease = worker.run

Balanced ==
    /\ conn.guard => worker.pc \in GuardPcs
    /\ conn.foreign <=> worker.pc \in CallPcs \/ (worker.pc \in CleanupPcs /\ ~conn.closing)
    /\ conn.cleanup <=> worker.pc = "cleanup_end"
    /\ engine.at # "out" => worker.pc = "engine"

Closing ==
    /\ conn.closing => /\ conn.gate # "Open" /\ conn.active = NoRequest
                       /\ worker.pc \in ClosingPcs
                       /\ worker.pc = "body" => ~worker.owed
    /\ conn.gate = "Closed_state" => conn.closing
    /\ worker.pc = "mark_closed" => conn.closing
    /\ worker.pc = "close_begin" \/ worker.destroying => conn.gate # "Open"
    /\ worker.pc \in {"create", "install", "start"} => conn.gate = "Open"
    /\ worker.operation = "rollback" => ~worker.owed
    /\ worker.pc \in {"admit_cleanup", "join_cleanup", "rolled_back"} => worker.operation = "rollback"
    /\ worker.destroying =>
        /\ worker.operation = "rollback" /\ worker.pc \in DestroyingPcs
        /\ conn.closing <=> worker.pc \in CleanupPcs \cup {"mark_closed"}

Stored ==
    /\ conn.active \in {NoRequest, worker.run}
    /\ worker.pc \in DetachedPcs => conn.active = NoRequest
    /\ worker.pc = "start" => conn.active = worker.run
    /\ worker.pc = "install" => req[worker.run].rooted
    /\ worker.pc = "uninstall" => ~req[worker.run].rooted
    /\ \A q \in Requests :
        /\ native[q].state = "INSTALLED" <=> conn.active = q
        /\ conn.active = q /\ worker.pc # "uninstall" => req[q].rooted
        /\ req[q].rooted => conn.active = q \/ (worker.run = q /\ worker.pc = "install")

Controlled ==
    \A q \in Requests :
        /\ ctl[q] \notin {"off", "done"} => conn.active = q /\ worker.pc \in ControlledPcs
        /\ native[q].reserved => ctl[q] \in {"deliver", "mark", "retire"}

Reached ==
    \A q \in Requests :
        /\ req[q].outcome # "none" => req[q].state = "Finished"
        /\ req[q].outcome = "Ok" => ~req[q].cancelled
        /\ req[q].state \notin {"Unbound", "Finished"} => q \in fan.live
        /\ fan.latched => req[q].state \in {"Unbound", "Finished"} \/ req[q].cancelled \/ q \in fan.todo

Contained ==
    /\ engine.at = "running" /\ worker.operation = "rollback" => ~engine.interrupt
    /\ engine.touched /\ conn.gate # "Closed_state" =>
        /\ worker.pc \notin {"idle", "admit", "create", "install", "start", "finish"}
        /\ ctl[worker.run] = "mark" \/ req[worker.run].interrupted

IInv ==
    /\ TypeOK /\ ~fatal
    /\ Leased /\ Balanced /\ Closing /\ Stored /\ Controlled /\ Reached /\ Contained

-----------------------------------------------------------------------------
(* One lemma per step.  Each first says what the step does to the fields.   *)

\* The worker has a request wherever it is not idle.
LEMMA RunIsRequest ==
    ASSUME IInv
    PROVE  worker.pc # "idle" => worker.run \in Requests
BY DEF IInv, TypeOK, Worker, Leased

\* What the body of Bridge.run does when it calls an operation.
Begins(operation) ==
    /\ IF operation = "rollback" THEN worker.owed
       ELSE conn.gate = "Open" /\ ~req[worker.run].cancelled
    /\ worker' = [worker EXCEPT !.operation = operation,
                    !.pc = IF operation = "rollback" THEN "admit_cleanup" ELSE "work_begin",
                    !.owed = operation = "user" \/ (@ /\ operation # "rollback")]

\* A request bound after the cancellation starts cancelled.
LEMMA BindKeeps ==
    ASSUME IInv, NEW r \in Requests, Bind(r)
    PROVE  IInv'
<1>1. worker.pc # "idle" => worker.run \in Requests
  BY RunIsRequest
<1>2. /\ UNCHANGED <<native, ctl, conn, engine, worker, fatal>> /\ req[r].state = "Unbound"
      /\ fan.todo = {}
  BY <1>1 DEF Bind, BindLatched, Prune, Canceller
<1>3. /\ req' \in [Requests -> Request]
      /\ \A q \in Requests \ {r} : req'[q] = req[q]
      /\ req'[r].state = "Fresh" /\ req'[r].cancelled = fan.latched
      /\ req'[r].rooted = req[r].rooted /\ req'[r].stop = req[r].stop
      /\ req'[r].interrupted = req[r].interrupted /\ req'[r].outcome = req[r].outcome
  BY <1>1, <1>2 DEF IInv, TypeOK, Request, RequestStates, Outcomes, Bind, BindLatched, Prune,
     Canceller
<1>4. /\ fan' \in Canceller /\ fan'.latched = fan.latched
      /\ fan'.live = {q \in fan.live : req[q].state # "Finished"} \cup {r} /\ fan'.todo = fan.todo
  BY <1>1, <1>2 DEF IInv, TypeOK, Canceller, Bind, BindLatched, Prune
<1>5. TypeOK' /\ ~fatal'
  BY <1>1, <1>2, <1>3, <1>4 DEF IInv, TypeOK
<1>6. Leased'
  BY RequestsAssumption, <1>1, <1>2, <1>3, <1>4 DEF IInv, Leased, Running
<1>7. Stored'
  BY RequestsAssumption, <1>1, <1>2, <1>3, <1>4 DEF IInv, Stored, DetachedPcs
<1>8. Reached'
  BY <1>1, <1>2, <1>3, <1>4 DEF IInv, Reached
<1>9. Contained'
  BY <1>1, <1>2, <1>3, <1>4 DEF IInv, Contained
<1>10. Balanced' /\ Closing' /\ Controlled'
  BY <1>1, <1>2, <1>3, <1>4 DEF IInv, Balanced, Closing, Controlled
<1>. QED
  BY <1>5, <1>6, <1>7, <1>8, <1>9, <1>10 DEF IInv

\* Every request that is bound and not finished is listed.
LEMMA CancelKeeps ==
    ASSUME IInv, Cancel
    PROVE  IInv'
<1>1. /\ UNCHANGED <<req, native, ctl, conn, engine, worker, fatal>> /\ ~fan.latched
  BY DEF Cancel, Prune
<1>2. /\ fan' \in Canceller /\ fan'.latched = TRUE
      /\ fan'.live = {q \in fan.live : req[q].state # "Finished"}
      /\ fan'.todo = {q \in fan.live : req[q].state # "Finished"}
  BY <1>1 DEF IInv, TypeOK, Canceller, Cancel, Prune
<1>3. TypeOK' /\ ~fatal'
  BY <1>1, <1>2 DEF IInv, TypeOK
<1>4. Reached'
  BY <1>1, <1>2 DEF IInv, Reached
<1>5. Leased' /\ Balanced' /\ Closing' /\ Stored' /\ Controlled' /\ Contained'
  BY <1>1, <1>2 DEF IInv, Leased, Balanced, Closing, Stored, Controlled, Contained
<1>. QED
  BY <1>3, <1>4, <1>5 DEF IInv

\* A finished request is left alone; any other is cancelled.
LEMMA CancelStateKeeps ==
    ASSUME IInv, NEW r \in Requests, CancelState(r)
    PROVE  IInv'
<1>1. CASE req[r].state = "Finished" /\ UNCHANGED <<req, native>>
  <2>1. /\ UNCHANGED <<req, native, ctl, conn, engine, worker, fatal>> /\ req[r].state = "Finished"
    BY <1>1 DEF CancelState
  <2>2. /\ fan' \in Canceller /\ fan'.latched = fan.latched /\ fan'.live = fan.live
        /\ fan'.todo = fan.todo \ {r}
    BY <1>1, <2>1 DEF IInv, TypeOK, Canceller, CancelState
  <2>3. TypeOK' /\ ~fatal'
    BY <1>1, <2>1, <2>2 DEF IInv, TypeOK
  <2>4. Reached'
    BY <1>1, <2>1, <2>2 DEF IInv, Reached
  <2>5. Leased' /\ Balanced' /\ Closing' /\ Stored' /\ Controlled' /\ Contained'
    BY <1>1, <2>1, <2>2 DEF IInv, Leased, Balanced, Closing, Stored, Controlled, Contained
  <2>. QED
    BY <2>3, <2>4, <2>5 DEF IInv
<1>2. CASE /\ req[r].state # "Finished"
           /\ req' = [req EXCEPT ![r].cancelled = TRUE]
           /\ native' = [native EXCEPT ![r].cancelled = @ \/ req[r].rooted]
  <2>1. worker.pc # "idle" => worker.run \in Requests
    BY RunIsRequest
  <2>2. /\ UNCHANGED <<ctl, conn, engine, worker, fatal>> /\ req[r].state # "Finished"
    BY <1>2, <2>1 DEF CancelState
  <2>3. /\ req' \in [Requests -> Request]
        /\ \A q \in Requests \ {r} : req'[q] = req[q]
        /\ req'[r].state = req[r].state /\ req'[r].cancelled = TRUE
        /\ req'[r].rooted = req[r].rooted /\ req'[r].stop = req[r].stop
        /\ req'[r].interrupted = req[r].interrupted /\ req'[r].outcome = req[r].outcome
    BY <1>2, <2>1, <2>2 DEF IInv, TypeOK, Request, RequestStates, Outcomes, CancelState
  <2>4. /\ native' \in [Requests -> NativeRequest]
        /\ \A q \in Requests \ {r} : native'[q] = native[q]
        /\ native'[r].state = native[r].state /\ native'[r].reserved = native[r].reserved
        /\ native'[r].cancelled = (native[r].cancelled \/ req[r].rooted)
    BY <1>2, <2>1, <2>2 DEF IInv, TypeOK, NativeRequest, NativeStates, CancelState
  <2>5. /\ fan' \in Canceller /\ fan'.latched = fan.latched /\ fan'.live = fan.live
        /\ fan'.todo = fan.todo \ {r}
    BY <1>2, <2>1, <2>2 DEF IInv, TypeOK, Canceller, CancelState
  <2>6. TypeOK' /\ ~fatal'
    BY <1>2, <2>1, <2>2, <2>3, <2>4, <2>5 DEF IInv, TypeOK
  <2>7. Leased'
    BY RequestsAssumption, <1>2, <2>1, <2>2, <2>3, <2>4, <2>5 DEF IInv, Leased, Running
  <2>8. Stored'
    BY RequestsAssumption, <1>2, <2>1, <2>2, <2>3, <2>4, <2>5 DEF IInv, Stored, DetachedPcs
  <2>9. Controlled'
    BY RequestsAssumption, <1>2, <2>1, <2>2, <2>3, <2>4, <2>5 DEF IInv, Controlled, ControlledPcs,
       CallPcs, CleanupPcs
  <2>10. Reached'
    BY <1>2, <2>1, <2>2, <2>3, <2>4, <2>5 DEF IInv, Reached
  <2>11. Contained'
    BY <1>2, <2>1, <2>2, <2>3, <2>4, <2>5 DEF IInv, Contained
  <2>12. Balanced' /\ Closing'
    BY <1>2, <2>1, <2>2, <2>3, <2>4, <2>5 DEF IInv, Balanced, Closing
  <2>. QED
    BY <2>6, <2>7, <2>8, <2>9, <2>10, <2>11, <2>12 DEF IInv
<1>. QED
  BY <1>1, <1>2 DEF CancelState

\* The worker takes one request at a time.
LEMMA ConsumeKeeps ==
    ASSUME IInv, NEW r \in Requests, Consume(r)
    PROVE  IInv'
<1>1. worker.pc # "idle" => worker.run \in Requests
  BY RunIsRequest
<1>2. /\ UNCHANGED <<native, ctl, conn, engine, fan, fatal>> /\ worker.pc = "idle"
      /\ req[r].state = "Fresh"
  BY <1>1 DEF Consume
<1>3. /\ req' \in [Requests -> Request]
      /\ \A q \in Requests \ {r} : req'[q] = req[q]
      /\ req'[r].state = "Admitted" /\ req'[r].cancelled = req[r].cancelled
      /\ req'[r].rooted = req[r].rooted /\ req'[r].stop = req[r].stop
      /\ req'[r].interrupted = req[r].interrupted /\ req'[r].outcome = req[r].outcome
  BY <1>1, <1>2 DEF IInv, TypeOK, Request, RequestStates, Outcomes, Consume
<1>4. /\ worker' \in Worker /\ worker'.pc = "admit" /\ worker'.run = r
      /\ worker'.operation = worker.operation /\ worker'.owed = FALSE
      /\ worker'.destroying = worker.destroying /\ worker'.result = "none"
  BY <1>1, <1>2 DEF IInv, TypeOK, Worker, WorkerPcs, Operations, Outcomes, GuardPcs, Consume
<1>5. TypeOK' /\ ~fatal'
  BY <1>1, <1>2, <1>3, <1>4 DEF IInv, TypeOK
<1>6. Leased'
  BY RequestsAssumption, <1>1, <1>2, <1>3, <1>4 DEF IInv, Leased, Running
<1>7. Balanced'
  BY <1>1, <1>2, <1>3, <1>4 DEF IInv, Balanced, CallPcs, CleanupPcs, GuardPcs
<1>8. Closing'
  BY <1>1, <1>2, <1>3, <1>4 DEF IInv, Closing, ClosingPcs, DestroyingPcs, CleanupPcs
<1>9. Stored'
  BY RequestsAssumption, <1>1, <1>2, <1>3, <1>4 DEF IInv, Stored, DetachedPcs
<1>10. Controlled'
  BY RequestsAssumption, <1>1, <1>2, <1>3, <1>4 DEF IInv, Controlled, ControlledPcs, CallPcs,
     CleanupPcs
<1>11. Reached'
  BY <1>1, <1>2, <1>3, <1>4 DEF IInv, Reached
<1>12. Contained'
  BY <1>1, <1>2, <1>3, <1>4 DEF IInv, Contained
<1>. QED
  BY <1>5, <1>6, <1>7, <1>8, <1>9, <1>10, <1>11, <1>12 DEF IInv

\* Only an open connection is leased.
LEMMA AdmitKeeps ==
    ASSUME IInv, Admit
    PROVE  IInv'
<1>1. CASE Fail("finish", "Error") /\ UNCHANGED conn
  <2>1. /\ UNCHANGED <<req, native, ctl, conn, engine, fan, fatal>> /\ worker.pc = "admit"
    BY <1>1 DEF Admit, Fail, Goto
  <2>2. /\ worker' \in Worker /\ worker'.pc = "finish" /\ worker'.run = worker.run
        /\ worker'.operation = worker.operation /\ worker'.owed = worker.owed
        /\ worker'.destroying = worker.destroying /\ worker'.result = "Error"
    BY <1>1, <2>1 DEF IInv, TypeOK, Worker, WorkerPcs, Operations, Outcomes, GuardPcs, Admit, Fail,
       Goto
  <2>3. TypeOK' /\ ~fatal'
    BY <1>1, <2>1, <2>2 DEF IInv, TypeOK
  <2>4. Leased'
    BY RequestsAssumption, <1>1, <2>1, <2>2 DEF IInv, Leased, Running
  <2>5. Balanced'
    BY <1>1, <2>1, <2>2 DEF IInv, Balanced, CallPcs, CleanupPcs, GuardPcs
  <2>6. Closing'
    BY <1>1, <2>1, <2>2 DEF IInv, Closing, ClosingPcs, DestroyingPcs, CleanupPcs
  <2>7. Stored'
    BY RequestsAssumption, <1>1, <2>1, <2>2 DEF IInv, Stored, DetachedPcs
  <2>8. Controlled'
    BY RequestsAssumption, <1>1, <2>1, <2>2 DEF IInv, Controlled, ControlledPcs, CallPcs, CleanupPcs
  <2>9. Contained'
    BY <1>1, <2>1, <2>2 DEF IInv, Contained
  <2>10. Reached'
    BY <1>1, <2>1, <2>2 DEF IInv, Reached
  <2>. QED
    BY <2>3, <2>4, <2>5, <2>6, <2>7, <2>8, <2>9, <2>10 DEF IInv
<1>2. CASE Fail("finish", "Cancelled") /\ UNCHANGED conn
  <2>1. /\ UNCHANGED <<req, native, ctl, conn, engine, fan, fatal>> /\ worker.pc = "admit"
    BY <1>2 DEF Admit, Fail, Goto
  <2>2. /\ worker' \in Worker /\ worker'.pc = "finish" /\ worker'.run = worker.run
        /\ worker'.operation = worker.operation /\ worker'.owed = worker.owed
        /\ worker'.destroying = worker.destroying /\ worker'.result = "Cancelled"
    BY <1>2, <2>1 DEF IInv, TypeOK, Worker, WorkerPcs, Operations, Outcomes, GuardPcs, Admit, Fail,
       Goto
  <2>3. TypeOK' /\ ~fatal'
    BY <1>2, <2>1, <2>2 DEF IInv, TypeOK
  <2>4. Leased'
    BY RequestsAssumption, <1>2, <2>1, <2>2 DEF IInv, Leased, Running
  <2>5. Balanced'
    BY <1>2, <2>1, <2>2 DEF IInv, Balanced, CallPcs, CleanupPcs, GuardPcs
  <2>6. Closing'
    BY <1>2, <2>1, <2>2 DEF IInv, Closing, ClosingPcs, DestroyingPcs, CleanupPcs
  <2>7. Stored'
    BY RequestsAssumption, <1>2, <2>1, <2>2 DEF IInv, Stored, DetachedPcs
  <2>8. Controlled'
    BY RequestsAssumption, <1>2, <2>1, <2>2 DEF IInv, Controlled, ControlledPcs, CallPcs, CleanupPcs
  <2>9. Contained'
    BY <1>2, <2>1, <2>2 DEF IInv, Contained
  <2>10. Reached'
    BY <1>2, <2>1, <2>2 DEF IInv, Reached
  <2>. QED
    BY <2>3, <2>4, <2>5, <2>6, <2>7, <2>8, <2>9, <2>10 DEF IInv
<1>3. CASE conn.gate = "Open" /\ conn' = [conn EXCEPT !.lease = worker.run] /\ Goto("create")
  <2>1. worker.run \in Requests /\ req[worker.run].state \in Running
    BY RunIsRequest DEF IInv, Leased, Admit
  <2>2. /\ UNCHANGED <<req, native, ctl, engine, fan, fatal>> /\ worker.pc = "admit"
        /\ conn.gate = "Open"
    BY <1>3, <2>1 DEF Admit, Fail, Goto
  <2>3. /\ conn' \in Connection /\ conn'.gate = conn.gate /\ conn'.lease = worker.run
        /\ conn'.guard = conn.guard /\ conn'.active = conn.active /\ conn'.phase = conn.phase
        /\ conn'.foreign = conn.foreign /\ conn'.cleanup = conn.cleanup
        /\ conn'.closing = conn.closing
    BY <1>3, <2>1, <2>2 DEF IInv, TypeOK, Connection, Phases, Admit, Fail, Goto
  <2>4. /\ worker' \in Worker /\ worker'.pc = "create" /\ worker'.run = worker.run
        /\ worker'.operation = worker.operation /\ worker'.owed = worker.owed
        /\ worker'.destroying = worker.destroying /\ worker'.result = worker.result
    BY <1>3, <2>1, <2>2 DEF IInv, TypeOK, Worker, WorkerPcs, Operations, Outcomes, GuardPcs, Admit,
       Fail, Goto
  <2>5. TypeOK' /\ ~fatal'
    BY <1>3, <2>1, <2>2, <2>3, <2>4 DEF IInv, TypeOK
  <2>6. Leased'
    BY RequestsAssumption, <1>3, <2>1, <2>2, <2>3, <2>4 DEF IInv, Leased, Running
  <2>7. Balanced'
    BY <1>3, <2>1, <2>2, <2>3, <2>4 DEF IInv, Balanced, CallPcs, CleanupPcs, GuardPcs
  <2>8. Closing'
    BY <1>3, <2>1, <2>2, <2>3, <2>4 DEF IInv, Closing, ClosingPcs, DestroyingPcs, CleanupPcs
  <2>9. Stored'
    BY RequestsAssumption, <1>3, <2>1, <2>2, <2>3, <2>4 DEF IInv, Stored, DetachedPcs
  <2>10. Controlled'
    BY RequestsAssumption, <1>3, <2>1, <2>2, <2>3, <2>4 DEF IInv, Controlled, ControlledPcs,
       CallPcs, CleanupPcs
  <2>11. Contained'
    BY <1>3, <2>1, <2>2, <2>3, <2>4 DEF IInv, Contained
  <2>12. Reached'
    BY <1>3, <2>1, <2>2, <2>3, <2>4 DEF IInv, Reached
  <2>. QED
    BY <2>5, <2>6, <2>7, <2>8, <2>9, <2>10, <2>11, <2>12 DEF IInv
<1>. QED
  BY <1>1, <1>2, <1>3 DEF Admit, Fail, Goto

\* The native request is rooted before it is installed.
LEMMA CreateKeeps ==
    ASSUME IInv, Create
    PROVE  IInv'
<1>1. CASE Fail("quiesce", "Error") /\ UNCHANGED <<req, native>>
  <2>1. /\ UNCHANGED <<req, native, ctl, conn, engine, fan, fatal>> /\ worker.pc = "create"
    BY <1>1 DEF Create, Fail, Goto
  <2>2. /\ worker' \in Worker /\ worker'.pc = "quiesce" /\ worker'.run = worker.run
        /\ worker'.operation = worker.operation /\ worker'.owed = worker.owed
        /\ worker'.destroying = worker.destroying /\ worker'.result = "Error"
    BY <1>1, <2>1 DEF IInv, TypeOK, Worker, WorkerPcs, Operations, Outcomes, GuardPcs, Create, Fail,
       Goto
  <2>3. TypeOK' /\ ~fatal'
    BY <1>1, <2>1, <2>2 DEF IInv, TypeOK
  <2>4. Leased'
    BY RequestsAssumption, <1>1, <2>1, <2>2 DEF IInv, Leased, Running
  <2>5. Balanced'
    BY <1>1, <2>1, <2>2 DEF IInv, Balanced, CallPcs, CleanupPcs, GuardPcs
  <2>6. Closing'
    BY <1>1, <2>1, <2>2 DEF IInv, Closing, ClosingPcs, DestroyingPcs, CleanupPcs
  <2>7. Stored'
    BY RequestsAssumption, <1>1, <2>1, <2>2 DEF IInv, Stored, DetachedPcs
  <2>8. Controlled'
    BY RequestsAssumption, <1>1, <2>1, <2>2 DEF IInv, Controlled, ControlledPcs, CallPcs, CleanupPcs
  <2>9. Contained'
    BY <1>1, <2>1, <2>2 DEF IInv, Contained
  <2>10. Reached'
    BY <1>1, <2>1, <2>2 DEF IInv, Reached
  <2>. QED
    BY <2>3, <2>4, <2>5, <2>6, <2>7, <2>8, <2>9, <2>10 DEF IInv
<1>2. CASE /\ native' = [native EXCEPT ![worker.run].state = "FRESH"]
           /\ req' = [req EXCEPT ![worker.run].rooted = TRUE]
           /\ Goto("install")
  <2>1. worker.run \in Requests /\ req[worker.run].state \in Running
    BY RunIsRequest DEF IInv, Leased, Create
  <2>2. /\ UNCHANGED <<ctl, conn, engine, fan, fatal>> /\ worker.pc = "create"
    BY <1>2, <2>1 DEF Create, Fail, Goto
  <2>3. /\ req' \in [Requests -> Request]
        /\ \A q \in Requests \ {worker.run} : req'[q] = req[q]
        /\ req'[worker.run].state = req[worker.run].state
        /\ req'[worker.run].cancelled = req[worker.run].cancelled /\ req'[worker.run].rooted = TRUE
        /\ req'[worker.run].stop = req[worker.run].stop
        /\ req'[worker.run].interrupted = req[worker.run].interrupted
        /\ req'[worker.run].outcome = req[worker.run].outcome
    <3>. DEFINE new == [req[worker.run] EXCEPT !.rooted = TRUE]
    <3>1. req \in [Requests -> Request] /\ req[worker.run] \in Request /\ worker.run \in Requests
      BY <1>2, <2>1 DEF IInv, TypeOK
    <3>2. req' = [req EXCEPT ![worker.run] = new]
      BY <1>2, <2>1 DEF Create
    <3>3. new \in Request
      BY <3>1 DEF Request
    <3>4. req' \in [Requests -> Request] /\ req'[worker.run] = new
         /\ \A p \in Requests \ {worker.run} : req'[p] = req[p]
      <4>. HIDE DEF new
      <4>. QED
        BY <3>1, <3>2, <3>3
    <3>. QED
      BY <3>1, <3>4 DEF Request
  <2>4. /\ native' \in [Requests -> NativeRequest]
        /\ \A q \in Requests \ {worker.run} : native'[q] = native[q]
        /\ native'[worker.run].state = "FRESH"
        /\ native'[worker.run].reserved = native[worker.run].reserved
        /\ native'[worker.run].cancelled = native[worker.run].cancelled
    BY <1>2, <2>1, <2>2 DEF IInv, TypeOK, NativeRequest, NativeStates, Create, Fail, Goto
  <2>5. /\ worker' \in Worker /\ worker'.pc = "install" /\ worker'.run = worker.run
        /\ worker'.operation = worker.operation /\ worker'.owed = worker.owed
        /\ worker'.destroying = worker.destroying /\ worker'.result = worker.result
    BY <1>2, <2>1, <2>2 DEF IInv, TypeOK, Worker, WorkerPcs, Operations, Outcomes, GuardPcs, Create,
       Fail, Goto
  <2>6. TypeOK' /\ ~fatal'
    BY <1>2, <2>1, <2>2, <2>3, <2>4, <2>5 DEF IInv, TypeOK
  <2>7. Leased'
    BY RequestsAssumption, <1>2, <2>1, <2>2, <2>3, <2>4, <2>5 DEF IInv, Leased, Running
  <2>8. Balanced'
    BY <1>2, <2>1, <2>2, <2>3, <2>4, <2>5 DEF IInv, Balanced, CallPcs, CleanupPcs, GuardPcs
  <2>9. Closing'
    BY <1>2, <2>1, <2>2, <2>3, <2>4, <2>5 DEF IInv, Closing, ClosingPcs, DestroyingPcs, CleanupPcs
  <2>10. Stored'
    BY RequestsAssumption, <1>2, <2>1, <2>2, <2>3, <2>4, <2>5 DEF IInv, Stored, DetachedPcs
  <2>11. Controlled'
    BY RequestsAssumption, <1>2, <2>1, <2>2, <2>3, <2>4, <2>5 DEF IInv, Controlled, ControlledPcs,
       CallPcs, CleanupPcs
  <2>12. Reached'
    BY <1>2, <2>1, <2>2, <2>3, <2>4, <2>5 DEF IInv, Reached
  <2>13. Contained'
    BY <1>2, <2>1, <2>2, <2>3, <2>4, <2>5 DEF IInv, Contained
  <2>. QED
    BY <2>6, <2>7, <2>8, <2>9, <2>10, <2>11, <2>12, <2>13 DEF IInv
<1>. QED
  BY <1>1, <1>2 DEF Create, Fail, Goto

\* The lease is exclusive: nothing else is installed.
LEMMA InstallKeeps ==
    ASSUME IInv, Install
    PROVE  IInv'
<1>1. CASE req[worker.run].cancelled
  <2>1. worker.run \in Requests /\ req[worker.run].state \in Running
    BY RunIsRequest DEF IInv, Leased, Install
  <2>2. ~(conn.guard \/ conn.foreign \/ conn.cleanup \/ conn.active # NoRequest)
    BY DEF IInv, Balanced, Stored, CallPcs, CleanupPcs, GuardPcs, DetachedPcs, Install
  <2>3. /\ native' = [native EXCEPT ![worker.run].state = "INSTALLED",
                                       ![worker.run].cancelled = @ \/ req[worker.run].cancelled]
          /\ conn' = [conn EXCEPT !.active = worker.run]
          /\ req' = [req EXCEPT ![worker.run].state = "Running"]
          /\ UNCHANGED <<ctl, engine, fan, fatal>>
    BY <1>1, <2>1, <2>2 DEF Install
  <2>4. /\ UNCHANGED <<ctl, engine, fan, fatal>> /\ worker.pc = "install"
    BY <1>1, <2>1, <2>2, <2>3 DEF Install, Fail, Goto
  <2>5. /\ req' \in [Requests -> Request]
        /\ \A q \in Requests \ {worker.run} : req'[q] = req[q]
        /\ req'[worker.run].state = "Running"
        /\ req'[worker.run].cancelled = req[worker.run].cancelled
        /\ req'[worker.run].rooted = req[worker.run].rooted
        /\ req'[worker.run].stop = req[worker.run].stop
        /\ req'[worker.run].interrupted = req[worker.run].interrupted
        /\ req'[worker.run].outcome = req[worker.run].outcome
    <3>. DEFINE new == [req[worker.run] EXCEPT !.state = "Running"]
    <3>1. req \in [Requests -> Request] /\ req[worker.run] \in Request /\ worker.run \in Requests
      BY <2>1 DEF IInv, TypeOK
    <3>2. req' = [req EXCEPT ![worker.run] = new]
      BY <2>3
    <3>3. new \in Request
      BY <3>1 DEF Request, RequestStates
    <3>4. req' \in [Requests -> Request] /\ req'[worker.run] = new
         /\ \A p \in Requests \ {worker.run} : req'[p] = req[p]
      <4>. HIDE DEF new
      <4>. QED
        BY <3>1, <3>2, <3>3
    <3>. QED
      BY <3>1, <3>4 DEF Request
  <2>6. /\ native' \in [Requests -> NativeRequest]
        /\ \A q \in Requests \ {worker.run} : native'[q] = native[q]
        /\ native'[worker.run].state = "INSTALLED"
        /\ native'[worker.run].reserved = native[worker.run].reserved
        /\ native'[worker.run].cancelled = (native[worker.run].cancelled \/ req[worker.run].cancelled)
    BY <1>1, <2>1, <2>2, <2>3, <2>4 DEF IInv, TypeOK, NativeRequest, NativeStates, Install, Fail,
       Goto
  <2>7. /\ conn' \in Connection /\ conn'.gate = conn.gate /\ conn'.lease = conn.lease
        /\ conn'.guard = conn.guard /\ conn'.active = worker.run /\ conn'.phase = conn.phase
        /\ conn'.foreign = conn.foreign /\ conn'.cleanup = conn.cleanup
        /\ conn'.closing = conn.closing
    BY <1>1, <2>1, <2>2, <2>3, <2>4 DEF IInv, TypeOK, Connection, Phases, Install, Fail, Goto
  <2>8. /\ worker' \in Worker /\ worker'.pc = "quiesce" /\ worker'.run = worker.run
        /\ worker'.operation = worker.operation /\ worker'.owed = worker.owed
        /\ worker'.destroying = worker.destroying /\ worker'.result = "Cancelled"
    BY <1>1, <2>1, <2>2, <2>3, <2>4 DEF IInv, TypeOK, Worker, WorkerPcs, Operations, Outcomes,
       GuardPcs, Install, Fail, Goto
  <2>9. TypeOK' /\ ~fatal'
    BY <1>1, <2>1, <2>2, <2>3, <2>4, <2>5, <2>6, <2>7, <2>8 DEF IInv, TypeOK
  <2>10. Leased'
    BY RequestsAssumption, <1>1, <2>1, <2>2, <2>3, <2>4, <2>5, <2>6, <2>7, <2>8 DEF IInv, Leased,
       Running
  <2>11. Balanced'
    BY <1>1, <2>1, <2>2, <2>3, <2>4, <2>5, <2>6, <2>7, <2>8 DEF IInv, Balanced, CallPcs, CleanupPcs,
       GuardPcs
  <2>12. Closing'
    BY <1>1, <2>1, <2>2, <2>3, <2>4, <2>5, <2>6, <2>7, <2>8 DEF IInv, Closing, ClosingPcs,
       DestroyingPcs, CleanupPcs
  <2>13. Stored'
    BY RequestsAssumption, <1>1, <2>1, <2>2, <2>3, <2>4, <2>5, <2>6, <2>7, <2>8 DEF IInv, Stored,
       DetachedPcs
  <2>14. Controlled'
    BY RequestsAssumption, <1>1, <2>1, <2>2, <2>3, <2>4, <2>5, <2>6, <2>7, <2>8 DEF IInv,
       Controlled, ControlledPcs, CallPcs, CleanupPcs, Stored
  <2>15. Reached'
    BY <1>1, <2>1, <2>2, <2>3, <2>4, <2>5, <2>6, <2>7, <2>8 DEF IInv, Reached, Running
  <2>16. Contained'
    BY <1>1, <2>1, <2>2, <2>3, <2>4, <2>5, <2>6, <2>7, <2>8 DEF IInv, Contained
  <2>. QED
    BY <2>9, <2>10, <2>11, <2>12, <2>13, <2>14, <2>15, <2>16 DEF IInv
<1>2. CASE ~req[worker.run].cancelled
  <2>1. worker.run \in Requests /\ req[worker.run].state \in Running
    BY RunIsRequest DEF IInv, Leased, Install
  <2>2. ~(conn.guard \/ conn.foreign \/ conn.cleanup \/ conn.active # NoRequest)
    BY DEF IInv, Balanced, Stored, CallPcs, CleanupPcs, GuardPcs, DetachedPcs, Install
  <2>3. /\ native' = [native EXCEPT ![worker.run].state = "INSTALLED",
                                       ![worker.run].cancelled = @ \/ req[worker.run].cancelled]
          /\ conn' = [conn EXCEPT !.active = worker.run]
          /\ req' = [req EXCEPT ![worker.run].state = "Running"]
          /\ UNCHANGED <<ctl, engine, fan, fatal>>
    BY <1>2, <2>1, <2>2 DEF Install
  <2>4. /\ UNCHANGED <<ctl, engine, fan, fatal>> /\ worker.pc = "install"
    BY <1>2, <2>1, <2>2, <2>3 DEF Install, Fail, Goto
  <2>5. /\ req' \in [Requests -> Request]
        /\ \A q \in Requests \ {worker.run} : req'[q] = req[q]
        /\ req'[worker.run].state = "Running"
        /\ req'[worker.run].cancelled = req[worker.run].cancelled
        /\ req'[worker.run].rooted = req[worker.run].rooted
        /\ req'[worker.run].stop = req[worker.run].stop
        /\ req'[worker.run].interrupted = req[worker.run].interrupted
        /\ req'[worker.run].outcome = req[worker.run].outcome
    BY <1>2, <2>1, <2>2, <2>3, <2>4 DEF IInv, TypeOK, Request, RequestStates, Outcomes, Install,
       Fail, Goto
  <2>6. /\ native' \in [Requests -> NativeRequest]
        /\ \A q \in Requests \ {worker.run} : native'[q] = native[q]
        /\ native'[worker.run].state = "INSTALLED"
        /\ native'[worker.run].reserved = native[worker.run].reserved
        /\ native'[worker.run].cancelled = (native[worker.run].cancelled \/ req[worker.run].cancelled)
    BY <1>2, <2>1, <2>2, <2>3, <2>4 DEF IInv, TypeOK, NativeRequest, NativeStates, Install, Fail,
       Goto
  <2>7. /\ conn' \in Connection /\ conn'.gate = conn.gate /\ conn'.lease = conn.lease
        /\ conn'.guard = conn.guard /\ conn'.active = worker.run /\ conn'.phase = conn.phase
        /\ conn'.foreign = conn.foreign /\ conn'.cleanup = conn.cleanup
        /\ conn'.closing = conn.closing
    BY <1>2, <2>1, <2>2, <2>3, <2>4 DEF IInv, TypeOK, Connection, Phases, Install, Fail, Goto
  <2>8. /\ worker' \in Worker /\ worker'.pc = "start" /\ worker'.run = worker.run
        /\ worker'.operation = worker.operation /\ worker'.owed = worker.owed
        /\ worker'.destroying = worker.destroying /\ worker'.result = worker.result
    BY <1>2, <2>1, <2>2, <2>3, <2>4 DEF IInv, TypeOK, Worker, WorkerPcs, Operations, Outcomes,
       GuardPcs, Install, Fail, Goto
  <2>9. TypeOK' /\ ~fatal'
    BY <1>2, <2>1, <2>2, <2>3, <2>4, <2>5, <2>6, <2>7, <2>8 DEF IInv, TypeOK
  <2>10. Leased'
    BY RequestsAssumption, <1>2, <2>1, <2>2, <2>3, <2>4, <2>5, <2>6, <2>7, <2>8 DEF IInv, Leased,
       Running
  <2>11. Balanced'
    BY <1>2, <2>1, <2>2, <2>3, <2>4, <2>5, <2>6, <2>7, <2>8 DEF IInv, Balanced, CallPcs, CleanupPcs,
       GuardPcs
  <2>12. Closing'
    BY <1>2, <2>1, <2>2, <2>3, <2>4, <2>5, <2>6, <2>7, <2>8 DEF IInv, Closing, ClosingPcs,
       DestroyingPcs, CleanupPcs
  <2>13. Stored'
    BY RequestsAssumption, <1>2, <2>1, <2>2, <2>3, <2>4, <2>5, <2>6, <2>7, <2>8 DEF IInv, Stored,
       DetachedPcs
  <2>14. Controlled'
    BY RequestsAssumption, <1>2, <2>1, <2>2, <2>3, <2>4, <2>5, <2>6, <2>7, <2>8 DEF IInv,
       Controlled, ControlledPcs, CallPcs, CleanupPcs, Stored
  <2>15. Reached'
    BY <1>2, <2>1, <2>2, <2>3, <2>4, <2>5, <2>6, <2>7, <2>8 DEF IInv, Reached, Running
  <2>16. Contained'
    BY <1>2, <2>1, <2>2, <2>3, <2>4, <2>5, <2>6, <2>7, <2>8 DEF IInv, Contained
  <2>. QED
    BY <2>9, <2>10, <2>11, <2>12, <2>13, <2>14, <2>15, <2>16 DEF IInv
<1>. QED
  BY <1>1, <1>2 DEF Install, Fail, Goto

\* The controller starts with the request installed.
LEMMA StartKeeps ==
    ASSUME IInv, Start
    PROVE  IInv'
<1>1. CASE Fail("quiesce", "Error") /\ UNCHANGED ctl
  <2>1. /\ UNCHANGED <<req, native, ctl, conn, engine, fan, fatal>> /\ worker.pc = "start"
    BY <1>1 DEF Start, Fail, Goto
  <2>2. /\ worker' \in Worker /\ worker'.pc = "quiesce" /\ worker'.run = worker.run
        /\ worker'.operation = worker.operation /\ worker'.owed = worker.owed
        /\ worker'.destroying = worker.destroying /\ worker'.result = "Error"
    BY <1>1, <2>1 DEF IInv, TypeOK, Worker, WorkerPcs, Operations, Outcomes, GuardPcs, Start, Fail,
       Goto
  <2>3. TypeOK' /\ ~fatal'
    BY <1>1, <2>1, <2>2 DEF IInv, TypeOK
  <2>4. Leased'
    BY RequestsAssumption, <1>1, <2>1, <2>2 DEF IInv, Leased, Running
  <2>5. Balanced'
    BY <1>1, <2>1, <2>2 DEF IInv, Balanced, CallPcs, CleanupPcs, GuardPcs
  <2>6. Closing'
    BY <1>1, <2>1, <2>2 DEF IInv, Closing, ClosingPcs, DestroyingPcs, CleanupPcs
  <2>7. Stored'
    BY RequestsAssumption, <1>1, <2>1, <2>2 DEF IInv, Stored, DetachedPcs
  <2>8. Controlled'
    BY RequestsAssumption, <1>1, <2>1, <2>2 DEF IInv, Controlled, ControlledPcs, CallPcs, CleanupPcs
  <2>9. Contained'
    BY <1>1, <2>1, <2>2 DEF IInv, Contained
  <2>10. Reached'
    BY <1>1, <2>1, <2>2 DEF IInv, Reached
  <2>. QED
    BY <2>3, <2>4, <2>5, <2>6, <2>7, <2>8, <2>9, <2>10 DEF IInv
<1>2. CASE ctl' = [ctl EXCEPT ![worker.run] = "check"] /\ Goto("body")
  <2>1. worker.run \in Requests /\ req[worker.run].state \in Running
    BY RunIsRequest DEF IInv, Leased, Start
  <2>2. ~native[worker.run].reserved /\ conn.active = worker.run
    BY <1>2, <2>1 DEF IInv, Stored, Controlled, ControlledPcs, CallPcs, CleanupPcs, Start
  <2>3. /\ UNCHANGED <<req, native, conn, engine, fan, fatal>> /\ worker.pc = "start"
    BY <1>2, <2>1, <2>2 DEF Start, Fail, Goto
  <2>4. /\ ctl' \in [Requests -> ControllerPcs]
        /\ \A q \in Requests \ {worker.run} : ctl'[q] = ctl[q]
        /\ ctl'[worker.run] = "check"
    BY <1>2, <2>1, <2>2, <2>3 DEF IInv, TypeOK, ControllerPcs, Start, Fail, Goto
  <2>5. /\ worker' \in Worker /\ worker'.pc = "body" /\ worker'.run = worker.run
        /\ worker'.operation = worker.operation /\ worker'.owed = worker.owed
        /\ worker'.destroying = worker.destroying /\ worker'.result = worker.result
    BY <1>2, <2>1, <2>2, <2>3 DEF IInv, TypeOK, Worker, WorkerPcs, Operations, Outcomes, GuardPcs,
       Start, Fail, Goto
  <2>6. TypeOK' /\ ~fatal'
    BY <1>2, <2>1, <2>2, <2>3, <2>4, <2>5 DEF IInv, TypeOK
  <2>7. Leased'
    BY RequestsAssumption, <1>2, <2>1, <2>2, <2>3, <2>4, <2>5 DEF IInv, Leased, Running
  <2>8. Balanced'
    BY <1>2, <2>1, <2>2, <2>3, <2>4, <2>5 DEF IInv, Balanced, CallPcs, CleanupPcs, GuardPcs
  <2>9. Closing'
    BY <1>2, <2>1, <2>2, <2>3, <2>4, <2>5 DEF IInv, Closing, ClosingPcs, DestroyingPcs, CleanupPcs
  <2>10. Stored'
    BY RequestsAssumption, <1>2, <2>1, <2>2, <2>3, <2>4, <2>5 DEF IInv, Stored, DetachedPcs
  <2>11. Controlled'
    BY RequestsAssumption, <1>2, <2>1, <2>2, <2>3, <2>4, <2>5 DEF IInv, Controlled, ControlledPcs,
       CallPcs, CleanupPcs
  <2>12. Contained'
    BY <1>2, <2>1, <2>2, <2>3, <2>4, <2>5 DEF IInv, Contained
  <2>13. Reached'
    BY <1>2, <2>1, <2>2, <2>3, <2>4, <2>5 DEF IInv, Reached
  <2>. QED
    BY <2>6, <2>7, <2>8, <2>9, <2>10, <2>11, <2>12, <2>13 DEF IInv
<1>. QED
  BY <1>1, <1>2 DEF Start, Fail, Goto

\* A rollback is owed at most once, and never on a connection that is closed.
LEMMA OperateKeeps ==
    ASSUME IInv, Operate
    PROVE  IInv'
<1>1. CASE Begins("rollback")
  <2>1. /\ UNCHANGED <<req, native, ctl, conn, engine, fan, fatal>> /\ worker.pc = "body"
        /\ worker.owed
    BY <1>1 DEF Operate, Begins, Operations
  <2>2. /\ worker' \in Worker /\ worker'.pc = "admit_cleanup" /\ worker'.run = worker.run
        /\ worker'.operation = "rollback" /\ worker'.owed = FALSE
        /\ worker'.destroying = worker.destroying /\ worker'.result = worker.result
    BY <1>1, <2>1 DEF IInv, TypeOK, Worker, WorkerPcs, Operations, Outcomes, GuardPcs, Operate,
       Begins, Operations
  <2>3. TypeOK' /\ ~fatal'
    BY <1>1, <2>1, <2>2 DEF IInv, TypeOK
  <2>4. Leased'
    BY RequestsAssumption, <1>1, <2>1, <2>2 DEF IInv, Leased, Running
  <2>5. Balanced'
    BY <1>1, <2>1, <2>2 DEF IInv, Balanced, CallPcs, CleanupPcs, GuardPcs
  <2>6. Closing'
    BY <1>1, <2>1, <2>2 DEF IInv, Closing, ClosingPcs, DestroyingPcs, CleanupPcs, Operations
  <2>7. Stored'
    BY RequestsAssumption, <1>1, <2>1, <2>2 DEF IInv, Stored, DetachedPcs
  <2>8. Controlled'
    BY RequestsAssumption, <1>1, <2>1, <2>2 DEF IInv, Controlled, ControlledPcs, CallPcs, CleanupPcs
  <2>9. Contained'
    BY <1>1, <2>1, <2>2 DEF IInv, Contained, Balanced
  <2>10. Reached'
    BY <1>1, <2>1, <2>2 DEF IInv, Reached
  <2>. QED
    BY <2>3, <2>4, <2>5, <2>6, <2>7, <2>8, <2>9, <2>10 DEF IInv
<1>2. CASE Begins("user")
  <2>1. /\ UNCHANGED <<req, native, ctl, conn, engine, fan, fatal>> /\ worker.pc = "body"
        /\ conn.gate = "Open"
    BY <1>2 DEF Operate, Begins, Operations
  <2>2. /\ worker' \in Worker /\ worker'.pc = "work_begin" /\ worker'.run = worker.run
        /\ worker'.operation = "user" /\ worker'.owed = TRUE
        /\ worker'.destroying = worker.destroying /\ worker'.result = worker.result
    BY <1>2, <2>1 DEF IInv, TypeOK, Worker, WorkerPcs, Operations, Outcomes, GuardPcs, Operate,
       Begins, Operations
  <2>3. TypeOK' /\ ~fatal'
    BY <1>2, <2>1, <2>2 DEF IInv, TypeOK
  <2>4. Leased'
    BY RequestsAssumption, <1>2, <2>1, <2>2 DEF IInv, Leased, Running
  <2>5. Balanced'
    BY <1>2, <2>1, <2>2 DEF IInv, Balanced, CallPcs, CleanupPcs, GuardPcs
  <2>6. Closing'
    BY <1>2, <2>1, <2>2 DEF IInv, Closing, ClosingPcs, DestroyingPcs, CleanupPcs, Operations
  <2>7. Stored'
    BY RequestsAssumption, <1>2, <2>1, <2>2 DEF IInv, Stored, DetachedPcs
  <2>8. Controlled'
    BY RequestsAssumption, <1>2, <2>1, <2>2 DEF IInv, Controlled, ControlledPcs, CallPcs, CleanupPcs
  <2>9. Contained'
    BY <1>2, <2>1, <2>2 DEF IInv, Contained, Balanced
  <2>10. Reached'
    BY <1>2, <2>1, <2>2 DEF IInv, Reached
  <2>. QED
    BY <2>3, <2>4, <2>5, <2>6, <2>7, <2>8, <2>9, <2>10 DEF IInv
<1>3. CASE Begins("local_file")
  <2>1. /\ UNCHANGED <<req, native, ctl, conn, engine, fan, fatal>> /\ worker.pc = "body"
        /\ conn.gate = "Open"
    BY <1>3 DEF Operate, Begins, Operations
  <2>2. /\ worker' \in Worker /\ worker'.pc = "work_begin" /\ worker'.run = worker.run
        /\ worker'.operation = "local_file" /\ worker'.owed = worker.owed
        /\ worker'.destroying = worker.destroying /\ worker'.result = worker.result
    BY <1>3, <2>1 DEF IInv, TypeOK, Worker, WorkerPcs, Operations, Outcomes, GuardPcs, Operate,
       Begins, Operations
  <2>3. TypeOK' /\ ~fatal'
    BY <1>3, <2>1, <2>2 DEF IInv, TypeOK
  <2>4. Leased'
    BY RequestsAssumption, <1>3, <2>1, <2>2 DEF IInv, Leased, Running
  <2>5. Balanced'
    BY <1>3, <2>1, <2>2 DEF IInv, Balanced, CallPcs, CleanupPcs, GuardPcs
  <2>6. Closing'
    BY <1>3, <2>1, <2>2 DEF IInv, Closing, ClosingPcs, DestroyingPcs, CleanupPcs, Operations
  <2>7. Stored'
    BY RequestsAssumption, <1>3, <2>1, <2>2 DEF IInv, Stored, DetachedPcs
  <2>8. Controlled'
    BY RequestsAssumption, <1>3, <2>1, <2>2 DEF IInv, Controlled, ControlledPcs, CallPcs, CleanupPcs
  <2>9. Contained'
    BY <1>3, <2>1, <2>2 DEF IInv, Contained, Balanced
  <2>10. Reached'
    BY <1>3, <2>1, <2>2 DEF IInv, Reached
  <2>. QED
    BY <2>3, <2>4, <2>5, <2>6, <2>7, <2>8, <2>9, <2>10 DEF IInv
<1>. QED
  BY <1>1, <1>2, <1>3 DEF Operate, Begins, Operations

\* The cleanup asks the controller to stop.
LEMMA AdmitCleanupKeeps ==
    ASSUME IInv, AdmitCleanup
    PROVE  IInv'
<1>1. worker.run \in Requests /\ req[worker.run].state \in Running
  BY RunIsRequest DEF IInv, Leased, AdmitCleanup
<1>2. /\ UNCHANGED <<native, ctl, conn, engine, fan, fatal>> /\ worker.pc = "admit_cleanup"
  BY <1>1 DEF AdmitCleanup, Goto
<1>3. /\ req' \in [Requests -> Request]
      /\ \A q \in Requests \ {worker.run} : req'[q] = req[q]
      /\ req'[worker.run].state = req[worker.run].state
      /\ req'[worker.run].cancelled = req[worker.run].cancelled
      /\ req'[worker.run].rooted = req[worker.run].rooted
      /\ req'[worker.run].stop = (req[worker.run].stop \/ req[worker.run].cancelled)
      /\ req'[worker.run].interrupted = req[worker.run].interrupted
      /\ req'[worker.run].outcome = req[worker.run].outcome
  BY <1>1, <1>2 DEF IInv, TypeOK, Request, RequestStates, Outcomes, AdmitCleanup, Goto
<1>4. /\ worker' \in Worker
      /\ worker'.pc = (IF req[worker.run].cancelled THEN "join_cleanup" ELSE "work_begin")
      /\ worker'.run = worker.run /\ worker'.operation = worker.operation
      /\ worker'.owed = worker.owed /\ worker'.destroying = worker.destroying
      /\ worker'.result = worker.result
  BY <1>1, <1>2 DEF IInv, TypeOK, Worker, WorkerPcs, Operations, Outcomes, GuardPcs, AdmitCleanup,
     Goto
<1>5. TypeOK' /\ ~fatal'
  BY <1>1, <1>2, <1>3, <1>4 DEF IInv, TypeOK
<1>6. Leased'
  BY RequestsAssumption, <1>1, <1>2, <1>3, <1>4 DEF IInv, Leased, Running
<1>7. Balanced'
  BY <1>1, <1>2, <1>3, <1>4 DEF IInv, Balanced, CallPcs, CleanupPcs, GuardPcs
<1>8. Closing'
  BY <1>1, <1>2, <1>3, <1>4 DEF IInv, Closing, ClosingPcs, DestroyingPcs, CleanupPcs
<1>9. Stored'
  BY RequestsAssumption, <1>1, <1>2, <1>3, <1>4 DEF IInv, Stored, DetachedPcs
<1>10. Controlled'
  BY RequestsAssumption, <1>1, <1>2, <1>3, <1>4 DEF IInv, Controlled, ControlledPcs, CallPcs,
     CleanupPcs
<1>11. Reached'
  BY <1>1, <1>2, <1>3, <1>4 DEF IInv, Reached
<1>12. Contained'
  BY <1>1, <1>2, <1>3, <1>4 DEF IInv, Contained
<1>. QED
  BY <1>5, <1>6, <1>7, <1>8, <1>9, <1>10, <1>11, <1>12 DEF IInv

\* The rollback begins.
LEMMA JoinCleanupKeeps ==
    ASSUME IInv, JoinCleanup
    PROVE  IInv'
<1>1. /\ UNCHANGED <<req, native, ctl, conn, engine, fan, fatal>> /\ worker.pc = "join_cleanup"
  BY DEF JoinCleanup, Goto
<1>2. /\ worker' \in Worker /\ worker'.pc = "work_begin" /\ worker'.run = worker.run
      /\ worker'.operation = worker.operation /\ worker'.owed = worker.owed
      /\ worker'.destroying = worker.destroying /\ worker'.result = worker.result
  BY <1>1 DEF IInv, TypeOK, Worker, WorkerPcs, Operations, Outcomes, GuardPcs, JoinCleanup, Goto
<1>3. TypeOK' /\ ~fatal'
  BY <1>1, <1>2 DEF IInv, TypeOK
<1>4. Leased'
  BY RequestsAssumption, <1>1, <1>2 DEF IInv, Leased, Running
<1>5. Balanced'
  BY <1>1, <1>2 DEF IInv, Balanced, CallPcs, CleanupPcs, GuardPcs
<1>6. Closing'
  BY <1>1, <1>2 DEF IInv, Closing, ClosingPcs, DestroyingPcs, CleanupPcs
<1>7. Stored'
  BY RequestsAssumption, <1>1, <1>2 DEF IInv, Stored, DetachedPcs
<1>8. Controlled'
  BY RequestsAssumption, <1>1, <1>2 DEF IInv, Controlled, ControlledPcs, CallPcs, CleanupPcs
<1>9. Contained'
  BY <1>1, <1>2 DEF IInv, Contained
<1>10. Reached'
  BY <1>1, <1>2 DEF IInv, Reached
<1>. QED
  BY <1>3, <1>4, <1>5, <1>6, <1>7, <1>8, <1>9, <1>10 DEF IInv

\* The body returns.
LEMMA BodyReturnsKeeps ==
    ASSUME IInv, BodyReturns
    PROVE  IInv'
<1>1. CASE Fail("quiesce", "Ok")
  <2>1. /\ UNCHANGED <<req, native, ctl, conn, engine, fan, fatal>> /\ worker.pc = "body"
    BY <1>1 DEF BodyReturns, Fail
  <2>2. /\ worker' \in Worker /\ worker'.pc = "quiesce" /\ worker'.run = worker.run
        /\ worker'.operation = worker.operation /\ worker'.owed = worker.owed
        /\ worker'.destroying = worker.destroying /\ worker'.result = "Ok"
    BY <1>1, <2>1 DEF IInv, TypeOK, Worker, WorkerPcs, Operations, Outcomes, GuardPcs, BodyReturns,
       Fail
  <2>3. TypeOK' /\ ~fatal'
    BY <1>1, <2>1, <2>2 DEF IInv, TypeOK
  <2>4. Leased'
    BY RequestsAssumption, <1>1, <2>1, <2>2 DEF IInv, Leased, Running
  <2>5. Balanced'
    BY <1>1, <2>1, <2>2 DEF IInv, Balanced, CallPcs, CleanupPcs, GuardPcs
  <2>6. Closing'
    BY <1>1, <2>1, <2>2 DEF IInv, Closing, ClosingPcs, DestroyingPcs, CleanupPcs
  <2>7. Stored'
    BY RequestsAssumption, <1>1, <2>1, <2>2 DEF IInv, Stored, DetachedPcs
  <2>8. Controlled'
    BY RequestsAssumption, <1>1, <2>1, <2>2 DEF IInv, Controlled, ControlledPcs, CallPcs, CleanupPcs
  <2>9. Contained'
    BY <1>1, <2>1, <2>2 DEF IInv, Contained
  <2>10. Reached'
    BY <1>1, <2>1, <2>2 DEF IInv, Reached
  <2>. QED
    BY <2>3, <2>4, <2>5, <2>6, <2>7, <2>8, <2>9, <2>10 DEF IInv
<1>2. CASE Fail("quiesce", "Error")
  <2>1. /\ UNCHANGED <<req, native, ctl, conn, engine, fan, fatal>> /\ worker.pc = "body"
    BY <1>2 DEF BodyReturns, Fail
  <2>2. /\ worker' \in Worker /\ worker'.pc = "quiesce" /\ worker'.run = worker.run
        /\ worker'.operation = worker.operation /\ worker'.owed = worker.owed
        /\ worker'.destroying = worker.destroying /\ worker'.result = "Error"
    BY <1>2, <2>1 DEF IInv, TypeOK, Worker, WorkerPcs, Operations, Outcomes, GuardPcs, BodyReturns,
       Fail
  <2>3. TypeOK' /\ ~fatal'
    BY <1>2, <2>1, <2>2 DEF IInv, TypeOK
  <2>4. Leased'
    BY RequestsAssumption, <1>2, <2>1, <2>2 DEF IInv, Leased, Running
  <2>5. Balanced'
    BY <1>2, <2>1, <2>2 DEF IInv, Balanced, CallPcs, CleanupPcs, GuardPcs
  <2>6. Closing'
    BY <1>2, <2>1, <2>2 DEF IInv, Closing, ClosingPcs, DestroyingPcs, CleanupPcs
  <2>7. Stored'
    BY RequestsAssumption, <1>2, <2>1, <2>2 DEF IInv, Stored, DetachedPcs
  <2>8. Controlled'
    BY RequestsAssumption, <1>2, <2>1, <2>2 DEF IInv, Controlled, ControlledPcs, CallPcs, CleanupPcs
  <2>9. Contained'
    BY <1>2, <2>1, <2>2 DEF IInv, Contained
  <2>10. Reached'
    BY <1>2, <2>1, <2>2 DEF IInv, Reached
  <2>. QED
    BY <2>3, <2>4, <2>5, <2>6, <2>7, <2>8, <2>9, <2>10 DEF IInv
<1>. QED
  BY <1>1, <1>2 DEF BodyReturns, Fail

\* The worker takes the guard.
LEMMA LockKeeps ==
    ASSUME IInv, Lock
    PROVE  IInv'
<1>1. /\ UNCHANGED <<req, native, ctl, engine, worker, fan, fatal>> /\ worker.pc \in GuardPcs
  BY DEF Lock
<1>2. /\ conn' \in Connection /\ conn'.gate = conn.gate /\ conn'.lease = conn.lease
      /\ conn'.guard = TRUE /\ conn'.active = conn.active /\ conn'.phase = conn.phase
      /\ conn'.foreign = conn.foreign /\ conn'.cleanup = conn.cleanup
      /\ conn'.closing = conn.closing
  BY <1>1 DEF IInv, TypeOK, Connection, Phases, Lock
<1>3. TypeOK' /\ ~fatal'
  BY <1>1, <1>2 DEF IInv, TypeOK
<1>4. Leased'
  BY RequestsAssumption, <1>1, <1>2 DEF IInv, Leased, Running
<1>5. Balanced'
  BY <1>1, <1>2 DEF IInv, Balanced, CallPcs, CleanupPcs, GuardPcs
<1>6. Closing'
  BY <1>1, <1>2 DEF IInv, Closing, ClosingPcs, DestroyingPcs, CleanupPcs
<1>7. Stored'
  BY RequestsAssumption, <1>1, <1>2 DEF IInv, Stored, DetachedPcs
<1>8. Controlled'
  BY RequestsAssumption, <1>1, <1>2 DEF IInv, Controlled, ControlledPcs, CallPcs, CleanupPcs
<1>9. Contained'
  BY <1>1, <1>2 DEF IInv, Contained
<1>10. Reached'
  BY <1>1, <1>2 DEF IInv, Reached
<1>. QED
  BY <1>3, <1>4, <1>5, <1>6, <1>7, <1>8, <1>9, <1>10 DEF IInv

\* Work begins on a connection that has none.
LEMMA WorkBeginKeeps ==
    ASSUME IInv, WorkBegin
    PROVE  IInv'
<1>1. ~conn.closing /\ ~conn.foreign /\ ~conn.cleanup
  BY DEF IInv, Balanced, Closing, Stored, CallPcs, CleanupPcs, ClosingPcs, DetachedPcs, Section,
     WorkBegin
<1>2. /\ conn' = Unlock([conn EXCEPT !.foreign = TRUE])
      /\ Goto(IF worker.operation = "rollback" THEN "engine" ELSE "call_begin")
  BY <1>1 DEF Section, WorkBegin
<1>3. /\ UNCHANGED <<req, native, ctl, fan, fatal>> /\ worker.pc = "work_begin" /\ conn.guard
  BY <1>1, <1>2 DEF WorkBegin, Section, Unlock, Goto
<1>4. /\ conn' \in Connection /\ conn'.gate = conn.gate /\ conn'.lease = conn.lease
      /\ conn'.guard = FALSE /\ conn'.active = conn.active /\ conn'.phase # "USER"
      /\ conn'.foreign = TRUE /\ conn'.cleanup = conn.cleanup /\ conn'.closing = conn.closing
  BY <1>1, <1>2, <1>3 DEF IInv, TypeOK, Connection, Phases, WorkBegin, Section, Unlock, Goto
<1>5. /\ engine' \in Engine
      /\ engine'.at = (IF worker.operation = "rollback" THEN "entering" ELSE engine.at)
      /\ engine'.interrupt = engine.interrupt /\ engine'.touched = engine.touched
  BY <1>1, <1>2, <1>3 DEF IInv, TypeOK, Engine, WorkBegin, Section, Unlock, Goto
<1>6. /\ worker' \in Worker
      /\ worker'.pc = (IF worker.operation = "rollback" THEN "engine" ELSE "call_begin")
      /\ worker'.run = worker.run /\ worker'.operation = worker.operation
      /\ worker'.owed = worker.owed /\ worker'.destroying = worker.destroying
      /\ worker'.result = worker.result
  BY <1>1, <1>2, <1>3 DEF IInv, TypeOK, Worker, WorkerPcs, Operations, Outcomes, GuardPcs,
     WorkBegin, Section, Unlock, Goto
<1>7. TypeOK' /\ ~fatal'
  BY <1>1, <1>2, <1>3, <1>4, <1>5, <1>6 DEF IInv, TypeOK
<1>8. Leased'
  BY RequestsAssumption, <1>1, <1>2, <1>3, <1>4, <1>5, <1>6 DEF IInv, Leased, Running
<1>9. Balanced'
  BY <1>1, <1>2, <1>3, <1>4, <1>5, <1>6 DEF IInv, Balanced, CallPcs, CleanupPcs, GuardPcs
<1>10. Closing'
  BY <1>1, <1>2, <1>3, <1>4, <1>5, <1>6 DEF IInv, Closing, ClosingPcs, DestroyingPcs, CleanupPcs
<1>11. Stored'
  BY RequestsAssumption, <1>1, <1>2, <1>3, <1>4, <1>5, <1>6 DEF IInv, Stored, DetachedPcs
<1>12. Controlled'
  BY RequestsAssumption, <1>1, <1>2, <1>3, <1>4, <1>5, <1>6 DEF IInv, Controlled, ControlledPcs,
     CallPcs, CleanupPcs
<1>13. Contained'
  BY <1>1, <1>2, <1>3, <1>4, <1>5, <1>6 DEF IInv, Contained
<1>14. Reached'
  BY <1>1, <1>2, <1>3, <1>4, <1>5, <1>6 DEF IInv, Reached
<1>. QED
  BY <1>7, <1>8, <1>9, <1>10, <1>11, <1>12, <1>13, <1>14 DEF IInv

\* A call of a latched request is not made.
LEMMA CallCancelledKeeps ==
    ASSUME IInv, CallCancelled
    PROVE  IInv'
<1>1. conn.foreign /\ ~conn.cleanup /\ ~conn.closing
  BY DEF IInv, Balanced, Closing, Stored, CallPcs, CleanupPcs, ClosingPcs, DetachedPcs, Section,
     CallCancelled
<1>2. /\ conn' = Unlock(conn)
      /\ Goto(IF worker.operation = "user" THEN "cleanup_begin" ELSE "work_end")
  BY <1>1 DEF Section, CallCancelled
<1>3. /\ UNCHANGED <<req, native, ctl, engine, fan, fatal>> /\ worker.pc = "call_begin"
      /\ conn.guard
  BY <1>1, <1>2 DEF CallCancelled, Section, Unlock, Goto
<1>4. /\ conn' \in Connection /\ conn'.gate = conn.gate /\ conn'.lease = conn.lease
      /\ conn'.guard = FALSE /\ conn'.active = conn.active /\ conn'.phase # "USER"
      /\ conn'.foreign = conn.foreign /\ conn'.cleanup = conn.cleanup
      /\ conn'.closing = conn.closing
  BY <1>1, <1>2, <1>3 DEF IInv, TypeOK, Connection, Phases, CallCancelled, Section, Unlock, Goto
<1>5. /\ worker' \in Worker
      /\ worker'.pc = (IF worker.operation = "user" THEN "cleanup_begin" ELSE "work_end")
      /\ worker'.run = worker.run /\ worker'.operation = worker.operation
      /\ worker'.owed = worker.owed /\ worker'.destroying = worker.destroying
      /\ worker'.result = worker.result
  BY <1>1, <1>2, <1>3 DEF IInv, TypeOK, Worker, WorkerPcs, Operations, Outcomes, GuardPcs,
     CallCancelled, Section, Unlock, Goto
<1>6. TypeOK' /\ ~fatal'
  BY <1>1, <1>2, <1>3, <1>4, <1>5 DEF IInv, TypeOK
<1>7. Leased'
  BY RequestsAssumption, <1>1, <1>2, <1>3, <1>4, <1>5 DEF IInv, Leased, Running
<1>8. Balanced'
  BY <1>1, <1>2, <1>3, <1>4, <1>5 DEF IInv, Balanced, CallPcs, CleanupPcs, GuardPcs
<1>9. Closing'
  BY <1>1, <1>2, <1>3, <1>4, <1>5 DEF IInv, Closing, ClosingPcs, DestroyingPcs, CleanupPcs
<1>10. Stored'
  BY RequestsAssumption, <1>1, <1>2, <1>3, <1>4, <1>5 DEF IInv, Stored, DetachedPcs
<1>11. Controlled'
  BY RequestsAssumption, <1>1, <1>2, <1>3, <1>4, <1>5 DEF IInv, Controlled, ControlledPcs, CallPcs,
     CleanupPcs
<1>12. Contained'
  BY <1>1, <1>2, <1>3, <1>4, <1>5 DEF IInv, Contained
<1>13. Reached'
  BY <1>1, <1>2, <1>3, <1>4, <1>5 DEF IInv, Reached
<1>. QED
  BY <1>6, <1>7, <1>8, <1>9, <1>10, <1>11, <1>12, <1>13 DEF IInv

\* The call is made; it can be interrupted if it is a user call.
LEMMA CallAdmittedKeeps ==
    ASSUME IInv, CallAdmitted
    PROVE  IInv'
<1>1. CASE worker.operation = "user"
  <2>1. conn.foreign /\ ~conn.cleanup /\ ~conn.closing
    BY DEF IInv, Balanced, Closing, Stored, CallPcs, CleanupPcs, ClosingPcs, DetachedPcs, Section,
       CallAdmitted
  <2>2. /\ UNCHANGED <<req, native, ctl, fan, fatal>> /\ worker.pc = "call_begin"
    BY <1>1, <2>1 DEF CallAdmitted, Unlock, Goto
  <2>3. /\ conn' \in Connection /\ conn'.gate = conn.gate /\ conn'.lease = conn.lease
        /\ conn'.guard = FALSE /\ conn'.active = conn.active
        /\ conn'.phase = (IF conn.active # NoRequest THEN "USER" ELSE "NONINTERRUPTIBLE")
        /\ conn'.foreign = conn.foreign /\ conn'.cleanup = conn.cleanup
        /\ conn'.closing = conn.closing
    BY <1>1, <2>1, <2>2 DEF IInv, TypeOK, Connection, Phases, CallAdmitted, Unlock, Goto
  <2>4. /\ engine' \in Engine /\ engine'.at = "entering" /\ engine'.interrupt = engine.interrupt
        /\ engine'.touched = engine.touched
    BY <1>1, <2>1, <2>2 DEF IInv, TypeOK, Engine, CallAdmitted, Unlock, Goto
  <2>5. /\ worker' \in Worker /\ worker'.pc = "engine" /\ worker'.run = worker.run
        /\ worker'.operation = worker.operation /\ worker'.owed = worker.owed
        /\ worker'.destroying = worker.destroying /\ worker'.result = worker.result
    BY <1>1, <2>1, <2>2 DEF IInv, TypeOK, Worker, WorkerPcs, Operations, Outcomes, GuardPcs,
       CallAdmitted, Unlock, Goto
  <2>6. TypeOK' /\ ~fatal'
    BY <1>1, <2>1, <2>2, <2>3, <2>4, <2>5 DEF IInv, TypeOK
  <2>7. Leased'
    BY RequestsAssumption, <1>1, <2>1, <2>2, <2>3, <2>4, <2>5 DEF IInv, Leased, Running
  <2>8. Balanced'
    BY <1>1, <2>1, <2>2, <2>3, <2>4, <2>5 DEF IInv, Balanced, CallPcs, CleanupPcs, GuardPcs
  <2>9. Closing'
    BY <1>1, <2>1, <2>2, <2>3, <2>4, <2>5 DEF IInv, Closing, ClosingPcs, DestroyingPcs, CleanupPcs
  <2>10. Stored'
    BY RequestsAssumption, <1>1, <2>1, <2>2, <2>3, <2>4, <2>5 DEF IInv, Stored, DetachedPcs
  <2>11. Controlled'
    BY RequestsAssumption, <1>1, <2>1, <2>2, <2>3, <2>4, <2>5 DEF IInv, Controlled, ControlledPcs,
       CallPcs, CleanupPcs
  <2>12. Contained'
    BY <1>1, <2>1, <2>2, <2>3, <2>4, <2>5 DEF IInv, Contained
  <2>13. Reached'
    BY <1>1, <2>1, <2>2, <2>3, <2>4, <2>5 DEF IInv, Reached
  <2>. QED
    BY <2>6, <2>7, <2>8, <2>9, <2>10, <2>11, <2>12, <2>13 DEF IInv
<1>2. CASE worker.operation # "user"
  <2>1. conn.foreign /\ ~conn.cleanup /\ ~conn.closing
    BY DEF IInv, Balanced, Closing, Stored, CallPcs, CleanupPcs, ClosingPcs, DetachedPcs, Section,
       CallAdmitted
  <2>2. /\ UNCHANGED <<req, native, ctl, engine, fan, fatal>> /\ worker.pc = "call_begin"
    BY <1>2, <2>1 DEF CallAdmitted, Unlock, Goto
  <2>3. /\ conn' \in Connection /\ conn'.gate = conn.gate /\ conn'.lease = conn.lease
        /\ conn'.guard = FALSE /\ conn'.active = conn.active /\ conn'.phase # "USER"
        /\ conn'.foreign = conn.foreign /\ conn'.cleanup = conn.cleanup
        /\ conn'.closing = conn.closing
    BY <1>2, <2>1, <2>2 DEF IInv, TypeOK, Connection, Phases, CallAdmitted, Unlock, Goto
  <2>4. /\ worker' \in Worker /\ worker'.pc = "work_end" /\ worker'.run = worker.run
        /\ worker'.operation = worker.operation /\ worker'.owed = worker.owed
        /\ worker'.destroying = worker.destroying /\ worker'.result = worker.result
    BY <1>2, <2>1, <2>2 DEF IInv, TypeOK, Worker, WorkerPcs, Operations, Outcomes, GuardPcs,
       CallAdmitted, Unlock, Goto
  <2>5. TypeOK' /\ ~fatal'
    BY <1>2, <2>1, <2>2, <2>3, <2>4 DEF IInv, TypeOK
  <2>6. Leased'
    BY RequestsAssumption, <1>2, <2>1, <2>2, <2>3, <2>4 DEF IInv, Leased, Running
  <2>7. Balanced'
    BY <1>2, <2>1, <2>2, <2>3, <2>4 DEF IInv, Balanced, CallPcs, CleanupPcs, GuardPcs
  <2>8. Closing'
    BY <1>2, <2>1, <2>2, <2>3, <2>4 DEF IInv, Closing, ClosingPcs, DestroyingPcs, CleanupPcs
  <2>9. Stored'
    BY RequestsAssumption, <1>2, <2>1, <2>2, <2>3, <2>4 DEF IInv, Stored, DetachedPcs
  <2>10. Controlled'
    BY RequestsAssumption, <1>2, <2>1, <2>2, <2>3, <2>4 DEF IInv, Controlled, ControlledPcs,
       CallPcs, CleanupPcs
  <2>11. Contained'
    BY <1>2, <2>1, <2>2, <2>3, <2>4 DEF IInv, Contained
  <2>12. Reached'
    BY <1>2, <2>1, <2>2, <2>3, <2>4 DEF IInv, Reached
  <2>. QED
    BY <2>5, <2>6, <2>7, <2>8, <2>9, <2>10, <2>11, <2>12 DEF IInv
<1>. QED
  BY <1>1, <1>2 DEF CallAdmitted, Unlock, Goto

\* The engine starts a call with no interrupt pending.
LEMMA EngineEnterKeeps ==
    ASSUME IInv, EngineEnter
    PROVE  IInv'
<1>1. /\ UNCHANGED <<req, native, ctl, conn, worker, fan, fatal>> /\ engine.at = "entering"
  BY DEF EngineEnter
<1>2. /\ engine' \in Engine /\ engine'.at = "running" /\ engine'.interrupt = FALSE
      /\ engine'.touched = engine.touched
  BY <1>1 DEF IInv, TypeOK, Engine, EngineEnter
<1>3. TypeOK' /\ ~fatal'
  BY <1>1, <1>2 DEF IInv, TypeOK
<1>4. Balanced'
  BY <1>1, <1>2 DEF IInv, Balanced, CallPcs, CleanupPcs, GuardPcs
<1>5. Contained'
  BY <1>1, <1>2 DEF IInv, Contained
<1>6. Leased' /\ Closing' /\ Stored' /\ Controlled' /\ Reached'
  BY <1>1, <1>2 DEF IInv, Leased, Closing, Stored, Controlled, Reached
<1>. QED
  BY <1>3, <1>4, <1>5, <1>6 DEF IInv

\* The call ends.
LEMMA EngineReturnKeeps ==
    ASSUME IInv, EngineReturn
    PROVE  IInv'
<1>1. CASE worker.operation = "user" /\ Goto("call_end")
  <2>1. worker.pc = "engine"
    BY DEF IInv, Balanced, EngineReturn
  <2>2. /\ UNCHANGED <<req, native, ctl, conn, fan, fatal>> /\ engine.at = "running"
        /\ worker.pc = "engine"
    BY <1>1, <2>1 DEF EngineReturn, Goto
  <2>3. /\ engine' \in Engine /\ engine'.at = "out" /\ engine'.interrupt = engine.interrupt
        /\ engine'.touched = engine.touched
    BY <1>1, <2>1, <2>2 DEF IInv, TypeOK, Engine, EngineReturn, Goto
  <2>4. /\ worker' \in Worker /\ worker'.pc = "call_end" /\ worker'.run = worker.run
        /\ worker'.operation = worker.operation /\ worker'.owed = worker.owed
        /\ worker'.destroying = worker.destroying /\ worker'.result = worker.result
    BY <1>1, <2>1, <2>2 DEF IInv, TypeOK, Worker, WorkerPcs, Operations, Outcomes, GuardPcs,
       EngineReturn, Goto
  <2>5. TypeOK' /\ ~fatal'
    BY <1>1, <2>1, <2>2, <2>3, <2>4 DEF IInv, TypeOK
  <2>6. Leased'
    BY RequestsAssumption, <1>1, <2>1, <2>2, <2>3, <2>4 DEF IInv, Leased, Running
  <2>7. Balanced'
    BY <1>1, <2>1, <2>2, <2>3, <2>4 DEF IInv, Balanced, CallPcs, CleanupPcs, GuardPcs, Closing,
       ClosingPcs
  <2>8. Closing'
    BY <1>1, <2>1, <2>2, <2>3, <2>4 DEF IInv, Closing, ClosingPcs, DestroyingPcs, CleanupPcs
  <2>9. Stored'
    BY RequestsAssumption, <1>1, <2>1, <2>2, <2>3, <2>4 DEF IInv, Stored, DetachedPcs
  <2>10. Controlled'
    BY RequestsAssumption, <1>1, <2>1, <2>2, <2>3, <2>4 DEF IInv, Controlled, ControlledPcs,
       CallPcs, CleanupPcs
  <2>11. Contained'
    BY <1>1, <2>1, <2>2, <2>3, <2>4 DEF IInv, Contained
  <2>12. Reached'
    BY <1>1, <2>1, <2>2, <2>3, <2>4 DEF IInv, Reached
  <2>. QED
    BY <2>5, <2>6, <2>7, <2>8, <2>9, <2>10, <2>11, <2>12 DEF IInv
<1>2. CASE Goto("cleanup_begin")
  <2>1. worker.pc = "engine"
    BY DEF IInv, Balanced, EngineReturn
  <2>2. /\ UNCHANGED <<req, native, ctl, conn, fan, fatal>> /\ engine.at = "running"
        /\ worker.pc = "engine"
    BY <1>2, <2>1 DEF EngineReturn, Goto
  <2>3. /\ engine' \in Engine /\ engine'.at = "out" /\ engine'.interrupt = engine.interrupt
        /\ engine'.touched = engine.touched
    BY <1>2, <2>1, <2>2 DEF IInv, TypeOK, Engine, EngineReturn, Goto
  <2>4. /\ worker' \in Worker /\ worker'.pc = "cleanup_begin" /\ worker'.run = worker.run
        /\ worker'.operation = worker.operation /\ worker'.owed = worker.owed
        /\ worker'.destroying = worker.destroying /\ worker'.result = worker.result
    BY <1>2, <2>1, <2>2 DEF IInv, TypeOK, Worker, WorkerPcs, Operations, Outcomes, GuardPcs,
       EngineReturn, Goto
  <2>5. TypeOK' /\ ~fatal'
    BY <1>2, <2>1, <2>2, <2>3, <2>4 DEF IInv, TypeOK
  <2>6. Leased'
    BY RequestsAssumption, <1>2, <2>1, <2>2, <2>3, <2>4 DEF IInv, Leased, Running
  <2>7. Balanced'
    BY <1>2, <2>1, <2>2, <2>3, <2>4 DEF IInv, Balanced, CallPcs, CleanupPcs, GuardPcs, Closing,
       ClosingPcs
  <2>8. Closing'
    BY <1>2, <2>1, <2>2, <2>3, <2>4 DEF IInv, Closing, ClosingPcs, DestroyingPcs, CleanupPcs
  <2>9. Stored'
    BY RequestsAssumption, <1>2, <2>1, <2>2, <2>3, <2>4 DEF IInv, Stored, DetachedPcs
  <2>10. Controlled'
    BY RequestsAssumption, <1>2, <2>1, <2>2, <2>3, <2>4 DEF IInv, Controlled, ControlledPcs,
       CallPcs, CleanupPcs
  <2>11. Contained'
    BY <1>2, <2>1, <2>2, <2>3, <2>4 DEF IInv, Contained
  <2>12. Reached'
    BY <1>2, <2>1, <2>2, <2>3, <2>4 DEF IInv, Reached
  <2>. QED
    BY <2>5, <2>6, <2>7, <2>8, <2>9, <2>10, <2>11, <2>12 DEF IInv
<1>. QED
  BY <1>1, <1>2 DEF EngineReturn, Goto

\* Another call follows, or the cleanup.
LEMMA CallEndKeeps ==
    ASSUME IInv, CallEnd
    PROVE  IInv'
<1>1. CASE Section("call_end", TRUE, conn, "call_begin")
  <2>1. conn' = Unlock(conn) /\ Goto("call_begin")
    BY <1>1 DEF Section
  <2>2. /\ UNCHANGED <<req, native, ctl, engine, fan, fatal>> /\ worker.pc = "call_end"
    BY <1>1, <2>1 DEF CallEnd, Section, Unlock, Goto
  <2>3. /\ conn' \in Connection /\ conn'.gate = conn.gate /\ conn'.lease = conn.lease
        /\ conn'.guard = FALSE /\ conn'.active = conn.active /\ conn'.phase # "USER"
        /\ conn'.foreign = conn.foreign /\ conn'.cleanup = conn.cleanup
        /\ conn'.closing = conn.closing
    BY <1>1, <2>1, <2>2 DEF IInv, TypeOK, Connection, Phases, CallEnd, Section, Unlock, Goto
  <2>4. /\ worker' \in Worker /\ worker'.pc = "call_begin" /\ worker'.run = worker.run
        /\ worker'.operation = worker.operation /\ worker'.owed = worker.owed
        /\ worker'.destroying = worker.destroying /\ worker'.result = worker.result
    BY <1>1, <2>1, <2>2 DEF IInv, TypeOK, Worker, WorkerPcs, Operations, Outcomes, GuardPcs,
       CallEnd, Section, Unlock, Goto
  <2>5. TypeOK' /\ ~fatal'
    BY <1>1, <2>1, <2>2, <2>3, <2>4 DEF IInv, TypeOK
  <2>6. Leased'
    BY RequestsAssumption, <1>1, <2>1, <2>2, <2>3, <2>4 DEF IInv, Leased, Running
  <2>7. Balanced'
    BY <1>1, <2>1, <2>2, <2>3, <2>4 DEF IInv, Balanced, CallPcs, CleanupPcs, GuardPcs, Closing,
       ClosingPcs
  <2>8. Closing'
    BY <1>1, <2>1, <2>2, <2>3, <2>4 DEF IInv, Closing, ClosingPcs, DestroyingPcs, CleanupPcs
  <2>9. Stored'
    BY RequestsAssumption, <1>1, <2>1, <2>2, <2>3, <2>4 DEF IInv, Stored, DetachedPcs
  <2>10. Controlled'
    BY RequestsAssumption, <1>1, <2>1, <2>2, <2>3, <2>4 DEF IInv, Controlled, ControlledPcs,
       CallPcs, CleanupPcs
  <2>11. Contained'
    BY <1>1, <2>1, <2>2, <2>3, <2>4 DEF IInv, Contained
  <2>12. Reached'
    BY <1>1, <2>1, <2>2, <2>3, <2>4 DEF IInv, Reached
  <2>. QED
    BY <2>5, <2>6, <2>7, <2>8, <2>9, <2>10, <2>11, <2>12 DEF IInv
<1>2. CASE Section("call_end", TRUE, conn, "cleanup_begin")
  <2>1. conn' = Unlock(conn) /\ Goto("cleanup_begin")
    BY <1>2 DEF Section
  <2>2. /\ UNCHANGED <<req, native, ctl, engine, fan, fatal>> /\ worker.pc = "call_end"
    BY <1>2, <2>1 DEF CallEnd, Section, Unlock, Goto
  <2>3. /\ conn' \in Connection /\ conn'.gate = conn.gate /\ conn'.lease = conn.lease
        /\ conn'.guard = FALSE /\ conn'.active = conn.active /\ conn'.phase # "USER"
        /\ conn'.foreign = conn.foreign /\ conn'.cleanup = conn.cleanup
        /\ conn'.closing = conn.closing
    BY <1>2, <2>1, <2>2 DEF IInv, TypeOK, Connection, Phases, CallEnd, Section, Unlock, Goto
  <2>4. /\ worker' \in Worker /\ worker'.pc = "cleanup_begin" /\ worker'.run = worker.run
        /\ worker'.operation = worker.operation /\ worker'.owed = worker.owed
        /\ worker'.destroying = worker.destroying /\ worker'.result = worker.result
    BY <1>2, <2>1, <2>2 DEF IInv, TypeOK, Worker, WorkerPcs, Operations, Outcomes, GuardPcs,
       CallEnd, Section, Unlock, Goto
  <2>5. TypeOK' /\ ~fatal'
    BY <1>2, <2>1, <2>2, <2>3, <2>4 DEF IInv, TypeOK
  <2>6. Leased'
    BY RequestsAssumption, <1>2, <2>1, <2>2, <2>3, <2>4 DEF IInv, Leased, Running
  <2>7. Balanced'
    BY <1>2, <2>1, <2>2, <2>3, <2>4 DEF IInv, Balanced, CallPcs, CleanupPcs, GuardPcs, Closing,
       ClosingPcs
  <2>8. Closing'
    BY <1>2, <2>1, <2>2, <2>3, <2>4 DEF IInv, Closing, ClosingPcs, DestroyingPcs, CleanupPcs
  <2>9. Stored'
    BY RequestsAssumption, <1>2, <2>1, <2>2, <2>3, <2>4 DEF IInv, Stored, DetachedPcs
  <2>10. Controlled'
    BY RequestsAssumption, <1>2, <2>1, <2>2, <2>3, <2>4 DEF IInv, Controlled, ControlledPcs,
       CallPcs, CleanupPcs
  <2>11. Contained'
    BY <1>2, <2>1, <2>2, <2>3, <2>4 DEF IInv, Contained
  <2>12. Reached'
    BY <1>2, <2>1, <2>2, <2>3, <2>4 DEF IInv, Reached
  <2>. QED
    BY <2>5, <2>6, <2>7, <2>8, <2>9, <2>10, <2>11, <2>12 DEF IInv
<1>. QED
  BY <1>1, <1>2 DEF CallEnd

\* The cleanup begins.
LEMMA CleanupBeginKeeps ==
    ASSUME IInv, CleanupBegin
    PROVE  IInv'
<1>1. worker.pc = "cleanup_begin"
  BY DEF IInv, Balanced, Closing, Stored, CallPcs, CleanupPcs, ClosingPcs, DetachedPcs, Section,
     CleanupBegin
<1>2. /\ conn' = Unlock([conn EXCEPT !.cleanup = TRUE])
      /\ Goto("cleanup_end")
  BY <1>1 DEF Section, CleanupBegin
<1>3. /\ UNCHANGED <<req, native, ctl, engine, fan, fatal>> /\ worker.pc = "cleanup_begin"
      /\ conn.guard
  BY <1>1, <1>2 DEF CleanupBegin, Section, Unlock, Goto
<1>4. /\ conn' \in Connection /\ conn'.gate = conn.gate /\ conn'.lease = conn.lease
      /\ conn'.guard = FALSE /\ conn'.active = conn.active /\ conn'.phase # "USER"
      /\ conn'.foreign = conn.foreign /\ conn'.cleanup = TRUE /\ conn'.closing = conn.closing
  BY <1>1, <1>2, <1>3 DEF IInv, TypeOK, Connection, Phases, CleanupBegin, Section, Unlock, Goto
<1>5. /\ worker' \in Worker /\ worker'.pc = "cleanup_end" /\ worker'.run = worker.run
      /\ worker'.operation = worker.operation /\ worker'.owed = worker.owed
      /\ worker'.destroying = worker.destroying /\ worker'.result = worker.result
  BY <1>1, <1>2, <1>3 DEF IInv, TypeOK, Worker, WorkerPcs, Operations, Outcomes, GuardPcs,
     CleanupBegin, Section, Unlock, Goto
<1>6. TypeOK' /\ ~fatal'
  BY <1>1, <1>2, <1>3, <1>4, <1>5 DEF IInv, TypeOK
<1>7. Leased'
  BY RequestsAssumption, <1>1, <1>2, <1>3, <1>4, <1>5 DEF IInv, Leased, Running
<1>8. Balanced'
  BY <1>1, <1>2, <1>3, <1>4, <1>5 DEF IInv, Balanced, CallPcs, CleanupPcs, GuardPcs
<1>9. Closing'
  BY <1>1, <1>2, <1>3, <1>4, <1>5 DEF IInv, Closing, ClosingPcs, DestroyingPcs, CleanupPcs
<1>10. Stored'
  BY RequestsAssumption, <1>1, <1>2, <1>3, <1>4, <1>5 DEF IInv, Stored, DetachedPcs
<1>11. Controlled'
  BY RequestsAssumption, <1>1, <1>2, <1>3, <1>4, <1>5 DEF IInv, Controlled, ControlledPcs, CallPcs,
     CleanupPcs
<1>12. Contained'
  BY <1>1, <1>2, <1>3, <1>4, <1>5 DEF IInv, Contained
<1>13. Reached'
  BY <1>1, <1>2, <1>3, <1>4, <1>5 DEF IInv, Reached
<1>. QED
  BY <1>6, <1>7, <1>8, <1>9, <1>10, <1>11, <1>12, <1>13 DEF IInv

\* The cleanup ends, of a call or of the connection.
LEMMA CleanupEndKeeps ==
    ASSUME IInv, CleanupEnd
    PROVE  IInv'
<1>1. conn.cleanup
  BY DEF IInv, Balanced, Closing, Stored, CallPcs, CleanupPcs, ClosingPcs, DetachedPcs, Section,
     CleanupEnd
<1>2. /\ conn' = Unlock([conn EXCEPT !.cleanup = FALSE])
      /\ Goto(IF conn.closing THEN "mark_closed" ELSE "work_end")
  BY <1>1 DEF Section, CleanupEnd
<1>3. /\ UNCHANGED <<req, native, ctl, engine, fan, fatal>> /\ worker.pc = "cleanup_end"
      /\ conn.guard
  BY <1>1, <1>2 DEF CleanupEnd, Section, Unlock, Goto
<1>4. /\ conn' \in Connection /\ conn'.gate = conn.gate /\ conn'.lease = conn.lease
      /\ conn'.guard = FALSE /\ conn'.active = conn.active /\ conn'.phase # "USER"
      /\ conn'.foreign = conn.foreign /\ conn'.cleanup = FALSE /\ conn'.closing = conn.closing
  BY <1>1, <1>2, <1>3 DEF IInv, TypeOK, Connection, Phases, CleanupEnd, Section, Unlock, Goto
<1>5. /\ worker' \in Worker /\ worker'.pc = (IF conn.closing THEN "mark_closed" ELSE "work_end")
      /\ worker'.run = worker.run /\ worker'.operation = worker.operation
      /\ worker'.owed = worker.owed /\ worker'.destroying = worker.destroying
      /\ worker'.result = worker.result
  BY <1>1, <1>2, <1>3 DEF IInv, TypeOK, Worker, WorkerPcs, Operations, Outcomes, GuardPcs,
     CleanupEnd, Section, Unlock, Goto
<1>6. TypeOK' /\ ~fatal'
  BY <1>1, <1>2, <1>3, <1>4, <1>5 DEF IInv, TypeOK
<1>7. Leased'
  BY RequestsAssumption, <1>1, <1>2, <1>3, <1>4, <1>5 DEF IInv, Leased, Running
<1>8. Balanced'
  BY <1>1, <1>2, <1>3, <1>4, <1>5 DEF IInv, Balanced, CallPcs, CleanupPcs, GuardPcs
<1>9. Closing'
  BY <1>1, <1>2, <1>3, <1>4, <1>5 DEF IInv, Closing, ClosingPcs, DestroyingPcs, CleanupPcs
<1>10. Stored'
  <2>1. worker'.pc \in DetachedPcs => conn.active = NoRequest
    BY <1>3, <1>5 DEF IInv, Closing, ClosingPcs, DetachedPcs
  <2>2. worker'.pc \notin {"start", "install", "uninstall"} /\ worker.pc \notin {"install", "uninstall"}
    BY <1>3, <1>5
  <2>. QED
    BY <1>3, <1>4, <1>5, <2>1, <2>2 DEF IInv, Stored
<1>11. Controlled'
  BY RequestsAssumption, <1>1, <1>2, <1>3, <1>4, <1>5 DEF IInv, Controlled, ControlledPcs, CallPcs,
     CleanupPcs, Closing
<1>12. Contained'
  BY <1>1, <1>2, <1>3, <1>4, <1>5 DEF IInv, Contained
<1>13. Reached'
  BY <1>1, <1>2, <1>3, <1>4, <1>5 DEF IInv, Reached
<1>. QED
  BY <1>6, <1>7, <1>8, <1>9, <1>10, <1>11, <1>12, <1>13 DEF IInv

\* The work ends.
LEMMA WorkEndKeeps ==
    ASSUME IInv, WorkEnd
    PROVE  IInv'
<1>1. conn.foreign /\ ~conn.cleanup
  BY DEF IInv, Balanced, Closing, Stored, CallPcs, CleanupPcs, ClosingPcs, DetachedPcs, Section,
     WorkEnd
<1>2. /\ conn' = Unlock([conn EXCEPT !.foreign = FALSE])
      /\ Goto(IF worker.operation = "rollback" THEN "rolled_back" ELSE "body")
  BY <1>1 DEF Section, WorkEnd
<1>3. /\ UNCHANGED <<req, native, ctl, engine, fan, fatal>> /\ worker.pc = "work_end" /\ conn.guard
  BY <1>1, <1>2 DEF WorkEnd, Section, Unlock, Goto
<1>4. /\ conn' \in Connection /\ conn'.gate = conn.gate /\ conn'.lease = conn.lease
      /\ conn'.guard = FALSE /\ conn'.active = conn.active /\ conn'.phase # "USER"
      /\ conn'.foreign = FALSE /\ conn'.cleanup = conn.cleanup /\ conn'.closing = conn.closing
  BY <1>1, <1>2, <1>3 DEF IInv, TypeOK, Connection, Phases, WorkEnd, Section, Unlock, Goto
<1>5. /\ worker' \in Worker
      /\ worker'.pc = (IF worker.operation = "rollback" THEN "rolled_back" ELSE "body")
      /\ worker'.run = worker.run /\ worker'.operation = worker.operation
      /\ worker'.owed = worker.owed /\ worker'.destroying = worker.destroying
      /\ worker'.result = worker.result
  BY <1>1, <1>2, <1>3 DEF IInv, TypeOK, Worker, WorkerPcs, Operations, Outcomes, GuardPcs, WorkEnd,
     Section, Unlock, Goto
<1>6. TypeOK' /\ ~fatal'
  BY <1>1, <1>2, <1>3, <1>4, <1>5 DEF IInv, TypeOK
<1>7. Leased'
  BY RequestsAssumption, <1>1, <1>2, <1>3, <1>4, <1>5 DEF IInv, Leased, Running
<1>8. Balanced'
  BY <1>1, <1>2, <1>3, <1>4, <1>5 DEF IInv, Balanced, CallPcs, CleanupPcs, GuardPcs
<1>9. Closing'
  BY <1>1, <1>2, <1>3, <1>4, <1>5 DEF IInv, Closing, ClosingPcs, DestroyingPcs, CleanupPcs
<1>10. Stored'
  BY RequestsAssumption, <1>1, <1>2, <1>3, <1>4, <1>5 DEF IInv, Stored, DetachedPcs
<1>11. Controlled'
  BY RequestsAssumption, <1>1, <1>2, <1>3, <1>4, <1>5 DEF IInv, Controlled, ControlledPcs, CallPcs,
     CleanupPcs
<1>12. Contained'
  BY <1>1, <1>2, <1>3, <1>4, <1>5 DEF IInv, Contained
<1>13. Reached'
  BY <1>1, <1>2, <1>3, <1>4, <1>5 DEF IInv, Reached
<1>. QED
  BY <1>6, <1>7, <1>8, <1>9, <1>10, <1>11, <1>12, <1>13 DEF IInv

\* A rollback that fails destroys the connection.
LEMMA RolledBackKeeps ==
    ASSUME IInv, RolledBack
    PROVE  IInv'
<1>1. CASE Goto("body") /\ UNCHANGED conn
  <2>1. /\ UNCHANGED <<req, native, ctl, conn, engine, fan, fatal>> /\ worker.pc = "rolled_back"
    BY <1>1 DEF RolledBack, Goto
  <2>2. /\ worker' \in Worker /\ worker'.pc = "body" /\ worker'.run = worker.run
        /\ worker'.operation = worker.operation /\ worker'.owed = worker.owed
        /\ worker'.destroying = worker.destroying /\ worker'.result = worker.result
    BY <1>1, <2>1 DEF IInv, TypeOK, Worker, WorkerPcs, Operations, Outcomes, GuardPcs, RolledBack,
       Goto
  <2>3. TypeOK' /\ ~fatal'
    BY <1>1, <2>1, <2>2 DEF IInv, TypeOK
  <2>4. Leased'
    BY RequestsAssumption, <1>1, <2>1, <2>2 DEF IInv, Leased, Running
  <2>5. Balanced'
    BY <1>1, <2>1, <2>2 DEF IInv, Balanced, CallPcs, CleanupPcs, GuardPcs
  <2>6. Closing'
    BY <1>1, <2>1, <2>2 DEF IInv, Closing, ClosingPcs, DestroyingPcs, CleanupPcs
  <2>7. Stored'
    BY RequestsAssumption, <1>1, <2>1, <2>2 DEF IInv, Stored, DetachedPcs
  <2>8. Controlled'
    BY RequestsAssumption, <1>1, <2>1, <2>2 DEF IInv, Controlled, ControlledPcs, CallPcs, CleanupPcs
  <2>9. Contained'
    BY <1>1, <2>1, <2>2 DEF IInv, Contained
  <2>10. Reached'
    BY <1>1, <2>1, <2>2 DEF IInv, Reached
  <2>. QED
    BY <2>3, <2>4, <2>5, <2>6, <2>7, <2>8, <2>9, <2>10 DEF IInv
<1>2. CASE /\ worker' = [worker EXCEPT !.pc = "stop", !.destroying = TRUE]
           /\ conn' = [conn EXCEPT !.gate = "Closing"]
  <2>1. /\ UNCHANGED <<req, native, ctl, engine, fan, fatal>> /\ worker.pc = "rolled_back"
    BY <1>2 DEF RolledBack, Goto
  <2>2. /\ conn' \in Connection /\ conn'.gate = "Closing" /\ conn'.lease = conn.lease
        /\ conn'.guard = conn.guard /\ conn'.active = conn.active /\ conn'.phase = conn.phase
        /\ conn'.foreign = conn.foreign /\ conn'.cleanup = conn.cleanup
        /\ conn'.closing = conn.closing
    BY <1>2, <2>1 DEF IInv, TypeOK, Connection, Phases, RolledBack, Goto
  <2>3. /\ worker' \in Worker /\ worker'.pc = "stop" /\ worker'.run = worker.run
        /\ worker'.operation = worker.operation /\ worker'.owed = worker.owed
        /\ worker'.destroying = TRUE /\ worker'.result = worker.result
    BY <1>2, <2>1 DEF IInv, TypeOK, Worker, WorkerPcs, Operations, Outcomes, GuardPcs, RolledBack,
       Goto
  <2>4. TypeOK' /\ ~fatal'
    BY <1>2, <2>1, <2>2, <2>3 DEF IInv, TypeOK
  <2>5. Leased'
    BY RequestsAssumption, <1>2, <2>1, <2>2, <2>3 DEF IInv, Leased, Running
  <2>6. Balanced'
    BY <1>2, <2>1, <2>2, <2>3 DEF IInv, Balanced, CallPcs, CleanupPcs, GuardPcs
  <2>7. Closing'
    BY <1>2, <2>1, <2>2, <2>3 DEF IInv, Closing, ClosingPcs, DestroyingPcs, CleanupPcs, CallPcs
  <2>8. Stored'
    BY RequestsAssumption, <1>2, <2>1, <2>2, <2>3 DEF IInv, Stored, DetachedPcs
  <2>9. Controlled'
    BY RequestsAssumption, <1>2, <2>1, <2>2, <2>3 DEF IInv, Controlled, ControlledPcs, CallPcs,
       CleanupPcs
  <2>10. Contained'
    BY <1>2, <2>1, <2>2, <2>3 DEF IInv, Contained, Closing, ClosingPcs, CleanupPcs
  <2>11. Reached'
    BY <1>2, <2>1, <2>2, <2>3 DEF IInv, Reached
  <2>. QED
    BY <2>4, <2>5, <2>6, <2>7, <2>8, <2>9, <2>10, <2>11 DEF IInv
<1>. QED
  BY <1>1, <1>2 DEF RolledBack, Goto

\* The run begins to settle.
LEMMA QuiesceKeeps ==
    ASSUME IInv, Quiesce
    PROVE  IInv'
<1>1. worker.run \in Requests /\ req[worker.run].state \in Running
  BY RunIsRequest DEF IInv, Leased, Quiesce
<1>2. /\ UNCHANGED <<native, ctl, conn, engine, fan, fatal>> /\ worker.pc = "quiesce"
  BY <1>1 DEF Quiesce, Goto
<1>3. /\ req' \in [Requests -> Request]
      /\ \A q \in Requests \ {worker.run} : req'[q] = req[q]
      /\ req'[worker.run].state = "Quiescing"
      /\ req'[worker.run].cancelled = req[worker.run].cancelled
      /\ req'[worker.run].rooted = req[worker.run].rooted
      /\ req'[worker.run].stop = req[worker.run].stop
      /\ req'[worker.run].interrupted = req[worker.run].interrupted
      /\ req'[worker.run].outcome = req[worker.run].outcome
  BY <1>1, <1>2 DEF IInv, TypeOK, Request, RequestStates, Outcomes, Quiesce, Goto
<1>4. /\ worker' \in Worker /\ worker'.pc = "stop" /\ worker'.run = worker.run
      /\ worker'.operation = worker.operation /\ worker'.owed = worker.owed
      /\ worker'.destroying = worker.destroying /\ worker'.result = worker.result
  BY <1>1, <1>2 DEF IInv, TypeOK, Worker, WorkerPcs, Operations, Outcomes, GuardPcs, Quiesce, Goto
<1>5. TypeOK' /\ ~fatal'
  BY <1>1, <1>2, <1>3, <1>4 DEF IInv, TypeOK
<1>6. Leased'
  BY RequestsAssumption, <1>1, <1>2, <1>3, <1>4 DEF IInv, Leased, Running
<1>7. Balanced'
  BY <1>1, <1>2, <1>3, <1>4 DEF IInv, Balanced, CallPcs, CleanupPcs, GuardPcs
<1>8. Closing'
  BY <1>1, <1>2, <1>3, <1>4 DEF IInv, Closing, ClosingPcs, DestroyingPcs, CleanupPcs
<1>9. Stored'
  BY RequestsAssumption, <1>1, <1>2, <1>3, <1>4 DEF IInv, Stored, DetachedPcs
<1>10. Controlled'
  BY RequestsAssumption, <1>1, <1>2, <1>3, <1>4 DEF IInv, Controlled, ControlledPcs, CallPcs,
     CleanupPcs
<1>11. Reached'
  BY <1>1, <1>2, <1>3, <1>4 DEF IInv, Reached, Running
<1>12. Contained'
  BY <1>1, <1>2, <1>3, <1>4 DEF IInv, Contained
<1>. QED
  BY <1>5, <1>6, <1>7, <1>8, <1>9, <1>10, <1>11, <1>12 DEF IInv

\* The controller is asked to stop.
LEMMA StopControllerKeeps ==
    ASSUME IInv, StopController
    PROVE  IInv'
<1>1. worker.run \in Requests /\ req[worker.run].state \in Running
  BY RunIsRequest DEF IInv, Leased, StopController
<1>2. /\ UNCHANGED <<native, ctl, conn, engine, fan, fatal>> /\ worker.pc = "stop"
  BY <1>1 DEF StopController, Goto
<1>3. /\ req' \in [Requests -> Request]
      /\ \A q \in Requests \ {worker.run} : req'[q] = req[q]
      /\ req'[worker.run].state = req[worker.run].state
      /\ req'[worker.run].cancelled = req[worker.run].cancelled
      /\ req'[worker.run].rooted = req[worker.run].rooted /\ req'[worker.run].stop = TRUE
      /\ req'[worker.run].interrupted = req[worker.run].interrupted
      /\ req'[worker.run].outcome = req[worker.run].outcome
  <2>. DEFINE new == [req[worker.run] EXCEPT !.stop = TRUE]
  <2>1. req \in [Requests -> Request] /\ req[worker.run] \in Request /\ worker.run \in Requests
    BY <1>1, <1>2 DEF IInv, TypeOK
  <2>2. req' = [req EXCEPT ![worker.run] = new]
    BY <1>1, <1>2 DEF StopController
  <2>3. new \in Request
    BY <2>1 DEF Request
  <2>4. req' \in [Requests -> Request] /\ req'[worker.run] = new
       /\ \A p \in Requests \ {worker.run} : req'[p] = req[p]
    <3>. HIDE DEF new
    <3>. QED
      BY <2>1, <2>2, <2>3
  <2>. QED
    BY <2>1, <2>4 DEF Request
<1>4. /\ worker' \in Worker /\ worker'.pc = "join" /\ worker'.run = worker.run
      /\ worker'.operation = worker.operation /\ worker'.owed = worker.owed
      /\ worker'.destroying = worker.destroying /\ worker'.result = worker.result
  BY <1>1, <1>2 DEF IInv, TypeOK, Worker, WorkerPcs, Operations, Outcomes, GuardPcs, StopController,
     Goto
<1>5. TypeOK' /\ ~fatal'
  BY <1>1, <1>2, <1>3, <1>4 DEF IInv, TypeOK
<1>6. Leased'
  BY RequestsAssumption, <1>1, <1>2, <1>3, <1>4 DEF IInv, Leased, Running
<1>7. Balanced'
  BY <1>1, <1>2, <1>3, <1>4 DEF IInv, Balanced, CallPcs, CleanupPcs, GuardPcs
<1>8. Closing'
  BY <1>1, <1>2, <1>3, <1>4 DEF IInv, Closing, ClosingPcs, DestroyingPcs, CleanupPcs
<1>9. Stored'
  BY RequestsAssumption, <1>1, <1>2, <1>3, <1>4 DEF IInv, Stored, DetachedPcs
<1>10. Controlled'
  BY RequestsAssumption, <1>1, <1>2, <1>3, <1>4 DEF IInv, Controlled, ControlledPcs, CallPcs,
     CleanupPcs
<1>11. Reached'
  BY <1>1, <1>2, <1>3, <1>4 DEF IInv, Reached
<1>12. Contained'
  BY <1>1, <1>2, <1>3, <1>4 DEF IInv, Contained
<1>. QED
  BY <1>5, <1>6, <1>7, <1>8, <1>9, <1>10, <1>11, <1>12 DEF IInv

\* No controller is alive once it is joined.
LEMMA JoinControllerKeeps ==
    ASSUME IInv, JoinController
    PROVE  IInv'
<1>1. worker.run \in Requests /\ req[worker.run].state \in Running
  BY RunIsRequest DEF IInv, Leased, JoinController
<1>2. /\ UNCHANGED <<native, ctl, conn, engine, fan, fatal>> /\ worker.pc = "join"
      /\ ctl[worker.run] \in {"off", "done"}
  BY <1>1 DEF JoinController, Goto, Joinable
<1>3. /\ req' \in [Requests -> Request]
      /\ \A q \in Requests \ {worker.run} : req'[q] = req[q]
      /\ req'[worker.run].state = (IF worker.destroying THEN req[worker.run].state ELSE "Settling")
      /\ req'[worker.run].cancelled = req[worker.run].cancelled
      /\ req'[worker.run].rooted = req[worker.run].rooted
      /\ req'[worker.run].stop = req[worker.run].stop
      /\ req'[worker.run].interrupted = req[worker.run].interrupted
      /\ req'[worker.run].outcome = req[worker.run].outcome
  <2>. DEFINE new == [req[worker.run] EXCEPT !.state = IF worker.destroying THEN @ ELSE "Settling"]
  <2>1. req \in [Requests -> Request] /\ req[worker.run] \in Request /\ worker.run \in Requests
    BY <1>1, <1>2 DEF IInv, TypeOK
  <2>2. req' = [req EXCEPT ![worker.run] = new]
    BY <1>1, <1>2 DEF JoinController
  <2>3. new \in Request
    BY <2>1 DEF Request, RequestStates
  <2>4. req' \in [Requests -> Request] /\ req'[worker.run] = new
       /\ \A p \in Requests \ {worker.run} : req'[p] = req[p]
    <3>. HIDE DEF new
    <3>. QED
      BY <2>1, <2>2, <2>3
  <2>. QED
    BY <2>1, <2>4 DEF Request
<1>4. /\ worker' \in Worker /\ worker'.pc = "take" /\ worker'.run = worker.run
      /\ worker'.operation = worker.operation /\ worker'.owed = worker.owed
      /\ worker'.destroying = worker.destroying /\ worker'.result = worker.result
  BY <1>1, <1>2 DEF IInv, TypeOK, Worker, WorkerPcs, Operations, Outcomes, GuardPcs, JoinController,
     Goto, Joinable
<1>5. TypeOK' /\ ~fatal'
  BY <1>1, <1>2, <1>3, <1>4 DEF IInv, TypeOK
<1>6. Leased'
  BY RequestsAssumption, <1>1, <1>2, <1>3, <1>4 DEF IInv, Leased, Running
<1>7. Balanced'
  BY <1>1, <1>2, <1>3, <1>4 DEF IInv, Balanced, CallPcs, CleanupPcs, GuardPcs
<1>8. Closing'
  BY <1>1, <1>2, <1>3, <1>4 DEF IInv, Closing, ClosingPcs, DestroyingPcs, CleanupPcs
<1>9. Stored'
  BY RequestsAssumption, <1>1, <1>2, <1>3, <1>4 DEF IInv, Stored, DetachedPcs
<1>10. Controlled'
  BY RequestsAssumption, <1>1, <1>2, <1>3, <1>4 DEF IInv, Controlled, ControlledPcs, CallPcs,
     CleanupPcs, Stored
<1>11. Reached'
  BY <1>1, <1>2, <1>3, <1>4 DEF IInv, Reached, Running
<1>12. Contained'
  BY <1>1, <1>2, <1>3, <1>4 DEF IInv, Contained
<1>. QED
  BY <1>5, <1>6, <1>7, <1>8, <1>9, <1>10, <1>11, <1>12 DEF IInv

\* Nobody can cancel the native request any more.
LEMMA TakeNativeKeeps ==
    ASSUME IInv, TakeNative
    PROVE  IInv'
<1>1. worker.run \in Requests /\ req[worker.run].state \in Running
  BY RunIsRequest DEF IInv, Leased, TakeNative
<1>2. /\ UNCHANGED <<native, ctl, conn, engine, fan, fatal>> /\ worker.pc = "take"
  BY <1>1 DEF TakeNative, Goto, AfterDetach
<1>3. /\ req' \in [Requests -> Request]
      /\ \A q \in Requests \ {worker.run} : req'[q] = req[q]
      /\ req'[worker.run].state = req[worker.run].state
      /\ req'[worker.run].cancelled = req[worker.run].cancelled /\ req'[worker.run].rooted = FALSE
      /\ req'[worker.run].stop = req[worker.run].stop
      /\ req'[worker.run].interrupted = req[worker.run].interrupted
      /\ req'[worker.run].outcome = req[worker.run].outcome
  <2>. DEFINE new == [req[worker.run] EXCEPT !.rooted = FALSE]
  <2>1. req \in [Requests -> Request] /\ req[worker.run] \in Request /\ worker.run \in Requests
    BY <1>1, <1>2 DEF IInv, TypeOK
  <2>2. req' = [req EXCEPT ![worker.run] = new]
    BY <1>1, <1>2 DEF TakeNative
  <2>3. new \in Request
    BY <2>1 DEF Request
  <2>4. req' \in [Requests -> Request] /\ req'[worker.run] = new
       /\ \A p \in Requests \ {worker.run} : req'[p] = req[p]
    <3>. HIDE DEF new
    <3>. QED
      BY <2>1, <2>2, <2>3
  <2>. QED
    BY <2>1, <2>4 DEF Request
<1>4. /\ worker' \in Worker
      /\ worker'.pc = (IF req[worker.run].rooted THEN "uninstall" ELSE 
                      IF worker.destroying THEN "close_begin" ELSE "discard")
      /\ worker'.run = worker.run /\ worker'.operation = worker.operation
      /\ worker'.owed = worker.owed /\ worker'.destroying = worker.destroying
      /\ worker'.result = worker.result
  BY <1>1, <1>2 DEF IInv, TypeOK, Worker, WorkerPcs, Operations, Outcomes, GuardPcs, TakeNative,
     Goto, AfterDetach
<1>5. TypeOK' /\ ~fatal'
  BY <1>1, <1>2, <1>3, <1>4 DEF IInv, TypeOK
<1>6. Leased'
  BY RequestsAssumption, <1>1, <1>2, <1>3, <1>4 DEF IInv, Leased, Running
<1>7. Balanced'
  BY <1>1, <1>2, <1>3, <1>4 DEF IInv, Balanced, CallPcs, CleanupPcs, GuardPcs
<1>8. Closing'
  BY RequestsAssumption, <1>1, <1>2, <1>3, <1>4 DEF IInv, Closing, ClosingPcs, DestroyingPcs,
     CleanupPcs, Stored
<1>9. Stored'
  BY RequestsAssumption, <1>1, <1>2, <1>3, <1>4 DEF IInv, Stored, DetachedPcs
<1>10. Controlled'
  BY RequestsAssumption, <1>1, <1>2, <1>3, <1>4 DEF IInv, Controlled, ControlledPcs, CallPcs,
     CleanupPcs
<1>11. Reached'
  BY <1>1, <1>2, <1>3, <1>4 DEF IInv, Reached
<1>12. Contained'
  BY <1>1, <1>2, <1>3, <1>4 DEF IInv, Contained
<1>. QED
  BY <1>5, <1>6, <1>7, <1>8, <1>9, <1>10, <1>11, <1>12 DEF IInv

\* The native request leaves the connection with no work and no delivery pending.
LEMMA UninstallKeeps ==
    ASSUME IInv, Uninstall
    PROVE  IInv'
<1>1. worker.run \in Requests /\ req[worker.run].state \in Running
  BY RunIsRequest DEF IInv, Leased, Uninstall
<1>2. ~conn.guard /\ ~conn.foreign /\ ~conn.cleanup
  BY DEF IInv, Balanced, CallPcs, CleanupPcs, GuardPcs, Uninstall
<1>3. /\ ~native[worker.run].reserved /\ ctl[worker.run] \in {"off", "done"}
      /\ native[worker.run].state = "INSTALLED" <=> conn.active = worker.run
  BY <1>1, <1>2 DEF IInv, Stored, Controlled, ControlledPcs, CallPcs, CleanupPcs, Uninstall
<1>4. conn.active = (IF native[worker.run].state = "INSTALLED" THEN worker.run ELSE NoRequest)
  BY <1>1, <1>2, <1>3 DEF IInv, Stored, Uninstall
<1>5. /\ UNCHANGED <<req, ctl, engine, fan, fatal>> /\ worker.pc = "uninstall"
  BY <1>1, <1>2, <1>3, <1>4 DEF Uninstall, Goto, AfterDetach
<1>6. /\ native' \in [Requests -> NativeRequest]
      /\ \A q \in Requests \ {worker.run} : native'[q] = native[q]
      /\ native'[worker.run].state = "freed"
      /\ native'[worker.run].reserved = native[worker.run].reserved
      /\ native'[worker.run].cancelled = native[worker.run].cancelled
  BY <1>1, <1>2, <1>3, <1>4, <1>5 DEF IInv, TypeOK, NativeRequest, NativeStates, Uninstall, Goto,
     AfterDetach
<1>7. /\ conn' \in Connection /\ conn'.gate = conn.gate /\ conn'.lease = conn.lease
      /\ conn'.guard = conn.guard /\ conn'.active = NoRequest /\ conn'.phase = conn.phase
      /\ conn'.foreign = conn.foreign /\ conn'.cleanup = conn.cleanup
      /\ conn'.closing = conn.closing
  BY <1>1, <1>2, <1>3, <1>4, <1>5 DEF IInv, TypeOK, Connection, Phases, Uninstall, Goto, AfterDetach
<1>8. /\ worker' \in Worker /\ worker'.pc = (IF worker.destroying THEN "close_begin" ELSE "discard")
      /\ worker'.run = worker.run /\ worker'.operation = worker.operation
      /\ worker'.owed = worker.owed /\ worker'.destroying = worker.destroying
      /\ worker'.result = worker.result
  BY <1>1, <1>2, <1>3, <1>4, <1>5 DEF IInv, TypeOK, Worker, WorkerPcs, Operations, Outcomes,
     GuardPcs, Uninstall, Goto, AfterDetach
<1>9. TypeOK' /\ ~fatal'
  BY <1>1, <1>2, <1>3, <1>4, <1>5, <1>6, <1>7, <1>8 DEF IInv, TypeOK
<1>10. Leased'
  BY RequestsAssumption, <1>1, <1>2, <1>3, <1>4, <1>5, <1>6, <1>7, <1>8 DEF IInv, Leased, Running
<1>11. Balanced'
  BY <1>1, <1>2, <1>3, <1>4, <1>5, <1>6, <1>7, <1>8 DEF IInv, Balanced, CallPcs, CleanupPcs,
     GuardPcs
<1>12. Closing'
  BY <1>1, <1>2, <1>3, <1>4, <1>5, <1>6, <1>7, <1>8 DEF IInv, Closing, ClosingPcs, DestroyingPcs,
     CleanupPcs
<1>13. Stored'
  BY RequestsAssumption, <1>1, <1>2, <1>3, <1>4, <1>5, <1>6, <1>7, <1>8 DEF IInv, Stored,
     DetachedPcs
<1>14. Controlled'
  BY RequestsAssumption, <1>1, <1>2, <1>3, <1>4, <1>5, <1>6, <1>7, <1>8 DEF IInv, Controlled,
     ControlledPcs, CallPcs, CleanupPcs
<1>15. Contained'
  BY <1>1, <1>2, <1>3, <1>4, <1>5, <1>6, <1>7, <1>8 DEF IInv, Contained
<1>16. Reached'
  BY <1>1, <1>2, <1>3, <1>4, <1>5, <1>6, <1>7, <1>8 DEF IInv, Reached
<1>. QED
  BY <1>9, <1>10, <1>11, <1>12, <1>13, <1>14, <1>15, <1>16 DEF IInv

\* A connection that was interrupted is closed.
LEMMA DiscardKeeps ==
    ASSUME IInv, Discard
    PROVE  IInv'
<1>1. CASE ~req[worker.run].interrupted
  <2>1. worker.run \in Requests /\ req[worker.run].state \in Running
    BY RunIsRequest DEF IInv, Leased, Discard
  <2>2. conn' = conn
    BY <1>1, <2>1 DEF IInv, TypeOK, Connection, Discard, Spoiled
  <2>3. /\ UNCHANGED <<req, native, ctl, conn, engine, fan, fatal>> /\ worker.pc = "discard"
    BY <1>1, <2>1, <2>2 DEF Discard, Goto, Spoiled
  <2>4. /\ worker' \in Worker /\ worker'.pc = "finish" /\ worker'.run = worker.run
        /\ worker'.operation = worker.operation /\ worker'.owed = worker.owed
        /\ worker'.destroying = worker.destroying /\ worker'.result = worker.result
    BY <1>1, <2>1, <2>2, <2>3 DEF IInv, TypeOK, Worker, WorkerPcs, Operations, Outcomes, GuardPcs,
       Discard, Goto, Spoiled
  <2>5. TypeOK' /\ ~fatal'
    BY <1>1, <2>1, <2>2, <2>3, <2>4 DEF IInv, TypeOK
  <2>6. Leased'
    BY RequestsAssumption, <1>1, <2>1, <2>2, <2>3, <2>4 DEF IInv, Leased, Running
  <2>7. Balanced'
    BY <1>1, <2>1, <2>2, <2>3, <2>4 DEF IInv, Balanced, CallPcs, CleanupPcs, GuardPcs
  <2>8. Closing'
    BY <1>1, <2>1, <2>2, <2>3, <2>4 DEF IInv, Closing, ClosingPcs, DestroyingPcs, CleanupPcs
  <2>9. Stored'
    BY RequestsAssumption, <1>1, <2>1, <2>2, <2>3, <2>4 DEF IInv, Stored, DetachedPcs
  <2>10. Controlled'
    BY RequestsAssumption, <1>1, <2>1, <2>2, <2>3, <2>4 DEF IInv, Controlled, ControlledPcs,
       CallPcs, CleanupPcs
  <2>11. Contained'
    BY <1>1, <2>1, <2>2, <2>3, <2>4 DEF IInv, Contained, Controlled, ControlledPcs, CallPcs,
       CleanupPcs, Leased
  <2>12. Reached'
    BY <1>1, <2>1, <2>2, <2>3, <2>4 DEF IInv, Reached
  <2>. QED
    BY <2>5, <2>6, <2>7, <2>8, <2>9, <2>10, <2>11, <2>12 DEF IInv
<1>2. CASE req[worker.run].interrupted
  <2>1. /\ UNCHANGED <<req, native, ctl, engine, fan, fatal>> /\ worker.pc = "discard"
    BY <1>2 DEF Discard, Goto, Spoiled
  <2>2. /\ conn' \in Connection /\ conn'.gate = "Closing" /\ conn'.lease = conn.lease
        /\ conn'.guard = conn.guard /\ conn'.active = conn.active /\ conn'.phase = conn.phase
        /\ conn'.foreign = conn.foreign /\ conn'.cleanup = conn.cleanup
        /\ conn'.closing = conn.closing
    BY <1>2, <2>1 DEF IInv, TypeOK, Connection, Phases, Discard, Goto, Spoiled
  <2>3. /\ worker' \in Worker
        /\ worker'.pc = (IF conn.closing THEN "mark_closed" ELSE "close_begin")
        /\ worker'.run = worker.run /\ worker'.operation = worker.operation
        /\ worker'.owed = worker.owed /\ worker'.destroying = worker.destroying
        /\ worker'.result = worker.result
    BY <1>2, <2>1 DEF IInv, TypeOK, Worker, WorkerPcs, Operations, Outcomes, GuardPcs, Discard,
       Goto, Spoiled
  <2>4. TypeOK' /\ ~fatal'
    BY <1>2, <2>1, <2>2, <2>3 DEF IInv, TypeOK
  <2>5. Leased'
    BY RequestsAssumption, <1>2, <2>1, <2>2, <2>3 DEF IInv, Leased, Running
  <2>6. Balanced'
    BY <1>2, <2>1, <2>2, <2>3 DEF IInv, Balanced, CallPcs, CleanupPcs, GuardPcs
  <2>7. Closing'
    BY <1>2, <2>1, <2>2, <2>3 DEF IInv, Closing, ClosingPcs, DestroyingPcs, CleanupPcs
  <2>8. Stored'
    BY RequestsAssumption, <1>2, <2>1, <2>2, <2>3 DEF IInv, Stored, DetachedPcs
  <2>9. Controlled'
    BY RequestsAssumption, <1>2, <2>1, <2>2, <2>3 DEF IInv, Controlled, ControlledPcs, CallPcs,
       CleanupPcs
  <2>10. Contained'
    BY <1>2, <2>1, <2>2, <2>3 DEF IInv, Contained
  <2>11. Reached'
    BY <1>2, <2>1, <2>2, <2>3 DEF IInv, Reached
  <2>. QED
    BY <2>4, <2>5, <2>6, <2>7, <2>8, <2>9, <2>10, <2>11 DEF IInv
<1>. QED
  BY <1>1, <1>2 DEF Discard, Goto, Spoiled

\* The connection is closed with no request on it.
LEMMA CloseBeginKeeps ==
    ASSUME IInv, CloseBegin
    PROVE  IInv'
<1>1. ~conn.foreign /\ ~conn.cleanup /\ conn.active = NoRequest
  BY DEF IInv, Balanced, Closing, Stored, CallPcs, CleanupPcs, ClosingPcs, DetachedPcs, Section,
     CloseBegin
<1>2. /\ conn' = Unlock([conn EXCEPT !.closing = TRUE])
      /\ Goto("cleanup_begin")
  BY <1>1 DEF Section, CloseBegin
<1>3. /\ UNCHANGED <<req, native, ctl, engine, fan, fatal>> /\ worker.pc = "close_begin"
      /\ conn.guard
  BY <1>1, <1>2 DEF CloseBegin, Section, Unlock, Goto
<1>4. /\ conn' \in Connection /\ conn'.gate = conn.gate /\ conn'.lease = conn.lease
      /\ conn'.guard = FALSE /\ conn'.active = conn.active /\ conn'.phase # "USER"
      /\ conn'.foreign = conn.foreign /\ conn'.cleanup = conn.cleanup /\ conn'.closing = TRUE
  BY <1>1, <1>2, <1>3 DEF IInv, TypeOK, Connection, Phases, CloseBegin, Section, Unlock, Goto
<1>5. /\ worker' \in Worker /\ worker'.pc = "cleanup_begin" /\ worker'.run = worker.run
      /\ worker'.operation = worker.operation /\ worker'.owed = worker.owed
      /\ worker'.destroying = worker.destroying /\ worker'.result = worker.result
  BY <1>1, <1>2, <1>3 DEF IInv, TypeOK, Worker, WorkerPcs, Operations, Outcomes, GuardPcs,
     CloseBegin, Section, Unlock, Goto
<1>6. TypeOK' /\ ~fatal'
  BY <1>1, <1>2, <1>3, <1>4, <1>5 DEF IInv, TypeOK
<1>7. Leased'
  BY RequestsAssumption, <1>1, <1>2, <1>3, <1>4, <1>5 DEF IInv, Leased, Running
<1>8. Balanced'
  BY <1>1, <1>2, <1>3, <1>4, <1>5 DEF IInv, Balanced, CallPcs, CleanupPcs, GuardPcs
<1>9. Closing'
  BY <1>1, <1>2, <1>3, <1>4, <1>5 DEF IInv, Closing, ClosingPcs, DestroyingPcs, CleanupPcs
<1>10. Stored'
  BY RequestsAssumption, <1>1, <1>2, <1>3, <1>4, <1>5 DEF IInv, Stored, DetachedPcs
<1>11. Controlled'
  BY RequestsAssumption, <1>1, <1>2, <1>3, <1>4, <1>5 DEF IInv, Controlled, ControlledPcs, CallPcs,
     CleanupPcs
<1>12. Contained'
  BY <1>1, <1>2, <1>3, <1>4, <1>5 DEF IInv, Contained
<1>13. Reached'
  BY <1>1, <1>2, <1>3, <1>4, <1>5 DEF IInv, Reached
<1>. QED
  BY <1>6, <1>7, <1>8, <1>9, <1>10, <1>11, <1>12, <1>13 DEF IInv

\* The connection is closed.
LEMMA MarkClosedKeeps ==
    ASSUME IInv, MarkClosed
    PROVE  IInv'
<1>1. CASE worker.destroying
  <2>1. /\ UNCHANGED <<req, native, ctl, engine, fan, fatal>> /\ worker.pc = "mark_closed"
    BY <1>1 DEF MarkClosed
  <2>2. /\ conn' \in Connection /\ conn'.gate = "Closed_state" /\ conn'.lease = conn.lease
        /\ conn'.guard = conn.guard /\ conn'.active = conn.active /\ conn'.phase = conn.phase
        /\ conn'.foreign = conn.foreign /\ conn'.cleanup = conn.cleanup
        /\ conn'.closing = conn.closing
    BY <1>1, <2>1 DEF IInv, TypeOK, Connection, Phases, MarkClosed
  <2>3. /\ worker' \in Worker /\ worker'.pc = "body" /\ worker'.run = worker.run
        /\ worker'.operation = worker.operation /\ worker'.owed = worker.owed
        /\ worker'.destroying = FALSE /\ worker'.result = worker.result
    BY <1>1, <2>1 DEF IInv, TypeOK, Worker, WorkerPcs, Operations, Outcomes, GuardPcs, MarkClosed
  <2>4. TypeOK' /\ ~fatal'
    BY <1>1, <2>1, <2>2, <2>3 DEF IInv, TypeOK
  <2>5. Leased'
    BY RequestsAssumption, <1>1, <2>1, <2>2, <2>3 DEF IInv, Leased, Running
  <2>6. Balanced'
    BY <1>1, <2>1, <2>2, <2>3 DEF IInv, Balanced, CallPcs, CleanupPcs, GuardPcs
  <2>7. Closing'
    BY <1>1, <2>1, <2>2, <2>3 DEF IInv, Closing, ClosingPcs, DestroyingPcs, CleanupPcs
  <2>8. Stored'
    BY RequestsAssumption, <1>1, <2>1, <2>2, <2>3 DEF IInv, Stored, DetachedPcs
  <2>9. Controlled'
    BY RequestsAssumption, <1>1, <2>1, <2>2, <2>3 DEF IInv, Controlled, ControlledPcs, CallPcs,
       CleanupPcs
  <2>10. Contained'
    BY <1>1, <2>1, <2>2, <2>3 DEF IInv, Contained
  <2>11. Reached'
    BY <1>1, <2>1, <2>2, <2>3 DEF IInv, Reached
  <2>. QED
    BY <2>4, <2>5, <2>6, <2>7, <2>8, <2>9, <2>10, <2>11 DEF IInv
<1>2. CASE ~worker.destroying
  <2>1. /\ UNCHANGED <<req, native, ctl, engine, fan, fatal>> /\ worker.pc = "mark_closed"
    BY <1>2 DEF MarkClosed
  <2>2. /\ conn' \in Connection /\ conn'.gate = "Closed_state" /\ conn'.lease = conn.lease
        /\ conn'.guard = conn.guard /\ conn'.active = conn.active /\ conn'.phase = conn.phase
        /\ conn'.foreign = conn.foreign /\ conn'.cleanup = conn.cleanup
        /\ conn'.closing = conn.closing
    BY <1>2, <2>1 DEF IInv, TypeOK, Connection, Phases, MarkClosed
  <2>3. /\ worker' \in Worker /\ worker'.pc = "finish" /\ worker'.run = worker.run
        /\ worker'.operation = worker.operation /\ worker'.owed = worker.owed
        /\ worker'.destroying = FALSE /\ worker'.result = worker.result
    BY <1>2, <2>1 DEF IInv, TypeOK, Worker, WorkerPcs, Operations, Outcomes, GuardPcs, MarkClosed
  <2>4. TypeOK' /\ ~fatal'
    BY <1>2, <2>1, <2>2, <2>3 DEF IInv, TypeOK
  <2>5. Leased'
    BY RequestsAssumption, <1>2, <2>1, <2>2, <2>3 DEF IInv, Leased, Running
  <2>6. Balanced'
    BY <1>2, <2>1, <2>2, <2>3 DEF IInv, Balanced, CallPcs, CleanupPcs, GuardPcs
  <2>7. Closing'
    BY <1>2, <2>1, <2>2, <2>3 DEF IInv, Closing, ClosingPcs, DestroyingPcs, CleanupPcs
  <2>8. Stored'
    BY RequestsAssumption, <1>2, <2>1, <2>2, <2>3 DEF IInv, Stored, DetachedPcs
  <2>9. Controlled'
    BY RequestsAssumption, <1>2, <2>1, <2>2, <2>3 DEF IInv, Controlled, ControlledPcs, CallPcs,
       CleanupPcs
  <2>10. Contained'
    BY <1>2, <2>1, <2>2, <2>3 DEF IInv, Contained
  <2>11. Reached'
    BY <1>2, <2>1, <2>2, <2>3 DEF IInv, Reached
  <2>. QED
    BY <2>4, <2>5, <2>6, <2>7, <2>8, <2>9, <2>10, <2>11 DEF IInv
<1>. QED
  BY <1>1, <1>2 DEF MarkClosed

\* The request reports, and the lease ends.
LEMMA FinishKeeps ==
    ASSUME IInv, Finish
    PROVE  IInv'
<1>1. worker.run \in Requests /\ req[worker.run].state \in Running
  BY RunIsRequest DEF IInv, Leased, Finish
<1>2. /\ UNCHANGED <<native, ctl, engine, fan, fatal>> /\ worker.pc = "finish"
  BY <1>1 DEF Finish, Reported
<1>3. /\ req' \in [Requests -> Request]
      /\ \A q \in Requests \ {worker.run} : req'[q] = req[q]
      /\ req'[worker.run].state = "Finished"
      /\ req'[worker.run].cancelled = req[worker.run].cancelled
      /\ req'[worker.run].rooted = req[worker.run].rooted
      /\ req'[worker.run].stop = req[worker.run].stop
      /\ req'[worker.run].interrupted = req[worker.run].interrupted
      /\ req'[worker.run].outcome = (IF worker.result = "Ok" /\ req[worker.run].cancelled THEN "Cancelled"
                                     ELSE worker.result)
  BY <1>1, <1>2 DEF IInv, TypeOK, Request, RequestStates, Outcomes, Finish, Reported
<1>4. /\ conn' \in Connection /\ conn'.gate = conn.gate /\ conn'.lease = NoRequest
      /\ conn'.guard = conn.guard /\ conn'.active = conn.active /\ conn'.phase = conn.phase
      /\ conn'.foreign = conn.foreign /\ conn'.cleanup = conn.cleanup
      /\ conn'.closing = conn.closing
  BY <1>1, <1>2 DEF IInv, TypeOK, Connection, Phases, Finish, Reported
<1>5. /\ worker' \in Worker /\ worker'.pc = "idle" /\ worker'.run = NoRequest
      /\ worker'.operation = worker.operation /\ worker'.owed = worker.owed
      /\ worker'.destroying = worker.destroying /\ worker'.result = worker.result
  BY <1>1, <1>2 DEF IInv, TypeOK, Worker, WorkerPcs, Operations, Outcomes, GuardPcs, Finish,
     Reported
<1>6. TypeOK' /\ ~fatal'
  BY <1>1, <1>2, <1>3, <1>4, <1>5 DEF IInv, TypeOK
<1>7. Leased'
  BY RequestsAssumption, <1>1, <1>2, <1>3, <1>4, <1>5 DEF IInv, Leased, Running
<1>8. Balanced'
  BY <1>1, <1>2, <1>3, <1>4, <1>5 DEF IInv, Balanced, CallPcs, CleanupPcs, GuardPcs
<1>9. Closing'
  BY <1>1, <1>2, <1>3, <1>4, <1>5 DEF IInv, Closing, ClosingPcs, DestroyingPcs, CleanupPcs
<1>10. Stored'
  BY RequestsAssumption, <1>1, <1>2, <1>3, <1>4, <1>5 DEF IInv, Stored, DetachedPcs
<1>11. Controlled'
  BY RequestsAssumption, <1>1, <1>2, <1>3, <1>4, <1>5 DEF IInv, Controlled, ControlledPcs, CallPcs,
     CleanupPcs
<1>12. Reached'
  BY <1>1, <1>2, <1>3, <1>4, <1>5 DEF IInv, Reached
<1>13. Contained'
  BY <1>1, <1>2, <1>3, <1>4, <1>5 DEF IInv, Contained
<1>. QED
  BY <1>6, <1>7, <1>8, <1>9, <1>10, <1>11, <1>12, <1>13 DEF IInv

\* The controller looks at the stop flag.
LEMMA CheckKeeps ==
    ASSUME IInv, NEW r \in Requests, Check(r)
    PROVE  IInv'
<1>1. worker.pc # "idle" => worker.run \in Requests
  BY RunIsRequest
<1>2. /\ UNCHANGED <<req, native, conn, engine, worker, fan, fatal>> /\ ctl[r] = "check"
  BY <1>1 DEF Check, Advance
<1>3. /\ ctl' \in [Requests -> ControllerPcs]
      /\ \A q \in Requests \ {r} : ctl'[q] = ctl[q]
      /\ ctl'[r] = (IF req[r].stop THEN "done" ELSE "reserve")
  BY <1>1, <1>2 DEF IInv, TypeOK, ControllerPcs, Check, Advance
<1>4. TypeOK' /\ ~fatal'
  BY <1>1, <1>2, <1>3 DEF IInv, TypeOK
<1>5. Controlled'
  BY RequestsAssumption, <1>1, <1>2, <1>3 DEF IInv, Controlled, ControlledPcs, CallPcs, CleanupPcs
<1>6. Contained'
  BY <1>1, <1>2, <1>3 DEF IInv, Contained
<1>7. Leased' /\ Balanced' /\ Closing' /\ Stored' /\ Reached'
  BY <1>1, <1>2, <1>3 DEF IInv, Leased, Balanced, Closing, Stored, Reached
<1>. QED
  BY <1>4, <1>5, <1>6, <1>7 DEF IInv

\* A delivery is reserved by one controller.
LEMMA ReserveKeeps ==
    ASSUME IInv, NEW r \in Requests, Reserve(r)
    PROVE  IInv'
<1>1. CASE /\ native' = [native EXCEPT ![r].reserved = TRUE]
           /\ Advance(r, "deliver")
           /\ fatal' = (fatal \/ native[r].reserved)
  <2>1. worker.pc # "idle" => worker.run \in Requests
    BY RunIsRequest
  <2>2. ~native[r].reserved /\ ~fatal /\ ~fatal'
    BY <1>1, <2>1 DEF IInv, Controlled, Reserve
  <2>3. /\ UNCHANGED <<req, conn, engine, worker, fan>> /\ ctl[r] = "reserve"
    BY <1>1, <2>1, <2>2 DEF Reserve, Advance, Eligible
  <2>4. /\ native' \in [Requests -> NativeRequest]
        /\ \A q \in Requests \ {r} : native'[q] = native[q]
        /\ native'[r].state = native[r].state /\ native'[r].reserved = TRUE
        /\ native'[r].cancelled = native[r].cancelled
    BY <1>1, <2>1, <2>2, <2>3 DEF IInv, TypeOK, NativeRequest, NativeStates, Reserve, Advance,
       Eligible
  <2>5. /\ ctl' \in [Requests -> ControllerPcs]
        /\ \A q \in Requests \ {r} : ctl'[q] = ctl[q]
        /\ ctl'[r] = "deliver"
    BY <1>1, <2>1, <2>2, <2>3 DEF IInv, TypeOK, ControllerPcs, Reserve, Advance, Eligible
  <2>6. TypeOK' /\ ~fatal'
    BY <1>1, <2>1, <2>2, <2>3, <2>4, <2>5 DEF IInv, TypeOK
  <2>7. Stored'
    BY RequestsAssumption, <1>1, <2>1, <2>2, <2>3, <2>4, <2>5 DEF IInv, Stored, DetachedPcs
  <2>8. Controlled'
    BY RequestsAssumption, <1>1, <2>1, <2>2, <2>3, <2>4, <2>5 DEF IInv, Controlled, ControlledPcs,
       CallPcs, CleanupPcs
  <2>9. Contained'
    BY <1>1, <2>1, <2>2, <2>3, <2>4, <2>5 DEF IInv, Contained
  <2>10. Leased' /\ Balanced' /\ Closing' /\ Reached'
    BY <1>1, <2>1, <2>2, <2>3, <2>4, <2>5 DEF IInv, Leased, Balanced, Closing, Reached
  <2>. QED
    BY <2>6, <2>7, <2>8, <2>9, <2>10 DEF IInv
<1>2. CASE Advance(r, "check") /\ UNCHANGED <<native, fatal>>
  <2>1. worker.pc # "idle" => worker.run \in Requests
    BY RunIsRequest
  <2>2. /\ UNCHANGED <<req, native, conn, engine, worker, fan, fatal>> /\ ctl[r] = "reserve"
    BY <1>2, <2>1 DEF Reserve, Advance, Eligible
  <2>3. /\ ctl' \in [Requests -> ControllerPcs]
        /\ \A q \in Requests \ {r} : ctl'[q] = ctl[q]
        /\ ctl'[r] = "check"
    BY <1>2, <2>1, <2>2 DEF IInv, TypeOK, ControllerPcs, Reserve, Advance, Eligible
  <2>4. TypeOK' /\ ~fatal'
    BY <1>2, <2>1, <2>2, <2>3 DEF IInv, TypeOK
  <2>5. Controlled'
    BY RequestsAssumption, <1>2, <2>1, <2>2, <2>3 DEF IInv, Controlled, ControlledPcs, CallPcs,
       CleanupPcs
  <2>6. Contained'
    BY <1>2, <2>1, <2>2, <2>3 DEF IInv, Contained
  <2>7. Leased' /\ Balanced' /\ Closing' /\ Stored' /\ Reached'
    BY <1>2, <2>1, <2>2, <2>3 DEF IInv, Leased, Balanced, Closing, Stored, Reached
  <2>. QED
    BY <2>4, <2>5, <2>6, <2>7 DEF IInv
<1>. QED
  BY <1>1, <1>2 DEF Reserve, Advance, Eligible

\* An interrupt is delivered only inside a user call of the request.
LEMMA DeliverKeeps ==
    ASSUME IInv, NEW r \in Requests, Deliver(r)
    PROVE  IInv'
<1>1. CASE /\ Eligible(r)
           /\ engine' = [engine EXCEPT !.interrupt = TRUE, !.touched = TRUE]
           /\ Advance(r, "mark")
  <2>1. worker.pc # "idle" => worker.run \in Requests
    BY RunIsRequest
  <2>2. /\ UNCHANGED <<req, native, conn, worker, fan, fatal>> /\ ctl[r] = "deliver"
        /\ conn.active = r /\ conn.phase = "USER"
    BY <1>1, <2>1 DEF Deliver, Advance, Eligible
  <2>3. /\ ctl' \in [Requests -> ControllerPcs]
        /\ \A q \in Requests \ {r} : ctl'[q] = ctl[q]
        /\ ctl'[r] = "mark"
    BY <1>1, <2>1, <2>2 DEF IInv, TypeOK, ControllerPcs, Deliver, Advance, Eligible
  <2>4. /\ engine' \in Engine /\ engine'.at = engine.at /\ engine'.interrupt = TRUE
        /\ engine'.touched = TRUE
    BY <1>1, <2>1, <2>2 DEF IInv, TypeOK, Engine, Deliver, Advance, Eligible
  <2>5. TypeOK' /\ ~fatal'
    BY <1>1, <2>1, <2>2, <2>3, <2>4 DEF IInv, TypeOK
  <2>6. Balanced'
    BY <1>1, <2>1, <2>2, <2>3, <2>4 DEF IInv, Balanced, CallPcs, CleanupPcs, GuardPcs
  <2>7. Controlled'
    BY RequestsAssumption, <1>1, <2>1, <2>2, <2>3, <2>4 DEF IInv, Controlled, ControlledPcs,
       CallPcs, CleanupPcs
  <2>8. Contained'
    BY RequestsAssumption, <1>1, <2>1, <2>2, <2>3, <2>4 DEF IInv, Contained, TypeOK, Stored
  <2>9. Leased' /\ Closing' /\ Stored' /\ Reached'
    BY <1>1, <2>1, <2>2, <2>3, <2>4 DEF IInv, Leased, Closing, Stored, Reached
  <2>. QED
    BY <2>5, <2>6, <2>7, <2>8, <2>9 DEF IInv
<1>2. CASE Advance(r, "retire") /\ UNCHANGED engine
  <2>1. worker.pc # "idle" => worker.run \in Requests
    BY RunIsRequest
  <2>2. /\ UNCHANGED <<req, native, conn, engine, worker, fan, fatal>> /\ ctl[r] = "deliver"
    BY <1>2, <2>1 DEF Deliver, Advance, Eligible
  <2>3. /\ ctl' \in [Requests -> ControllerPcs]
        /\ \A q \in Requests \ {r} : ctl'[q] = ctl[q]
        /\ ctl'[r] = "retire"
    BY <1>2, <2>1, <2>2 DEF IInv, TypeOK, ControllerPcs, Deliver, Advance, Eligible
  <2>4. TypeOK' /\ ~fatal'
    BY <1>2, <2>1, <2>2, <2>3 DEF IInv, TypeOK
  <2>5. Controlled'
    BY RequestsAssumption, <1>2, <2>1, <2>2, <2>3 DEF IInv, Controlled, ControlledPcs, CallPcs,
       CleanupPcs
  <2>6. Contained'
    BY <1>2, <2>1, <2>2, <2>3 DEF IInv, Contained
  <2>7. Leased' /\ Balanced' /\ Closing' /\ Stored' /\ Reached'
    BY <1>2, <2>1, <2>2, <2>3 DEF IInv, Leased, Balanced, Closing, Stored, Reached
  <2>. QED
    BY <2>4, <2>5, <2>6, <2>7 DEF IInv
<1>. QED
  BY <1>1, <1>2 DEF Deliver, Advance, Eligible

\* The delivery is recorded.
LEMMA MarkKeeps ==
    ASSUME IInv, NEW r \in Requests, Mark(r)
    PROVE  IInv'
<1>1. worker.pc # "idle" => worker.run \in Requests
  BY RunIsRequest
<1>2. /\ UNCHANGED <<native, conn, engine, worker, fan, fatal>> /\ ctl[r] = "mark"
  BY <1>1 DEF Mark, Advance
<1>3. /\ req' \in [Requests -> Request]
      /\ \A q \in Requests \ {r} : req'[q] = req[q]
      /\ req'[r].state = req[r].state /\ req'[r].cancelled = req[r].cancelled
      /\ req'[r].rooted = req[r].rooted /\ req'[r].stop = req[r].stop /\ req'[r].interrupted = TRUE
      /\ req'[r].outcome = req[r].outcome
  <2>. DEFINE new == [req[r] EXCEPT !.interrupted = TRUE]
  <2>1. req \in [Requests -> Request] /\ req[r] \in Request /\ r \in Requests
    BY <1>2 DEF IInv, TypeOK
  <2>2. req' = [req EXCEPT ![r] = new]
    BY <1>2 DEF Mark
  <2>3. new \in Request
    BY <2>1 DEF Request
  <2>4. req' \in [Requests -> Request] /\ req'[r] = new
       /\ \A p \in Requests \ {r} : req'[p] = req[p]
    <3>. HIDE DEF new
    <3>. QED
      BY <2>1, <2>2, <2>3
  <2>. QED
    BY <2>1, <2>4 DEF Request
<1>4. /\ ctl' \in [Requests -> ControllerPcs]
      /\ \A q \in Requests \ {r} : ctl'[q] = ctl[q]
      /\ ctl'[r] = "retire"
  BY <1>1, <1>2 DEF IInv, TypeOK, ControllerPcs, Mark, Advance
<1>5. TypeOK' /\ ~fatal'
  BY <1>1, <1>2, <1>3, <1>4 DEF IInv, TypeOK
<1>6. Leased'
  BY RequestsAssumption, <1>1, <1>2, <1>3, <1>4 DEF IInv, Leased, Running
<1>7. Stored'
  BY RequestsAssumption, <1>1, <1>2, <1>3, <1>4 DEF IInv, Stored, DetachedPcs
<1>8. Controlled'
  BY RequestsAssumption, <1>1, <1>2, <1>3, <1>4 DEF IInv, Controlled, ControlledPcs, CallPcs,
     CleanupPcs
<1>9. Reached'
  BY <1>1, <1>2, <1>3, <1>4 DEF IInv, Reached
<1>10. Contained'
  BY <1>1, <1>2, <1>3, <1>4 DEF IInv, Contained
<1>11. Balanced' /\ Closing'
  BY <1>1, <1>2, <1>3, <1>4 DEF IInv, Balanced, Closing
<1>. QED
  BY <1>5, <1>6, <1>7, <1>8, <1>9, <1>10, <1>11 DEF IInv

\* The reservation ends.
LEMMA RetireKeeps ==
    ASSUME IInv, NEW r \in Requests, Retire(r)
    PROVE  IInv'
<1>1. worker.pc # "idle" => worker.run \in Requests
  BY RunIsRequest
<1>2. /\ UNCHANGED <<req, conn, engine, worker, fan, fatal>> /\ ctl[r] = "retire"
  BY <1>1 DEF Retire, Advance
<1>3. /\ native' \in [Requests -> NativeRequest]
      /\ \A q \in Requests \ {r} : native'[q] = native[q]
      /\ native'[r].state = native[r].state /\ native'[r].reserved = FALSE
      /\ native'[r].cancelled = native[r].cancelled
  BY <1>1, <1>2 DEF IInv, TypeOK, NativeRequest, NativeStates, Retire, Advance
<1>4. /\ ctl' \in [Requests -> ControllerPcs]
      /\ \A q \in Requests \ {r} : ctl'[q] = ctl[q]
      /\ ctl'[r] = "check"
  BY <1>1, <1>2 DEF IInv, TypeOK, ControllerPcs, Retire, Advance
<1>5. TypeOK' /\ ~fatal'
  BY <1>1, <1>2, <1>3, <1>4 DEF IInv, TypeOK
<1>6. Stored'
  BY RequestsAssumption, <1>1, <1>2, <1>3, <1>4 DEF IInv, Stored, DetachedPcs
<1>7. Controlled'
  BY RequestsAssumption, <1>1, <1>2, <1>3, <1>4 DEF IInv, Controlled, ControlledPcs, CallPcs,
     CleanupPcs
<1>8. Contained'
  BY <1>1, <1>2, <1>3, <1>4 DEF IInv, Contained
<1>9. Leased' /\ Balanced' /\ Closing' /\ Reached'
  BY <1>1, <1>2, <1>3, <1>4 DEF IInv, Leased, Balanced, Closing, Reached
<1>. QED
  BY <1>5, <1>6, <1>7, <1>8, <1>9 DEF IInv


-----------------------------------------------------------------------------
(* The invariant holds in every state.                                      *)

\* An open connection with no request on it.
LEMMA InitEstablishes == Init => IInv
<1>. SUFFICES ASSUME Init
              PROVE  IInv
  OBVIOUS
<1>1. TypeOK
  BY DEF Init, TypeOK, Request, NativeRequest, Connection, Engine, Worker, Canceller, RequestStates,
     NativeStates, Phases, Operations, Outcomes, ControllerPcs, WorkerPcs
<1>2. Leased /\ Balanced /\ Contained
  BY DEF Init, Leased, Balanced, Contained, CallPcs, CleanupPcs
<1>3. Closing
  BY DEF Init, Closing
<1>4. Stored /\ Controlled /\ Reached
  BY RequestsAssumption DEF Init, Stored, Controlled, Reached
<1>. QED
  BY <1>1, <1>2, <1>3, <1>4 DEF IInv, Init

\* Every step of the specification keeps the invariant.
LEMMA NextKeeps == IInv /\ [Next]_vars => IInv'
<1>. SUFFICES ASSUME IInv, [Next]_vars
              PROVE  IInv'
  OBVIOUS
<1>1. CASE UNCHANGED vars
  <2>1. TypeOK' /\ ~fatal' /\ Leased' /\ Balanced' /\ Closing'
    BY <1>1 DEF IInv, TypeOK, Leased, Balanced, Closing, vars
  <2>2. Stored' /\ Controlled' /\ Reached' /\ Contained'
    BY <1>1 DEF IInv, Stored, Controlled, Reached, Contained, vars
  <2>. QED
    BY <2>1, <2>2 DEF IInv
<1>2. CASE WorkerStep
  BY <1>2, AdmitKeeps, CreateKeeps, InstallKeeps, StartKeeps, AdmitCleanupKeeps, JoinCleanupKeeps,
     BodyReturnsKeeps, LockKeeps, WorkBeginKeeps, CallCancelledKeeps, CallAdmittedKeeps,
     EngineEnterKeeps, CallEndKeeps, CleanupBeginKeeps, CleanupEndKeeps, WorkEndKeeps,
     RolledBackKeeps, QuiesceKeeps, StopControllerKeeps, JoinControllerKeeps, TakeNativeKeeps,
     UninstallKeeps, DiscardKeeps, CloseBeginKeeps, MarkClosedKeeps, FinishKeeps DEF WorkerStep
<1>3. ASSUME NEW r \in Requests, Controller(r)
      PROVE  IInv'
  BY <1>3, CheckKeeps, ReserveKeeps, DeliverKeeps, MarkKeeps, RetireKeeps DEF Controller
<1>. QED
  BY <1>1, <1>2, <1>3, CancelKeeps, BindKeeps, CancelStateKeeps, ConsumeKeeps, OperateKeeps,
     EngineReturnKeeps DEF Next

\* The invariant holds in every state the bridge reaches.
LEMMA IInvAlways == Spec => []IInv
BY InitEstablishes, NextKeeps, PTL DEF Spec

-----------------------------------------------------------------------------
(* The results.                                                             *)

\* Every variable keeps its type, and the native phase is USER only inside an interruptible
\* call of the user.
THEOREM TypeCorrect == Spec => []TypeOK
<1>1. IInv => TypeOK
  BY DEF IInv
<1>. QED
  BY <1>1, IInvAlways, PTL

\* No abort of the native layer is reached, and the native request of a live controller
\* stays installed on a connection leased to its request: Bridge.run frees it only after the
\* join.
THEOREM AbortsUnreachable == Spec => []NeverFatal
<1>1. IInv => NeverFatal
  <2>. SUFFICES ASSUME IInv
                PROVE  NeverFatal
    OBVIOUS
  <2>1. ASSUME NEW r \in Requests, ctl[r] \notin {"off", "done"}
        PROVE  native[r].state = "INSTALLED" /\ conn.active = r /\ conn.lease = r
    <3>1. conn.active = r /\ worker.pc \in ControlledPcs
      BY <2>1 DEF IInv, Controlled
    <3>2. native[r].state = "INSTALLED" /\ worker.run = r
      BY <3>1, RequestsAssumption DEF IInv, Stored
    <3>. QED
      BY <3>1, <3>2 DEF IInv, Leased, ControlledPcs, CallPcs, CleanupPcs
  <2>. QED
    BY <2>1 DEF IInv, NeverFatal
<1>. QED
  BY <1>1, IInvAlways, PTL

\* An interrupt never reaches a rollback, and a connection that received one is closed before
\* the lease of the request it was meant for ends.
THEOREM InterruptsAreContained == Spec => []InterruptContained
<1>1. IInv => InterruptContained
  BY RequestsAssumption DEF IInv, InterruptContained, Contained, Leased
<1>. QED
  BY <1>1, IInvAlways, PTL

\* A request cancelled before finish never reports success, and once Bridge.cancel is through
\* its list every request that is bound and not finished is cancelled, the later ones too.
THEOREM CancellationsAreReported == Spec => []CancellationReported
<1>1. IInv => CancellationReported
  BY DEF IInv, CancellationReported, Reached
<1>. QED
  BY <1>1, IInvAlways, PTL
=============================================================================
