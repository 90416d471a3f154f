-------------------------------- MODULE Gate --------------------------------
(***************************************************************************)
(* The gate of a connection (Resource.gate and Resource.owner): who may    *)
(* use it now.  Threads also name what they create: the transaction token, *)
(* the bridged request and the statement of a thread, none of which it has *)
(* twice at the same time.  Nobody stands for None.                        *)
(***************************************************************************)
CONSTANTS
    Threads,
    Nobody

ASSUME NobodyAssumption == Nobody \notin Threads

Anybody == Threads \cup {Nobody}

GateStates == {"Open", "Closing", "Closed_state"}

\* gate.state, gate.busy, owner.lease, owner.request_lease, owner.result_owner
OwnerGate == [state : GateStates, busy : BOOLEAN, lease : Anybody, request : Anybody,
              result : Anybody]

OpenGate == [state |-> "Open", busy |-> FALSE, lease |-> Nobody, request |-> Nobody,
             result |-> Nobody]

Available(g) == g.state = "Open"

Idle(g) == ~g.busy

\* facade_access: the plain connection while no request holds it, or the facade of
\* the request that does and still runs.
FacadeAccess(g, via, running) == g.request = via /\ (via = Nobody \/ running)

LeaseMatches(g, tx) == g.lease = tx

ResultFree(g, holder) == g.result \in {Nobody, holder}

\* The checks of admit_operation, of which the first to fail names the error.
Admits(g, via, running, tx, holder) ==
    /\ Available(g)
    /\ FacadeAccess(g, via, running)
    /\ Idle(g) /\ LeaseMatches(g, tx) /\ ResultFree(g, holder)

Claim(g) == [g EXCEPT !.busy = TRUE]

FinishOperation(g) == [g EXCEPT !.busy = FALSE]

BeginDiscard(g) == [g EXCEPT !.state = "Closing", !.busy = TRUE]

MarkClosed(g) == [g EXCEPT !.state = "Closed_state", !.busy = FALSE]

ReleaseResult(g, holder) == [g EXCEPT !.result = IF g.result = holder THEN Nobody ELSE g.result]

\* Nobody uses or has leased the connection: what closing it by hand, importing
\* it into a request and starting a transaction require.
Unleased(g) == Idle(g) /\ g.lease = Nobody /\ g.result = Nobody
=============================================================================
