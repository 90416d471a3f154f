-------------------------------- MODULE Pool --------------------------------
(***************************************************************************)
(* What a pool of connections promises, whichever scheduler it serves: the *)
(* contract lib/async/duckdb_async.mli and lib/eio/duckdb_eio.mli share.   *)
(* AsyncPool and EioPool implement it, each under its own refinement       *)
(* mapping.                                                                *)
(*                                                                         *)
(* A step may move several requests at once (a shutdown withdraws all that *)
(* wait), so the next-state relation says of the pool, of every request    *)
(* and of every lease how far one step may take it.                        *)
(***************************************************************************)
EXTENDS Naturals

CONSTANTS
    Requests,   \* identities of the requests alive at the same time
    Slots,      \* the places for a connection
    NoAnswer    \* the answer of a request that has none yet

VARIABLES
    phase,      \* the pool: "absent" until it is made, "open", "stopping", "stopped"
    stage,      \* how far each request is
    answer,     \* what the request was answered
    leases,     \* which slot is lent to which request
    fit         \* the slots whose connection a new request may be given

vars == <<phase, stage, answer, leases, fit>>

\* The stages of a request with an answer.  The others: absent; accepted, and waiting;
\* withdrawn, because it was cancelled or the pool stopped before it began; running;
\* done or failed, when the work has returned and its connection is being seen to.
Answered == {"succeeded", "unsuccessful"}

Init ==
    /\ phase \in {"absent", "open"}
    /\ stage = [r \in Requests |-> "absent"]
    /\ answer = [r \in Requests |-> NoAnswer]
    /\ leases = {}
    /\ fit \in SUBSET Slots

-----------------------------------------------------------------------------
(* One step, as each part of the pool sees it.                              *)

\* The pool ends after its last request was answered and gave its connection back.
PhaseStep ==
    /\ \/ phase' = phase
       \/ <<phase, phase'>> \in {<<"absent", "open">>, <<"open", "stopping">>,
                                 <<"stopping", "stopped">>}
    /\ phase' = "stopped" =>
        leases' = {} /\ \A r \in Requests : stage'[r] \in Answered \cup {"absent"}

\* Where a request may go.  What was withdrawn never runs, what runs is not answered
\* with a failure before its connection has been seen to, only work that ran succeeds,
\* and an answer is final.
Onward(s) ==
    CASE s = "absent"    -> {"accepted", "running", "unsuccessful"}
      [] s = "accepted"  -> {"withdrawn", "running", "failed", "unsuccessful"}
      [] s = "withdrawn" -> {"failed", "unsuccessful"}
      [] s = "running"   -> {"done", "failed", "succeeded"}
      [] s = "done"      -> Answered
      [] s = "failed"    -> {"unsuccessful"}
      [] OTHER           -> {"absent"}

\* Work is accepted and begins only while the pool is open, on a fit connection lent to
\* it; work that fails leaves its connection unfit; as long as the pool is open a request
\* is answered only when a fit connection is in the place of the one it had, and only
\* work that succeeded gives back the very connection it used: whatever else a request
\* is answered, that connection was unfit until the step that put another in its place.
RequestStep(r) ==
    LET held == {s \in Slots : <<s, r>> \in leases} IN
    \/ /\ stage'[r] = stage[r]
       /\ answer'[r] = answer[r]
       /\ phase' # "open" => stage'[r] # "accepted"
    \/ /\ stage'[r] \in Onward(stage[r])
       /\ stage'[r] = "accepted" => phase' = "open"
       /\ stage'[r] = "running" =>
            phase = "open" /\ \E s \in fit : <<s, r>> \in leases'
       /\ stage[r] = "running" /\ stage'[r] = "failed" => held \cap fit' = {}
       /\ stage'[r] \in Answered /\ phase' = "open" => held \subseteq fit'
       /\ stage'[r] = "unsuccessful" /\ phase' = "open" => held \cap fit = {}

\* A connection is lent by an open pool, to one request that may begin, and returns
\* when that request is answered; one request has one connection.
LeaseStep ==
    /\ \A lease \in leases' \ leases :
        lease[1] \in fit' /\ phase' = "open" /\ stage'[lease[2]] \in {"accepted", "running"}
    /\ \A lease \in leases \ leases' : stage'[lease[2]] \in Answered
    /\ \A a, b \in leases' : a[1] = b[1] \/ a[2] = b[2] => a = b

Next == PhaseStep /\ LeaseStep /\ \A r \in Requests : RequestStep(r)

Spec == Init /\ [][Next]_vars
=============================================================================
