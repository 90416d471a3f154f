---------------------------- MODULE MCAsyncPool ----------------------------
(* Instances of AsyncPool for TLC.                                          *)
EXTENDS AsyncPool

RequestSymmetry == Permutations(Requests)

\* A steady stream of typed requests that all succeed: nobody cancels, shuts the
\* pool down or meets a failure.  Its behaviours are behaviours of FairSpec.
StreamNext ==
    /\ \/ \E r \in Requests : AdmitIdle(r, "Other") \/ Forget(r)
       \/ \E s \in Slots : WorkerEnter(s) \/ WorkerReturn(s) \/ Settle(s)
       \/ MaintenanceRun
       \/ MaintenanceDone
    /\ maintenance'.result # "Error"
    /\ \A s \in Slots : slots'[s].job # "Failed"

StreamSpec == Init /\ [][StreamNext]_vars /\ Fairness

Latched == {r \in Requests : requests[r].cancelled /\ requests[r].state # "Finished"}

\* While the pool accepts work, callers cancel one active request at a time and do not
\* submit the last one meanwhile: with this the liveness of three requests on two
\* connections is in TLC's reach.  Only callers are held back, who owe nothing, so
\* these behaviours too are behaviours of FairSpec.
CancelledAlone ==
    lifecycle = "Accepting" /\ Latched # {} =>
        /\ Cardinality(Latched) = 1
        /\ \E r \in Requests : requests[r].state = "Absent"

CancelledAloneSpec == Init /\ [][Next /\ CancelledAlone']_vars /\ Fairness
=============================================================================
