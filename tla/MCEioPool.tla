----------------------------- MODULE MCEioPool -----------------------------
(***************************************************************************)
(* EioPool for TLC.  Callers are held back where that costs no case of     *)
(* interest; what is fair in EioPool, the fibers and native calls that are *)
(* under way, is never held back.                                          *)
(***************************************************************************)
EXTENDS EioPool

\* Two of the interchangeable callers.
FirstCaller == CHOOSE r \in Requests : TRUE
LastCaller == CHOOSE r \in Requests \ {FirstCaller} : TRUE

Calls(r) == req[r].pc = "absent" /\ req'[r].pc # "absent"

\* One caller at a time is cancelled while it awaits its answer.
OneCancelled == Cardinality({r \in Requests : req'[r].caller = "joins"}) <= 1

\* A request whose connection is replaced even if it succeeds is only begun while
\* there is no other; failures have several replaced at a time all the same.
OneReplaces ==
    \A r \in Requests : Calls(r) /\ ~req'[r].reuse =>
        \A q \in Requests \ {r} : req[q].pc \in {"absent", "settled"} \/ req[q].reuse

\* The last caller only comes when the others have filled the pool and its queue.
LastFindsItFull == Calls(LastCaller) => owned = Cardinality(Requests) - 1

CallersSpec ==
    Init /\ [][Next /\ OneCancelled /\ OneReplaces /\ LastFindsItFull]_vars /\ Fairness

\* Every call of submit returns, in an endless stream of other requests too, and also
\* when it is cancelled or the pool stops while it waits.  It is stated of one caller:
\* all but the last, who is refused, are alike.
SubmitReturns == req[FirstCaller].pc # "absent" ~> req[FirstCaller].pc = "absent"
=============================================================================
