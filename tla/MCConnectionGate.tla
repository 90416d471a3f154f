-------------------------- MODULE MCConnectionGate --------------------------
(* ConnectionGate for TLC.                                                  *)
EXTENDS ConnectionGate, TLC

\* Statements and bridged requests do not see other connections than their own, so a
\* second connection is only opened by callers that use neither: either one connection
\* serves everything, or several are opened, used in operations and transactions, and
\* closed.  Only calls are held back by this, never a thread that is inside one.
SecondIsPlain ==
    \/ \A c, d \in Connections : native[c] # "none" /\ native[d] # "none" => c = d
    \/ /\ \A t \in Threads : stmt[t] = NoStatement /\ th[t].pc # "prepare" /\ ~th[t].run
       /\ \A c \in Connections : gate[c].request = Nobody

PlainSpec == Init /\ [][Next /\ SecondIsPlain']_vars /\ Fairness
=============================================================================
