-------------------------- MODULE MCStatementCache --------------------------
(* StatementCache for TLC.                                                  *)
EXTENDS StatementCache
=============================================================================
