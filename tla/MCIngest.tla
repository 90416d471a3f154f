------------------------------ MODULE MCIngest ------------------------------
(* Ingest for TLC.                                                          *)
EXTENDS Ingest
=============================================================================
