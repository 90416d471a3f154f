---------------------------- MODULE MCBridgeRun ----------------------------
(* Instances of BridgeRun for TLC.                                          *)
EXTENDS BridgeRun
=============================================================================
