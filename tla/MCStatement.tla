---------------------------- MODULE MCStatement ----------------------------
(* Instances of Statement for TLC.                                          *)
EXTENDS Statement, TLC

TypeSymmetry == Permutations(Types)
=============================================================================
