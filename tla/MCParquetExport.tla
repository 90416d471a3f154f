-------------------------- MODULE MCParquetExport --------------------------
(* Instances of ParquetExport for TLC.                                      *)
EXTENDS ParquetExport, TLC

ExportSymmetry == Permutations(Exports)
=============================================================================
