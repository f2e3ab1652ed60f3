---------------------------- MODULE MCPerfMeasure ----------------------------
(* Instances of PerfMeasure for TLC.                                       *)
EXTENDS PerfMeasure, TLC

SourceSymmetry == Permutations(Sources)
=============================================================================
