------------------------- MODULE MCMetricsPipeline -------------------------
(* The instances of MetricsPipeline that TLC checks; the values of the      *)
(* constants are in the .cfg files.                                         *)
EXTENDS MetricsPipeline
=============================================================================
