--------------------------- MODULE MCJobPipeline ----------------------------
(* JobPipeline for TLC: the constants are in the configurations.           *)
EXTENDS JobPipeline
=============================================================================
