--------------------------- MODULE MCServiceProxy ---------------------------
(* The service proxy for TLC. *)
EXTENDS ServiceProxy
=============================================================================
