--------------------------- MODULE MCRateLimiter ----------------------------
(* The rate limiter for TLC. *)
EXTENDS RateLimiter
=============================================================================
