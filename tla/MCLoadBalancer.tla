--------------------------- MODULE MCLoadBalancer ---------------------------
(* The load balancer for TLC. *)
EXTENDS LoadBalancer, TLC

Symmetry == Permutations(Requests)
=============================================================================
