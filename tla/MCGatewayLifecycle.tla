------------------------- MODULE MCGatewayLifecycle -------------------------
(* The life of the gateway for TLC. *)
EXTENDS GatewayLifecycle

CONSTANTS p1, p2

\* The two processes are interchangeable, so of two initial states that differ only in
\* which process has which configuration, one is enough.  A gateway that registers the
\* default port without listening there has to do with others that listen there, and
\* is taken beside such a one.
OneOfEachPair ==
    \/ port[p2] = DefaultPort
    \/ /\ DefaultPort \notin {port[p1], port[p2]}
       /\ advertised = port

MCInit == LifecycleInit /\ OneOfEachPair

MCLifecycleSpec == MCInit /\ [][LifecycleNext]_lifecycleVars /\ LifecycleFairness
=============================================================================
