-------------------------- MODULE MCHealthMonitor --------------------------
(***************************************************************************)
(* Instances of HealthMonitor for TLC: h answers over HTTP, d over stdio.  *)
(***************************************************************************)
EXTENDS HealthMonitor

CONSTANTS h, d, p1, p2

Breaker(servers, degradedAfter, offlineAfter, reset) ==
    [servers |-> servers, degradedAfter |-> degradedAfter,
     offlineAfter |-> offlineAfter, reset |-> reset]

\* A save may take h out of monitoring, and may change every threshold.
RestartConfigs ==
    {Breaker({h, d}, 1, 3, 2), Breaker({h}, 2, 2, 1), Breaker({d}, 1, 2, 2)}
=============================================================================
