----------------------------- MODULE MCMonitor -----------------------------
(* The health monitor on a small instance. *)
EXTENDS Monitor
=============================================================================
