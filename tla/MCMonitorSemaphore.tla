-------------------------- MODULE MCMonitorSemaphore --------------------------
(***************************************************************************)
(* A Semaphore shared by four threads that call wait() and post() in any   *)
(* order, as often as they like, with at most two units outstanding.       *)
(***************************************************************************)
EXTENDS MonitorSemaphore
=============================================================================
