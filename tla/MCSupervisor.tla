---------------------------- MODULE MCSupervisor ----------------------------
(***************************************************************************)
(* Supervisor with the times of the code (a poll of one second, waits of   *)
(* eight and two, a heartbeat stale after five) and with five restarts for *)
(* the default of two, so that the delay is cut to its limit.              *)
(***************************************************************************)
EXTENDS Supervisor
=============================================================================
