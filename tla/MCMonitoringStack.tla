--------------------------- MODULE MCMonitoringStack ---------------------------
(***************************************************************************)
(* MonitoringStack for TLC: two callers, two starts, three closes.           *)
(***************************************************************************)
EXTENDS MonitoringStack
=============================================================================
