---------------------------- MODULE MCWatchDaemon ----------------------------
(* Instances of WatchDaemon for TLC: processes, PIDs and combinations are   *)
(* model values.                                                            *)
EXTENDS WatchDaemon
CONSTANTS a, b, k, n1, n2, c1, c2
=============================================================================
