------------------------ MODULE MCMonitorConnection ------------------------
(* Two sockets, one close frame; the delays in the order of the code's.      *)
EXTENDS MonitorConnection

CONSTANTS s1, s2
=============================================================================
